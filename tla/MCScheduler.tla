----------------------------- MODULE MCScheduler -----------------------------
(***************************************************************************)
(* Small plans for Scheduler.  A plan is built from Plain, the plan whose  *)
(* tasks have no dependency and no policy, by overriding fields; the rank  *)
(* is the order of the dispatch sweep.                                     *)
(***************************************************************************)
EXTENDS Scheduler

CONSTANTS a, b, c, R, K

Everywhere(x) == [t \in Task |-> x]

Plain ==
    [jobs |-> 1, maxServices |-> 1, failFast |-> TRUE,
     needs |-> Everywhere({}), ancestors |-> Everywhere({}),
     rank |-> [t \in Task |-> CASE t = a -> 1 [] t = b -> 2 [] t = c -> 3],
     when |-> Everywhere("success"), attempts |-> Everywhere(1),
     excl |-> Everywhere({}), shared |-> Everywhere({}), key |-> Everywhere(K),
     service |-> {}, cached |-> {}, products |-> {}, allow |-> {},
     timed |-> {}, waitLimited |-> {}, contended |-> {}]

Needing(t, parents) == [Everywhere({}) EXCEPT ![t] = parents]

\* a is a service, b uses it, c is a finalizer of both.
ServicePlans ==
    {[Plain EXCEPT !.failFast = td = {}, !.service = {a}, !.timed = {c} \cup td,
        !.needs = [Everywhere({}) EXCEPT ![b] = {a}, ![c] = {a, b}],
        !.ancestors = [Everywhere({}) EXCEPT ![b] = {a}, ![c] = {a}],
        !.when = [Everywhere("success") EXCEPT ![c] = "always"],
        !.waitLimited = {c}]
     : td \in {{}, {a}}}

\* Services that starve their own consumers: too few service slots for the
\* two services c needs, or a lease that b needs before c can use a.
StallPlans ==
    {[Plain EXCEPT !.service = {a, b},
        !.needs = Needing(c, {a, b}), !.ancestors = Needing(c, {a, b}),
        !.timed = {c}, !.waitLimited = {c},
        !.when = [Everywhere("success") EXCEPT ![c] = w]] : w \in {"success", "always"}}
    \cup
    {[Plain EXCEPT !.jobs = 2, !.service = {a}, !.failFast = ff,
        !.needs = Needing(c, {a, b}), !.ancestors = Needing(c, {a}),
        !.excl = [Everywhere({}) EXCEPT ![a] = {R}, ![b] = {R}],
        !.waitLimited = wl] : ff \in BOOLEAN, wl \in {{}, {b}}}

LifecyclePlans == ServicePlans \cup StallPlans

\* Cached tasks that share an action, one of them retried, with and without
\* products; c depends on the first and is skipped, or is a failure handler.
CachePlan(pr, ff, w, ct) ==
    [Plain EXCEPT !.jobs = 2, !.cached = {a, b}, !.products = pr, !.failFast = ff,
        !.attempts = [Everywhere(1) EXCEPT ![a] = 2],
        !.timed = {b, c}, !.waitLimited = {c}, !.contended = ct,
        !.needs = Needing(c, {a}),
        !.when = [Everywhere("success") EXCEPT ![c] = w]]
CachePlans == {[CachePlan({a, b}, FALSE, "failure", {}) EXCEPT !.jobs = 1],
               CachePlan({}, TRUE, "success", {K})}

\* One writer, which is retried or competes with other runs, and two readers.
ResourcePlans ==
    {[Plain EXCEPT !.jobs = 2, !.failFast = ct # {}, !.allow = {c},
        !.attempts = [Everywhere(1) EXCEPT ![a] = IF ct = {} THEN 2 ELSE 1], !.products = {b},
        !.excl = [Everywhere({}) EXCEPT ![a] = {R}],
        !.shared = [Everywhere({}) EXCEPT ![b] = {R}, ![c] = {R}],
        !.waitLimited = {a, c}, !.contended = ct]
     : ct \in {{}, {R}}}

\* a is a service that holds R, b an unrelated task that needs R without a
\* wait limit, and c a finalizer of both: the plan whose runs need not end.
HeldPlans ==
    {[Plain EXCEPT !.failFast = FALSE, !.service = {a}, !.timed = {c}, !.waitLimited = {c},
        !.needs = Needing(c, {a, b}), !.ancestors = Needing(c, {a}),
        !.excl = [Everywhere({}) EXCEPT ![a] = {R}, ![b] = {R}],
        !.when = [Everywhere("success") EXCEPT ![c] = "always"]]}

\* b is a service that needs a task whose condition never holds; c uses it.
SkipPlans ==
    {[Plain EXCEPT !.service = {b}, !.when = [Everywhere("success") EXCEPT ![a] = "never"],
        !.needs = [Everywhere({}) EXCEPT ![b] = {a}, ![c] = {b}],
        !.ancestors = Needing(c, {b})]}

SmallPlans == LifecyclePlans \cup CachePlans \cup ResourcePlans \cup SkipPlans
=============================================================================
