SPECIFICATION Spec
CONSTANTS
    east = east
    west = west
    pkg = pkg
    author = author
    None = None
    Source = {east, west}
    Subject = {pkg, author}
    Histories <- EditHistories
    Clocks <- Skewed
    Fresh = {west}
    Overlap = 1
    MaxQueue = 2
    MaxFaults = 0
PROPERTIES
    NeverStale
