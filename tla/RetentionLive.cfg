SPECIFICATION FairSpec
CONSTANTS
    Collectors = {p1}
    Denied = {}
    Observers = {o1}
    MaxStops = 2
    MaxLosses = 2
PROPERTIES
    BegunIsFinished
