SPECIFICATION Spec
CONSTANTS
    Collectors = {p1}
    Denied = {}
    Observers = {}
    MaxStops = 1
    MaxLosses = 0
PROPERTIES
    DurableBeforeUnlink
