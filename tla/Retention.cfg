SPECIFICATION Spec
CONSTANTS
    Collectors = {p1, p2, p3}
    Denied = {p3}
    Observers = {o1}
    MaxStops = 2
    MaxLosses = 1
INVARIANTS
    TypeOK
    RawGoneIsCommitted
    RecordsReconcile
    ObserversAreHonest
PROPERTIES
    ImplementsExpiry
