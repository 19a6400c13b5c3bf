SPECIFICATION Spec
CONSTANTS
    Recoverers = {r1, r2}
    MaxStops = 2
    MaxLosses = 1
SYMMETRY RecovererSymmetry
INVARIANTS
    TypeOK
    PromisedSurvives
    PublishedIsBacked
    NothingInvented
PROPERTIES
    ImplementsPublication
    UncommittedStaysSo
    OnlyLossTakesAway
