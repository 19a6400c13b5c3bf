SPECIFICATION Spec
CONSTANTS
    MaxBytes = 2
    PipeCap = 2
    ChunkBytes = 2
    Members = {m}
    Detached = {}
    Redirecting = {m}
    MaxFaults = 1
INVARIANTS
    TypeOK
    SharedBudget
    StatusIsHonest
    UsableEvidenceVerifies
    InheritedPipesCleanedUp
    RequiredFailureCancels
PROPERTIES
    ImplementsCollection
