SPECIFICATION FairSpec
CONSTANTS
    MaxBytes = 1
    PipeCap = 1
    ChunkBytes = 1
    Members = {}
    Detached = {d}
    Redirecting = {}
    MaxFaults = 1
PROPERTIES
    PipesKeepDraining
    ReturnsUnlessFlooded
