SPECIFICATION Spec
CONSTANTS
    PlCorpus = 2
    PlReads = {"get"}
    PlWrites = {"patch"}
    LhScenarios = 2
    LhArms = 3
    LhReplicates = 2
    LhSeeds = {0, 1}
    BdBuilders = {b1, b2}
    BdHosts = 2
    BdMaxArtifact = 2
    BdMaxTotal = 6
    BdMaxEdits = 1
    BdMaxDrifts = 1
    RoBucket = 1
    RoBasisPoints = {0, 1, 2}
    RoMaxSwaps = 1
    RoMaxRuns = 1
    PjBytes = {"a", "b"}
    PjSecrets <- MCSecrets
    PjMaxChunk = 2
    PjMaxInput = 5
    PjContents <- MCContents
    PjMaxRecords = 6
    PjLimits <- MCLimits
    PjClip = 2
    PjBefore = 1
    PjAfter = 1
    AcPairs = 2
    AcExpected = 1
    AcSlots = 2
    PfMaxAge = 2
    PfMaxValid = 2
    PfIssued = 1
    PfHorizon = 3
INVARIANTS
    TypeOK
    ApprovalsProveTheCorpus
    
    PublishedBundleIsWhole
    RehearsalRunsThePinned
    RolloutFailsClosed
    RedactionIsComplete
    ProjectionFits
    
    CompiledIsEnforced
SYMMETRY MCSymmetry
