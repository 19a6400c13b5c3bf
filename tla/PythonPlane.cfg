SPECIFICATION Spec
CONSTANTS
    RcMaxBytes = 2
    RcChunk = 2
    RcPipe = 2
    RcMade = 2
    RcMaxFaults = 1
    RcMaxCancels = 2
    RsRecoverers = {r1, r2}
    RsReaders = {q1}
    RsObservers = {o1, o2}
    ExBody = 2
    ExLimit = 2
    ExChunk = 2
    ExPipe = 2
    ExWritten = 3
INVARIANTS
    TypeOK
    ReferenceStatusIsHonest
    AvailableIsBacked
    AcceptedReplyIsWhole
PROPERTIES
    ReferenceReturns
    InvocationReturns
    ReferenceConforms
