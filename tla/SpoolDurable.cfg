SPECIFICATION Spec
CONSTANTS
    Recoverers = {r1}
    MaxStops = 0
    MaxLosses = 0
INVARIANTS
    HostClaimBacked
