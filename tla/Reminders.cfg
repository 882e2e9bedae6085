SPECIFICATION FairSpec
CONSTANTS
    k1 = k1
    Committed = {k1}
    MaxSet = 1
    MaxFires = 1
    MaxFaults = 1
    MaxRestarts = 1
INVARIANTS TypeOK ClaimIsExclusive InFlightIsHeld OneRowPerKey LoopsAsConfigured
PROPERTIES ClosedIsFinal 
CHECK_DEADLOCK FALSE
