CONSTANTS
    Scripts <- RelayScripts
    Apis <- ThreeDevices
    Watched = {}
    MaxHistory = 2
    MaxFaults = 2
    Rounds = 2
    MaxStray = 1
SPECIFICATION RelaySpec
INVARIANTS
    BlockOutlivesOnlyUnanswered
    PassedMeansExchanged
    PassedFallbackDelivers
PROPERTY RelayEnds
CHECK_DEADLOCK FALSE
