CONSTANTS
    Scripts <- TrafficScripts
    Apis <- TwoDevices
    Watched <- Unstable
    MaxHistory = 1
    MaxFaults = 1
    KnownPeers = TRUE
    MaxFlaps = 1
    Ramp <- UpAndDown
    MaxSent <- UnevenLoad
    MaxPublished = 3
    MinSent = 1
    MinBytes = 1
    LossBound = 1
SPECIFICATION TrafficSpec
INVARIANTS
    NoFlapOverlooked
    PassedAccountsForAll
    PassedLeavesQuiet
    CrashNeedsCause
CHECK_DEADLOCK FALSE
