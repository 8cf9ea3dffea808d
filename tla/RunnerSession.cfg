CONSTANTS
    Scripts <- SessionScripts
    Apis <- TwoDevices
    Watched <- Evidence
    MaxHistory = 2
    MaxFaults = 1
    KnownPeers = FALSE
    MaxFlaps = 1
    Provisioned = {"IT001", "IT003", "IT008", "IT009"}
    Plans <- SomePlans
    Rounds = 2
    MaxInvokes = 2
SPECIFICATION SessionSpec
INVARIANTS
    PassedMeansDelivered
    EvidenceStillAhead
    ExitMeansAllPassed
CHECK_DEADLOCK FALSE
