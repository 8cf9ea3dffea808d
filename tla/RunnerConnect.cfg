SPECIFICATION ConnectSpec
CONSTANTS
    D1 = D1
    D2 = D2
    MaxHistory = 2
    MaxFaults = 1
INVARIANTS
    SasVerdictSound
    NoAttemptLeftOpen
PROPERTIES
    FeedsKept
\* The callers return and the fixtures settle.
CHECK_DEADLOCK FALSE
SYMMETRY Symmetry
