SPECIFICATION Spec
CONSTANTS
    a = a
    b = b
    m1 = m1
    m2 = m2
    m3 = m3
    small = small
    Peers = {a, b, c}
    Coordinator = c
    MessageIds = {m1, m2}
    Payloads = {small}
    PayloadSize <- UnitSize
    MaxBytes = 4
    MaxMessages = 4
    None = None
    Scenarios <- RaceScenarios
    MaxArrivals = 2
    MaxTasks = 2
INVARIANTS
    
    AcknowledgedInOrder
    OneVerdictPerArrival
PROPERTIES
    RetriesNeverRefilled
CHECK_DEADLOCK FALSE
