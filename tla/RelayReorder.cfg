SPECIFICATION Spec
CONSTANTS
    a = a
    b = b
    m1 = m1
    m2 = m2
    m3 = m3
    small = small
    Peers = {a, b, c}
    Coordinator = c
    MessageIds = {m1, m2, m3}
    Payloads = {small}
    PayloadSize <- UnitSize
    MaxBytes = 4
    MaxMessages = 4
    None = None
    Scenarios <- ReorderScenarios
    MaxArrivals = 1
    MaxTasks = 2
INVARIANTS
    DeliveredInOrder
CHECK_DEADLOCK FALSE
