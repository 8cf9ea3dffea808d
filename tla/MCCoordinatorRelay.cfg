SPECIFICATION RelaySpec
CONSTANTS
    a = a
    b = b
    m1 = m1
    m2 = m2
    Peers = {a, b, c}
    Coordinator = c
    MessageIds = {m1, m2}
    small = small
    large = large
    Payloads = {small, large}
    PayloadSize <- MCPayloadSize
    MaxBytes = 3
    MaxMessages = 2
    None = None
INVARIANTS
    RelayTypeOK
    OrderExact
    MessagesExact
    WithinLimits
PROPERTIES
    HeadHandedOver
    ReleasedWithVerdict
SYMMETRY MCSymmetry
CHECK_DEADLOCK FALSE
