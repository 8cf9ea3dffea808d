SPECIFICATION FairLinkSpec
CONSTANTS
    Poll = Poll
    Replay = Replay
    Ops = {1, 2}
    Frames = {}
    Priorities = {0}
    MaxChunks = 2
    MaxFaults = 2
    Scenarios <- MixedScenarios
INVARIANTS
    AckedAtMostOnce
    AcknowledgedIsHeld
    OneTransmitter
    DeadlineAfterSubmission
    NoMixedGenerations
PROPERTIES
    SilentAfterEnd
    HandlesSettle
CHECK_DEADLOCK FALSE
