SPECIFICATION FairLinkSpec
CONSTANTS
    Poll = Poll
    Replay = Replay
    Ops = {1, 2}
    Frames = {}
    Priorities = {0, 1}
    MaxChunks = 2
    MaxFaults = 0
    Scenarios <- PriorityScenarios
INVARIANTS
    SequencesMonotone
CHECK_DEADLOCK FALSE
