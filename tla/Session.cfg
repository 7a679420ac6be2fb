SPECIFICATION Spec
CONSTANTS
    Idle = 2
    Slack = 1
    Life = 4
    Window = 2
    RoundCap = 2
    Attempts = 2
    Counters = {1, 2, 3, 4}
    MaxRound = 4
    MaxLane = 4
    Workloads <- MCWorkloads
INVARIANTS
    GeneralIsKnown
    LaneAgreed
    CountersOnce
    WindowIsExact
CHECK_DEADLOCK FALSE
