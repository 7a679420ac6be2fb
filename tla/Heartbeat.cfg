SPECIFICATION FairSpec
CONSTANTS
    Interval = 12
    Timeout = 10
    Grace = 1
    NudgeLate = 4
    Delay = 2
    Wire = 2
    LateWarmUp = FALSE
INVARIANTS
    AnsweringIsKept
    NeverSilenced
PROPERTY DeadIsSeen
