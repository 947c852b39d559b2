CONSTANTS
    t1 = t1
    t2 = t2
    Tags = {t1, t2}
    HookThrows = FALSE
    MaxDepth = 6
    MaxCells = 2
SPECIFICATION FairSpec
CHECK_DEADLOCK FALSE
INVARIANTS TypeOK NeverKilled StrikesBetween CatchesLive
PROPERTY Answered
