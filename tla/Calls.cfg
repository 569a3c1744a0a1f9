SPECIFICATION Spec
CONSTANTS
    t1 = t1
    t2 = t2
    madeHere = madeHere
    foreign = foreign
    Threads = {t1, t2}
    CallObjects = {madeHere, foreign}
    Marked = {madeHere}
    Unmarked = {}
    Nobody = Nobody
    Overridden <- MCOverridden
    MaxFrames = 4
    MaxParams = 2
    Addresses = {n1, n2}
    MaxValues = 4
    Timers = {s1, s2, s3}
    Receivers = {r1, r2}
    MaxNesting = 6
INVARIANTS PartsTypeOK FlagOwned BaseCallReachesBase ArgumentsLive TemporariesReleased
            PointerFaithful KeptAlive FiresOnce FreedOnce
PROPERTY EveryTimerEnds
CHECK_DEADLOCK FALSE
