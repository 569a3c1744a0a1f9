SPECIFICATION Spec
CONSTANTS
    t1 = t1
    t2 = t2
    madeHere = madeHere
    foreign = foreign
    Threads = {t1}
    CallObjects = {madeHere, foreign}
    Marked = {madeHere}
    Unmarked = {}
    Nobody = Nobody
    Overridden <- MCOverridden
    MaxFrames = 1
    MaxParams = 1
    Addresses = {n1}
    MaxValues = 1
    Timers = {s1}
    Receivers = {r1}
    MaxNesting = 1
INVARIANT ReferencesReturn
CHECK_DEADLOCK FALSE
