CONSTANTS
    Sessions = {s1, s2}
    Timers = {t1, t2, t3}
    Grace = 1
    Timeout = 1
    u1 = u1  u2 = u2  v1 = v1
    Threads = {u1, u2, v1}
    Of <- ThreadsOf
    Servers = {k1, k2}
    MaxCalls = 1
SPECIFICATION MCSpec
INVARIANTS
    TimersAreSound
PROPERTIES
    EvictedIsSilent
    NothingGoesOnForEver
    OneModelIsShared
CHECK_DEADLOCK FALSE
