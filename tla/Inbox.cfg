CONSTANTS
    Drainers = {d1, d2}
    Limits = {1, 9}
    MaxMsgs = 3
    MaxFaults = 1
    Faults = {"crash", "fail"}
    Defer = 2
    Interval = 1
    MaxFails = 3
    Kinds = {"say", "skill", "checkin", "managed", "log", "decide"}
    MaxEntries = 4
    MaxStarts = 0
    MaxKills = 1
SPECIFICATION MCSpec
INVARIANTS
    NothingSkipped
    DrainsAreExact
    EventsKept
PROPERTIES
    ImplementsQueue
    EveryRecordReturned
    HooksAreTrue
    AgentIsReleased
CHECK_DEADLOCK FALSE
