SPECIFICATION MCSpec
CONSTANTS
    Sessions = {s1, s2}
    Activities = {a1, a2}
    Questions = {q1}
    Ids = {i1, i2}
    Tags = {t1}
    Callers = {s1, s2}
    RecordIds = {1, 2}
    Texts = {{}, {1}}
    Marks = {TRUE, FALSE}
    MaxItems = 2
    Agents = {s1, s2}
    Acts = {"a"}
    SnoozeDays = 1
    Listeners = {"w", "o"}
    Scopes = {"a"}
    Topics = {"t", "u"}
    TopicsOf <- MCTopicsOf
    Kinds = {"decision", "log"}
    Limit = 1
    MaxSessions = 1
    MaxRows = 2
    MaxCalls = 1
    Conditions = {{"tags"}, {"tags", "write"}, {"overlap", "tags"}, {"overlap", "write"}}
SYMMETRY Symmetry
INVARIANT OpenAsksAreSound
INVARIANT NoticesAreSound
INVARIANT RecordsAreWhole
PROPERTY StatusFollowsLifecycle
PROPERTY TriageIsSound
PROPERTY ActivitiesAreSound
CHECK_DEADLOCK FALSE
