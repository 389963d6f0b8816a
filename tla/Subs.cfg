CONSTANTS
    Nobody = Nobody
    l1 = l1  l2 = l2  l3 = l3
    i1 = i1  i2 = i2  i3 = i3  i4 = i4
    Sessions = {s1}
    Callers = {c1}
    Labels = {l1, l2, l3}
    Ids = {i1, i2, i3, i4}
    Conditions = {{"forget", "crash", "remove"}, {"overlap"},
                  {"overlap", "late", "crash", "remove", "http"}}
    Speakers = {"c", "d"}
    MaxCalls = 2
    Nodes = {1, 2, 3, 4}
    Clis = {"c", "d", "e"}
    Works = {"w"}
    TitleOf <- MCTitles
    Wanted <- MCWanted
    MaxEntries = 2
    TTL = 1
    Runs = {1, 2}
SPECIFICATION MCSpec
INVARIANTS
    SubscriptionsAreKept
    PostsAreSound
PROPERTIES
    DepartedRemovedTardily
    AliasesAreKept
CHECK_DEADLOCK FALSE
