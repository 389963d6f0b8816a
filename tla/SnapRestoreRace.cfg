SPECIFICATION AnySpec
CONSTANTS
    Hooks = {h1}
    Restorers = {r1}
    Quota <- MCQuota
    Threshold = 2
    Overlap = {"restore"}
    MaxName = 4
    MaxRows = 1
    MaxNow = 2
    MaxFaults = 0
    RestoreRows = 1
    RestoreNow = 2
    d1 = d1  d2 = d2
    Migs = {1, 2, 3}
    LedgerMig = 2
    Texts = {"bad", "drop", "told"}
    Breaks = {"bad"}
    Loses = {"drop", "told"}
    Shows = {"drop", "told"}
    Declares = {"told"}
    Processes = {p1}
    MaxEdits = 1
    MaxCrashes = 1
    Paths = {"migration", "uv.lock", "core", "test", "doc"}
    MAX_LINES = 1
    MAX_FILES = 2
    MaxChanged = 3
    Acts = {1, 2, 3}
    Rows <- MCActs
    TIER2_MAX_ITEMS = 1
    TIER2_MAX_AGE_DAYS = 0
    PIN_SURFACE_DECAY_DAYS = 1
    Budget = 3
    Before = 1
    After = 1
    TOTAL_BUDGET = 5
    MaxChanges = 2
    Habits = {1, 2}
    Sizes = {2, 3}
    MaxContent = 3
    Capacity = 3
    Ceiling = 4
    MaxItems = 1
    MaxColumns = 1
    Callers = {1, 2}
    Starters = {s}
PROPERTY RestoreIsFaithful
CHECK_DEADLOCK FALSE
