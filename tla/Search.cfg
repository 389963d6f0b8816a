SPECIFICATION MCSpec
CONSTANTS
    Callers = {c1, c2}
    Entities = {e1, e2}
    Words = {w1, w2}
    Materials = {e1}
    Titled = {e2}
    Imported = {e2}
    Headline = h
    MaxId = 4
    Backfills = 1
    Conditions = {{"overlap", "update", "import", "title", "down"},
                  {"overlap", "title", "down", "backfill"}, {"update"}}
    Items = {1, 2, 3}
    Labels = {"l", "m"}
    Limit = 1
    Multiplier = 2
    Pages = 1
    Heads = {"g", "h"}
    Archives = {"m", "n"}
    Ceiling = 3
    LastDay = 1
    Writers = {"p", "q"}
SYMMETRY Symmetry
INVARIANT IndexedIsLive
INVARIANT HitsAreSound
INVARIANT AnswersAreRanked
PROPERTY NotesAreKept
CHECK_DEADLOCK FALSE
