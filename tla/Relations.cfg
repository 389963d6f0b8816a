SPECIFICATION MCSpec
CONSTANTS
    Callers = {c1, c2}
    Decisions = {d1, d2, d3}
    Activities = {a1, a2, a3}
    Others = {t1}
    Kinds = {"replaces", "destabilizes", "depends_on"}
    Resolutions = {"reaffirmed", "revised", "retracted"}
    Dangling = {FALSE}
    Retractable = {d1, d2, d3}
    MaxVerdicts = 1
    Overlap = FALSE
    Failures = FALSE
    Names = {d1, d2, d3}
    TagIds = {1, 2, 3}
    Ents = {e1}
    TagAsks = {q1}
    Taggers = {c1, c2}
    TagsOverlap = FALSE
    AskTagIds = 2
    Instances = {"home", "abroad"}
    Workers = {"v", "w"}
    RecordKinds = {"topic", "note"}
    BundleNames = {"n"}
    Births <- MCBirths
    Room <- MCRoom
    MaxEdits = 2
SYMMETRY Symmetry
INVARIANT TagsLead
PROPERTY OnlyRacesCloseCycles
PROPERTY PinsAreKept
PROPERTY VerdictsAreTrue
PROPERTY BundlesAreTrue
CHECK_DEADLOCK FALSE
