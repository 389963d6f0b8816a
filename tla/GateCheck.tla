------------------------------- MODULE GateCheck -------------------------------
(***************************************************************************)
(* The boundary gate (scripts/gate_check.py): what a branch changes, as    *)
(* git diff shows it, decides whether a change waits for a human, is       *)
(* looked at, or may go ahead and be vetoed later.  A diff is a set of     *)
(* changed files; a branch grows by commits.                               *)
(***************************************************************************)
EXTENDS Integers, FiniteSets

CONSTANTS Paths,              \* bound: the files there are, of those below
          MAX_LINES, MAX_FILES,
          MaxChanged          \* bound: the files a branch changes

\* What the path lists of the detector say of a file.
MigrationFiles == {"migration"}
PublicIf       == {"main.py", "openapi.yaml"}
Dependencies   == {"pyproject.toml", "uv.lock"}
Detector       == {"gate_check.py", "test_gate_check.py"}
Docs           == {"doc", "openapi.yaml"}
Tests          == {"test", "test_gate_check.py"}
LockFile       == "uv.lock"

GateAssumption ==
    /\ Paths \subseteq MigrationFiles \cup PublicIf \cup Dependencies \cup Detector \cup Docs \cup Tests \cup {"core"}
    /\ MAX_LINES \in Nat /\ MAX_FILES \in Nat /\ MaxChanged \in Nat

VARIABLE diff     \* the changes, by path

gateVars == <<diff>>

\* What the detectors count of the lines of a file that show what is given: tests
\* are only noted, documents are not read.
Read(p, shows) == IF p \in Docs \cup Tests THEN {} ELSE shows

\* A change: the path it was renamed from (or its own), whether git takes it
\* for binary, the lines it counts, and what its lines show: a schema
\* statement on either side, a destructive one among those added.
\* The lines of documents and tests are not counted, so they have one.
\* parse_diff_lines takes a line that begins with "++ " (added) or "-- " (removed)
\* for a header: of a file with such a line it passes over some of the others, or
\* takes them for those of another file, so that any part of them is counted.
Unchanged == [old |-> "none"]
LinesOf(p) == IF p \in Docs \cup Tests THEN {1} ELSE 1..(MAX_LINES + 1)
Kinds == {"ddl", "destroy"}
Change(p, o) ==
    {c \in [old : {o}, binary : {FALSE}, lines : LinesOf(p), shows : SUBSET Kinds,
            header : BOOLEAN, counts : SUBSET Kinds] :
        IF c.header THEN c.counts \subseteq c.shows ELSE c.counts = Read(p, c.shows)}
    \cup [old : {o}, binary : {TRUE}, lines : {0}, shows : {{}}, header : {FALSE}, counts : {{}}]
Changed == {p \in Paths : diff[p] # Unchanged}
Touched_NewNames == Changed
Touched == Changed \cup {diff[p].old : p \in Changed}
Counted(p) == diff[p].counts

GateInit == diff = [p \in Paths |-> Unchanged]

--------------------------------------------------------------------------------
\* The detectors: findings that count, by name.
Findings ==
    (IF Touched \cap MigrationFiles # {} THEN {"migration_touch"} ELSE {})
    \cup (IF Touched \cap PublicIf # {} THEN {"public_if"} ELSE {})
    \cup (IF \E p \in Changed : "ddl" \in Counted(p) THEN {"ddl_in_code"} ELSE {})
    \cup (IF \E p \in Changed : "destroy" \in Counted(p) THEN {"data_destructive"} ELSE {})
    \cup (IF \E p \in Changed : diff[p].binary THEN {"binary_change"} ELSE {})
Pending == Touched \cap Dependencies # {}
SelfTouched == Touched \cap Detector # {}

\* Axis B: the size without tests and documents (a file counts, the lock file
\* does not), a change of tests, and nothing that a revert would not undo.
Sized == Changed \ {LockFile}
CoreLines == UNION {{p} \X (1..diff[p].lines) : p \in Sized \ (Docs \cup Tests)}
SizeOk == Cardinality(CoreLines) <= MAX_LINES /\ Cardinality(Sized) <= MAX_FILES
HasTests == Sized \subseteq Docs \/ Sized \cap Tests # {}
MechanicalRollback ==
    Findings \cap {"migration_touch", "ddl_in_code", "data_destructive", "binary_change"} = {}
AxisB == SizeOk /\ HasTests /\ MechanicalRollback

Classify_PendingFirst(errors) ==
    IF errors \/ SelfTouched THEN "pre_go"
    ELSE IF Pending THEN "gray"
    ELSE IF Findings # {} THEN "pre_go"
    ELSE IF AxisB THEN "post_veto_candidate" ELSE "gray"

Classify(errors) ==
    IF errors \/ SelfTouched \/ Findings # {} THEN "pre_go"
    ELSE IF ~Pending /\ AxisB THEN "post_veto_candidate" ELSE "gray"

--------------------------------------------------------------------------------
\* A commit changes one more file, or changes a changed one further.  A file
\* renamed leaves no change under its old path.
Add(p, o) ==
    /\ diff[p] = Unchanged /\ Cardinality(Changed) < MaxChanged
    /\ o = p \/ (diff[o] = Unchanged /\ \A q \in Changed : diff[q].old # o)
    /\ \A q \in Changed : diff[q].old # p
    /\ \E c \in Change(p, o) : diff' = [diff EXCEPT ![p] = c]

Extend(p) ==
    /\ diff[p] # Unchanged
    /\ \E c \in Change(p, diff[p].old) :
          /\ \/ c.binary
             \/ /\ ~diff[p].binary /\ (diff[p].header => c.header)
                /\ diff[p].shows \subseteq c.shows /\ diff[p].lines <= c.lines
          /\ diff' = [diff EXCEPT ![p] = c]

Commit == \E p \in Paths : Extend(p) \/ \E o \in Paths : Add(p, o)

GateNext == Commit

GateSpec == GateInit /\ [][GateNext]_gateVars

--------------------------------------------------------------------------------
\* The files that wait for a human under any of their names.
Guarded == MigrationFiles \cup PublicIf \cup Dependencies \cup Detector
BothNames(p) == {p, diff[p].old}
AllRead == \A p \in Changed : ~diff[p].header

\* More change never lowers the guard: a branch that has to wait for a human
\* still has to when it has grown (gate_check.py:651-663). What its lines show
\* keeps it waiting as long as none is taken for a header; the files it touches
\* and what is binary do whatever the lines are.
Waits == Classify(FALSE) = "pre_go"
GuardStays ==
    /\ Waits /\ AllRead' => Waits'
    /\ (\E p \in Changed : diff[p].binary \/ BothNames(p) \cap (Guarded \ Dependencies) # {}) => Waits'

\* What may go ahead was read to the end, is small, has tests or is documents
\* only, touches no file that waits for a human under its old or its new name,
\* and shows nothing in code that a revert would not bring back, except in a file
\* with a line that is taken for a header.
GoesAheadSafely(errors) ==
    Classify(errors) = "post_veto_candidate" =>
       /\ ~errors
       /\ \A p \in Changed : /\ BothNames(p) \cap Guarded = {}
                             /\ ~diff[p].binary
                             /\ p \notin Docs \cup Tests => diff[p].lines <= MAX_LINES
                             /\ p \notin Docs \cup Tests /\ ~diff[p].header => diff[p].shows = {}
       /\ Cardinality(Changed) <= MAX_FILES
       /\ Changed \cap Tests # {} \/ Changed \subseteq Docs

\* A branch that waits for a human waits on when it grows, and what goes ahead
\* was read to its end and is small, tested and undone by a revert, as far as the
\* lines of the diff are told from its headers.
GateHoldsBack == [][GuardStays]_gateVars /\ [](\A errors \in BOOLEAN : GoesAheadSafely(errors))

================================================================================
