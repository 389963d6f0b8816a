------------------------------ MODULE MCSearchSync ------------------------------
(***************************************************************************)
(* How records are found, in small instances, one of which a behaviour     *)
(* chooses in its first state:                                             *)
(*   - "sync": SearchSync, where every call there is overlaps, with texts  *)
(*     of one word; or the calls that rewrite no text, with a backfill; or *)
(*     the calls of which none imports or has a title of its own, one by   *)
(*     one;                                                                *)
(*   - "search": SearchRanking, over three items;                          *)
(*   - "notes", "notes at once": TagNotes, the notes that tell of what is  *)
(*     under a tag, one call at a time over two days, and two that overlap.*)
(***************************************************************************)
EXTENDS SearchSync, SearchRanking, TagNotes, TLC

VARIABLE setting

\* The condition under which everything may happen is bounded more tightly: three
\* rows, one word, and no more imports once a few words have been left behind.
OneWord == {CHOOSE w \in Words : TRUE}
Bounded ==
    {"update", "import"} \subseteq may =>
        /\ nextId' < MaxId + 1 /\ Cardinality(docs') <= 6
        /\ \A e \in Entities : body'[e] \subseteq OneWord
        /\ \A c \in Callers : call'[c].step \in {"write", "lookup", "store"} => call'[c].text \subseteq OneWord

ASSUME SearchRankingAssumption /\ TagNotesAssumption

\* The searches of which one answer is checked: one tag may be archived, and the
\* newer items are the ones that are old for their kind.
SomeSearch ==
    /\ RankInit
    /\ archived \in {{}, {"l"}} /\ old \in {{}, {3}} /\ asked.like # {"l"}
    /\ \A i \in 1..2 : Cardinality(labels[i]) <= 1

NoSearch ==
    /\ labels = [i \in 1..3 |-> {}] /\ archived = {} /\ old = {}
    /\ asked = CHOOSE q \in Questions : TRUE
    /\ answer = Unanswered

MCInit ==
    /\ setting \in {"sync", "search", "notes", "notes at once"}
    /\ Init
    /\ setting # "sync" => may = {"update"}
    /\ NoteInit /\ alone = (setting = "notes")
    /\ standing = [m \in Archives |-> IF m = "m" THEN "live" ELSE "none"]
    /\ IF setting = "search" THEN SomeSearch ELSE NoSearch

InSync == setting = "sync" /\ Next /\ Bounded /\ UNCHANGED <<rankVars, noteVars>>
InSearch == setting = "search" /\ RankNext /\ UNCHANGED <<vars, noteVars>>

\* One call at a time is the same with one writer. Calls that overlap are about one
\* section and one kind of hint, on one day. Of the two materials, the first is the
\* one that is retracted and updated, or that a demotion is told of.
OneKind(lines) == HeadsOf(lines) \subseteq {"g"} /\ \A l \in Range(lines) : IsMarker(l) => l.of = "bootstrap"
OneMaterial(c) == c.op \in {"demote", "check", "revise"} => c.to \in {"m", "new"}
InNotes ==
    /\ setting \in {"notes", "notes at once"} /\ NoteNext
    /\ standing'["n"] # "retracted" /\ \A w \in Writers : OneMaterial(writing'[w])
    /\ setting = "notes" => writing'["q"] = AtRest /\ lost = {}
    /\ setting = "notes at once" => OneKind(notes') /\ ~pinned' /\ today' = 0 /\ lost = {}
    /\ UNCHANGED <<vars, rankVars>>

MCNext == (InSync \/ InSearch \/ InNotes) /\ UNCHANGED setting

MCSpec == MCInit /\ [][MCNext]_<<vars, rankVars, noteVars, setting>>

Symmetry == Permutations(Callers)

================================================================================
