------------------------------ MODULE MCRelations ------------------------------
(***************************************************************************)
(* What ties records to each other, in one instance of cc-memory and       *)
(* between two, in small instances, one of which a behaviour chooses in    *)
(* its first state:                                                        *)
(*   - "decisions", "activities", "pins", "verdicts": Relations, between   *)
(*     decisions and between activities, pins under superseding calls, and *)
(*     the settling of destabilised decisions;                             *)
(*   - "references", "edits", "at once": Bundles between two instances,    *)
(*     of records with references, of records that are edited, and written *)
(*     by two workers at once;                                             *)
(*   - "tags", "ask tags": Tags, with one update_tag at a time, amid       *)
(*     records that are given tags, and asks. The decisions of Relations   *)
(*     serve as names.                                                     *)
(***************************************************************************)
EXTENDS Relations, Tags, Bundles, TLC

CONSTANTS MaxVerdicts,   \* bound: the edges that are ever resolved
          AskTagIds      \* bound: the tags there will be beside asks

VARIABLE setting

InDecisions == INSTANCE Relations
                 WITH Kinds <- {"replaces", "destabilizes"}, Others <- {},
                      Resolutions <- {}, Retractable <- {}, Overlap <- TRUE
InActivities == INSTANCE Relations
                  WITH Kinds <- {"depends_on"}, Others <- {},
                       Resolutions <- {}, Retractable <- {}, Overlap <- TRUE, Failures <- TRUE
InPins == INSTANCE Relations
            WITH Kinds <- {"replaces"}, Resolutions <- {}, Retractable <- {}
InVerdicts == INSTANCE Relations
                WITH Kinds <- {}, Others <- {}, Overlap <- TRUE, Failures <- TRUE, Dangling <- BOOLEAN

MCBirths == [home |-> 2, abroad |-> 1]
MCRoom == [home |-> 2, abroad |-> 3]

MCInit ==
    /\ Init /\ BundleInit /\ TagInit
    /\ setting \in {"decisions", "activities", "pins", "verdicts", "references", "edits", "at once",
                    "tags", "ask tags"}
    /\ single = (setting # "at once")

InRelations ==
    /\ \/ setting = "decisions" /\ InDecisions!Next
       \/ setting = "activities" /\ InActivities!Next
       \/ setting = "pins" /\ InPins!Next
       \/ /\ setting = "verdicts" /\ InVerdicts!Next
          /\ Cardinality({e \in DOMAIN resolved : resolved'[e] # "none"}) <= MaxVerdicts
    /\ UNCHANGED <<bundleVars, tagVars>>

\* Two records are born at home, of which one is a topic, and a topic abroad, or one
\* at home that is edited, by one worker; or one that is edited once while two
\* workers export and import.
AllRows == UNION {{lib'[i][n] : n \in DOMAIN lib'[i]} : i \in Instances}
OneTopic == Len(lib'["home"]) <= 1 /\ \A row \in AllRows : row.what[1] = "home" /\ row.kind = "topic"
Notes == {row.what : row \in {r \in AllRows : r.kind = "note"}}
AtMostOneNote == Cardinality(Notes) <= 1 /\ \A what \in Notes : what[1] = "home"
EditsAtMost(k) == \A row \in AllRows : row.text[2] <= k
InBundles ==
    /\ BundleNext
    /\ \/ setting = "references" /\ EditsAtMost(0) /\ AtMostOneNote /\ proc'["w"] = AtEase
       \/ setting = "edits" /\ OneTopic /\ Len(lib'["abroad"]) <= 2 /\ proc'["w"] = AtEase
       \/ setting = "at once" /\ OneTopic /\ Len(lib'["abroad"]) <= 2 /\ EditsAtMost(1)
    /\ UNCHANGED <<vars, tagVars>>

InTags ==
    /\ setting \in {"tags", "ask tags"} /\ TagNext
    /\ setting = "tags" => \A c \in Taggers : pend'[c].op # "link"
    /\ setting = "ask tags" => Cardinality(Here') <= AskTagIds
    /\ UNCHANGED <<vars, bundleVars>>

MCNext == (InRelations \/ InBundles \/ InTags) /\ UNCHANGED setting

MCSpec == MCInit /\ [][MCNext]_<<vars, bundleVars, tagVars, setting>>

Symmetry == Permutations(Callers) \union Permutations(Decisions)

================================================================================
