-------------------------------- MODULE MCAsks --------------------------------
(***************************************************************************)
(* What sessions ask, do, record and are told of each other's records, in  *)
(* small instances, one of which a behaviour chooses in its first state:   *)
(*   - "asks": Asks, with calls that overlap and in which writes fail,     *)
(*     calls that overlap, or calls one at a time;                         *)
(*   - "acting", "acting apart": Activities, overlapping or one at a time; *)
(*   - "told", "told of materials", "told at once": DeltaNotices, calls    *)
(*     one at a time about decisions, logs and materials, and overlapping; *)
(*   - "batches", "records": Records, two batches at once and materials,   *)
(*     and single items and materials whose updates do not overlap.        *)
(***************************************************************************)
EXTENDS Asks, Records, Activities, DeltaNotices, TLC

VARIABLE setting

\* One session works on the activity of topic t, another only records.
Watcher == "w"
MCTopicsOf == [a |-> {"t"}]
ToldOfMaterials == INSTANCE DeltaNotices WITH Kinds <- {"material"}, Topics <- {"t"}
ToldAtOnce == INSTANCE DeltaNotices WITH Kinds <- {"decision"}, Topics <- {"t"}
ASSUME ActivitiesAssumption /\ DeltaAssumption

MCInit ==
    /\ Init /\ ActInit /\ RecordsInit
    /\ setting \in {"asks", "acting", "acting apart",
                    "told", "told of materials", "told at once", "batches", "records"}
    /\ setting # "asks" => may = {"tags"}
    /\ apart = (setting = "records")
    /\ alone = (setting = "acting apart")
    /\ inTurn = (setting \in {"told", "told of materials"})
    /\ IF setting = "told of materials" THEN ToldOfMaterials!DeltaInit
       ELSE IF setting = "told at once" THEN ToldAtOnce!DeltaInit
       ELSE DeltaInit

InAsks == setting = "asks" /\ Next /\ UNCHANGED <<actVars, deltaVars, recordVars>>
InActivities ==
    setting \in {"acting", "acting apart"} /\ ActNext /\ UNCHANGED <<vars, deltaVars, recordVars>>
InTold ==
    /\ \/ /\ \/ setting = "told" /\ DeltaNext
             \/ setting = "told of materials" /\ ToldOfMaterials!DeltaNext
          /\ \A s \in Listeners \ {Watcher} : \A c \in under[s]' : c.tool # "check_in"
       \/ setting = "told at once" /\ ToldAtOnce!DeltaNext /\ UNCHANGED pinned
    /\ UNCHANGED <<vars, actVars, recordVars>>

\* Batches of two items, or of one where updates of materials do not overlap.
InRecords ==
    /\ setting \in {"batches", "records"} /\ RecordsNext
    /\ setting = "records" => \A c \in Callers : filing'[c].pc = "item" => filing'[c].left <= 1
    /\ UNCHANGED <<vars, actVars, deltaVars>>

MCNext == (InAsks \/ InActivities \/ InTold \/ InRecords) /\ UNCHANGED setting
MCSpec == MCInit /\ [][MCNext]_<<vars, actVars, deltaVars, recordVars, setting>>

Symmetry == Permutations(Sessions) \union Permutations(Activities) \union Permutations(Ids)
================================================================================
