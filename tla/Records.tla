-------------------------------- MODULE Records --------------------------------
(***************************************************************************)
(* How records are written: batches of decisions and logs, one savepoint   *)
(* an item (decision_service.py, discussion_log_service.py), materials     *)
(* (material_service.py), and the citations kept of every text             *)
(* (citations_service.py).                                                 *)
(*                                                                         *)
(* An item's savepoint is its transaction: its release commits.  SQLite    *)
(* has one writer; a transaction that has read before it first writes      *)
(* cannot write once another has committed since.                          *)
(***************************************************************************)
EXTENDS Integers, FiniteSets

CONSTANTS Callers,
          RecordIds,       \* bound: the records there can be
          Texts,           \* what a text may name: sets of ids
          Marks,           \* bound: whether items name a topic, propagate
          MaxItems         \* bound: items of a batch (10 in the code)

ASSUME RecordsAssumption ==
    Texts \subseteq SUBSET RecordIds /\ Marks \subseteq BOOLEAN /\ MaxItems \in Nat \ {0}
    /\ "nobody" \notin Callers

VARIABLES
    db,      \* what is committed
    work,    \* what the transaction under way has made of it, and whose it is
    filing,  \* the call of each caller
    apart    \* in this behaviour, from first to last, no two calls of
             \* update_material overlap

recordVars == <<db, work, filing, apart>>

None == [kind |-> "none"]
Nobody == "nobody"
NoWork == [by |-> Nobody]
NoCall == [pc |-> "none"]
Items == [topic : Marks, text : Texts, spread : Marks]

Stored(d) == {id \in RecordIds : d.rows[id] # None}
Cites(d, id) == {t \in RecordIds : <<id, t>> \in d.cites}

\* The conversion: a name of no record there is becomes a deleted one for good.
Known(d, text) == text \cap Stored(d)
\* The citations of an owner are deleted and taken from its text anew.
Cited(cites, id, text) == {p \in cites : p[1] # id} \cup ({id} \X text)

\* The event of a write goes to the outbox in its transaction.
Announced(told, id) == [told EXCEPT ![id] = @ + 1]

RecordsInit ==
    /\ db = [rows |-> [id \in RecordIds |-> None], linked |-> {}, cites |-> {},
             told |-> [id \in RecordIds |-> 0], spread |-> {}]
    /\ work = NoWork
    /\ filing = [c \in Callers |-> NoCall]
    /\ apart \in BOOLEAN

Free(c) == filing[c] = NoCall
At(c, pc) == filing[c].pc = pc
Go(c, d) == filing' = [filing EXCEPT ![c] = d]
Item(c) == filing[c].item

\* A commit by c: whoever has read and not yet written is too late.
Committed(c, d, mine) ==
    /\ db' = d
    /\ work' = NoWork
    /\ filing' = [x \in Callers |-> IF x = c THEN mine
                                   ELSE IF At(x, "insert") THEN [filing[x] EXCEPT !.late = Item(x).topic]
                                   ELSE filing[x]]

--------------------------------------------------------------------------------
\* add_decisions, add_logs
AddBatch(c) ==
    /\ Free(c)
    /\ \E n \in 1..MaxItems :
          Go(c, [pc |-> "item", left |-> n, made |-> {}, spread |-> {}])
    /\ UNCHANGED <<db, work>>

\* The savepoint, the checks, and the read of the topic.
ItemRead(c) ==
    /\ At(c, "item") /\ filing[c].left > 0
    /\ \E item \in Items :
          Go(c, [pc |-> "insert", left |-> filing[c].left - 1, made |-> filing[c].made,
                 spread |-> filing[c].spread, item |-> item, late |-> FALSE])
    /\ UNCHANGED <<db, work>>

ItemInsert(c) ==
    /\ At(c, "insert") /\ ~filing[c].late /\ work = NoWork
    /\ \E id \in RecordIds \ Stored(db) :
          work' = [by |-> c, id |-> id,
                   data |-> [db EXCEPT !.rows[id] = [kind |-> "item", topic |-> Item(c).topic, text |-> Item(c).text]]]
    /\ Go(c, [filing[c] EXCEPT !.pc = "fill"])
    /\ UNCHANGED db

\* Relation, tags, converted text, citations, event.
Filled(d, id, item) ==
    LET text == Known(d, item.text)
    IN [d EXCEPT !.rows[id].text = text,
                 !.linked = IF item.topic THEN @ \cup {id} ELSE @,
                 !.cites = Cited(@, id, text),
                 !.told = Announced(@, id)]

ItemFill(c) ==
    /\ At(c, "fill")
    /\ work' = [work EXCEPT !.data = Filled(@, work.id, Item(c))]
    /\ Go(c, [filing[c] EXCEPT !.pc = IF Item(c).spread THEN "spread" ELSE "release"])
    /\ UNCHANGED db

\* propagate_to has a savepoint of its own: its failure is told, the item stays.
ItemSpread(c) ==
    /\ At(c, "spread")
    /\ \E ok \in BOOLEAN :
          /\ work' = IF ok THEN [work EXCEPT !.data.spread = @ \cup {work.id}] ELSE work
          /\ Go(c, [filing[c] EXCEPT !.pc = "release", !.item.spread = ok])
    /\ UNCHANGED db

Rest(c, made, spread) ==
    [pc |-> "item", left |-> filing[c].left, made |-> made, spread |-> spread]

ItemRelease(c) ==
    /\ At(c, "release")
    /\ Committed(c, work.data,
                 Rest(c, filing[c].made \cup {work.id},
                      filing[c].spread \cup IF Item(c).spread THEN {work.id} ELSE {}))

\* Whatever an item runs into rolls it back, and the next one is taken up.
ItemFail_Released(c) ==
    /\ filing[c].pc \in {"insert", "fill", "spread", "release"}
    /\ IF work.by = c
       THEN Committed(c, work.data, Rest(c, filing[c].made, filing[c].spread))
       ELSE Go(c, Rest(c, filing[c].made, filing[c].spread)) /\ UNCHANGED <<db, work>>

ItemFail(c) ==
    /\ filing[c].pc \in {"insert", "fill", "spread", "release"}
    /\ work' = IF work.by = c THEN NoWork ELSE work
    /\ Go(c, Rest(c, filing[c].made, filing[c].spread))
    /\ UNCHANGED db

\* The rest only reads, and embeds: if it fails the whole call is an error.
Answer(c) ==
    /\ At(c, "item") /\ filing[c].left = 0
    /\ Go(c, NoCall)
    /\ UNCHANGED <<db, work>>

--------------------------------------------------------------------------------
\* add_material writes all of it in one transaction.
AddMaterial(c) ==
    /\ Free(c) /\ work = NoWork
    /\ \E id \in RecordIds \ Stored(db), named \in Texts :
          LET text == named \cap (Stored(db) \cup {id})
          IN Committed(c, [db EXCEPT !.rows[id] = [kind |-> "material", topic |-> FALSE, text |-> text],
                                     !.cites = Cited(@, id, text), !.told = Announced(@, id)],
                       NoCall)

\* update_material reads the row before its transaction.
UpdateRead(c) ==
    /\ Free(c) /\ (apart => \A d \in Callers : ~At(d, "update"))
    /\ \E id \in Stored(db), how \in {"title", "overwrite", "append"} :
          /\ db.rows[id].kind = "material"
          /\ Go(c, [pc |-> "update", id |-> id, how |-> how, row |-> db.rows[id].text])
    /\ UNCHANGED <<db, work>>

UpdateWrite_Adds(c) ==
    /\ At(c, "update") /\ work = NoWork
    /\ \E named \in Texts :
          LET id == filing[c].id
              new == Known(db, named)
              text == CASE filing[c].how = "title" -> db.rows[id].text
                        [] filing[c].how = "overwrite" -> new
                        [] OTHER -> filing[c].row \cup new
          IN Committed(c, [db EXCEPT !.rows[id].text = text, !.cites = @ \cup ({id} \X text)], NoCall)

UpdateWrite(c) ==
    /\ At(c, "update") /\ work = NoWork
    /\ \E named \in Texts :
          LET id == filing[c].id
              new == Known(db, named)
              text == CASE filing[c].how = "title" -> db.rows[id].text
                        [] filing[c].how = "overwrite" -> new
                        [] OTHER -> filing[c].row \cup new
              cited == IF filing[c].how = "title" THEN filing[c].row ELSE text
          IN Committed(c, [db EXCEPT !.rows[id].text = text, !.cites = Cited(@, id, cited)], NoCall)

UpdateFail(c) == At(c, "update") /\ Go(c, NoCall) /\ UNCHANGED <<db, work>>

\* The server dies.
Crash ==
    /\ \E c \in Callers : ~Free(c)
    /\ filing' = [c \in Callers |-> NoCall]
    /\ work' = NoWork
    /\ UNCHANGED db

RecordsNext ==
    /\ \/ \E c \in Callers :
             \/ AddBatch(c) \/ ItemRead(c) \/ ItemInsert(c) \/ ItemFill(c) \/ ItemSpread(c)
             \/ ItemRelease(c) \/ ItemFail(c) \/ Answer(c)
             \/ AddMaterial(c) \/ UpdateRead(c) \/ UpdateWrite(c) \/ UpdateFail(c)
       \/ Crash
    /\ UNCHANGED apart

RecordsSpec == RecordsInit /\ [][RecordsNext]_recordVars

--------------------------------------------------------------------------------
\* A record is there with everything that belongs to it or not at all, and is
\* announced once; what a batch will answer it has created and propagated is
\* stored, whatever failed, was cut short or happened between
\* (decision_service.py:123-268).
BatchesAreWhole ==
    /\ \A id \in RecordIds :
          IF id \in Stored(db)
          THEN db.told[id] = 1 /\ (db.rows[id].topic => id \in db.linked)
          ELSE db.told[id] = 0 /\ id \notin db.linked \cup db.spread /\ Cites(db, id) = {}
    /\ \A c \in Callers :
          At(c, "item") => /\ filing[c].made \subseteq Stored(db)
                           /\ filing[c].spread = db.spread \cap filing[c].made

\* The citations kept of a text are those in it, and of records there are
\* (citations_service.py:132).
CitationsMatch ==
    \A id \in Stored(db) : Cites(db, id) = db.rows[id].text /\ Cites(db, id) \subseteq Stored(db)
\* An item of a batch is stored with all its parts or with none; while no two
\* calls of update_material overlap, whatever else does, the citations of a record
\* are those of its text.
RecordsAreWhole == BatchesAreWhole /\ (apart => CitationsMatch)

================================================================================
