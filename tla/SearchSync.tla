----------------------------- MODULE SearchSync -----------------------------
(***************************************************************************)
(* The search index of decisions, logs and materials: the search_index     *)
(* table, the contentless FTS5 table kept in step with it by triggers, and *)
(* the vec_index rows written after each commit.                           *)
(*                                                                         *)
(* An entity has a title column, indexed as the one word that is the       *)
(* entity itself, and a body, a set of words.  A decision of Titled shows  *)
(* another title in search_index than the text FTS5 indexes (COALESCE).    *)
(* FTS5 keeps what it was told, word by word: `posts` is the set of        *)
(* <<rowid, word>> it would match, `docs` the rowids it counts as rows.    *)
(***************************************************************************)
EXTENDS Integers, FiniteSets, FiniteSetsExt

CONSTANTS
    Callers,       \* tool calls that may run at the same time
    Entities,
    Words,
    Materials,     \* entities that update_material may change
    Titled,        \* decisions with a title of their own
    Imported,      \* entities a bundle can update
    Headline,      \* the word of such a title
    MaxId,         \* bound: rows ever registered
    Backfills,     \* bound: servers that start and backfill once each
    Conditions     \* the sets of what may happen together: of Hazards

\* Calls overlap, update a material, import, add a decision with a title of its
\* own; the embedding server is down; servers start and backfill.
Hazards == {"overlap", "update", "import", "title", "down", "backfill"}

ASSUME SearchSyncAssumption ==
    /\ Materials \subseteq Entities /\ Titled \subseteq Entities /\ Imported \subseteq Entities
    /\ Entities \cap Words = {} /\ Headline \notin Entities \cup Words
    /\ MaxId \in Nat /\ Backfills \in Nat /\ Conditions \subseteq SUBSET Hazards

VARIABLES
    state,     \* none, live or retracted (retracted_at)
    body,      \* the body column
    index,     \* search_index.id of the entity, None without a row
    nextId,    \* AUTOINCREMENT of search_index
    posts,     \* the words FTS5 would match, by rowid
    docs,      \* the rowids FTS5 holds
    vec,       \* vec_index: <<rowid, the body it was computed from>>
    call,      \* what each caller is in the middle of
    fill,      \* rows a backfill has read and not yet stored
    fills,     \* backfills left
    appended,  \* history: words a caller was told are appended
    may        \* what may happen in this behaviour: one of Conditions, from first to last

vars == <<state, body, index, nextId, posts, docs, vec, call, fill, fills, appended, may>>
fts == <<posts, docs>>

None == 0
Idle == [step |-> "idle"]
Texts == SUBSET Words
Ids == {index[e] : e \in Entities} \ {None}

-----------------------------------------------------------------------------
\* The words FTS5 is given for an entity with body b.
FtsWords(e, b) == {e} \cup b

\* search_index.title.
DisplayTitle(e) == IF e \in Titled /\ "title" \in may THEN {Headline} ELSE {e}

\* A 'delete' with no rowid does nothing; otherwise it takes back exactly the
\* words it is given.
FtsDelete(F, id, words) ==
    IF id = None THEN F
    ELSE [posts |-> F.posts \ ({id} \X words), docs |-> F.docs \ {id}]

\* An insert with no rowid takes the next one FTS5 has not got; one with a
\* rowid FTS5 already has adds to it.
FtsInsert(F, id, words) ==
    LET row == IF id = None THEN Max(F.docs \cup {0}) + 1 ELSE id
    IN  [posts |-> F.posts \cup ({row} \X words), docs |-> F.docs \cup {row}]

\* trg_search_*_update, which fires on every UPDATE of the row.
UpdateTrigger(F, id, e, old, new) ==
    FtsInsert(FtsDelete(F, id, FtsWords(e, old)), id, FtsWords(e, new))

\* _delete_search_index_entry, on FTS5: what search_index shows as the title
\* and the body of the row.
DeleteEntry(F, e) == FtsDelete(F, index[e], DisplayTitle(e) \cup body[e])

Fts == [posts |-> posts, docs |-> docs]
SetFts(F) == posts' = F.posts /\ docs' = F.docs
IsIdle(c) == call[c].step = "idle"
MayStart(c) == IsIdle(c) /\ ("overlap" \in may \/ \A d \in Callers : IsIdle(d))
Ends(c) == call' = [call EXCEPT ![c] = Idle]
\* After the commit the call computes an embedding of text b of entity e.
Embeds(c, e, b) == call' = [call EXCEPT ![c] = [step |-> "lookup", ent |-> e, text |-> b]]
Rereads(c, e) == call' = [call EXCEPT ![c] = [step |-> "gather", ent |-> e]]

Init ==
    /\ state = [e \in Entities |-> "none"]
    /\ body = [e \in Entities |-> {}]
    /\ index = [e \in Entities |-> None]
    /\ nextId = 1
    /\ posts = {} /\ docs = {} /\ vec = {}
    /\ call = [c \in Callers |-> Idle]
    /\ fill = {} /\ fills = Backfills
    /\ appended = [e \in Entities |-> {}]
    /\ may \in Conditions

-----------------------------------------------------------------------------
\* add_decisions, add_logs, add_material: the INSERT fires trg_search_*_insert.
Add(c, e, w) ==
    /\ MayStart(c) /\ state[e] = "none" /\ nextId <= MaxId
    /\ state' = [state EXCEPT ![e] = "live"]
    /\ body' = [body EXCEPT ![e] = {w}]
    /\ index' = [index EXCEPT ![e] = nextId]
    /\ nextId' = nextId + 1
    /\ SetFts(FtsInsert(Fts, nextId, FtsWords(e, {w})))
    /\ Embeds(c, e, {w})
    /\ UNCHANGED <<vec, fill, fills, appended>>

\* update_material reads the row outside any transaction, refuses a retracted
\* one, and works out the new content.
UpdateRead(c, e, w, mode) ==
    /\ "update" \in may /\ MayStart(c) /\ e \in Materials /\ state[e] = "live"
    /\ call' = [call EXCEPT ![c] =
         [step |-> "write", ent |-> e, mode |-> mode, word |-> w,
          text |-> IF mode = "append" THEN body[e] \cup {w} ELSE {w}]]
    /\ UNCHANGED <<state, body, index, nextId, fts, vec, fill, fills, appended>>

\* ... and writes it by id, whatever has become of the row.
UpdateWrite(c) ==
    /\ call[c].step = "write"
    /\ LET e == call[c].ent IN
       /\ body' = [body EXCEPT ![e] = call[c].text]
       /\ SetFts(UpdateTrigger(Fts, index[e], e, body[e], call[c].text))
       /\ appended' = [appended EXCEPT ![e] =
            IF call[c].mode = "append" THEN @ \cup {call[c].word} ELSE {}]
       /\ Rereads(c, e)
    /\ UNCHANGED <<state, index, nextId, vec, fill, fills>>

\* import_bundle overwrites the row it imported before without asking whether
\* it was retracted since; the second pass over the body fires the trigger again.
ImportUpdate(c, e, w) ==
    /\ "import" \in may /\ MayStart(c) /\ e \in Imported /\ state[e] # "none"
    /\ Cardinality(docs) < 2 * MaxId
    /\ body' = [body EXCEPT ![e] = {w}]
    /\ SetFts(UpdateTrigger(UpdateTrigger(Fts, index[e], e, body[e], {w}), index[e], e, {w}, {w}))
    /\ appended' = [appended EXCEPT ![e] = {}]
    /\ Embeds(c, e, {w})
    /\ UNCHANGED <<state, index, nextId, vec, fill, fills>>

\* retract: the UPDATE of retracted_at fires the trigger (which changes
\* nothing), then the entry is taken out of the three indexes.
Retract(c, e) ==
    /\ MayStart(c) /\ state[e] = "live"
    /\ state' = [state EXCEPT ![e] = "retracted"]
    /\ index' = [index EXCEPT ![e] = None]
    /\ SetFts(DeleteEntry(UpdateTrigger(Fts, index[e], e, body[e], body[e]), e))
    /\ vec' = {v \in vec : v[1] # index[e]}
    /\ UNCHANGED <<body, nextId, call, fill, fills, appended>>

\* retract(undo=True): a new search_index row and its FTS row first, so that
\* the UPDATE that clears retracted_at finds the id.
Undo_UpdateFirst(c, e) ==
    /\ MayStart(c) /\ state[e] = "retracted" /\ nextId <= MaxId
    /\ state' = [state EXCEPT ![e] = "live"]
    /\ index' = [index EXCEPT ![e] = nextId]
    /\ nextId' = nextId + 1
    /\ SetFts(FtsInsert(UpdateTrigger(Fts, None, e, body[e], body[e]), nextId, FtsWords(e, body[e])))
    /\ Rereads(c, e)
    /\ UNCHANGED <<body, vec, fill, fills, appended>>

Undo_FlagOnly(c, e) ==
    /\ MayStart(c) /\ state[e] = "retracted"
    /\ state' = [state EXCEPT ![e] = "live"]
    /\ Rereads(c, e)
    /\ UNCHANGED <<body, index, nextId, fts, vec, fill, fills, appended>>

Undo_DisplayTitle(c, e) ==
    /\ MayStart(c) /\ state[e] = "retracted" /\ nextId <= MaxId
    /\ state' = [state EXCEPT ![e] = "live"]
    /\ index' = [index EXCEPT ![e] = nextId]
    /\ nextId' = nextId + 1
    /\ SetFts(FtsInsert(Fts, nextId, DisplayTitle(e) \cup body[e]))
    /\ Rereads(c, e)
    /\ UNCHANGED <<body, vec, fill, fills, appended>>

Undo(c, e) ==
    /\ MayStart(c) /\ state[e] = "retracted" /\ nextId <= MaxId
    /\ state' = [state EXCEPT ![e] = "live"]
    /\ index' = [index EXCEPT ![e] = nextId]
    /\ nextId' = nextId + 1
    /\ SetFts(UpdateTrigger(FtsInsert(Fts, nextId, FtsWords(e, body[e])),
                            nextId, e, body[e], body[e]))
    /\ Rereads(c, e)
    /\ UNCHANGED <<body, vec, fill, fills, appended>>

-----------------------------------------------------------------------------
\* regenerate_embedding, and the tail of update_material: the text is read anew.
Gather(c) ==
    /\ call[c].step = "gather"
    /\ Embeds(c, call[c].ent, body[call[c].ent])
    /\ UNCHANGED <<state, body, index, nextId, fts, vec, fill, fills, appended>>

\* generate_and_store_embedding finds the row, then asks the server: no row
\* or no answer ends the call without an embedding.
Lookup(c) ==
    /\ call[c].step = "lookup"
    /\ LET id == index[call[c].ent] IN
       \/ id # None /\ call' = [call EXCEPT ![c] =
                          [step |-> "store", id |-> id, text |-> call[c].text]]
       \/ (id = None \/ "down" \in may) /\ Ends(c)
    /\ UNCHANGED <<state, body, index, nextId, fts, vec, fill, fills, appended>>

\* DELETE and INSERT by rowid on a connection of its own.
Upsert(V, id, text) == {v \in V : v[1] # id} \cup {<<id, text>>}
Store_InsertOnly(c) ==
    /\ call[c].step = "store"
    /\ vec' = IF \E v \in vec : v[1] = call[c].id THEN vec ELSE Upsert(vec, call[c].id, call[c].text)
    /\ Ends(c)
    /\ UNCHANGED <<state, body, index, nextId, fts, fill, fills, appended>>

Store(c) ==
    /\ call[c].step = "store"
    /\ vec' = Upsert(vec, call[c].id, call[c].text)
    /\ Ends(c)
    /\ UNCHANGED <<state, body, index, nextId, fts, fill, fills, appended>>

\* backfill_embeddings: the rows without an embedding are read at once, then
\* encoded and stored chunk by chunk; a chunk that fails ends the run.
BackfillRead ==
    /\ "backfill" \in may /\ fills > 0 /\ fill = {}
    /\ fills' = fills - 1
    /\ fill' = {<<index[e], body[e]>> : e \in {x \in Entities :
                   index[x] # None /\ ~ \E v \in vec : v[1] = index[x]}}
    /\ UNCHANGED <<state, body, index, nextId, fts, vec, call, appended>>

BackfillChunk ==
    /\ fill # {}
    /\ \/ \E r \in fill : vec' = Upsert(vec, r[1], r[2]) /\ fill' = fill \ {r}
       \/ "down" \in may /\ fill' = {} /\ UNCHANGED vec
    /\ UNCHANGED <<state, body, index, nextId, fts, call, fills, appended>>

Next ==
    /\ \/ \E c \in Callers, e \in Entities :
            \/ \E w \in Words :
                 \/ Add(c, e, w)
                 \/ \E mode \in {"overwrite", "append"} : UpdateRead(c, e, w, mode)
                 \/ ImportUpdate(c, e, w)
            \/ Retract(c, e) \/ Undo(c, e)
       \/ \E c \in Callers : UpdateWrite(c) \/ Gather(c) \/ Lookup(c) \/ Store(c)
       \/ BackfillRead \/ BackfillChunk
    /\ UNCHANGED may

Spec == Init /\ [][Next]_vars

-----------------------------------------------------------------------------
CallType ==
    {Idle}
    \cup [step : {"write"}, ent : Entities, mode : {"overwrite", "append"}, word : Words, text : Texts]
    \cup [step : {"gather"}, ent : Entities]
    \cup [step : {"lookup"}, ent : Entities, text : Texts]
    \cup [step : {"store"}, id : Nat \ {0}, text : Texts]

\* Every variable has its type.
TypeOK ==
    /\ state \in [Entities -> {"none", "live", "retracted"}]
    /\ body \in [Entities -> Texts]
    /\ index \in [Entities -> Nat]
    /\ nextId \in Nat \ {0}
    /\ posts \subseteq (Nat \ {0}) \X (Entities \cup Words \cup {Headline})
    /\ docs \subseteq Nat \ {0} /\ IsFiniteSet(docs)
    /\ vec \subseteq (Nat \ {0}) \X Texts
    /\ \A c \in Callers : call[c] \in CallType
    /\ DOMAIN call = Callers
    /\ fill \subseteq (Nat \ {0}) \X Texts
    /\ fills \in Nat
    /\ appended \in [Entities -> Texts]

\* An entity has a row in search_index exactly while it is live, and no two
\* entities share one: retract and its undo keep the flag and the index in
\* step (retract_service.py).
IndexedIsLive ==
    /\ \A e \in Entities : index[e] # None <=> state[e] = "live"
    /\ \A e, f \in Entities : index[e] = index[f] /\ index[e] # None => e = f

\* What a search finds under an entity's row are the words of that entity as
\* it now is: nothing it once said, nothing another entity says.
HitsAreTrue ==
    \A e \in Entities : index[e] # None =>
        /\ {p[2] : p \in {q \in posts : q[1] = index[e]}} = FtsWords(e, body[e])
        /\ index[e] \in docs

\* FTS5 keeps no word and no row of an entity that was taken out of
\* search_index: such words distort the ranking, such rows take rowids that a
\* later entity will be given.
NoOrphanWords ==
    /\ \A p \in posts : p[1] \in Ids
    /\ docs \subseteq Ids

\* No embedding outlives its search_index row: it would use up candidate
\* slots of every nearest-neighbour query.
NoOrphanEmbeddings == \A v \in vec : v[1] \in Ids

\* Once every call is over, an entity's embedding is that of its present text.
EmbeddingIsCurrent ==
    (\A c \in Callers : IsIdle(c)) /\ fill = {} =>
        \A e \in Entities, v \in vec : v[1] = index[e] => v[2] = body[e]

\* What update_material(mode="append") reported as appended is in the content
\* until somebody overwrites it.
AppendsKept == \A e \in Entities : appended[e] \subseteq body[e]

\* Nothing is imported, and no update of a material overlaps another call.
Quiet == "import" \notin may /\ ~({"update", "overlap"} \subseteq may)

\* What is found is there, but for imports over what was retracted and for updates
\* that race with a retraction.  When calls do not overlap, no index holds anything
\* of what is not live, what was appended is kept, and the embedding is that of the
\* text, each as long as nothing else stands in its way.
HitsAreSound ==
    /\ Quiet => HitsAreTrue
    /\ {"import", "overlap", "title"} \cap may = {} => NoOrphanWords
    /\ "overlap" \notin may => AppendsKept
    /\ {"overlap", "backfill"} \cap may = {} => NoOrphanEmbeddings
    /\ {"overlap", "backfill", "down"} \cap may = {} => EmbeddingIsCurrent
=============================================================================
