-------------------------- MODULE SearchSyncProofs --------------------------
(***************************************************************************)
(* Theorems about SearchSync for any number of callers, entities and words,*)
(* about SearchRanking for any items, tags and limits, and about TagNotes  *)
(* for any sections, materials, ceiling and days.                          *)
(*                                                                         *)
(* AlwaysIndexed needs no assumption on what overlaps.  The two facts on   *)
(* the words are about calls that do not overlap an update of a material   *)
(* with anything (or no updates at all), and no import over a retracted    *)
(* row: what happens otherwise is shown by the runs.                       *)
(*                                                                         *)
(* The third part is about calls that do not overlap at all: one that is   *)
(* under way is alone and still knows what it read, so an append loses     *)
(* nothing and an embedding is stored for the text it was computed from.   *)
(*                                                                         *)
(* The fourth part follows two hits through a search: the one that no list *)
(* ranks worse is ahead in their concatenation, has no fewer points, and   *)
(* stays ahead in the merge, behind the cut and in both sorts.             *)
(*                                                                         *)
(* The last part is about the notes of a tag.  The order in which lines    *)
(* are chosen is that of their rank among the chosen; from it follows that *)
(* every pointer stands under the index, where a demotion finds it.        *)
(***************************************************************************)
EXTENDS SearchSync, SearchRanking, TagNotes, TLAPS, FiniteSetTheorems, WellFoundedInduction

Vocabulary == Entities \cup Words \cup {Headline}

RowsInv ==
    /\ state \in [Entities -> {"none", "live", "retracted"}]
    /\ index \in [Entities -> Nat]
    /\ nextId \in Nat \ {0}
    /\ \A e \in Entities : index[e] < nextId
    /\ IndexedIsLive

\* No action changes the state of a row without its search_index entry.
LEMMA RowsInit == Init => RowsInv
BY DEF Init, RowsInv, IndexedIsLive, None

LEMMA RowsStep == RowsInv /\ [Next]_vars => RowsInv'
<1> SUFFICES ASSUME RowsInv, [Next]_vars PROVE RowsInv'
  OBVIOUS
<1> USE DEF RowsInv, IndexedIsLive, None
<1>1. ASSUME NEW c \in Callers, NEW e \in Entities, NEW w \in Words, Add(c, e, w)
      PROVE  RowsInv'
  BY <1>1 DEF Add
<1>2. ASSUME NEW c \in Callers, NEW e \in Entities, Retract(c, e)
      PROVE  RowsInv'
  BY <1>2 DEF Retract
<1>3. ASSUME NEW c \in Callers, NEW e \in Entities, Undo(c, e)
      PROVE  RowsInv'
  BY <1>3 DEF Undo
<1>4. CASE UNCHANGED <<state, index, nextId>>
  BY <1>4
<1>5. QED
  BY <1>1, <1>2, <1>3, <1>4, ZenonT(60)
     DEF Next, vars, UpdateRead, UpdateWrite, ImportUpdate, Gather, Lookup, Store,
         BackfillRead, BackfillChunk

\* A row is in search_index exactly while its entity is live, and no two
\* entities share one, whatever the callers do at the same time.
THEOREM AlwaysIndexed == Spec => []IndexedIsLive
<1>1. RowsInv => IndexedIsLive
  BY DEF RowsInv
<1>2. QED
  BY <1>1, RowsInit, RowsStep, PTL DEF Spec

-----------------------------------------------------------------------------
LEMMA MayStays == [Next]_vars => may' = may
  BY DEF Next, vars

\* A write that is under way is a write to a row that search_index has.
WritesAreToRows ==
    /\ DOMAIN call = Callers
    /\ \A c \in Callers : call[c].step = "write" =>
         /\ call[c].ent \in Entities /\ "update" \in may
         /\ call[c].text \subseteq Words
         /\ index[call[c].ent] # None

\* FTS5 holds, under the row of every entity, exactly its words; under the
\* rowids still to be given out it holds nothing.
WordsInv ==
    /\ RowsInv
    /\ WritesAreToRows
    /\ body \in [Entities -> SUBSET Words]
    /\ posts \subseteq Nat \X Vocabulary
    /\ docs \subseteq Nat
    /\ \A i \in Nat : i >= nextId => i \notin docs /\ \A w \in Vocabulary : <<i, w>> \notin posts
    /\ \A e \in Entities : index[e] # None =>
         /\ index[e] \in docs
         /\ \A w \in Vocabulary : <<index[e], w>> \in posts <=> w \in FtsWords(e, body[e])

\* What the trigger, an insert and a delete do to the words of a given row.
LEMMA TriggerWords ==
  ASSUME NEW F, NEW id, id # None, NEW e, NEW was, NEW new
  PROVE  /\ UpdateTrigger(F, id, e, was, new).docs = F.docs \cup {id}
         /\ \A q : q \in UpdateTrigger(F, id, e, was, new).posts
                   <=> \/ q \in {id} \X FtsWords(e, new)
                       \/ q \in F.posts /\ q \notin {id} \X FtsWords(e, was)
<1> DEFINE Deleted == [posts |-> F.posts \ ({id} \X FtsWords(e, was)), docs |-> F.docs \ {id}]
<1>1. FtsDelete(F, id, FtsWords(e, was)) = Deleted
  BY DEF FtsDelete
<1>2. FtsInsert(Deleted, id, FtsWords(e, new))
        = [posts |-> Deleted.posts \cup ({id} \X FtsWords(e, new)), docs |-> Deleted.docs \cup {id}]
  BY DEF FtsInsert
<1>3. UpdateTrigger(F, id, e, was, new)
        = [posts |-> (F.posts \ ({id} \X FtsWords(e, was))) \cup ({id} \X FtsWords(e, new)),
           docs |-> (F.docs \ {id}) \cup {id}]
  BY <1>1, <1>2 DEF UpdateTrigger
<1>4. QED
  BY <1>3

LEMMA FtsFields == Fts.posts = posts /\ Fts.docs = docs
  BY DEF Fts

\* The invariant gives what a search finds.
LEMMA WordsGiveHits == WordsInv => HitsAreTrue
<1> SUFFICES ASSUME WordsInv, NEW e \in Entities, index[e] # None
             PROVE  /\ {p[2] : p \in {q \in posts : q[1] = index[e]}} = FtsWords(e, body[e])
                    /\ index[e] \in docs
  BY DEF HitsAreTrue
<1>1. FtsWords(e, body[e]) \subseteq Vocabulary
  BY DEF WordsInv, FtsWords, Vocabulary
<1>2. ASSUME NEW w \in FtsWords(e, body[e])
      PROVE  w \in {p[2] : p \in {q \in posts : q[1] = index[e]}}
  <2>1. <<index[e], w>> \in posts
    BY <1>1, <1>2 DEF WordsInv
  <2>2. <<index[e], w>>[1] = index[e] /\ <<index[e], w>>[2] = w
    OBVIOUS
  <2>3. QED
    BY <2>1, <2>2
<1>3. ASSUME NEW p \in posts, p[1] = index[e]
      PROVE  p[2] \in FtsWords(e, body[e])
  <2>1. p = <<index[e], p[2]>> /\ p[2] \in Vocabulary
    BY <1>3 DEF WordsInv
  <2>2. QED
    BY <1>3, <2>1 DEF WordsInv
<1>4. QED
  BY <1>2, <1>3 DEF WordsInv

\* Nothing is indexed at the start.
LEMMA WordsInit == Init => WordsInv
<1> SUFFICES ASSUME Init PROVE WordsInv
  OBVIOUS
<1>1. RowsInv
  BY RowsInit
<1>2. QED
  BY <1>1 DEF Init, WordsInv, WritesAreToRows, Idle, None

\* Every step keeps the words right, if updates of materials overlap nothing.
LEMMA WordsStep == Quiet /\ WordsInv /\ [Next]_vars => WordsInv'
<1> SUFFICES ASSUME Quiet, WordsInv, [Next]_vars PROVE WordsInv'
  OBVIOUS
<1>0. RowsInv' /\ may' = may
  BY RowsStep, MayStays DEF WordsInv
<1>1. ASSUME NEW c \in Callers, NEW e \in Entities, NEW w \in Words, Add(c, e, w)
      PROVE  WordsInv'
  <2>1. index[e] = None /\ index' = [index EXCEPT ![e] = nextId] /\ nextId' = nextId + 1
    BY <1>1 DEF Add, WordsInv, RowsInv, IndexedIsLive
  <2>2. /\ posts' = posts \cup ({nextId} \X FtsWords(e, {w}))
        /\ docs' = docs \cup {nextId}
    BY <1>1 DEF Add, SetFts, Fts, FtsInsert, WordsInv, RowsInv, None
  <2>3. body' = [body EXCEPT ![e] = {w}]
    BY <1>1 DEF Add
  <2>4. WritesAreToRows'
    BY <1>0, <1>1, <2>1 DEF Add, Embeds, WordsInv, RowsInv, WritesAreToRows, None
  <2>5. posts' \subseteq Nat \X Vocabulary /\ docs' \subseteq Nat
    BY <2>2 DEF WordsInv, RowsInv, FtsWords, Vocabulary
  <2>6. \A i \in Nat : i >= nextId' => i \notin docs' /\ \A x \in Vocabulary : <<i, x>> \notin posts'
    BY <2>1, <2>2 DEF WordsInv, RowsInv
  <2>7. ASSUME NEW f \in Entities, index'[f] # None
        PROVE  /\ index'[f] \in docs'
               /\ \A x \in Vocabulary : <<index'[f], x>> \in posts' <=> x \in FtsWords(f, body'[f])
    <3>1. CASE f = e
      BY <2>1, <2>2, <2>3, <3>1 DEF WordsInv, RowsInv
    <3>2. CASE f # e
      BY <2>1, <2>2, <2>3, <2>7, <3>2 DEF WordsInv, RowsInv
    <3>3. QED
      BY <3>1, <3>2
  <2>8. body' \in [Entities -> SUBSET Words]
    BY <2>3 DEF WordsInv
  <2>9. QED
    BY <1>0, <2>4, <2>5, <2>6, <2>7, <2>8 DEF WordsInv
<1>2. ASSUME NEW c \in Callers, UpdateWrite(c)
      PROVE  WordsInv'
  <2> DEFINE e == call[c].ent
             new == call[c].text
             G == UpdateTrigger(Fts, index[e], e, body[e], new)
  <2>1. /\ e \in Entities /\ new \in SUBSET Words /\ index[e] # None
        /\ index[e] \in Nat
    BY <1>2 DEF UpdateWrite, WordsInv, WritesAreToRows, RowsInv
  <2>2. posts' = G.posts /\ docs' = G.docs /\ body' = [body EXCEPT ![e] = new]
        /\ UNCHANGED <<index, nextId>>
    BY <1>2 DEF UpdateWrite, SetFts
  <2>3. /\ G.docs = docs \cup {index[e]}
        /\ \A q : q \in G.posts <=> \/ q \in {index[e]} \X FtsWords(e, new)
                                    \/ q \in posts /\ q \notin {index[e]} \X FtsWords(e, body[e])
    <3> HIDE DEF e, new
    <3>1. /\ UpdateTrigger(Fts, index[e], e, body[e], new).docs = Fts.docs \cup {index[e]}
          /\ \A q : q \in UpdateTrigger(Fts, index[e], e, body[e], new).posts
                    <=> \/ q \in {index[e]} \X FtsWords(e, new)
                        \/ q \in Fts.posts /\ q \notin {index[e]} \X FtsWords(e, body[e])
      BY <2>1, TriggerWords
    <3>2. QED
      BY <3>1, FtsFields
  <2> HIDE DEF G
  <2>4. WritesAreToRows'
    BY <1>0, <1>2, <2>2 DEF UpdateWrite, Rereads, WordsInv, WritesAreToRows
  <2>5. posts' \subseteq Nat \X Vocabulary /\ docs' \subseteq Nat
    BY <2>1, <2>2, <2>3 DEF WordsInv, FtsWords, Vocabulary
  <2>6. index[e] < nextId
    BY <2>1 DEF WordsInv, RowsInv
  <2>7. \A i \in Nat : i >= nextId' => i \notin docs' /\ \A x \in Vocabulary : <<i, x>> \notin posts'
    BY <2>1, <2>2, <2>3, <2>6 DEF WordsInv, RowsInv
  <2>8. ASSUME NEW f \in Entities, index'[f] # None
        PROVE  /\ index'[f] \in docs'
               /\ \A x \in Vocabulary : <<index'[f], x>> \in posts' <=> x \in FtsWords(f, body'[f])
    <3>1. CASE f = e
      <4>1. body'[f] = new
        BY <2>1, <2>2, <3>1 DEF WordsInv
      <4>2. \A x : <<index[e], x>> \in posts /\ x \in Vocabulary /\ x \notin FtsWords(e, body[e])
                  => FALSE
        BY <2>1 DEF WordsInv
      <4>3. \A x \in Vocabulary : <<index[e], x>> \in posts' <=> x \in FtsWords(e, new)
        BY <2>1, <2>2, <2>3, <4>2
      <4>4. QED
        BY <2>1, <2>2, <2>3, <3>1, <4>1, <4>3
    <3>2. CASE f # e
      <4>1. index[f] # index[e] /\ body'[f] = body[f]
        BY <2>1, <2>2, <2>8, <3>2 DEF WordsInv, RowsInv, IndexedIsLive
      <4>2. QED
        BY <2>1, <2>2, <2>3, <2>8, <4>1 DEF WordsInv
    <3>3. QED
      BY <3>1, <3>2
  <2>9. body' \in [Entities -> SUBSET Words]
    BY <2>1, <2>2 DEF WordsInv
  <2>10. QED
    BY <1>0, <2>4, <2>5, <2>7, <2>8, <2>9 DEF WordsInv
<1>3. ASSUME NEW c \in Callers, NEW e \in Entities, Retract(c, e)
      PROVE  WordsInv'
  <2> DEFINE G == UpdateTrigger(Fts, index[e], e, body[e], body[e])
  <2>1. index[e] # None /\ index[e] \in Nat /\ index[e] < nextId /\ body[e] \in SUBSET Words
    BY <1>3 DEF Retract, WordsInv, RowsInv, IndexedIsLive
  <2>2. /\ G.docs = docs \cup {index[e]}
        /\ \A q : q \in G.posts <=> \/ q \in {index[e]} \X FtsWords(e, body[e])
                                    \/ q \in posts /\ q \notin {index[e]} \X FtsWords(e, body[e])
    <3>1. /\ UpdateTrigger(Fts, index[e], e, body[e], body[e]).docs = Fts.docs \cup {index[e]}
          /\ \A q : q \in UpdateTrigger(Fts, index[e], e, body[e], body[e]).posts
                    <=> \/ q \in {index[e]} \X FtsWords(e, body[e])
                        \/ q \in Fts.posts /\ q \notin {index[e]} \X FtsWords(e, body[e])
      BY <2>1, TriggerWords
    <3>2. QED
      BY <3>1, FtsFields
  <2>3. /\ posts' = G.posts \ ({index[e]} \X (DisplayTitle(e) \cup body[e]))
        /\ docs' = G.docs \ {index[e]}
    BY <1>3, <2>1 DEF Retract, SetFts, DeleteEntry, FtsDelete
  <2> HIDE DEF G
  <2>4. index' = [index EXCEPT ![e] = None] /\ UNCHANGED <<nextId, body, call>>
    BY <1>3 DEF Retract
  <2>5. WritesAreToRows'
    BY <1>0, <1>3, <2>4 DEF Retract, MayStart, IsIdle, Idle, Quiet, WordsInv, WritesAreToRows, RowsInv
  <2>6. posts' \subseteq Nat \X Vocabulary /\ docs' \subseteq Nat
    BY <2>1, <2>2, <2>3, ZenonT(60) DEF WordsInv, FtsWords, Vocabulary
  <2>7. \A i \in Nat : i >= nextId' => i \notin docs' /\ \A x \in Vocabulary : <<i, x>> \notin posts'
    BY <2>1, <2>2, <2>3, <2>4 DEF WordsInv, RowsInv
  <2>8. ASSUME NEW f \in Entities, index'[f] # None
        PROVE  /\ index'[f] \in docs'
               /\ \A x \in Vocabulary : <<index'[f], x>> \in posts' <=> x \in FtsWords(f, body'[f])
    <3>1. f # e /\ index'[f] = index[f] /\ index[f] # index[e]
      BY <2>1, <2>4, <2>8 DEF WordsInv, RowsInv, IndexedIsLive
    <3>2. QED
      BY <2>1, <2>2, <2>3, <2>4, <2>8, <3>1 DEF WordsInv
  <2>9. QED
    BY <1>0, <2>4, <2>5, <2>6, <2>7, <2>8 DEF WordsInv
<1>4. ASSUME NEW c \in Callers, NEW e \in Entities, Undo(c, e)
      PROVE  WordsInv'
  <2> DEFINE P == posts \cup ({nextId} \X FtsWords(e, body[e]))
             D == docs \cup {nextId}
             G == UpdateTrigger([posts |-> P, docs |-> D], nextId, e, body[e], body[e])
  <2>1. index[e] = None /\ nextId \in Nat /\ nextId # None /\ body[e] \in SUBSET Words
    BY <1>4 DEF Undo, WordsInv, RowsInv, IndexedIsLive, None
  <2>2. /\ G.docs = D \cup {nextId}
        /\ \A q : q \in G.posts <=> \/ q \in {nextId} \X FtsWords(e, body[e])
                                    \/ q \in P /\ q \notin {nextId} \X FtsWords(e, body[e])
    <3> DEFINE F == [posts |-> P, docs |-> D]
    <3> HIDE DEF P, D
    <3>0. F.posts = P /\ F.docs = D
      OBVIOUS
    <3> HIDE DEF F
    <3>1. /\ UpdateTrigger(F, nextId, e, body[e], body[e]).docs = F.docs \cup {nextId}
          /\ \A q : q \in UpdateTrigger(F, nextId, e, body[e], body[e]).posts
                    <=> \/ q \in {nextId} \X FtsWords(e, body[e])
                        \/ q \in F.posts /\ q \notin {nextId} \X FtsWords(e, body[e])
      BY <2>1, TriggerWords
    <3>2. G = UpdateTrigger(F, nextId, e, body[e], body[e])
      BY DEF F
    <3> HIDE DEF G
    <3>3. QED
      BY <3>0, <3>1, <3>2
  <2>3. FtsInsert(Fts, nextId, FtsWords(e, body[e])) = [posts |-> P, docs |-> D]
    BY <2>1 DEF FtsInsert, Fts
  <2>4. posts' = G.posts /\ docs' = G.docs
    BY <1>4, <2>3 DEF Undo, SetFts
  <2> HIDE DEF G
  <2>5. /\ index' = [index EXCEPT ![e] = nextId] /\ nextId' = nextId + 1 /\ UNCHANGED body
    BY <1>4 DEF Undo
  <2>6. WritesAreToRows'
    BY <1>0, <1>4, <2>1, <2>5 DEF Undo, Rereads, WordsInv, WritesAreToRows, RowsInv
  <2>7. posts' \subseteq Nat \X Vocabulary /\ docs' \subseteq Nat
    BY <2>1, <2>2, <2>4 DEF WordsInv, FtsWords, Vocabulary
  <2>8. \A i \in Nat : i >= nextId' => i \notin docs' /\ \A x \in Vocabulary : <<i, x>> \notin posts'
    BY <2>1, <2>2, <2>4, <2>5 DEF WordsInv, RowsInv
  <2>9. ASSUME NEW f \in Entities, index'[f] # None
        PROVE  /\ index'[f] \in docs'
               /\ \A x \in Vocabulary : <<index'[f], x>> \in posts' <=> x \in FtsWords(f, body'[f])
    <3>1. CASE f = e
      <4>1. index'[f] = nextId
        BY <2>5, <3>1 DEF WordsInv, RowsInv
      <4>2. \A x \in Vocabulary : <<nextId, x>> \notin posts
        BY <2>1 DEF WordsInv
      <4>3. \A x \in Vocabulary : <<nextId, x>> \in posts' <=> x \in FtsWords(e, body[e])
        BY <2>2, <2>4, <4>2
      <4>4. QED
        BY <2>2, <2>4, <2>5, <3>1, <4>1, <4>3
    <3>2. CASE f # e
      <4>1. index'[f] = index[f] /\ index[f] # nextId
        BY <2>1, <2>5, <3>2 DEF WordsInv, RowsInv
      <4>2. QED
        BY <2>1, <2>2, <2>4, <2>5, <2>9, <4>1 DEF WordsInv
    <3>3. QED
      BY <3>1, <3>2
  <2>10. QED
    BY <1>0, <2>5, <2>6, <2>7, <2>8, <2>9 DEF WordsInv
<1>5. ASSUME NEW c \in Callers, NEW e \in Entities, NEW w \in Words,
             NEW mode \in {"overwrite", "append"}, UpdateRead(c, e, w, mode)
      PROVE  WordsInv'
  <2>1. UNCHANGED <<state, body, index, nextId, posts, docs>>
    BY <1>5 DEF UpdateRead, fts
  <2>2. index[e] # None /\ "update" \in may /\ body[e] \subseteq Words
    BY <1>5 DEF UpdateRead, WordsInv, RowsInv, IndexedIsLive
  <2>3. \A d \in Callers : call'[d] = IF d = c THEN [step |-> "write", ent |-> e, mode |-> mode,
                 word |-> w, text |-> IF mode = "append" THEN body[e] \cup {w} ELSE {w}] ELSE call[d]
    BY <1>5 DEF UpdateRead, WordsInv, WritesAreToRows
  <2>4. DOMAIN call' = Callers
    BY <1>5 DEF UpdateRead, WordsInv, WritesAreToRows
  <2>5. WritesAreToRows'
    BY <1>0, <2>1, <2>2, <2>3, <2>4 DEF WordsInv, WritesAreToRows
  <2>6. QED
    BY <1>0, <2>1, <2>5 DEF WordsInv
<1>6. ASSUME NEW c \in Callers, Gather(c) \/ Lookup(c) \/ Store(c)
      PROVE  WordsInv'
  <2>1. UNCHANGED <<state, body, index, nextId, posts, docs>>
    BY <1>6 DEF Gather, Lookup, Store, fts
  <2>2. WritesAreToRows'
    BY <1>0, <1>6, <2>1 DEF Gather, Lookup, Store, Embeds, Ends, Idle, WordsInv, WritesAreToRows
  <2>3. QED
    BY <1>0, <2>1, <2>2 DEF WordsInv
<1>7. CASE UNCHANGED <<state, body, index, nextId, posts, docs, call>>
  BY <1>0, <1>7 DEF WordsInv, WritesAreToRows
<1>8. ASSUME NEW c \in Callers, NEW e \in Entities, NEW w \in Words, ImportUpdate(c, e, w)
      PROVE  FALSE
  BY <1>8 DEF ImportUpdate, Quiet
<1>9. CASE BackfillRead \/ BackfillChunk
  BY <1>7, <1>9 DEF BackfillRead, BackfillChunk, fts
<1>10. QED
  BY <1>1, <1>2, <1>3, <1>4, <1>5, <1>6, <1>7, <1>8, <1>9 DEF Next, vars

\* What a search finds under an entity's row are the words of that entity as it
\* now is, for callers that overlap in any way but the two Quiet excludes.
THEOREM HitsAlwaysTrue == Spec => [](Quiet => HitsAreTrue)
<1> DEFINE Inv == Quiet => WordsInv
<1>1. Inv /\ [Next]_vars => Inv'
  BY MayStays, WordsStep DEF Quiet
<1>2. Init => Inv
  BY WordsInit
<1>3. Inv => (Quiet => HitsAreTrue)
  BY WordsGiveHits
<1> HIDE DEF Inv
<1>4. QED
  BY <1>1, <1>2, <1>3, PTL DEF Spec

-----------------------------------------------------------------------------
\* With no decision that has a title of its own, every step takes out of FTS5
\* all it put in.
LEMMA OrphansStep ==
  Quiet /\ "title" \notin may /\ WordsInv /\ NoOrphanWords /\ [Next]_vars => NoOrphanWords'
<1> SUFFICES ASSUME Quiet, "title" \notin may, WordsInv, NoOrphanWords, [Next]_vars
             PROVE  NoOrphanWords'
  OBVIOUS
<1>a. index \in [Entities -> Nat] /\ IndexedIsLive
  BY DEF WordsInv, RowsInv
<1>1. ASSUME NEW c \in Callers, NEW e \in Entities, NEW w \in Words, Add(c, e, w)
      PROVE  NoOrphanWords'
  <2>1. /\ index[e] = None /\ index' = [index EXCEPT ![e] = nextId]
        /\ nextId \in Nat /\ nextId # None
    BY <1>1 DEF Add, WordsInv, RowsInv, IndexedIsLive, None
  <2>2. /\ posts' = posts \cup ({nextId} \X FtsWords(e, {w}))
        /\ docs' = docs \cup {nextId}
    BY <1>1, <2>1 DEF Add, SetFts, Fts, FtsInsert
  <2>3. Ids' = Ids \cup {nextId}
    BY <1>a, <2>1 DEF Ids
  <2>4. QED
    BY <2>2, <2>3 DEF NoOrphanWords
<1>2. ASSUME NEW c \in Callers, UpdateWrite(c)
      PROVE  NoOrphanWords'
  <2> DEFINE e == call[c].ent
             new == call[c].text
             G == UpdateTrigger(Fts, index[e], e, body[e], new)
  <2>1. e \in Entities /\ index[e] # None
    BY <1>2 DEF UpdateWrite, WordsInv, WritesAreToRows
  <2>2. /\ G.docs = docs \cup {index[e]}
        /\ \A q : q \in G.posts <=> \/ q \in {index[e]} \X FtsWords(e, new)
                                    \/ q \in posts /\ q \notin {index[e]} \X FtsWords(e, body[e])
    <3> HIDE DEF e, new
    <3>1. /\ UpdateTrigger(Fts, index[e], e, body[e], new).docs = Fts.docs \cup {index[e]}
          /\ \A q : q \in UpdateTrigger(Fts, index[e], e, body[e], new).posts
                    <=> \/ q \in {index[e]} \X FtsWords(e, new)
                        \/ q \in Fts.posts /\ q \notin {index[e]} \X FtsWords(e, body[e])
      BY <2>1, TriggerWords
    <3>2. QED
      BY <3>1, FtsFields
  <2>3. \A q \in G.posts : q \in posts \/ q[1] = index[e]
    <3> HIDE DEF G
    <3>1. QED
      BY <2>2
  <2>4. posts' = G.posts /\ docs' = G.docs /\ Ids' = Ids
    BY <1>2 DEF UpdateWrite, SetFts, Ids
  <2>5. index[e] \in Ids
    BY <2>1 DEF Ids
  <2> HIDE DEF G
  <2>6. QED
    BY <2>2, <2>3, <2>4, <2>5 DEF NoOrphanWords
<1>3. ASSUME NEW c \in Callers, NEW e \in Entities, Retract(c, e)
      PROVE  NoOrphanWords'
  <2> DEFINE G == UpdateTrigger(Fts, index[e], e, body[e], body[e])
  <2>1. index[e] # None /\ body[e] \in SUBSET Words /\ index' = [index EXCEPT ![e] = None]
    BY <1>3 DEF Retract, WordsInv, RowsInv, IndexedIsLive
  <2>2. /\ G.docs = docs \cup {index[e]}
        /\ \A q : q \in G.posts <=> \/ q \in {index[e]} \X FtsWords(e, body[e])
                                    \/ q \in posts /\ q \notin {index[e]} \X FtsWords(e, body[e])
    <3>1. /\ UpdateTrigger(Fts, index[e], e, body[e], body[e]).docs = Fts.docs \cup {index[e]}
          /\ \A q : q \in UpdateTrigger(Fts, index[e], e, body[e], body[e]).posts
                    <=> \/ q \in {index[e]} \X FtsWords(e, body[e])
                        \/ q \in Fts.posts /\ q \notin {index[e]} \X FtsWords(e, body[e])
      BY <2>1, TriggerWords
    <3>2. QED
      BY <3>1, FtsFields
  <2>3. DisplayTitle(e) \cup body[e] = FtsWords(e, body[e])
    BY DEF DisplayTitle, FtsWords
  <2>4. /\ posts' = G.posts \ ({index[e]} \X FtsWords(e, body[e]))
        /\ docs' = G.docs \ {index[e]}
    BY <1>3, <2>1, <2>3 DEF Retract, SetFts, DeleteEntry, FtsDelete
  <2> HIDE DEF G
  <2>5. Ids' = Ids \ {index[e]}
    BY <1>a, <2>1 DEF Ids, IndexedIsLive
  <2>6. ASSUME NEW p \in posts, p[1] = index[e]
        PROVE  p \in {index[e]} \X FtsWords(e, body[e])
    <3>1. p = <<index[e], p[2]>> /\ p[2] \in Vocabulary
      BY <2>6 DEF WordsInv
    <3>2. p[2] \in FtsWords(e, body[e])
      BY <2>1, <3>1 DEF WordsInv
    <3>3. QED
      BY <3>1, <3>2
  <2>7. \A p \in posts' : p \in posts /\ p[1] # index[e]
    BY <2>2, <2>4, <2>6
  <2>8. QED
    BY <2>2, <2>4, <2>5, <2>7 DEF NoOrphanWords
<1>4. ASSUME NEW c \in Callers, NEW e \in Entities, Undo(c, e)
      PROVE  NoOrphanWords'
  <2> DEFINE P == posts \cup ({nextId} \X FtsWords(e, body[e]))
             D == docs \cup {nextId}
             G == UpdateTrigger([posts |-> P, docs |-> D], nextId, e, body[e], body[e])
  <2>1. /\ index[e] = None /\ nextId \in Nat /\ nextId # None
        /\ index' = [index EXCEPT ![e] = nextId]
    BY <1>4 DEF Undo, WordsInv, RowsInv, IndexedIsLive, None
  <2>2. /\ G.docs = D \cup {nextId}
        /\ \A q : q \in G.posts <=> \/ q \in {nextId} \X FtsWords(e, body[e])
                                    \/ q \in P /\ q \notin {nextId} \X FtsWords(e, body[e])
    <3> DEFINE F == [posts |-> P, docs |-> D]
    <3> HIDE DEF P, D
    <3>0. F.posts = P /\ F.docs = D
      OBVIOUS
    <3> HIDE DEF F
    <3>1. /\ UpdateTrigger(F, nextId, e, body[e], body[e]).docs = F.docs \cup {nextId}
          /\ \A q : q \in UpdateTrigger(F, nextId, e, body[e], body[e]).posts
                    <=> \/ q \in {nextId} \X FtsWords(e, body[e])
                        \/ q \in F.posts /\ q \notin {nextId} \X FtsWords(e, body[e])
      BY <2>1, TriggerWords
    <3>2. G = UpdateTrigger(F, nextId, e, body[e], body[e])
      BY DEF F
    <3> HIDE DEF G
    <3>3. QED
      BY <3>0, <3>1, <3>2
  <2>3. \A q \in G.posts : q \in P \/ q[1] = nextId
    <3> HIDE DEF G, P, D
    <3>1. QED
      BY <2>2
  <2>4. FtsInsert(Fts, nextId, FtsWords(e, body[e])) = [posts |-> P, docs |-> D]
    BY <2>1 DEF FtsInsert, Fts
  <2>5. posts' = G.posts /\ docs' = G.docs
    BY <1>4, <2>4 DEF Undo, SetFts
  <2> HIDE DEF G
  <2>6. Ids' = Ids \cup {nextId}
    BY <1>a, <2>1 DEF Ids
  <2>7. QED
    BY <2>2, <2>3, <2>5, <2>6 DEF NoOrphanWords
<1>5. CASE UNCHANGED <<index, posts, docs>>
  BY <1>5 DEF NoOrphanWords, Ids
<1>6. ASSUME NEW c \in Callers, NEW e \in Entities, NEW w \in Words, ImportUpdate(c, e, w)
      PROVE  FALSE
  BY <1>6 DEF ImportUpdate, Quiet
<1>7. QED
  BY <1>1, <1>2, <1>3, <1>4, <1>5, <1>6
     DEF Next, vars, fts, UpdateRead, Gather, Lookup, Store, BackfillRead, BackfillChunk

\* FTS5 keeps nothing of what was taken out of search_index, under the same
\* conditions and where no decision has a title of its own.
THEOREM NoWordLeftBehind == Spec => [](Quiet /\ "title" \notin may => NoOrphanWords)
<1> DEFINE Inv == Quiet /\ "title" \notin may => WordsInv /\ NoOrphanWords
<1>1. Inv /\ [Next]_vars => Inv'
  BY MayStays, WordsStep, OrphansStep DEF Quiet
<1>2. Init => Inv
  BY WordsInit DEF Init, NoOrphanWords
<1> HIDE DEF Quiet
<1>3. Inv => (Quiet /\ "title" \notin may => NoOrphanWords)
  OBVIOUS
<1> HIDE DEF Inv
<1>4. QED
  BY <1>1, <1>2, <1>3, PTL DEF Spec

-----------------------------------------------------------------------------
\* One call at a time: a call under way is alone, and what it has read is so still.
Alone == \A c, d \in Callers : ~IsIdle(c) /\ ~IsIdle(d) => c = d

\* What a call c knows, when b and i are the bodies and the rows of the entities.
Knows(c, b, i) ==
    /\ c.step = "write" =>
          /\ i[c.ent] # None
          /\ c.text = IF c.mode = "append" THEN b[c.ent] \cup {c.word} ELSE {c.word}
    /\ c.step = "lookup" => c.text = b[c.ent]
    /\ c.step = "store" => \E e \in Entities : i[e] = c.id /\ b[e] = c.text

SInv ==
    /\ RowsInv
    /\ call \in [Callers -> CallType]
    /\ body \in [Entities -> Texts] /\ appended \in [Entities -> Texts]
    /\ Alone
    /\ \A c \in Callers : Knows(call[c], body, index)
    /\ \A e \in Entities : state[e] = "none" => appended[e] = {}
    /\ AppendsKept

\* What a call record holds, by the step it is at.
LEMMA CallFields ==
    ASSUME NEW c \in CallType
    PROVE  /\ c.step = "idle" => c = Idle
           /\ c.step = "write" => /\ c.ent \in Entities /\ c.word \in Words /\ c.text \in Texts
                                  /\ c.mode \in {"overwrite", "append"}
           /\ c.step = "gather" => c.ent \in Entities
           /\ c.step = "lookup" => c.ent \in Entities /\ c.text \in Texts
           /\ c.step = "store" => c.id \in Nat \ {0} /\ c.text \in Texts
  BY DEF CallType, Idle

\* The step of a call that is under way alone, or starts: it becomes r.
LEMMA CallBecomes ==
    ASSUME SInv, NEW c \in Callers, NEW r \in CallType, call' = [call EXCEPT ![c] = r],
           ~IsIdle(c) \/ \A d \in Callers : IsIdle(d),
           RowsInv', body' \in [Entities -> Texts], appended' \in [Entities -> Texts],
           Knows(r, body', index')
    PROVE  /\ call' \in [Callers -> CallType] /\ Alone'
           /\ \A d \in Callers : Knows(call'[d], body', index')
<1>1. /\ call' \in [Callers -> CallType] /\ call'[c] = r
      /\ \A d \in Callers : d # c => call'[d].step = "idle"
  BY DEF SInv, Alone, IsIdle
<1>2. \A d \in Callers : d # c => Knows(call'[d], body', index')
  BY <1>1 DEF Knows
<1>. QED  BY <1>1, <1>2 DEF Alone, IsIdle

LEMMA SerialStep == "overlap" \notin may /\ SInv /\ [Next]_vars => SInv'
<1> SUFFICES ASSUME "overlap" \notin may, SInv, [Next]_vars PROVE SInv'
  OBVIOUS
<1>0. RowsInv /\ RowsInv' /\ index \in [Entities -> Nat] /\ state \in [Entities -> {"none", "live", "retracted"}]
  BY RowsStep DEF SInv, RowsInv
<1>1. ASSUME NEW c \in Callers, NEW e \in Entities, NEW w \in Words, Add(c, e, w) PROVE SInv'
  <2>1. /\ \A d \in Callers : IsIdle(d)
        /\ call' = [call EXCEPT ![c] = [step |-> "lookup", ent |-> e, text |-> {w}]]
        /\ state[e] = "none" /\ state' = [state EXCEPT ![e] = "live"]
        /\ body' = [body EXCEPT ![e] = {w}] /\ UNCHANGED appended
    BY <1>1 DEF Add, MayStart, Embeds
  <2>2. [step |-> "lookup", ent |-> e, text |-> {w}] \in CallType
    BY DEF CallType, Texts
  <2>3. body' \in [Entities -> Texts] /\ body'[e] = {w}
    BY <2>1 DEF SInv, Texts
  <2>4. Knows([step |-> "lookup", ent |-> e, text |-> {w}], body', index')
    BY <2>3 DEF Knows
  <2>5. \A f \in Entities : /\ state'[f] = "none" => appended'[f] = {}
                            /\ appended'[f] \subseteq body'[f]
    BY <1>0, <2>1 DEF SInv, AppendsKept
  <2>. QED  BY <1>0, <2>1, <2>2, <2>3, <2>4, <2>5, CallBecomes DEF SInv, AppendsKept
<1>2. ASSUME NEW c \in Callers, NEW e \in Entities, NEW w \in Words,
             NEW mode \in {"overwrite", "append"}, UpdateRead(c, e, w, mode)
      PROVE  SInv'
  <2> DEFINE text == IF mode = "append" THEN body[e] \cup {w} ELSE {w}
             r == [step |-> "write", ent |-> e, mode |-> mode, word |-> w, text |-> text]
  <2>1. /\ \A d \in Callers : IsIdle(d)
        /\ call' = [call EXCEPT ![c] = r] /\ UNCHANGED <<state, body, index, appended>>
        /\ state[e] = "live"
    BY <1>2 DEF UpdateRead, MayStart
  <2>2. text \in Texts
    BY DEF SInv, Texts
  <2> HIDE DEF text
  <2>3. r \in CallType /\ r.step = "write" /\ r.ent = e /\ r.mode = mode /\ r.word = w /\ r.text = text
    BY <2>2 DEF CallType
  <2>4. Knows(r, body', index')
    <3>1. index[e] # None
      BY <1>0, <2>1 DEF RowsInv, IndexedIsLive
    <3> HIDE DEF r
    <3>. QED  BY <2>1, <2>3, <3>1 DEF Knows, text
  <2> HIDE DEF r
  <2>5. body' \in [Entities -> Texts] /\ appended' \in [Entities -> Texts]
    BY <2>1 DEF SInv
  <2>6. AppendsKept' /\ \A f \in Entities : state'[f] = "none" => appended'[f] = {}
    BY <2>1 DEF SInv, AppendsKept
  <2>. QED  BY <1>0, <2>1, <2>3, <2>4, <2>5, <2>6, CallBecomes DEF SInv
<1>3. ASSUME NEW c \in Callers, UpdateWrite(c) PROVE SInv'
  <2> DEFINE k == call[c]
             e == k.ent
             r == [step |-> "gather", ent |-> e]
  <2>1. /\ k \in CallType /\ k.step = "write" /\ ~IsIdle(c)
        /\ call' = [call EXCEPT ![c] = r] /\ UNCHANGED <<state, index>>
        /\ body' = [body EXCEPT ![e] = k.text]
        /\ appended' = [appended EXCEPT ![e] = IF k.mode = "append" THEN @ \cup {k.word} ELSE {}]
    BY <1>3 DEF UpdateWrite, SInv, IsIdle, Rereads
  <2>2. /\ e \in Entities /\ k.word \in Words /\ k.text \in Texts
        /\ k.text = IF k.mode = "append" THEN body[e] \cup {k.word} ELSE {k.word}
        /\ index[e] # None
    BY <2>1, CallFields DEF SInv, Knows
  <2> HIDE DEF k, e
  <2>3. r \in CallType /\ Knows(r, body', index')
    BY <2>2 DEF CallType, Knows
  <2>4. body' \in [Entities -> Texts] /\ appended' \in [Entities -> Texts]
    BY <2>1, <2>2 DEF SInv, Texts
  <2>5. \A f \in Entities : appended'[f] \subseteq body'[f]
    BY <2>1, <2>2 DEF SInv, AppendsKept
  <2>6. state[e] = "live"
    BY <1>0, <2>1, <2>2 DEF RowsInv, IndexedIsLive
  <2>7. \A f \in Entities : state'[f] = "none" => appended'[f] = {}
    BY <2>1, <2>2, <2>6 DEF SInv
  <2> HIDE DEF r
  <2>. QED  BY <1>0, <2>1, <2>3, <2>4, <2>5, <2>7, CallBecomes DEF SInv, AppendsKept
<1>4. ASSUME NEW c \in Callers, NEW e \in Entities, NEW w \in Words, ImportUpdate(c, e, w) PROVE SInv'
  <2> DEFINE r == [step |-> "lookup", ent |-> e, text |-> {w}]
  <2>1. /\ \A d \in Callers : IsIdle(d)
        /\ call' = [call EXCEPT ![c] = r] /\ UNCHANGED state
        /\ body' = [body EXCEPT ![e] = {w}] /\ appended' = [appended EXCEPT ![e] = {}]
    BY <1>4 DEF ImportUpdate, MayStart, Embeds
  <2>2. /\ body' \in [Entities -> Texts] /\ body'[e] = {w}
        /\ appended' \in [Entities -> Texts]
    BY <2>1 DEF SInv, Texts
  <2>3. r \in CallType /\ Knows(r, body', index')
    BY <2>2 DEF CallType, Texts, Knows
  <2>4. \A f \in Entities : /\ state'[f] = "none" => appended'[f] = {}
                            /\ appended'[f] \subseteq body'[f]
    BY <2>1 DEF SInv, AppendsKept
  <2> HIDE DEF r
  <2>. QED  BY <1>0, <2>1, <2>2, <2>3, <2>4, CallBecomes DEF SInv, AppendsKept
<1>5. ASSUME NEW c \in Callers, NEW e \in Entities, Retract(c, e) PROVE SInv'
  <2>1. /\ \A d \in Callers : IsIdle(d)
        /\ state' = [state EXCEPT ![e] = "retracted"]
        /\ UNCHANGED <<call, body, appended>>
    BY <1>5 DEF Retract, MayStart
  <2>2. \A d \in Callers : Knows(call'[d], body', index')
    BY <2>1 DEF Knows, IsIdle
  <2>3. Alone' /\ AppendsKept' /\ \A f \in Entities : state'[f] = "none" => appended'[f] = {}
    BY <1>0, <2>1 DEF SInv, Alone, IsIdle, AppendsKept
  <2>. QED  BY <1>0, <2>1, <2>2, <2>3 DEF SInv
<1>6. ASSUME NEW c \in Callers, NEW e \in Entities, Undo(c, e) PROVE SInv'
  <2> DEFINE r == [step |-> "gather", ent |-> e]
  <2>1. /\ \A d \in Callers : IsIdle(d)
        /\ call' = [call EXCEPT ![c] = r]
        /\ state' = [state EXCEPT ![e] = "live"]
        /\ UNCHANGED <<body, appended>>
    BY <1>6 DEF Undo, MayStart, Rereads
  <2>2. r \in CallType /\ Knows(r, body', index')
    BY DEF CallType, Knows
  <2>3. AppendsKept' /\ \A f \in Entities : state'[f] = "none" => appended'[f] = {}
    BY <1>0, <2>1 DEF SInv, AppendsKept
  <2> HIDE DEF r
  <2>. QED  BY <1>0, <2>1, <2>2, <2>3, CallBecomes DEF SInv
<1>7. ASSUME NEW c \in Callers, Gather(c) \/ Lookup(c) \/ Store(c) PROVE SInv'
  <2>1. ~IsIdle(c) /\ call[c] \in CallType /\ UNCHANGED <<state, body, index, appended>>
    BY <1>7 DEF Gather, Lookup, Store, IsIdle, SInv
  <2>2. PICK r \in CallType : call' = [call EXCEPT ![c] = r] /\ Knows(r, body', index')
    <3>1. CASE Gather(c)
      <4> DEFINE r == [step |-> "lookup", ent |-> call[c].ent, text |-> body[call[c].ent]]
      <4>1. call' = [call EXCEPT ![c] = r] /\ call[c].ent \in Entities
        BY <2>1, <3>1, CallFields DEF Gather, Embeds
      <4>2. r \in CallType /\ Knows(r, body', index')
        BY <2>1, <4>1 DEF CallType, Knows, SInv
      <4> HIDE DEF r
      <4>. QED  BY <4>1, <4>2
    <3>2. CASE Ends(c)
      <4>1. Idle \in CallType /\ Knows(Idle, body', index')
        BY DEF CallType, Idle, Knows
      <4>. QED  BY <3>2, <4>1 DEF Ends
    <3>3. CASE Lookup(c) /\ ~Ends(c)
      <4> DEFINE e == call[c].ent
                 r == [step |-> "store", id |-> index[e], text |-> call[c].text]
      <4>1. /\ call' = [call EXCEPT ![c] = r] /\ index[e] # None
            /\ e \in Entities /\ call[c].text \in Texts
        BY <2>1, <3>3, CallFields DEF Lookup
      <4>2. call[c].text = body[e]
        BY <3>3 DEF Lookup, SInv, Knows
      <4> HIDE DEF e
      <4>3. index[e] \in Nat \ {0}
        BY <1>0, <4>1 DEF None
      <4>4. r \in CallType /\ r.step = "store" /\ r.id = index[e] /\ r.text = call[c].text
        BY <4>1, <4>3 DEF CallType
      <4> HIDE DEF r
      <4>5. Knows(r, body', index')
        BY <2>1, <4>1, <4>2, <4>4 DEF Knows
      <4>. QED  BY <4>1, <4>4, <4>5
    <3>. QED  BY <1>7, <3>1, <3>2, <3>3 DEF Store
  <2>3. AppendsKept' /\ \A f \in Entities : state'[f] = "none" => appended'[f] = {}
    BY <2>1 DEF SInv, AppendsKept
  <2>4. body' \in [Entities -> Texts] /\ appended' \in [Entities -> Texts]
    BY <2>1 DEF SInv
  <2>. QED  BY <1>0, <2>1, <2>2, <2>3, <2>4, CallBecomes DEF SInv
<1>8. CASE UNCHANGED <<state, body, index, call, appended>>
  BY <1>0, <1>8 DEF SInv, Alone, IsIdle, Knows, AppendsKept
<1>. QED
  BY <1>1, <1>2, <1>3, <1>4, <1>5, <1>6, <1>7, <1>8 DEF Next, vars, BackfillRead, BackfillChunk

LEMMA SerialInit == Init => SInv
<1> SUFFICES ASSUME Init PROVE SInv
  OBVIOUS
<1>1. call \in [Callers -> CallType] /\ \A c \in Callers : call[c] = Idle
  BY DEF Init, CallType
<1>2. body \in [Entities -> Texts] /\ appended \in [Entities -> Texts] /\ AppendsKept
  BY DEF Init, Texts, AppendsKept
<1>. QED  BY <1>1, <1>2, RowsInit DEF Init, SInv, Alone, IsIdle, Idle, Knows

-----------------------------------------------------------------------------
\* The call c will bring the embedding of row id to the text of its entity.
Refreshes(c, i, id) ==
    \/ c.step \in {"gather", "lookup"} /\ i[c.ent] = id
    \/ c.step = "store" /\ c.id = id

\* Embeddings belong to rows, and one of a text that has changed is to be replaced.
Renewed ==
    \A e \in Entities, v \in vec : v[1] = index[e] =>
       v[2] = body[e] \/ \E c \in Callers : Refreshes(call[c], index, index[e])

EInv ==
    /\ fill = {}
    /\ NoOrphanEmbeddings
    /\ "down" \in may \/ Renewed

\* Before a call starts, and after the last has ended, there is nothing to renew.
LEMMA AllCurrent ==
    ASSUME Renewed, NEW e \in Entities, NEW v \in vec, v[1] = index[e],
           \A c \in Callers : ~Refreshes(call[c], index, index[e])
    PROVE  v[2] = body[e]
  BY DEF Renewed

LEMMA IdleRefreshesNothing ==
    ASSUME NEW c, c.step \in {"idle", "write"}, NEW i, NEW id
    PROVE  ~Refreshes(c, i, id)
  BY DEF Refreshes

\* A new row gets an id that no embedding has.
LEMMA RowAdded ==
    ASSUME SInv, SInv', EInv, \A c \in Callers : IsIdle(c), NEW e \in Entities, index[e] = None,
           index' = [index EXCEPT ![e] = nextId], UNCHANGED <<vec, fill, may>>,
           \A f \in Entities : f # e => body'[f] = body[f]
    PROVE  EInv'
<1>1. /\ index \in [Entities -> Nat] /\ nextId \in Nat \ {0} /\ \A f \in Entities : index[f] < nextId
  BY DEF SInv, RowsInv
<1>2. Ids' = Ids \cup {nextId} /\ nextId \notin Ids
  BY <1>1 DEF Ids, None
<1>3. NoOrphanEmbeddings'
  BY <1>2 DEF EInv, NoOrphanEmbeddings
<1>4. ASSUME Renewed PROVE Renewed'
  <2> SUFFICES ASSUME NEW f \in Entities, NEW v \in vec, v[1] = index'[f] PROVE v[2] = body'[f]
    BY DEF Renewed
  <2>1. f # e /\ v[1] = index[f]
    BY <1>1, <1>2 DEF EInv, NoOrphanEmbeddings
  <2>2. v[2] = body[f]
    BY <1>4, <2>1, AllCurrent, IdleRefreshesNothing DEF IsIdle
  <2>. QED  BY <2>1, <2>2
<1>. QED  BY <1>3, <1>4 DEF EInv

\* A call that has changed a text is to renew the embedding.
LEMMA TextChanged ==
    ASSUME SInv, EInv, NEW c \in Callers, NEW e \in Entities,
           NEW b \in Texts, NEW r \in CallType, r.step \in {"gather", "lookup"}, r.ent = e,
           call[c].step = "write" \/ \A d \in Callers : IsIdle(d),
           call' = [call EXCEPT ![c] = r], body' = [body EXCEPT ![e] = b],
           UNCHANGED <<index, vec, fill, may>>
    PROVE  EInv'
<1>1. call'[c] = r /\ \A f \in Entities : f # e => body'[f] = body[f]
  BY DEF SInv
<1>2. \A d \in Callers : call[d].step \in {"idle", "write"}
  BY DEF SInv, Alone, IsIdle
<1>3. ASSUME Renewed PROVE Renewed'
  <2> SUFFICES ASSUME NEW f \in Entities, NEW v \in vec, v[1] = index[f], f # e PROVE v[2] = body[f]
    BY <1>1 DEF Renewed, Refreshes
  <2>. QED  BY <1>2, <1>3, AllCurrent, IdleRefreshesNothing
<1>. QED  BY <1>3 DEF EInv, NoOrphanEmbeddings, Ids

LEMMA EmbeddingStep == "overlap" \notin may /\ "backfill" \notin may /\ SInv /\ SInv' /\ EInv /\ [Next]_vars => EInv'
<1> SUFFICES ASSUME "overlap" \notin may, "backfill" \notin may, SInv, SInv', EInv, [Next]_vars PROVE EInv'
  OBVIOUS
<1>0. /\ IndexedIsLive /\ index \in [Entities -> Nat] /\ nextId \in Nat \ {0}
      /\ \A e \in Entities : index[e] < nextId
      /\ body \in [Entities -> Texts] /\ call \in [Callers -> CallType]
  BY DEF SInv, RowsInv
<1>a. fill = {} /\ NoOrphanEmbeddings /\ may' = may
  BY MayStays DEF EInv
<1>b. ASSUME NEW c \in Callers, ~IsIdle(c), NEW d \in Callers, d # c PROVE call[d] = Idle
  BY <1>0, <1>b, CallFields DEF SInv, Alone, IsIdle
<1>1. ASSUME NEW c \in Callers, NEW e \in Entities, NEW w \in Words, Add(c, e, w) PROVE EInv'
  BY <1>a, <1>0, <1>1, RowAdded DEF Add, MayStart, IndexedIsLive
<1>2. ASSUME NEW c \in Callers, NEW e \in Entities, Undo(c, e) PROVE EInv'
  BY <1>a, <1>0, <1>2, RowAdded DEF Undo, MayStart, IndexedIsLive
<1>3. ASSUME NEW c \in Callers, NEW e \in Entities, Retract(c, e) PROVE EInv'
  <2>1. /\ index' = [index EXCEPT ![e] = None] /\ vec' = {v \in vec : v[1] # index[e]}
        /\ UNCHANGED <<body, call, fill, may>> /\ \A d \in Callers : IsIdle(d)
        /\ index[e] # None
    BY <1>a, <1>0, <1>3 DEF Retract, MayStart, IndexedIsLive
  <2>2. Ids' = Ids \ {index[e]}
    BY <1>0, <2>1 DEF Ids, IndexedIsLive
  <2>3. NoOrphanEmbeddings'
    BY <1>a, <2>1, <2>2 DEF NoOrphanEmbeddings
  <2>4. ASSUME Renewed PROVE Renewed'
    <3> SUFFICES ASSUME NEW f \in Entities, NEW v \in vec', v[1] = index'[f] PROVE v[2] = body[f]
      BY <2>1 DEF Renewed
    <3>1. v \in vec /\ v[1] # None
      BY <2>1, <2>3 DEF NoOrphanEmbeddings, Ids
    <3>2. v[1] = index[f]
      BY <1>0, <2>1, <3>1
    <3>. QED  BY <2>1, <2>4, <3>1, <3>2, AllCurrent, IdleRefreshesNothing DEF IsIdle
  <2>. QED  BY <1>a, <2>1, <2>3, <2>4 DEF EInv
<1>4. ASSUME NEW c \in Callers, NEW e \in Entities, NEW w \in Words,
             NEW mode \in {"overwrite", "append"}, UpdateRead(c, e, w, mode)
      PROVE  EInv'
  <2>1. UNCHANGED <<body, index, vec, fill, may>> /\ \A d \in Callers : IsIdle(d)
    BY <1>a, <1>4 DEF UpdateRead, MayStart
  <2>2. ASSUME Renewed PROVE Renewed'
    BY <2>1, <2>2, AllCurrent, IdleRefreshesNothing DEF Renewed, IsIdle
  <2>. QED  BY <2>1, <2>2 DEF EInv, NoOrphanEmbeddings, Ids
<1>6. ASSUME NEW c \in Callers, UpdateWrite(c) PROVE EInv'
  <2> DEFINE e == call[c].ent
             b == call[c].text
             r == [step |-> "gather", ent |-> e]
  <2>1. e \in Entities /\ b \in Texts /\ call[c].step = "write"
    BY <1>0, <1>6, CallFields DEF UpdateWrite
  <2>2. /\ call' = [call EXCEPT ![c] = r] /\ body' = [body EXCEPT ![e] = b]
        /\ UNCHANGED <<index, vec, fill, may>>
    BY <1>a, <1>6 DEF UpdateWrite, Rereads
  <2>3. r \in CallType /\ r.step \in {"gather", "lookup"} /\ r.ent = e
    BY <2>1 DEF CallType
  <2> HIDE DEF e, b, r
  <2>. QED  BY <2>1, <2>2, <2>3, TextChanged
<1>7. ASSUME NEW c \in Callers, NEW e \in Entities, NEW w \in Words, ImportUpdate(c, e, w) PROVE EInv'
  <2> DEFINE b == {w}
             r == [step |-> "lookup", ent |-> e, text |-> b]
  <2>1. b \in Texts /\ r \in CallType /\ r.step \in {"gather", "lookup"} /\ r.ent = e
    BY DEF CallType, Texts
  <2>2. /\ call' = [call EXCEPT ![c] = r] /\ body' = [body EXCEPT ![e] = b]
        /\ UNCHANGED <<index, vec, fill, may>> /\ \A d \in Callers : IsIdle(d)
    BY <1>a, <1>7 DEF ImportUpdate, Embeds, MayStart
  <2> HIDE DEF b, r
  <2>. QED  BY <2>1, <2>2, TextChanged
<1>8. ASSUME NEW c \in Callers, Gather(c) PROVE EInv'
  <2> DEFINE r == [step |-> "lookup", ent |-> call[c].ent, text |-> body[call[c].ent]]
  <2>1. r.step = "lookup" /\ r.ent = call[c].ent
    OBVIOUS
  <2>2. call' = [call EXCEPT ![c] = r] /\ UNCHANGED <<body, index, vec, fill, may>>
    BY <1>a, <1>8 DEF Gather, Embeds
  <2> HIDE DEF r
  <2>3. \A id : Refreshes(call[c], index, id) => Refreshes(call'[c], index', id)
    BY <1>0, <1>8, <2>1, <2>2 DEF Gather, Refreshes
  <2>4. Renewed => Renewed'
    BY <1>0, <2>2, <2>3 DEF Renewed
  <2>. QED  BY <2>2, <2>4 DEF EInv, NoOrphanEmbeddings, Ids
<1>9. ASSUME NEW c \in Callers, Lookup(c) PROVE EInv'
  <2>1. UNCHANGED <<body, index, vec, fill, may>> /\ call[c].step = "lookup"
    BY <1>a, <1>9 DEF Lookup
  <2>2. ASSUME "down" \notin may, NEW f \in Entities, NEW v \in vec, v[1] = index[f],
               Refreshes(call[c], index, index[f])
        PROVE  Refreshes(call'[c], index', index[f])
    <3>1. index[call[c].ent] = index[f] /\ index[f] # None
      BY <1>a, <2>1, <2>2 DEF Refreshes, NoOrphanEmbeddings, Ids
    <3> DEFINE r == [step |-> "store", id |-> index[f], text |-> call[c].text]
    <3>2. r.step = "store" /\ r.id = index[f]
      OBVIOUS
    <3>3. call' = [call EXCEPT ![c] = r]
      BY <1>9, <2>2, <3>1 DEF Lookup
    <3> HIDE DEF r
    <3>. QED  BY <1>0, <3>2, <3>3 DEF Refreshes
  <2>3. \A d \in Callers : d # c => call'[d] = call[d]
    BY <1>0, <1>9 DEF Lookup, Ends
  <2>4. "down" \notin may /\ Renewed => Renewed'
    BY <2>1, <2>2, <2>3 DEF Renewed
  <2>. QED  BY <2>1, <2>4 DEF EInv, NoOrphanEmbeddings, Ids
<1>10. ASSUME NEW c \in Callers, Store(c) PROVE EInv'
  <2>1. /\ vec' = {v \in vec : v[1] # call[c].id} \cup {<<call[c].id, call[c].text>>}
        /\ UNCHANGED <<body, index, fill, may>> /\ call[c].step = "store" /\ ~IsIdle(c)
    BY <1>a, <1>10 DEF Store, Upsert, IsIdle
  <2>2. PICK e \in Entities : index[e] = call[c].id /\ body[e] = call[c].text
    BY <2>1 DEF SInv, Knows
  <2>3. index[e] # None
    BY <1>0, <2>1, <2>2, CallFields DEF None
  <2>4. NoOrphanEmbeddings'
    BY <1>a, <2>1, <2>2, <2>3 DEF NoOrphanEmbeddings, Ids
  <2>5. ASSUME Renewed PROVE Renewed'
    <3> SUFFICES ASSUME NEW f \in Entities, NEW v \in vec', v[1] = index[f] PROVE v[2] = body[f]
      BY <2>1 DEF Renewed
    <3>1. CASE v = <<call[c].id, call[c].text>>
      BY <1>0, <2>2, <2>3, <3>1 DEF IndexedIsLive
    <3>2. CASE v \in vec /\ v[1] # call[c].id
      <4>1. \A d \in Callers : ~Refreshes(call[d], index, index[f])
        BY <1>b, <2>1, <3>2 DEF Refreshes, Idle
      <4>. QED  BY <2>5, <3>2, <4>1, AllCurrent
    <3>. QED  BY <2>1, <3>1, <3>2
  <2>. QED  BY <1>a, <2>1, <2>4, <2>5 DEF EInv
<1>11. CASE UNCHANGED <<body, index, vec, call, fill, may>>
  BY <1>11 DEF EInv, NoOrphanEmbeddings, Ids, Renewed
<1>12. ~BackfillRead /\ ~BackfillChunk
  BY <1>a DEF BackfillRead, BackfillChunk
<1>. QED
  BY <1>1, <1>2, <1>3, <1>4, <1>6, <1>7, <1>8, <1>9, <1>10, <1>11, <1>12 DEF Next, vars

\* What search finds is sound: it is true where no import and no racing update
\* interferes; and one call at a time the indexes hold nothing of what is gone,
\* embeddings are those of the texts, and what was appended is there.
THEOREM HitsAlwaysSound == Spec => []HitsAreSound
<1> DEFINE Serial == "overlap" \notin may => SInv
           Stored == {"overlap", "backfill"} \cap may = {} => EInv
<1>1. Init => Serial /\ Stored
  BY SerialInit DEF Init, EInv, NoOrphanEmbeddings, Renewed
<1>2. Serial /\ [Next]_vars => Serial'
  BY MayStays, SerialStep
<1>3. Serial /\ Serial' /\ Stored /\ [Next]_vars => Stored'
  BY MayStays, EmbeddingStep
<1>4. SInv => AppendsKept
  BY DEF SInv
<1>5. EInv => NoOrphanEmbeddings /\ ("down" \notin may => EmbeddingIsCurrent)
  BY AllCurrent, IdleRefreshesNothing DEF EInv, EmbeddingIsCurrent, IsIdle
<1>6. /\ Quiet => HitsAreTrue
      /\ Quiet /\ "title" \notin may => NoOrphanWords
      /\ Serial /\ Stored
      => HitsAreSound
  <2>1. {"import", "overlap", "title"} \cap may = {} => Quiet /\ "title" \notin may
    BY DEF Quiet
  <2>. QED  BY <1>4, <1>5, <2>1 DEF HitsAreSound
<1> HIDE DEF Serial, Stored
<1>. QED  BY <1>1, <1>2, <1>3, <1>6, HitsAlwaysTrue, NoWordLeftBehind, PTL DEF Spec

-----------------------------------------------------------------------------
\* Every non-empty set of natural numbers has a least element.
LEMMA LeastNumber ==
    ASSUME NEW T, T \subseteq Nat, T # {}
    PROVE  \E x \in T : \A y \in T : x <= y
<1> DEFINE R == OpToRel(<, Nat)
<1>1. IsWellFoundedOn(R, Nat)
  BY NatLessThanWellFounded
<1>2. \E x \in T : \A y \in T : ~(<<y, x>> \in R)
  <2> HIDE DEF R
  <2> QED BY <1>1, WFMin
<1>3. \A x, y \in T : <<y, x>> \notin R => x <= y
  BY DEF OpToRel
<1> QED BY <1>2, <1>3

LEMMA FunctionIsSequence ==
    ASSUME NEW S, NEW n \in Nat, NEW f \in [1 .. n -> S]
    PROVE  f \in Seq(S) /\ Len(f) = n
OBVIOUS

\* A sequence of the elements of a finite set, each once, has them all.
LEMMA ListFacts ==
    ASSUME NEW S, IsFiniteSet(S), NEW s \in SetToSeqs(S)
    PROVE  /\ s \in Seq(S) /\ DOMAIN s = 1 .. Len(s) /\ Len(s) \in Nat
           /\ Range(s) = S
           /\ \A q, r \in DOMAIN s : s[q] = s[r] => q = r
<1>1. PICK n \in Nat : n = Cardinality(S)
  BY FS_CardinalityType
<1>2. s \in [1 .. n -> S] /\ \A q, r \in 1 .. n : q # r => s[q] # s[r]
  BY <1>1 DEF SetToSeqs
<1>3. s \in Seq(S) /\ Len(s) = n
  BY <1>2, FunctionIsSequence
<1>4. s \in Injection(1 .. n, S)
  BY <1>2 DEF Injection, IsInjective
<1>5. Cardinality(1 .. n) = n
  BY <1>1, FS_Interval
<1>6. s \in Surjection(1 .. n, S)
  BY <1>1, <1>4, <1>5, FS_Injection
<1>7. Range(s) = S
  BY <1>2, <1>6 DEF Surjection, Range
<1> QED
  BY <1>2, <1>3, <1>7

-----------------------------------------------------------------------------
\* Where an item is in a list.
LEMMA PlaceFacts ==
    ASSUME NEW S, NEW s \in Seq(S), NEW i
    PROVE  /\ i \in Range(s) => /\ Place(s, i) \in 1 .. Len(s) /\ s[Place(s, i)] = i
                                /\ \A q \in 1 .. Place(s, i) - 1 : s[q] # i
           /\ i \notin Range(s) => Place(s, i) = Len(s) + 1
           /\ Len(s) \in Nat /\ Place(s, i) \in 1 .. Len(s) + 1
<1>1. DOMAIN s = 1 .. Len(s) /\ Len(s) \in Nat
  OBVIOUS
<1>2. ASSUME i \in Range(s)
      PROVE  /\ Place(s, i) \in 1 .. Len(s) /\ s[Place(s, i)] = i
             /\ \A q \in 1 .. Place(s, i) - 1 : s[q] # i
  <2> DEFINE T == {r \in 1 .. Len(s) : s[r] = i}
  <2>1. T # {} /\ T \subseteq Nat
    BY <1>1, <1>2 DEF Range
  <2>2. PICK m \in T : \A r \in T : m <= r
    <3> HIDE DEF T
    <3> QED BY <2>1, LeastNumber
  <2>3. m \in DOMAIN s /\ s[m] = i /\ \A q \in 1 .. m - 1 : s[q] # i
    BY <1>1, <2>2
  <2>4. Place(s, i) = CHOOSE r \in DOMAIN s : s[r] = i /\ \A q \in 1 .. r - 1 : s[q] # i
    BY <1>2 DEF Place
  <2> QED BY <1>1, <2>3, <2>4
<1>3. i \notin Range(s) => Place(s, i) = Len(s) + 1
  BY DEF Place
<1> QED
  BY <1>1, <1>2, <1>3

LEMMA FirstPlace ==
    ASSUME NEW S, NEW s \in Seq(S), NEW q \in 1 .. Len(s), \A p \in 1 .. q - 1 : s[p] # s[q]
    PROVE  Place(s, s[q]) = q
<1>1. s[q] \in Range(s)
  BY DEF Range
<1>2. /\ Place(s, s[q]) \in 1 .. Len(s) /\ s[Place(s, s[q])] = s[q]
      /\ \A p \in 1 .. Place(s, s[q]) - 1 : s[p] # s[q]
  BY <1>1, PlaceFacts
<1> QED
  BY <1>2

\* x comes before y in a list, if it is in it.
Ahead(s, x, y) ==
    Place(s, x) <= Place(s, y) /\ (x \in Range(s) => Place(s, x) < Place(s, y))

LEMMA NoLaterIsAhead ==
    ASSUME NEW S, NEW s \in Seq(S), NEW x, NEW y, x # y, Place(s, x) <= Place(s, y)
    PROVE  Ahead(s, x, y)
BY PlaceFacts DEF Ahead

LEMMA ConcatenatedPlace ==
    ASSUME NEW S, NEW s \in Seq(S), NEW t \in Seq(S), NEW i
    PROVE  /\ Range(s \o t) = Range(s) \union Range(t)
           /\ Place(s \o t, i) = IF i \in Range(s) THEN Place(s, i) ELSE Len(s) + Place(t, i)
<1>1. /\ s \o t \in Seq(S) /\ Len(s \o t) = Len(s) + Len(t)
      /\ Len(s) \in Nat /\ Len(t) \in Nat
      /\ \A r \in 1 .. Len(s) : (s \o t)[r] = s[r]
      /\ \A r \in 1 .. Len(t) : (s \o t)[Len(s) + r] = t[r]
      /\ \A r \in 1 .. Len(s) + Len(t) : r \in 1 .. Len(s) \/ r - Len(s) \in 1 .. Len(t)
  OBVIOUS
<1> DEFINE u == s \o t
<1> HIDE DEF u
<1>2. Range(u) = Range(s) \union Range(t)
  <2>1. ASSUME NEW r \in 1 .. Len(s) + Len(t)
        PROVE  u[r] \in Range(s) \union Range(t)
    <3>1. CASE r \in 1 .. Len(s)
      BY <1>1, <3>1 DEF u, Range
    <3>2. CASE r - Len(s) \in 1 .. Len(t)
      <4>1. u[Len(s) + (r - Len(s))] = t[r - Len(s)] /\ Len(s) + (r - Len(s)) = r
        BY <1>1, <3>2 DEF u
      <4> QED BY <3>2, <4>1 DEF Range
    <3> QED BY <1>1, <3>1, <3>2
  <2>2. DOMAIN u = 1 .. Len(s) + Len(t) /\ DOMAIN s = 1 .. Len(s) /\ DOMAIN t = 1 .. Len(t)
    BY <1>1 DEF u
  <2>3. \A r \in 1 .. Len(s) : r \in DOMAIN u /\ u[r] = s[r]
    BY <1>1, <2>2 DEF u
  <2>4. \A r \in 1 .. Len(t) : Len(s) + r \in DOMAIN u /\ u[Len(s) + r] = t[r]
    BY <1>1, <2>2 DEF u
  <2>5. Range(u) \subseteq Range(s) \union Range(t)
    BY <2>1, <2>2 DEF Range
  <2>6. Range(s) \subseteq Range(u)
    BY <2>2, <2>3 DEF Range
  <2>7. Range(t) \subseteq Range(u)
    BY <2>2, <2>4 DEF Range
  <2> QED BY <2>5, <2>6, <2>7
<1>3. CASE i \in Range(s)
  <2> DEFINE p == Place(s, i)
  <2>1. p \in 1 .. Len(s) /\ s[p] = i /\ \A q \in 1 .. p - 1 : s[q] # i
    BY <1>3, PlaceFacts
  <2> HIDE DEF p
  <2>2. p \in 1 .. Len(u) /\ u[p] = i /\ \A q \in 1 .. p - 1 : u[q] # i
    BY <1>1, <2>1 DEF u
  <2>3. Place(u, i) = p
    BY <1>1, <2>2, FirstPlace DEF u
  <2> QED BY <1>2, <1>3, <2>3 DEF u, p
<1>4. CASE i \notin Range(s) /\ i \in Range(t)
  <2> DEFINE p == Place(t, i)
  <2>1. p \in 1 .. Len(t) /\ t[p] = i /\ \A q \in 1 .. p - 1 : t[q] # i
    BY <1>4, PlaceFacts
  <2> HIDE DEF p
  <2>2. Len(s) + p \in 1 .. Len(u) /\ u[Len(s) + p] = i
    BY <1>1, <2>1 DEF u
  <2>3. ASSUME NEW q \in 1 .. Len(s) + p - 1 PROVE u[q] # i
    <3>1. CASE q \in 1 .. Len(s)
      <4>1. u[q] = s[q] /\ s[q] \in Range(s)
        BY <1>1, <3>1 DEF u, Range
      <4> QED BY <1>4, <4>1
    <3>2. CASE q \notin 1 .. Len(s)
      <4>1. q - Len(s) \in 1 .. p - 1 /\ q - Len(s) \in 1 .. Len(t) /\ Len(s) + (q - Len(s)) = q
        BY <1>1, <2>1, <3>2
      <4>2. u[Len(s) + (q - Len(s))] = t[q - Len(s)]
        BY <1>1, <4>1 DEF u
      <4> QED BY <2>1, <4>1, <4>2
    <3> QED BY <3>1, <3>2
  <2>4. Place(u, i) = Len(s) + p
    <3> DEFINE m == Len(s) + p
    <3>1. m \in 1 .. Len(u) /\ u[m] = i
      BY <2>2
    <3>2. ASSUME NEW q \in 1 .. m - 1 PROVE u[q] # i
      <4>1. q \in 1 .. Len(s) + p - 1
        BY <1>1, <2>1
      <4> HIDE DEF m
      <4> QED BY <2>3, <4>1
    <3>3. u \in Seq(S)
      BY <1>1 DEF u
    <3> HIDE DEF m
    <3>4. Place(u, u[m]) = m
      BY <3>1, <3>2, <3>3, FirstPlace
    <3> QED BY <3>1, <3>4 DEF m
  <2> QED BY <1>2, <1>4, <2>4 DEF u, p
<1>5. CASE i \notin Range(s) /\ i \notin Range(t)
  <2>1. Place(u, i) = Len(u) + 1 /\ Place(t, i) = Len(t) + 1
    BY <1>2, <1>5 DEF Place
  <2> QED BY <1>1, <1>2, <1>5, <2>1 DEF u
<1> QED
  BY <1>3, <1>4, <1>5

LEMMA AheadInBoth ==
    ASSUME NEW S, NEW s \in Seq(S), NEW t \in Seq(S), NEW x, NEW y, x # y,
           Ahead(s, x, y), Ahead(t, x, y)
    PROVE  Ahead(s \o t, x, y)
<1>1. /\ Range(s \o t) = Range(s) \union Range(t)
      /\ Place(s \o t, x) = IF x \in Range(s) THEN Place(s, x) ELSE Len(s) + Place(t, x)
      /\ Place(s \o t, y) = IF y \in Range(s) THEN Place(s, y) ELSE Len(s) + Place(t, y)
  BY ConcatenatedPlace
<1>2. /\ x \in Range(s) => Place(s, x) \in 1 .. Len(s)
      /\ y \in Range(s) => Place(s, y) \in 1 .. Len(s)
      /\ x \notin Range(s) => Place(s, x) = Len(s) + 1
      /\ y \notin Range(s) => Place(s, y) = Len(s) + 1
      /\ Len(s) \in Nat /\ Len(t) \in Nat
      /\ Place(t, x) \in 1 .. Len(t) + 1 /\ Place(t, y) \in 1 .. Len(t) + 1
  BY PlaceFacts
<1> QED
  BY <1>1, <1>2 DEF Ahead

-----------------------------------------------------------------------------
\* A stable sort puts what has the better score first, and of two equals the one
\* that was ahead.
LEMMA SortedFacts ==
    ASSUME NEW S, IsFiniteSet(S), NEW seq \in Seq(S), NEW score, NEW s \in Sorted(seq, score)
    PROVE  /\ s \in Seq(S) /\ DOMAIN s = 1 .. Len(s) /\ Len(s) \in Nat
           /\ Range(s) = Range(seq)
           /\ \A q, r \in DOMAIN s : s[q] = s[r] => q = r
<1>1. Range(seq) \subseteq S
  BY DEF Range
<1>2. IsFiniteSet(Range(seq))
  BY <1>1, FS_Subset
<1>3. s \in SetToSeqs(Range(seq))
  BY DEF Sorted
<1>4. /\ s \in Seq(Range(seq)) /\ DOMAIN s = 1 .. Len(s) /\ Len(s) \in Nat
      /\ Range(s) = Range(seq)
      /\ \A q, r \in DOMAIN s : s[q] = s[r] => q = r
  BY <1>2, <1>3, ListFacts
<1>5. s \in Seq(S)
  BY <1>1, <1>4
<1> QED
  BY <1>4, <1>5

LEMMA SortedOrder ==
    ASSUME NEW S, IsFiniteSet(S), NEW seq \in Seq(S), NEW score, NEW s \in Sorted(seq, score),
           NEW x \in Range(seq), NEW y \in Range(seq), x # y,
           score[x] \in Int, score[y] \in Int, score[x] >= score[y],
           Place(seq, x) < Place(seq, y)
    PROVE  Place(s, x) < Place(s, y)
<1>1. s \in Seq(S) /\ Range(s) = Range(seq)
  BY SortedFacts
<1> DEFINE q == Place(s, x)
           r == Place(s, y)
<1>2. q \in 1 .. Len(s) /\ s[q] = x /\ r \in 1 .. Len(s) /\ s[r] = y /\ Len(s) \in Nat
  BY <1>1, PlaceFacts
<1>3. Place(seq, x) \in Int /\ Place(seq, y) \in Int
  BY PlaceFacts
<1> HIDE DEF q, r
<1>4. q # r
  BY <1>2
<1>5. ASSUME r < q PROVE FALSE
  <2>1. r \in DOMAIN s /\ q \in DOMAIN s
    BY <1>1, <1>2
  <2>2. score[y] > score[x] \/ (score[y] = score[x] /\ Place(seq, y) < Place(seq, x))
    BY <1>2, <1>5, <2>1 DEF Sorted
  <2> QED BY <1>3, <2>2
<1> QED
  BY <1>2, <1>4, <1>5 DEF q, r

\* The best of a list, as they were.
LEMMA TakenFacts ==
    ASSUME NEW S, NEW s \in Seq(S), NEW n \in Nat
    PROVE  /\ Take(s, n) \in Seq(S) /\ Len(Take(s, n)) \in Nat
           /\ Range(Take(s, n)) \subseteq Range(s)
           /\ \A y \in Range(Take(s, n)), x \in Range(s) :
                 Place(s, x) < Place(s, y) =>
                    x \in Range(Take(s, n)) /\ Place(Take(s, n), x) < Place(Take(s, n), y)
<1> DEFINE m == Lesser(Len(s), n)
           k == Take(s, n)
<1>1. m \in Nat /\ m <= Len(s) /\ Len(s) \in Nat /\ DOMAIN s = 1 .. Len(s)
  BY DEF Lesser
<1>2. k = [r \in 1 .. m |-> s[r]]
  BY DEF Take
<1>3. k \in [1 .. m -> S]
  BY <1>1, <1>2
<1> HIDE DEF m, k
<1>4. k \in Seq(S) /\ Len(k) = m /\ DOMAIN k = 1 .. m
  BY <1>1, <1>3, FunctionIsSequence
<1>5. \A r \in 1 .. m : k[r] = s[r]
  BY <1>2
<1>6. Range(k) \subseteq Range(s)
  BY <1>1, <1>4, <1>5 DEF Range
<1>7. ASSUME NEW y \in Range(k) PROVE Place(k, y) = Place(s, y) /\ Place(s, y) \in 1 .. m
  <2> DEFINE p == Place(k, y)
  <2>1. p \in 1 .. m /\ k[p] = y /\ \A q \in 1 .. p - 1 : k[q] # y
    BY <1>4, PlaceFacts
  <2> HIDE DEF p
  <2>2. p \in 1 .. Len(s) /\ s[p] = y /\ \A q \in 1 .. p - 1 : s[q] # y
    BY <1>1, <1>5, <2>1
  <2>3. Place(s, y) = p
    BY <2>2, FirstPlace
  <2> QED BY <2>1, <2>3 DEF p
<1>8. ASSUME NEW y \in Range(k), NEW x \in Range(s), Place(s, x) < Place(s, y)
      PROVE  x \in Range(k) /\ Place(k, x) < Place(k, y)
  <2>1. Place(s, x) \in 1 .. Len(s) /\ s[Place(s, x)] = x
    BY PlaceFacts
  <2>2. Place(s, x) \in 1 .. m
    BY <1>1, <1>7, <1>8, <2>1
  <2>3. x \in Range(k)
    BY <1>4, <1>5, <2>1, <2>2 DEF Range
  <2> QED BY <1>7, <1>8, <2>3
<1> QED
  BY <1>1, <1>4, <1>6, <1>8 DEF k

-----------------------------------------------------------------------------
\* Whole-number division keeps the order.
LEMMA SmallerDivisor ==
    ASSUME NEW c \in Nat, NEW m \in Nat \ {0}, NEW n \in Nat \ {0}, m <= n
    PROVE  c \div n <= c \div m /\ c \div n \in Nat
<1> DEFINE a == c \div m
           b == c \div n
<1>1. a \in Int /\ b \in Int /\ m * a <= c /\ c < m * (a + 1) /\ n * b <= c /\ c < n * (b + 1)
  OBVIOUS
<1> HIDE DEF a, b
<1>2. b >= 0
  BY <1>1
<1>3. m * b <= n * b
  BY <1>1, <1>2
<1>4. m * b < m * (a + 1)
  <2>1. m * b \in Int /\ n * b \in Int /\ m * (a + 1) \in Int
    BY <1>1
  <2> QED BY <1>1, <1>3, <2>1
<1>5. b < a + 1
  BY <1>1, <1>4
<1> QED
  BY <1>1, <1>2, <1>5 DEF a, b

LEMMA PointsByPlace ==
    ASSUME NEW S, NEW list \in Seq(S), NEW x, NEW y, Place(list, x) <= Place(list, y)
    PROVE  Points(list, x) \in Nat /\ Points(list, y) \in Nat /\ Points(list, y) <= Points(list, x)
<1>1. \A i : /\ i \in Range(list) => Place(list, i) \in 1 .. Len(list)
             /\ i \notin Range(list) => Place(list, i) = Len(list) + 1
             /\ Len(list) \in Nat
  BY PlaceFacts
<1>2. y \in Range(list) => x \in Range(list)
  BY <1>1
<1>3. ASSUME NEW i \in Range(list)
      PROVE  RRF_K + Place(list, i) \in Nat \ {0} /\ Points(list, i) = 61000 \div (RRF_K + Place(list, i))
  BY <1>1 DEF RRF_K, Points
<1>4. \A i \in Range(list) : Points(list, i) \in Nat
  BY <1>3, SmallerDivisor
<1>5. \A i : i \notin Range(list) => Points(list, i) = 0
  BY DEF Points
<1>6. CASE y \in Range(list)
  <2>1. RRF_K + Place(list, x) <= RRF_K + Place(list, y)
    BY <1>1, <1>2, <1>6 DEF RRF_K
  <2>2. /\ RRF_K + Place(list, x) \in Nat \ {0} /\ Points(list, x) = 61000 \div (RRF_K + Place(list, x))
        /\ RRF_K + Place(list, y) \in Nat \ {0} /\ Points(list, y) = 61000 \div (RRF_K + Place(list, y))
    BY <1>2, <1>3, <1>6
  <2>3. 61000 \div (RRF_K + Place(list, y)) <= 61000 \div (RRF_K + Place(list, x))
    <3> DEFINE m == RRF_K + Place(list, x)
               n == RRF_K + Place(list, y)
               c == 61000
    <3>1. m \in Nat \ {0} /\ n \in Nat \ {0} /\ m <= n /\ c \in Nat
      BY <2>1, <2>2
    <3> HIDE DEF m, n, c
    <3>2. c \div n <= c \div m
      BY <3>1, SmallerDivisor
    <3> QED BY <3>2 DEF m, n, c
  <2> QED BY <1>2, <1>4, <1>6, <2>2, <2>3
<1>7. CASE y \notin Range(list)
  BY <1>4, <1>5, <1>7
<1> QED
  BY <1>6, <1>7

\* With any of the weights, fewer points in each list make fewer points in all.
LEMMA FewerPoints ==
    ASSUME NEW a, NEW b, (a = 10 /\ b = 10) \/ (a = 5 /\ b = 15) \/ (a = 8 /\ b = 12),
           NEW k \in Nat, NEW l \in Nat, NEW m \in Nat,
           NEW p \in Nat, NEW q \in Nat, NEW r \in Nat, p <= k, q <= l, r <= m
    PROVE  /\ 10 * (a * k + b * l + 5 * m) \in Nat /\ 10 * (a * p + b * q + 5 * r) \in Nat
           /\ 10 * (a * p + b * q + 5 * r) <= 10 * (a * k + b * l + 5 * m)
<1>1. CASE a = 10 /\ b = 10
  BY <1>1
<1>2. CASE a = 5 /\ b = 15
  BY <1>2
<1>3. CASE a = 8 /\ b = 12
  BY <1>3
<1> QED
  BY <1>1, <1>2, <1>3

\* What every list ranks no worse has no fewer points.
LEMMA MergedByPlace ==
    ASSUME NEW S, NEW byText \in Seq(S), NEW byVec \in Seq(S), NEW byTag \in Seq(S),
           NEW x \in Range(byText) \union Range(byVec) \union Range(byTag),
           NEW y \in Range(byText) \union Range(byVec) \union Range(byTag),
           \A list \in {byText, byVec, byTag} : Place(list, x) <= Place(list, y)
    PROVE  LET merged == Merged(byText, byVec, byTag)
           IN  merged[x] \in Nat /\ merged[y] \in Nat /\ merged[x] >= merged[y]
<1> DEFINE w == Weights(Len(byText), Len(byVec))
           full == w.fts + w.vec + (IF byTag = <<>> THEN 0 ELSE 5)
           Tally(i) == 10 * (w.fts * Points(byText, i) + w.vec * Points(byVec, i) + 5 * Points(byTag, i))
<1>1. w \in {[fts |-> 10, vec |-> 10], [fts |-> 5, vec |-> 15], [fts |-> 8, vec |-> 12]}
  BY DEF Weights
<1>2. \/ w.fts = 10 /\ w.vec = 10
      \/ w.fts = 5 /\ w.vec = 15
      \/ w.fts = 8 /\ w.vec = 12
  BY <1>1
<1> HIDE DEF w
<1>3. full = 20 \/ full = 25
  BY <1>2
<1>4. /\ Points(byText, x) \in Nat /\ Points(byText, y) \in Nat /\ Points(byText, y) <= Points(byText, x)
      /\ Points(byVec, x) \in Nat /\ Points(byVec, y) \in Nat /\ Points(byVec, y) <= Points(byVec, x)
      /\ Points(byTag, x) \in Nat /\ Points(byTag, y) \in Nat /\ Points(byTag, y) <= Points(byTag, x)
  BY PointsByPlace
<1>5. Tally(x) \in Nat /\ Tally(y) \in Nat /\ Tally(y) <= Tally(x)
  <2> DEFINE a == w.fts
             b == w.vec
  <2>1. (a = 10 /\ b = 10) \/ (a = 5 /\ b = 15) \/ (a = 8 /\ b = 12)
    BY <1>2
  <2> HIDE DEF a, b
  <2>2. /\ 10 * (a * Points(byText, x) + b * Points(byVec, x) + 5 * Points(byTag, x)) \in Nat
        /\ 10 * (a * Points(byText, y) + b * Points(byVec, y) + 5 * Points(byTag, y)) \in Nat
        /\ 10 * (a * Points(byText, y) + b * Points(byVec, y) + 5 * Points(byTag, y))
             <= 10 * (a * Points(byText, x) + b * Points(byVec, x) + 5 * Points(byTag, x))
    BY <1>4, <2>1, FewerPoints
  <2> QED BY <2>2 DEF a, b
<1>6. \A i \in {x, y} : Merged(byText, byVec, byTag)[i] = Tally(i) \div full
  BY DEF Merged, w
<1> HIDE DEF Tally, full
<1>7. /\ Tally(x) \div full \in Nat /\ Tally(y) \div full \in Nat
      /\ Tally(y) \div full <= Tally(x) \div full
  BY <1>3, <1>5
<1> QED
  BY <1>6, <1>7

-----------------------------------------------------------------------------
\* The lists a search may merge.
LEMMA ListsFacts ==
    ASSUME SearchRankingAssumption, asked \in Questions,
           NEW byText \in FtsLists, NEW byVec \in VecLists, NEW byTag \in TagLists
    PROVE  /\ byText \in Seq(Items) /\ byVec \in Seq(Items) /\ byTag \in Seq(Items)
           /\ Cardinality(asked.filter) <= 1 =>
                 \A i \in Range(byText) \union Range(byVec) \union Range(byTag) : asked.filter \subseteq labels[i]
<1>1. IsFiniteSet(Items) /\ IsFiniteSet(Labels)
  BY DEF SearchRankingAssumption
<1>2. ASSUME NEW S \in SUBSET Items, NEW s \in SetToSeqs(S)
      PROVE  s \in Seq(Items) /\ Range(s) = S
  <2>1. IsFiniteSet(S)
    BY <1>1, FS_Subset
  <2>2. s \in Seq(S) /\ Range(s) = S
    BY <2>1, ListFacts
  <2> QED BY <2>2
<1>3. <<>> \in Seq(Items) /\ Range(<<>>) = {}
  BY DEF Range
<1>4. byText \in Seq(Items) /\ \A i \in Range(byText) : asked.filter \subseteq labels[i]
  <2>1. CASE asked.long \/ (asked.mode = "or" /\ asked.server)
    <3>1. PICK S \in SUBSET Filtered(Items) : byText \in SetToSeqs(S)
      BY <2>1 DEF FtsLists
    <3> QED BY <1>2, <3>1 DEF Filtered
  <2>2. CASE ~(asked.long \/ (asked.mode = "or" /\ asked.server))
    BY <1>3, <2>2 DEF FtsLists
  <2> QED BY <2>1, <2>2
<1>5. byVec \in Seq(Items) /\ \A i \in Range(byVec) : asked.filter \subseteq labels[i]
  <2>1. CASE asked.server
    <3>1. PICK S \in Nearest : byVec \in SetToSeqs(Filtered(S))
      BY <2>1 DEF VecLists
    <3>2. Filtered(S) \in SUBSET Items
      BY DEF Nearest, Filtered
    <3> QED BY <1>2, <3>1, <3>2 DEF Filtered
  <2>2. CASE ~asked.server
    BY <1>3, <2>2 DEF VecLists
  <2> QED BY <2>1, <2>2
<1>6. FetchLimit \in Nat
  <2>1. asked.page \in Nat /\ Limit \in Nat /\ Multiplier \in Nat
    BY DEF Questions, SearchRankingAssumption
  <2>2. asked.page * Limit \in Nat
    BY <2>1
  <2>3. (asked.page * Limit + Limit) \in Nat
    BY <2>1, <2>2
  <2> QED BY <2>1, <2>3 DEF FetchLimit
<1>7. ASSUME NEW found \in SUBSET Items, byTag \in Latest(found)
      PROVE  byTag \in Seq(Items) /\ Range(byTag) \subseteq found
  <2>1. PICK s \in SetToSeqs(found) : byTag = Take(s, FetchLimit)
    BY <1>7 DEF Latest
  <2>2. s \in Seq(Items) /\ Range(s) = found
    BY <1>2
  <2> QED BY <1>6, <2>1, <2>2, TakenFacts
<1> DEFINE ids == IF asked.filter = {} THEN asked.like ELSE asked.like \intersect asked.filter
           found == {i \in Items : labels[i] \intersect ids # {}}
<1>8. byTag \in Seq(Items) /\ Range(byTag) \subseteq found
  BY <1>7 DEF TagLists
<1>9. ASSUME Cardinality(asked.filter) <= 1, NEW i \in Range(byTag) PROVE asked.filter \subseteq labels[i]
  <2>1. asked.filter \in SUBSET Labels /\ IsFiniteSet(asked.filter)
    BY <1>1, FS_Subset DEF Questions
  <2>2. Cardinality(asked.filter) = 0 \/ Cardinality(asked.filter) = 1
    BY <1>9, <2>1, FS_CardinalityType
  <2>3. CASE Cardinality(asked.filter) = 0
    BY <2>1, <2>3, FS_EmptySet
  <2>4. CASE Cardinality(asked.filter) = 1
    <3>1. PICK f : asked.filter = {f}
      BY <2>1, <2>4, FS_Singleton
    <3>2. labels[i] \intersect (asked.like \intersect {f}) # {}
      BY <1>8, <3>1
    <3> QED BY <3>1, <3>2
  <2> QED BY <2>2, <2>3, <2>4
<1> QED
  BY <1>4, <1>5, <1>8, <1>9

\* The merge, the cut and the two sorts keep what no list, no age and no demotion
\* ranks worse ahead, and every hit is in one of the lists.
LEMMA RankedFacts ==
    ASSUME SearchRankingAssumption, asked \in Questions,
           NEW byText \in Seq(Items), NEW byVec \in Seq(Items), NEW byTag \in Seq(Items),
           NEW all \in Ranked(byText, byVec, byTag)
    PROVE  /\ all \in Seq(Items) /\ DOMAIN all = 1 .. Len(all) /\ Len(all) \in Nat
           /\ \A q, r \in DOMAIN all : all[q] = all[r] => q = r
           /\ Range(all) \subseteq Range(byText) \union Range(byVec) \union Range(byTag)
           /\ \A y \in Range(all) : \A x \in (Range(byText) \union Range(byVec) \union Range(byTag)) \ {y} :
                 /\ \A list \in {byText, byVec, byTag} : Place(list, x) <= Place(list, y)
                 /\ x \in old => y \in old
                 /\ AllArchived(x) => AllArchived(y)
                 => x \in Range(all) /\ Place(all, x) < Place(all, y)
<1> DEFINE merged == Merged(byText, byVec, byTag)
           recent == [i \in DOMAIN merged |-> merged[i] * Recency(i)]
           final == [i \in DOMAIN merged |-> recent[i] * Demotion(i)]
           found == Range(byText) \union Range(byVec) \union Range(byTag)
           u == byText \o byVec \o byTag
<1>1. IsFiniteSet(Items)
  BY DEF SearchRankingAssumption
<1>2. FetchLimit \in Nat
  <2>1. asked.page \in Nat /\ Limit \in Nat /\ Multiplier \in Nat
    BY DEF Questions, SearchRankingAssumption
  <2>2. asked.page * Limit \in Nat
    BY <2>1
  <2>3. (asked.page * Limit + Limit) \in Nat
    BY <2>1, <2>2
  <2> QED BY <2>1, <2>3 DEF FetchLimit
<1>3. DOMAIN merged = found
  BY DEF Merged
<1>4. PICK one \in Sorted(u, merged) : all \in Reranked(Take(one, FetchLimit), merged)
  BY DEF Ranked
<1> DEFINE kept == Take(one, FetchLimit)
<1>5. PICK two \in Sorted(kept, recent) : all \in Sorted(two, final)
  BY <1>4 DEF Reranked
<1> HIDE DEF merged, recent, final, u
<1>6. byText \o byVec \in Seq(Items) /\ u \in Seq(Items)
  BY DEF u
<1>7. Range(u) = found
  <2> DEFINE both == byText \o byVec
  <2>1. Range(both) = Range(byText) \union Range(byVec)
    BY ConcatenatedPlace
  <2>2. both \in Seq(Items)
    OBVIOUS
  <2> HIDE DEF both
  <2>3. Range(both \o byTag) = Range(both) \union Range(byTag)
    BY <2>2, ConcatenatedPlace
  <2> QED BY <2>1, <2>3 DEF u, both
<1>8. one \in Seq(Items) /\ Range(one) = Range(u)
  BY <1>1, <1>6, SortedFacts
<1>9. /\ kept \in Seq(Items) /\ Range(kept) \subseteq Range(one)
      /\ \A y \in Range(kept), x \in Range(one) :
            Place(one, x) < Place(one, y) => x \in Range(kept) /\ Place(kept, x) < Place(kept, y)
  BY <1>2, <1>8, TakenFacts
<1> HIDE DEF kept
<1>10. two \in Seq(Items) /\ Range(two) = Range(kept)
  BY <1>1, <1>5, <1>9, SortedFacts
<1>11. /\ all \in Seq(Items) /\ DOMAIN all = 1 .. Len(all) /\ Len(all) \in Nat
       /\ Range(all) = Range(two)
       /\ \A q, r \in DOMAIN all : all[q] = all[r] => q = r
  BY <1>1, <1>5, <1>10, SortedFacts
<1>12. ASSUME NEW y \in Range(all), NEW x \in found \ {y},
              \A list \in {byText, byVec, byTag} : Place(list, x) <= Place(list, y),
              x \in old => y \in old, AllArchived(x) => AllArchived(y)
       PROVE  x \in Range(all) /\ Place(all, x) < Place(all, y)
  <2>1. y \in Range(u) /\ x \in Range(u) /\ x # y /\ y \in found /\ x \in found
    BY <1>7, <1>8, <1>9, <1>10, <1>11
  <2>2. Place(u, x) < Place(u, y)
    <3>1. Ahead(byText, x, y) /\ Ahead(byVec, x, y) /\ Ahead(byTag, x, y)
      BY <1>12, <2>1, NoLaterIsAhead
    <3>2. Ahead(byText \o byVec, x, y)
      BY <2>1, <3>1, AheadInBoth
    <3>3. Ahead((byText \o byVec) \o byTag, x, y)
      BY <1>6, <2>1, <3>1, <3>2, AheadInBoth
    <3> QED BY <2>1, <3>3 DEF Ahead, u
  <2>3. merged[x] \in Nat /\ merged[y] \in Nat /\ merged[x] >= merged[y]
    BY <1>12, <2>1, MergedByPlace DEF merged
  <2>4. recent[x] \in Nat /\ recent[y] \in Nat /\ recent[x] >= recent[y]
    <3>1. recent[x] = merged[x] * Recency(x) /\ recent[y] = merged[y] * Recency(y)
      BY <1>3, <2>1 DEF recent
    <3> QED BY <1>12, <2>3, <3>1 DEF Recency
  <2>5. final[x] \in Nat /\ final[y] \in Nat /\ final[x] >= final[y]
    <3>1. final[x] = recent[x] * Demotion(x) /\ final[y] = recent[y] * Demotion(y)
      BY <1>3, <2>1 DEF final
    <3> QED BY <1>12, <2>4, <3>1 DEF Demotion
  <2>6. Place(one, x) < Place(one, y)
    BY <1>1, <1>4, <1>6, <2>1, <2>2, <2>3, SortedOrder
  <2>7. y \in Range(kept) /\ x \in Range(kept) /\ Place(kept, x) < Place(kept, y)
    BY <1>8, <1>9, <1>10, <1>11, <1>12, <2>1, <2>6
  <2>8. Place(two, x) < Place(two, y) /\ x \in Range(two) /\ y \in Range(two)
    BY <1>1, <1>5, <1>9, <1>10, <2>1, <2>4, <2>7, SortedOrder
  <2>9. Place(all, x) < Place(all, y)
    BY <1>1, <1>5, <1>10, <2>1, <2>5, <2>8, SortedOrder
  <2> QED BY <1>11, <2>8, <2>9
<1> QED
  BY <1>7, <1>8, <1>9, <1>10, <1>11, <1>12

\* A page is cut out of what was ranked.
LEMMA PageFacts ==
    ASSUME SearchRankingAssumption, asked \in Questions, NEW S, NEW all \in Seq(S),
           \A q, r \in DOMAIN all : all[q] = all[r] => q = r
    PROVE  /\ \A i, j \in DOMAIN Page(all) : Page(all)[i] = Page(all)[j] => i = j
           /\ Range(Page(all)) \subseteq Range(all)
<1> DEFINE p == asked.page * Limit
           n == Lesser(Limit, Len(all) - p)
<1>1. p \in Nat /\ Limit \in Nat
  BY DEF Questions, SearchRankingAssumption
<1>2. Page(all) = [r \in 1 .. n |-> all[p + r]]
  BY DEF Page
<1> HIDE DEF p
<1>3. n \in Int /\ n <= Len(all) - p /\ Len(all) \in Nat /\ DOMAIN all = 1 .. Len(all)
  BY <1>1 DEF Lesser
<1> HIDE DEF n
<1>4. \A r \in 1 .. n : p + r \in DOMAIN all /\ Page(all)[r] = all[p + r]
  BY <1>1, <1>2, <1>3
<1>5. DOMAIN Page(all) = 1 .. n
  BY <1>2
<1>6. Range(Page(all)) \subseteq Range(all)
  BY <1>4, <1>5 DEF Range
<1>7. ASSUME NEW i \in 1 .. n, NEW j \in 1 .. n, Page(all)[i] = Page(all)[j] PROVE i = j
  <2>1. p + i = p + j
    BY <1>4, <1>7
  <2> QED BY <1>1, <1>3, <2>1
<1> QED
  BY <1>5, <1>6, <1>7

RankInv == asked \in Questions /\ AnswersAreRanked

LEMMA RankInitial ==
    RankInit => RankInv
BY DEF RankInit, RankInv, AnswersAreRanked, BetterComesFirst, HitsAreAskedFor, Answered, Unanswered

LEMMA RankStep ==
    SearchRankingAssumption /\ RankInv /\ [RankNext]_rankVars => RankInv'
<1> SUFFICES ASSUME SearchRankingAssumption, RankInv, [RankNext]_rankVars PROVE RankInv'
  OBVIOUS
<1> DEFINE Lists == {answer.fts, answer.vec, answer.tag}
<1>1. CASE UNCHANGED rankVars
  BY <1>1 DEF RankInv, rankVars, AnswersAreRanked, BetterComesFirst, HitsAreAskedFor, Answered,
       NoWorse, AllArchived
<1>2. CASE Search
  <2>1. asked \in Questions /\ UNCHANGED <<labels, archived, old, asked>>
    BY <1>2 DEF Search, RankInv
  <2>2. PICK byText \in FtsLists, byVec \in VecLists, byTag \in TagLists :
           IF ~asked.long /\ ~asked.server /\ byTag = <<>>
           THEN answer' = [Unanswered EXCEPT !.why = "too short"]
           ELSE \E all \in Ranked(byText, byVec, byTag) :
                   answer' = [fts |-> byText, vec |-> byVec, tag |-> byTag, all |-> all, hits |-> Page(all),
                              why |-> "found"]
    BY <1>2 DEF Search
  <2>3. CASE answer' = [Unanswered EXCEPT !.why = "too short"]
    BY <2>1, <2>3 DEF RankInv, AnswersAreRanked, BetterComesFirst, HitsAreAskedFor, Answered, Unanswered
  <2>4. CASE \E all \in Ranked(byText, byVec, byTag) :
               answer' = [fts |-> byText, vec |-> byVec, tag |-> byTag, all |-> all, hits |-> Page(all),
                          why |-> "found"]
    <3>1. PICK all \in Ranked(byText, byVec, byTag) :
             answer' = [fts |-> byText, vec |-> byVec, tag |-> byTag, all |-> all, hits |-> Page(all),
                        why |-> "found"]
      BY <2>4
    <3>2. /\ answer'.fts = byText /\ answer'.vec = byVec /\ answer'.tag = byTag
          /\ answer'.all = all /\ answer'.hits = Page(all)
      BY <3>1
    <3>3. /\ byText \in Seq(Items) /\ byVec \in Seq(Items) /\ byTag \in Seq(Items)
          /\ Cardinality(asked.filter) <= 1 =>
                \A i \in Range(byText) \union Range(byVec) \union Range(byTag) : asked.filter \subseteq labels[i]
      BY <2>1, ListsFacts
    <3>4. /\ all \in Seq(Items)
          /\ \A q, r \in DOMAIN all : all[q] = all[r] => q = r
          /\ Range(all) \subseteq Range(byText) \union Range(byVec) \union Range(byTag)
          /\ \A y \in Range(all) : \A x \in (Range(byText) \union Range(byVec) \union Range(byTag)) \ {y} :
                /\ \A list \in {byText, byVec, byTag} : Place(list, x) <= Place(list, y)
                /\ x \in old => y \in old
                /\ AllArchived(x) => AllArchived(y)
                => x \in Range(all) /\ Place(all, x) < Place(all, y)
      BY <2>1, <3>3, RankedFacts
    <3>5. /\ \A i, j \in DOMAIN Page(all) : Page(all)[i] = Page(all)[j] => i = j
          /\ Range(Page(all)) \subseteq Range(all)
      BY <2>1, <3>4, PageFacts
    <3>6. BetterComesFirst'
      <4> SUFFICES ASSUME NEW y \in Range(all), NEW x \in Items \ {y}, NoWorse(x, y)',
                          \E list \in {byText, byVec, byTag} : x \in Range(list)
                   PROVE  x \in Range(all) /\ Place(all, x) < Place(all, y)
        BY <3>2 DEF BetterComesFirst
      <4>1. /\ \A list \in {byText, byVec, byTag} : Place(list, x) <= Place(list, y)
            /\ x \in old => y \in old
            /\ AllArchived(x) => AllArchived(y)
        BY <2>1, <3>2 DEF NoWorse, AllArchived
      <4>2. x \in (Range(byText) \union Range(byVec) \union Range(byTag)) \ {y}
        OBVIOUS
      <4> QED BY <3>4, <4>1, <4>2
    <3>7. HitsAreAskedFor'
      <4>1. Cardinality(asked.filter) <= 1 => \A i \in Range(Page(all)) : asked.filter \subseteq labels[i]
        BY <3>3, <3>4, <3>5
      <4> QED BY <2>1, <3>2, <3>5, <4>1 DEF HitsAreAskedFor
    <3> QED BY <2>1, <3>6, <3>7 DEF RankInv, AnswersAreRanked
  <2> QED BY <2>2, <2>3, <2>4
<1> QED
  BY <1>1, <1>2 DEF RankNext

\* Whatever a library holds and a search asks, what is ranked no worse by every
\* list, is no older and no more archived comes first, no hit is there twice, and
\* the hits of a filter of one tag have it: the merge, its weights, the cut, the
\* boost and the demotion turn no order around (search_service.py, search).
THEOREM AnswersAlwaysRanked ==
    ASSUME SearchRankingAssumption
    PROVE  RankSpec => []AnswersAreRanked
<1>1. RankInit => RankInv
  BY RankInitial
<1>2. RankInv /\ [RankNext]_rankVars => RankInv'
  BY RankStep
<1>3. RankInv => AnswersAreRanked
  BY DEF RankInv
<1> QED
  BY <1>1, <1>2, <1>3, PTL DEF RankSpec

--------------------------------------------------------------------------------
\* The notes of a tag.

\* How many of a set are below a number tells its members apart, and keeps their
\* order.
LEMMA RankFacts ==
    ASSUME NEW P \in SUBSET Nat, IsFiniteSet(P)
    PROVE  /\ Cardinality(P) \in Nat
           /\ \A i \in P : Cardinality({j \in P : j < i}) \in 0 .. Cardinality(P) - 1
           /\ \A i, k \in P : i < k => Cardinality({j \in P : j < i}) < Cardinality({j \in P : j < k})
           /\ \A n \in 1 .. Cardinality(P) : \E i \in P : Cardinality({j \in P : j < i}) = n - 1
<1> DEFINE Below(i) == {j \in P : j < i}
           f == [i \in P |-> Cardinality(Below(i)) + 1]
<1>1. PICK c \in Nat : c = Cardinality(P)
  BY FS_CardinalityType
<1>2. ASSUME NEW i \in P
      PROVE  IsFiniteSet(Below(i)) /\ Cardinality(Below(i)) \in 0 .. c - 1
  <2>1. Below(i) \in SUBSET P /\ i \notin Below(i)
    OBVIOUS
  <2> HIDE DEF Below
  <2>2. IsFiniteSet(Below(i)) /\ Cardinality(Below(i)) <= c /\ Cardinality(Below(i)) # c
    BY <1>1, <2>1, FS_Subset
  <2> QED
    BY <1>1, <2>2, FS_CardinalityType
<1>3. ASSUME NEW i \in P, NEW k \in P, i < k
      PROVE  Cardinality(Below(i)) < Cardinality(Below(k))
  <2>1. Below(i) \union {i} \in SUBSET Below(k) /\ i \notin Below(i)
    <3>1. \A j \in P : j < i => j < k
      BY <1>3
    <3>2. ~(i < i)
      OBVIOUS
    <3> QED BY <1>3, <3>1, <3>2
  <2> HIDE DEF Below
  <2>2. Cardinality(Below(i) \union {i}) = Cardinality(Below(i)) + 1
    BY <1>2, <2>1, FS_AddElement
  <2>3. Cardinality(Below(i) \union {i}) <= Cardinality(Below(k))
    BY <1>2, <2>1, FS_Subset
  <2> QED
    BY <1>2, <2>2, <2>3
<1>4. f \in Injection(P, 1 .. c)
  <2>1. f \in [P -> 1 .. c]
    BY <1>1, <1>2
  <2>2. ASSUME NEW i \in P, NEW k \in P, f[i] = f[k]
        PROVE  i = k
    <3>1. Cardinality(Below(i)) = Cardinality(Below(k)) /\ Cardinality(Below(i)) \in Int
      BY <1>2, <2>2
    <3>2. ~(i < k) /\ ~(k < i)
      BY <1>3, <3>1
    <3> QED BY <3>2
  <2> HIDE DEF f
  <2> QED BY <2>1, <2>2 DEF Injection, IsInjective
<1>5. f \in Surjection(P, 1 .. c)
  <2> HIDE DEF f
  <2>1. IsFiniteSet(1 .. c) /\ Cardinality(1 .. c) = c
    BY FS_Interval
  <2> QED BY <1>1, <1>4, <2>1, FS_Injection
<1>6. \A n \in 1 .. c : \E i \in P : f[i] = n
  <2> HIDE DEF f
  <2> QED BY <1>5 DEF Surjection
<1>7. ASSUME NEW n \in 1 .. c
      PROVE  \E i \in P : Cardinality(Below(i)) = n - 1
  <2>1. PICK i \in P : f[i] = n
    BY <1>6
  <2>2. Cardinality(Below(i)) + 1 = n /\ Cardinality(Below(i)) \in Int
    BY <1>2, <2>1
  <2>3. Cardinality(Below(i)) = n - 1
    BY <2>2
  <2> HIDE DEF Below
  <2> QED BY <2>3
<1> QED
  BY <1>1, <1>2, <1>3, <1>7

\* LinesAt lists what is at the places, in their order.
LEMMA LinesAtFacts ==
    ASSUME NEW S, NEW ls \in Seq(S), NEW places \in SUBSET DOMAIN ls
    PROVE  \E at :
              /\ at \in [DOMAIN LinesAt(ls, places) -> places]
              /\ LinesAt(ls, places) \in Seq(S)
              /\ \A n \in DOMAIN LinesAt(ls, places) : LinesAt(ls, places)[n] = ls[at[n]]
              /\ \A m, n \in DOMAIN LinesAt(ls, places) : m < n => at[m] < at[n]
              /\ \A i \in places : \E n \in DOMAIN LinesAt(ls, places) : at[n] = i
<1> DEFINE Rank(i) == Cardinality({j \in places : j < i})
           at == [n \in 1 .. Cardinality(places) |-> CHOOSE i \in places : Rank(i) = n - 1]
<1>1. places \in SUBSET Nat /\ IsFiniteSet(places)
  <2>1. DOMAIN ls = 1 .. Len(ls) /\ Len(ls) \in Nat
    OBVIOUS
  <2>2. IsFiniteSet(1 .. Len(ls))
    BY <2>1, FS_Interval
  <2> QED BY <2>1, <2>2, FS_Subset
<1>2. /\ Cardinality(places) \in Nat
      /\ \A i \in places : Rank(i) \in 0 .. Cardinality(places) - 1
      /\ \A i, k \in places : i < k => Rank(i) < Rank(k)
      /\ \A n \in 1 .. Cardinality(places) : \E i \in places : Rank(i) = n - 1
  BY <1>1, RankFacts
<1>3. LinesAt(ls, places) = [n \in 1 .. Cardinality(places) |-> ls[CHOOSE i \in places : Rank(i) = n - 1]]
  BY DEF LinesAt
<1> HIDE DEF Rank
<1>4. at \in [1 .. Cardinality(places) -> places]
      /\ \A n \in 1 .. Cardinality(places) : Rank(at[n]) = n - 1
  BY <1>2
<1>5. LinesAt(ls, places) = [n \in 1 .. Cardinality(places) |-> ls[at[n]]]
  BY <1>3
<1> HIDE DEF at
<1>6. \A m, n \in 1 .. Cardinality(places) : m < n => at[m] < at[n]
  <2> SUFFICES ASSUME NEW m \in 1 .. Cardinality(places), NEW n \in 1 .. Cardinality(places),
                      m < n, ~(at[m] < at[n])
               PROVE  FALSE
    OBVIOUS
  <2>1. at[m] \in places /\ at[n] \in places /\ Rank(at[m]) = m - 1 /\ Rank(at[n]) = n - 1
    BY <1>4
  <2>2. at[n] < at[m] \/ at[n] = at[m]
    BY <1>1, <2>1
  <2>3. at[n] < at[m] => n - 1 < m - 1
    BY <1>2, <2>1
  <2> QED BY <1>2, <2>1, <2>2, <2>3
<1>7. \A i \in places : \E n \in 1 .. Cardinality(places) : at[n] = i
  <2> SUFFICES ASSUME NEW i \in places
               PROVE  at[Rank(i) + 1] = i /\ Rank(i) + 1 \in 1 .. Cardinality(places)
    OBVIOUS
  <2>1. Rank(i) + 1 \in 1 .. Cardinality(places) /\ Rank(i) \in Nat
    BY <1>2
  <2>2. at[Rank(i) + 1] \in places /\ Rank(at[Rank(i) + 1]) = Rank(i)
    BY <1>4, <2>1
  <2>3. ~(at[Rank(i) + 1] < i) /\ ~(i < at[Rank(i) + 1])
    BY <1>2, <2>1, <2>2
  <2> QED BY <1>1, <2>1, <2>2, <2>3
<1>8. LinesAt(ls, places) \in Seq(S)
  <2>1. \A n \in 1 .. Cardinality(places) : ls[at[n]] \in S
    BY <1>4
  <2> QED BY <1>2, <1>5, <2>1
<1>9. DOMAIN LinesAt(ls, places) = 1 .. Cardinality(places)
  BY <1>5
<1> QED
  BY <1>4, <1>5, <1>6, <1>7, <1>8, <1>9

\* ... and so nothing else.
LEMMA LinesAtRange ==
    ASSUME NEW S, NEW ls \in Seq(S), NEW places \in SUBSET DOMAIN ls
    PROVE  Range(LinesAt(ls, places)) = {ls[i] : i \in places}
<1> PICK at :
      /\ at \in [DOMAIN LinesAt(ls, places) -> places]
      /\ \A n \in DOMAIN LinesAt(ls, places) : LinesAt(ls, places)[n] = ls[at[n]]
      /\ \A i \in places : \E n \in DOMAIN LinesAt(ls, places) : at[n] = i
  BY LinesAtFacts
<1> QED BY DEF Range

-----------------------------------------------------------------------------
NoteKinds == {"bootstrap", "delta"}
Line ==
    {Head1(h) : h \in Heads \union {"index"}}
    \union {Pointer(h, m) : h \in Heads, m \in Archives}
    \union {Marker(kind, day) : kind \in NoteKinds, day \in Nat}

LEMMA LineFields ==
    /\ \A h : Head1(h).k = "head" /\ Head1(h).of = h
    /\ \A h, m : Pointer(h, m).k = "pointer" /\ Pointer(h, m).of = h /\ Pointer(h, m).to = m
    /\ \A h, d : Marker(h, d).k = "marker" /\ Marker(h, d).of = h /\ Marker(h, d).till = d
    /\ Index.k = "head" /\ Index.of = "index" /\ Index = Head1("index")
BY DEF Head1, Pointer, Marker, Index

LEMMA LineFacts ==
    ASSUME NEW l \in Line
    PROVE  /\ l.k \in {"head", "pointer", "marker"}
           /\ l.k = "head" => l = Head1(l.of) /\ l.of \in Heads \union {"index"}
           /\ l.k = "pointer" => l.of \in Heads /\ l.to \in Archives
           /\ l.k = "marker" => l.of \in NoteKinds /\ l.till \in Nat
<1>1. CASE \E h \in Heads \union {"index"} : l = Head1(h)
  BY <1>1, LineFields
<1>2. CASE \E h \in Heads, m \in Archives : l = Pointer(h, m)
  BY <1>2, LineFields
<1>3. CASE \E kind \in NoteKinds, day \in Nat : l = Marker(kind, day)
  BY <1>3, LineFields
<1> QED BY <1>1, <1>2, <1>3 DEF Line

LEMMA NewLines ==
    /\ \A h \in Heads \union {"index"} : Head1(h) \in Line
    /\ Index \in Line
    /\ \A h \in Heads, m \in Archives : Pointer(h, m) \in Line
    /\ \A kind \in NoteKinds, day \in Nat : Marker(kind, day) \in Line
BY DEF Line, Index

\* A text is its body and its trailer, which is of markers.
LEMMA LayersFacts ==
    ASSUME NEW ls \in Seq(Line)
    PROVE  /\ Body(ls) \in Seq(Line) /\ Trailer(ls) \in Seq(Line)
           /\ Len(Body(ls)) \in 0 .. Len(ls)
           /\ \A i \in DOMAIN Body(ls) : i \in DOMAIN ls /\ Body(ls)[i] = ls[i]
           /\ \A l \in Range(Trailer(ls)) : l.k = "marker"
           /\ Range(ls) = Range(Body(ls)) \union Range(Trailer(ls))
<1> DEFINE Tails == {i \in 1 .. Len(ls) + 1 : \A j \in i .. Len(ls) : IsMarker(ls[j])}
<1>1. Len(ls) \in Nat /\ DOMAIN ls = 1 .. Len(ls)
  OBVIOUS
<1>2. Tails \subseteq Nat /\ Tails # {}
  <2>1. Len(ls) + 1 \in Tails
    BY <1>1
  <2> QED BY <1>1, <2>1
<1>3. PICK s \in Tails : \A i \in Tails : s <= i
  <2> HIDE DEF Tails
  <2> QED BY <1>2, LeastNumber
<1>4. s = 1 \/ ~IsMarker(ls[s - 1])
  <2> SUFFICES ASSUME s # 1, IsMarker(ls[s - 1])
               PROVE  s - 1 \in Tails
    BY <1>3
  <2>1. \A j \in s - 1 .. Len(ls) : j = s - 1 \/ j \in s .. Len(ls)
    BY <1>1, <1>3
  <2> QED BY <1>1, <1>3, <2>1
<1>5. PICK t \in 1 .. Len(ls) + 1 : t = TrailerStart(ls) /\ \A j \in t .. Len(ls) : IsMarker(ls[j])
  BY <1>3, <1>4 DEF TrailerStart
<1>6. Body(ls) = SubSeq(ls, 1, t - 1) /\ Trailer(ls) = SubSeq(ls, t, Len(ls))
  BY <1>5 DEF Body, Trailer
<1>7. /\ Body(ls) \in Seq(Line) /\ Len(Body(ls)) = t - 1
      /\ \A i \in 1 .. t - 1 : Body(ls)[i] = ls[i]
  BY <1>1, <1>5, <1>6
<1>8. /\ Trailer(ls) \in Seq(Line) /\ Len(Trailer(ls)) = Len(ls) - t + 1
      /\ \A i \in 1 .. Len(ls) - t + 1 : Trailer(ls)[i] = ls[i + t - 1]
  BY <1>1, <1>5, <1>6
<1>9. DOMAIN Body(ls) = 1 .. t - 1 /\ DOMAIN Trailer(ls) = 1 .. Len(ls) - t + 1
  BY <1>1, <1>5, <1>7, <1>8
<1>10. ASSUME NEW i \in DOMAIN Trailer(ls)
       PROVE  Trailer(ls)[i].k = "marker"
  <2>1. i + t - 1 \in t .. Len(ls) /\ Trailer(ls)[i] = ls[i + t - 1]
    BY <1>1, <1>5, <1>8, <1>9
  <2> QED BY <1>5, <2>1 DEF IsMarker
<1>11. Range(ls) \subseteq Range(Body(ls)) \union Range(Trailer(ls))
  <2> SUFFICES ASSUME NEW i \in 1 .. Len(ls)
               PROVE  ls[i] \in Range(Body(ls)) \union Range(Trailer(ls))
    BY <1>1 DEF Range
  <2>1. CASE i < t
    BY <1>1, <1>5, <1>7, <1>9, <2>1 DEF Range
  <2>2. CASE i >= t
    <3>1. i - t + 1 \in 1 .. Len(ls) - t + 1 /\ i - t + 1 + t - 1 = i
      BY <1>1, <1>5, <2>2
    <3>2. Trailer(ls)[i - t + 1] = ls[i]
      BY <1>8, <3>1
    <3> QED BY <1>9, <3>1, <3>2 DEF Range
  <2> QED BY <1>5, <2>1, <2>2
<1>12. Range(Body(ls)) \subseteq Range(ls)
  BY <1>1, <1>5, <1>7, <1>9 DEF Range
<1>13. ASSUME NEW i \in DOMAIN Trailer(ls)
       PROVE  Trailer(ls)[i] \in Range(ls)
  <2>1. i \in 1 .. Len(ls) - t + 1
    BY <1>9
  <2>2. i + t - 1 \in 1 .. Len(ls)
    BY <1>1, <1>5, <2>1
  <2>3. Trailer(ls)[i] = ls[i + t - 1]
    BY <1>8, <2>1
  <2> QED BY <1>1, <2>2, <2>3 DEF Range
<1>14. (\A l \in Range(Trailer(ls)) : l.k = "marker") /\ Range(Trailer(ls)) \subseteq Range(ls)
  BY <1>10, <1>13 DEF Range
<1>15. \A i \in DOMAIN Body(ls) : i \in DOMAIN ls /\ Body(ls)[i] = ls[i]
  BY <1>1, <1>5, <1>7, <1>9
<1>16. Len(Body(ls)) \in 0 .. Len(ls)
  BY <1>1, <1>5, <1>7
<1> QED
  BY <1>7, <1>8, <1>11, <1>12, <1>14, <1>15, <1>16

-----------------------------------------------------------------------------
\* Every pointer stands under the heading of the index, with no other between.
Heading(ls, i) == ls[i].k = "head"
NoHeadBetween(ls, j, i) == \A n \in j + 1 .. i : ~Heading(ls, n)
Under(ls) ==
    \A i \in DOMAIN ls : ls[i].k = "pointer" =>
       \E j \in DOMAIN ls : j < i /\ ls[j] = Index /\ NoHeadBetween(ls, j, i)

\* The section a line is in is that of the last heading.
LEMMA SectionFacts ==
    ASSUME NEW ls \in Seq(Line), NEW i \in DOMAIN ls, NEW h, i \in Section(ls, h)
    PROVE  /\ Heading(ls, i) => ls[i] = Head1(h)
           /\ \A j \in DOMAIN ls : j <= i /\ ls[j] = Index /\ NoHeadBetween(ls, j, i) => h = "index"
<1>1. PICK j \in 1 .. i : ls[j] = Head1(h) /\ \A n \in j + 1 .. i : ~Heading(ls, n)
  BY DEF Section, Heading
<1>2. DOMAIN ls = 1 .. Len(ls) /\ Len(ls) \in Nat
  OBVIOUS
<1>3. Heading(ls, j)
  BY <1>1, LineFields DEF Heading
<1>4. ASSUME Heading(ls, i)
      PROVE  ls[i] = Head1(h)
  <2>1. ~(j < i)
    <3> SUFFICES ASSUME j < i
                 PROVE  i \in j + 1 .. i
      BY <1>1, <1>4
    <3> QED BY <1>1, <1>2
  <2> QED BY <1>1, <1>2, <2>1
<1>5. ASSUME NEW m \in DOMAIN ls, m <= i, ls[m] = Index, NoHeadBetween(ls, m, i)
      PROVE  h = "index"
  <2>1. Heading(ls, m)
    BY <1>5, LineFields DEF Heading
  <2>2. ~(m < j)
    <3>1. m < j => j \in m + 1 .. i
      BY <1>1, <1>2, <1>5
    <3> QED BY <1>3, <1>5, <3>1 DEF NoHeadBetween
  <2>3. ~(j < m)
    <3>1. j < m => m \in j + 1 .. i
      BY <1>1, <1>2, <1>5
    <3> QED BY <1>1, <2>1, <3>1
  <2>4. Head1(h) = Index
    BY <1>1, <1>2, <1>5, <2>2, <2>3
  <2> QED BY <2>4, LineFields
<1> QED BY <1>4, <1>5

\* A choice of lines that takes with each pointer what it stands under.
LEMMA UnderChoice ==
    ASSUME NEW ls \in Seq(Line), Under(ls), NEW places \in SUBSET DOMAIN ls,
           \A i \in places, j \in DOMAIN ls :
              ls[i].k = "pointer" /\ j < i /\ ls[j] = Index /\ NoHeadBetween(ls, j, i) => j \in places
    PROVE  Under(LinesAt(ls, places))
<1> DEFINE new == LinesAt(ls, places)
<1>1. PICK at :
         /\ at \in [DOMAIN new -> places]
         /\ new \in Seq(Line)
         /\ \A n \in DOMAIN new : new[n] = ls[at[n]]
         /\ \A m, n \in DOMAIN new : m < n => at[m] < at[n]
         /\ \A i \in places : \E n \in DOMAIN new : at[n] = i
  BY LinesAtFacts
<1> HIDE DEF new
<1>2. DOMAIN ls = 1 .. Len(ls) /\ Len(ls) \in Nat /\ DOMAIN new = 1 .. Len(new) /\ Len(new) \in Nat
  BY <1>1
<1>3. SUFFICES ASSUME NEW n \in DOMAIN new, new[n].k = "pointer"
               PROVE  \E m \in DOMAIN new : m < n /\ new[m] = Index /\ NoHeadBetween(new, m, n)
  BY DEF Under, new
<1>4. at[n] \in places /\ ls[at[n]].k = "pointer"
  BY <1>1, <1>3
<1>5. PICK j \in DOMAIN ls : j < at[n] /\ ls[j] = Index /\ NoHeadBetween(ls, j, at[n])
  BY <1>4 DEF Under
<1>6. PICK m \in DOMAIN new : at[m] = j
  BY <1>1, <1>4, <1>5
<1>7. m < n
  <2>1. ~(n < m) /\ m # n
    BY <1>1, <1>2, <1>4, <1>5, <1>6
  <2> QED BY <1>2, <2>1
<1>8. NoHeadBetween(new, m, n)
  <2> SUFFICES ASSUME NEW p \in m + 1 .. n
               PROVE  ~Heading(new, p)
    BY DEF NoHeadBetween
  <2>1. p \in DOMAIN new /\ m < p /\ (p < n \/ p = n)
    BY <1>2
  <2>2. at[p] \in places /\ j < at[p] /\ (at[p] < at[n] \/ at[p] = at[n])
    BY <1>1, <1>6, <2>1
  <2>3. at[p] \in j + 1 .. at[n]
    BY <1>2, <1>4, <2>2
  <2>4. ~Heading(ls, at[p])
    BY <1>5, <2>3 DEF NoHeadBetween
  <2> QED BY <1>1, <2>1, <2>4 DEF Heading
<1> QED BY <1>1, <1>5, <1>6, <1>7, <1>8

LEMMA ConcatFacts ==
    ASSUME NEW a \in Seq(Line), NEW b \in Seq(Line)
    PROVE  /\ a \o b \in Seq(Line)
           /\ Range(a \o b) = Range(a) \union Range(b)
<1>1. /\ a \o b \in Seq(Line) /\ Len(a \o b) = Len(a) + Len(b)
      /\ Len(a) \in Nat /\ Len(b) \in Nat
      /\ DOMAIN a = 1 .. Len(a) /\ DOMAIN b = 1 .. Len(b) /\ DOMAIN (a \o b) = 1 .. Len(a) + Len(b)
      /\ \A r \in 1 .. Len(a) : (a \o b)[r] = a[r]
      /\ \A r \in 1 .. Len(b) : (a \o b)[Len(a) + r] = b[r]
  OBVIOUS
<1> DEFINE u == a \o b
<1> HIDE DEF u
<1>2. ASSUME NEW r \in 1 .. Len(a) + Len(b)
      PROVE  u[r] \in Range(a) \union Range(b)
  <2>1. CASE r <= Len(a)
    <3>1. r \in DOMAIN a /\ u[r] = a[r]
      BY <1>1, <2>1 DEF u
    <3> QED BY <3>1 DEF Range
  <2>2. CASE r > Len(a)
    <3>1. r - Len(a) \in DOMAIN b /\ Len(a) + (r - Len(a)) = r
      BY <1>1, <2>2
    <3>2. u[r] = b[r - Len(a)]
      BY <1>1, <3>1 DEF u
    <3> QED BY <3>1, <3>2 DEF Range
  <2> QED BY <1>1, <2>1, <2>2
<1>3. ASSUME NEW r \in DOMAIN a
      PROVE  a[r] \in Range(u)
  <2>1. r \in DOMAIN u /\ u[r] = a[r]
    BY <1>1 DEF u
  <2> QED BY <2>1 DEF Range
<1>4. ASSUME NEW r \in DOMAIN b
      PROVE  b[r] \in Range(u)
  <2>1. Len(a) + r \in DOMAIN u /\ u[Len(a) + r] = b[r]
    BY <1>1 DEF u
  <2> QED BY <2>1 DEF Range
<1>5. Range(u) = Range(a) \union Range(b)
  <2>1. DOMAIN u = 1 .. Len(a) + Len(b)
    BY <1>1 DEF u
  <2>2. Range(u) \subseteq Range(a) \union Range(b)
    BY <1>2, <2>1 DEF Range
  <2>3. Range(a) \subseteq Range(u) /\ Range(b) \subseteq Range(u)
    BY <1>3, <1>4 DEF Range
  <2> QED BY <2>2, <2>3
<1> QED BY <1>1, <1>5 DEF u

LEMMA UnderConcat ==
    ASSUME NEW a \in Seq(Line), NEW b \in Seq(Line), Under(a), Under(b)
    PROVE  Under(a \o b)
<1>1. /\ a \o b \in Seq(Line) /\ Len(a \o b) = Len(a) + Len(b)
      /\ Len(a) \in Nat /\ Len(b) \in Nat
      /\ DOMAIN a = 1 .. Len(a) /\ DOMAIN b = 1 .. Len(b) /\ DOMAIN (a \o b) = 1 .. Len(a) + Len(b)
      /\ \A r \in 1 .. Len(a) : (a \o b)[r] = a[r]
      /\ \A r \in 1 .. Len(b) : (a \o b)[Len(a) + r] = b[r]
  OBVIOUS
<1> DEFINE u == a \o b
<1> HIDE DEF u
<1>2. SUFFICES ASSUME NEW i \in 1 .. Len(a) + Len(b), u[i].k = "pointer"
               PROVE  \E j \in 1 .. Len(a) + Len(b) : j < i /\ u[j] = Index /\ NoHeadBetween(u, j, i)
  BY <1>1 DEF Under, u
<1>3. CASE i <= Len(a)
  <2>1. i \in DOMAIN a /\ u[i] = a[i]
    BY <1>1, <1>3 DEF u
  <2>2. PICK j \in DOMAIN a : j < i /\ a[j] = Index /\ NoHeadBetween(a, j, i)
    BY <1>2, <2>1 DEF Under
  <2>3. \A n \in j + 1 .. i : n \in 1 .. Len(a)
    BY <1>1, <1>3, <2>2
  <2>4. NoHeadBetween(u, j, i)
    BY <1>1, <2>2, <2>3 DEF u, NoHeadBetween, Heading
  <2>5. j \in 1 .. Len(a) + Len(b) /\ u[j] = Index
    BY <1>1, <2>2 DEF u
  <2> QED BY <2>2, <2>4, <2>5
<1>4. CASE i > Len(a)
  <2>1. i - Len(a) \in DOMAIN b /\ Len(a) + (i - Len(a)) = i
    BY <1>1, <1>2, <1>4
  <2>2. u[i] = b[i - Len(a)]
    BY <1>1, <2>1 DEF u
  <2>3. PICK j \in DOMAIN b : j < i - Len(a) /\ b[j] = Index /\ NoHeadBetween(b, j, i - Len(a))
    BY <1>2, <2>1, <2>2 DEF Under
  <2>4. ASSUME NEW n \in Len(a) + j + 1 .. i
        PROVE  ~Heading(u, n)
    <3>1. n - Len(a) \in j + 1 .. i - Len(a) /\ n - Len(a) \in DOMAIN b /\ Len(a) + (n - Len(a)) = n
      BY <1>1, <1>2, <2>1, <2>3, <2>4
    <3>2. u[n] = b[n - Len(a)]
      BY <1>1, <3>1 DEF u
    <3> QED BY <2>3, <3>1, <3>2 DEF NoHeadBetween, Heading
  <2>5. NoHeadBetween(u, Len(a) + j, i)
    BY <2>4 DEF NoHeadBetween
  <2>6. Len(a) + j \in 1 .. Len(a) + Len(b) /\ Len(a) + j < i /\ u[Len(a) + j] = Index
    BY <1>1, <2>3, <2>1 DEF u
  <2> QED BY <2>5, <2>6
<1> QED BY <1>1, <1>2, <1>3, <1>4

\* What stays in a text without some sections.
LEMMA WithoutFacts ==
    ASSUME NEW ls \in Seq(Line), NEW hs
    PROVE  /\ Without(ls, hs) \in Seq(Line)
           /\ Range(Without(ls, hs)) \subseteq Range(ls)
           /\ \A i \in DOMAIN ls \ Positions(ls, hs) : ls[i] \in Range(Without(ls, hs))
           /\ \A h : h \notin hs /\ Head1(h) \in Range(ls) => Head1(h) \in Range(Without(ls, hs))
           /\ Under(ls) => Under(Without(ls, hs))
           /\ Under(ls) /\ "index" \notin hs =>
                 \A l \in Range(ls) : l.k = "pointer" => l \in Range(Without(ls, hs))
<1> DEFINE left == DOMAIN ls \ Positions(ls, hs)
<1>1. Without(ls, hs) = LinesAt(ls, left) /\ left \in SUBSET DOMAIN ls
  BY DEF Without
<1>2. LinesAt(ls, left) \in Seq(Line)
  <2> HIDE DEF left
  <2> QED BY <1>1, LinesAtFacts
<1>3. Range(LinesAt(ls, left)) = {ls[i] : i \in left}
  <2> HIDE DEF left
  <2> QED BY <1>1, LinesAtRange
<1>4. Range(LinesAt(ls, left)) \subseteq Range(ls)
  BY <1>3 DEF Range
<1>5. ASSUME NEW i \in DOMAIN ls, Heading(ls, i), \A h \in hs : ls[i] # Head1(h)
      PROVE  i \in left
  BY <1>5, SectionFacts DEF Positions
<1>6. ASSUME NEW h, h \notin hs, Head1(h) \in Range(ls)
      PROVE  Head1(h) \in Range(LinesAt(ls, left))
  <2>1. PICK i \in DOMAIN ls : ls[i] = Head1(h)
    BY <1>6 DEF Range
  <2>2. Heading(ls, i) /\ \A g \in hs : ls[i] # Head1(g)
    BY <1>6, <2>1, LineFields DEF Heading
  <2> QED BY <1>3, <1>5, <2>1, <2>2
<1>7. ASSUME "index" \notin hs, NEW i \in DOMAIN ls, NEW j \in DOMAIN ls,
             j <= i, ls[j] = Index, NoHeadBetween(ls, j, i)
      PROVE  i \in left
  BY <1>7, SectionFacts DEF Positions
<1>8. ASSUME "index" \in hs, NEW i \in DOMAIN ls, NEW j \in DOMAIN ls,
             j <= i, ls[j] = Index, NoHeadBetween(ls, j, i)
      PROVE  i \notin left
  <2>1. j \in 1 .. i
    BY <1>8
  <2>2. i \in Section(ls, "index")
    BY <1>8, <2>1, LineFields DEF Section, NoHeadBetween, Heading
  <2> QED BY <1>8, <2>2 DEF Positions
<1>9. ASSUME Under(ls)
      PROVE  Under(LinesAt(ls, left))
  <2>1. CASE "index" \notin hs
    <3>1. ASSUME NEW i \in left, NEW j \in DOMAIN ls, ls[j] = Index
          PROVE  j \in left
      BY <2>1, <3>1, <1>5, LineFields DEF Heading
    <3> HIDE DEF left
    <3> QED BY <1>1, <1>9, <3>1, UnderChoice
  <2>2. CASE "index" \in hs
    <3>1. \A i \in left : ls[i].k # "pointer"
      BY <1>8, <1>9, <2>2 DEF Under
    <3> HIDE DEF left
    <3> QED BY <1>1, <1>9, <3>1, UnderChoice
  <2> QED BY <2>1, <2>2
<1>10. ASSUME Under(ls), "index" \notin hs, NEW i \in DOMAIN ls, ls[i].k = "pointer"
       PROVE  i \in left
  BY <1>7, <1>10 DEF Under
<1>11. ASSUME Under(ls), "index" \notin hs, NEW l \in Range(ls), l.k = "pointer"
       PROVE  l \in Range(LinesAt(ls, left))
  BY <1>3, <1>10, <1>11 DEF Range
<1> QED
  BY <1>1, <1>2, <1>3, <1>4, <1>6, <1>9, <1>11

LEMMA UnderBody ==
    ASSUME NEW ls \in Seq(Line), Under(ls)
    PROVE  Under(Body(ls)) /\ Under(Trailer(ls))
<1>1. /\ Body(ls) \in Seq(Line) /\ Len(Body(ls)) \in Nat
      /\ DOMAIN Body(ls) = 1 .. Len(Body(ls)) /\ DOMAIN ls = 1 .. Len(ls) /\ Len(ls) \in Nat
      /\ \A i \in DOMAIN Body(ls) : i \in DOMAIN ls /\ Body(ls)[i] = ls[i]
      /\ \A l \in Range(Trailer(ls)) : l.k = "marker"
  BY LayersFacts
<1>2. ASSUME NEW i \in DOMAIN Body(ls), Body(ls)[i].k = "pointer"
      PROVE  \E j \in DOMAIN Body(ls) : j < i /\ Body(ls)[j] = Index /\ NoHeadBetween(Body(ls), j, i)
  <2>1. PICK j \in DOMAIN ls : j < i /\ ls[j] = Index /\ NoHeadBetween(ls, j, i)
    BY <1>1, <1>2 DEF Under
  <2>2. j \in DOMAIN Body(ls) /\ \A n \in j + 1 .. i : n \in DOMAIN Body(ls)
    BY <1>1, <2>1
  <2> QED BY <1>1, <2>1, <2>2 DEF NoHeadBetween, Heading
<1>3. Under(Trailer(ls))
  BY <1>1 DEF Under, Range
<1> QED BY <1>2, <1>3 DEF Under

LEMMA UnderIndex ==
    ASSUME NEW s \in Seq(Line), \A l \in Range(s) : l.k # "head"
    PROVE  Under(<<Index>> \o s) /\ <<Index>> \o s \in Seq(Line) /\ Range(<<Index>> \o s) = Range(s) \union {Index}
<1> DEFINE u == <<Index>> \o s
<1>1. <<Index>> \in Seq(Line) /\ Range(<<Index>>) = {Index}
  BY NewLines DEF Range
<1>2. u \in Seq(Line) /\ Range(u) = Range(s) \union {Index}
  <2>1. PICK x \in Seq(Line) : x = <<Index>>
    BY <1>1
  <2>2. x \o s \in Seq(Line) /\ Range(x \o s) = Range(x) \union Range(s)
    BY ConcatFacts
  <2>3. u = x \o s /\ Range(x) = {Index}
    BY <1>1, <2>1
  <2> HIDE DEF u
  <2> QED BY <2>2, <2>3
<1>3. /\ Len(s) \in Nat /\ DOMAIN s = 1 .. Len(s) /\ DOMAIN u = 1 .. Len(s) + 1
      /\ u[1] = Index /\ \A i \in 1 .. Len(s) : u[i + 1] = s[i]
  BY <1>1
<1> HIDE DEF u
<1>4. ASSUME NEW i \in 2 .. Len(s) + 1
      PROVE  ~Heading(u, i)
  <2>1. i - 1 \in 1 .. Len(s) /\ (i - 1) + 1 = i
    BY <1>3
  <2>2. u[i] = s[i - 1]
    BY <1>3, <2>1
  <2> QED BY <1>3, <2>1, <2>2 DEF Heading, Range
<1>5. ASSUME NEW i \in DOMAIN u, u[i].k = "pointer"
      PROVE  \E j \in DOMAIN u : j < i /\ u[j] = Index /\ NoHeadBetween(u, j, i)
  <2>1. i # 1
    BY <1>3, <1>5, LineFields
  <2>2. 1 \in DOMAIN u /\ 1 < i /\ NoHeadBetween(u, 1, i)
    BY <1>3, <1>4, <2>1 DEF NoHeadBetween
  <2> QED BY <1>3, <2>2
<1> QED BY <1>2, <1>5 DEF Under, u

\* A demotion keeps, beside the sections it moves, every heading and, if they
\* stand under the index, every pointer; and every marker outside those sections.
LEMMA DemotedFacts ==
    ASSUME TagNotesAssumption, NEW c, c.read \in Seq(Line), c.heads \in SUBSET Heads, NEW m \in Archives,
           c.mode \in {"pointer", "drop"}
    PROVE  /\ Demoted(c, m) \in Seq(Line)
           /\ \A l \in Range(Demoted(c, m)) : l.k = "pointer" =>
                 l \in Range(c.read) \/ (l.of \in c.heads /\ l.to = m)
           /\ Under(c.read) => Under(Demoted(c, m))
           /\ \A g : Head1(g) \in Range(c.read) /\ g \notin c.heads /\ g # "index" =>
                 Head1(g) \in Range(Demoted(c, m))
           /\ Under(c.read) => \A l \in Range(c.read) : l.k = "pointer" => l \in Range(Demoted(c, m))
           /\ \A l \in Range(c.read) :
                 l.k = "marker" /\ l.of \notin Markers(Body(c.read), Positions(Body(c.read), c.heads)) =>
                 l \in Range(Demoted(c, m))
<1> DEFINE ls == Body(c.read)
           W == Without(ls, Gone(c))
           T == Trailer(c.read)
           old1 == {i \in Section(ls, "index") : ls[i] # Index}
           had == LinesAt(ls, old1)
           new1 == {i \in HeadsAt(ls, c.heads) : Pointer(ls[i].of, m) \notin Range(had)}
           new == PointersTo(m, LinesAt(ls, new1))
           M == IF c.mode = "pointer" THEN <<Index>> \o (had \o new) ELSE <<>>
<1>1. Demoted(c, m) = W \o M \o T
  BY DEF Demoted
<1>2. /\ ls \in Seq(Line) /\ T \in Seq(Line)
      /\ \A l \in Range(T) : l.k = "marker"
      /\ Range(c.read) = Range(ls) \union Range(T)
  BY LayersFacts
<1>3. Under(c.read) => Under(ls) /\ Under(T)
  BY UnderBody
<1>4. old1 \in SUBSET DOMAIN ls /\ new1 \in SUBSET DOMAIN ls
  BY DEF Section, HeadsAt
<1>5. Gone(c) = c.heads \union (IF c.mode = "pointer" THEN {"index"} ELSE {})
  BY DEF Gone
<1>6. had \in Seq(Line) /\ Range(had) = {ls[i] : i \in old1}
  <2>1. /\ LinesAt(ls, old1) \in Seq(Line)
        /\ Range(LinesAt(ls, old1)) = {ls[i] : i \in old1}
    <3>1. old1 \in SUBSET DOMAIN ls /\ ls \in Seq(Line)
      BY <1>2, <1>4
    <3> HIDE DEF ls, old1
    <3>2. LinesAt(ls, old1) \in Seq(Line)
      BY <3>1, LinesAtFacts
    <3>3. Range(LinesAt(ls, old1)) = {ls[i] : i \in old1}
      BY <3>1, LinesAtRange
    <3> QED BY <3>2, <3>3
  <2> HIDE DEF ls, old1
  <2> QED BY <2>1
<1>7. /\ new \in Seq(Line)
      /\ \A l \in Range(new) : l.k = "pointer" /\ l.of \in c.heads /\ l.to = m
  <2> DEFINE heads1 == LinesAt(ls, new1)
  <2>1. heads1 \in Seq(Line) /\ Range(heads1) = {ls[i] : i \in new1}
    <3> HIDE DEF ls, new1
    <3>1. heads1 \in Seq(Line)
      BY <1>2, <1>4, LinesAtFacts
    <3>2. Range(heads1) = {ls[i] : i \in new1}
      BY <1>2, <1>4, LinesAtRange
    <3> QED BY <3>1, <3>2
  <2>2. \A i \in new1 : \E h \in c.heads : ls[i] = Head1(h)
    BY DEF HeadsAt
  <2> HIDE DEF ls, new1, heads1
  <2>3. ASSUME NEW n \in DOMAIN heads1
        PROVE  heads1[n].of \in c.heads
    <3>1. heads1[n] \in Range(heads1)
      BY DEF Range
    <3>2. PICK i \in new1 : heads1[n] = ls[i]
      BY <2>1, <3>1
    <3> QED BY <2>2, <3>2, LineFields
  <2>4. new = [n \in DOMAIN heads1 |-> Pointer(heads1[n].of, m)]
    BY DEF PointersTo, heads1
  <2>5. DOMAIN heads1 = 1 .. Len(heads1) /\ Len(heads1) \in Nat
    BY <2>1
  <2>6. \A n \in DOMAIN heads1 : Pointer(heads1[n].of, m) \in Line
    BY <2>3, NewLines
  <2> HIDE DEF new
  <2>7. new \in Seq(Line)
    BY <2>4, <2>5, <2>6
  <2>8. \A n \in DOMAIN new : new[n].k = "pointer" /\ new[n].of \in c.heads /\ new[n].to = m
    BY <2>3, <2>4, LineFields
  <2> QED BY <2>7, <2>8 DEF Range
<1>8. /\ W \in Seq(Line)
      /\ Range(W) \subseteq Range(ls)
      /\ \A i \in DOMAIN ls \ Positions(ls, Gone(c)) : ls[i] \in Range(W)
      /\ \A h : h \notin Gone(c) /\ Head1(h) \in Range(ls) => Head1(h) \in Range(W)
      /\ Under(ls) => Under(W)
      /\ Under(ls) /\ "index" \notin Gone(c) =>
            \A l \in Range(ls) : l.k = "pointer" => l \in Range(W)
  <2> HIDE DEF ls
  <2> QED BY <1>2, WithoutFacts
<1>9. \A i \in old1 : ls[i].k # "head"
  <2>1. \A i \in old1 : Heading(ls, i) => ls[i] = Head1("index")
    <3> HIDE DEF ls
    <3> QED BY <1>2, <1>4, SectionFacts
  <2> QED BY <2>1, LineFields DEF Heading
<1> HIDE DEF old1, new1, had, new, W, T, ls
<1>10. /\ had \o new \in Seq(Line) /\ Range(had \o new) = Range(had) \union Range(new)
       /\ \A l \in Range(had \o new) : l.k # "head"
  BY <1>6, <1>7, <1>9, ConcatFacts
<1>11. /\ M \in Seq(Line) /\ Under(M)
       /\ c.mode = "pointer" => Range(M) = Range(had) \union Range(new) \union {Index}
       /\ c.mode # "pointer" => Range(M) = {}
  <2>1. CASE c.mode = "pointer"
    BY <1>10, <2>1, UnderIndex
  <2>2. CASE c.mode # "pointer"
    BY <2>2 DEF Under, Range
  <2> QED BY <2>1, <2>2
<1> HIDE DEF M
<1>12. /\ Demoted(c, m) \in Seq(Line)
       /\ Range(Demoted(c, m)) = Range(W) \union Range(M) \union Range(T)
  <2>1. W \o M \in Seq(Line) /\ Range(W \o M) = Range(W) \union Range(M)
    BY <1>8, <1>11, ConcatFacts
  <2>2. PICK x \in Seq(Line) : x = W \o M
    BY <2>1
  <2>3. x \o T \in Seq(Line) /\ Range(x \o T) = Range(x) \union Range(T)
    BY <1>2, ConcatFacts
  <2> QED BY <1>1, <2>1, <2>2, <2>3
<1>13. Under(c.read) => Under(Demoted(c, m))
  <2> SUFFICES ASSUME Under(c.read)
               PROVE  Under(W \o M \o T)
    BY <1>1
  <2>1. Under(W \o M) /\ W \o M \in Seq(Line)
    BY <1>3, <1>8, <1>11, UnderConcat, ConcatFacts
  <2> QED BY <1>2, <1>3, <2>1, UnderConcat
<1>14. ASSUME NEW l \in Range(Demoted(c, m)), l.k = "pointer"
       PROVE  l \in Range(c.read) \/ (l.of \in c.heads /\ l.to = m)
  <2>1. l \in Range(had) => l \in Range(ls)
    BY <1>4, <1>6 DEF Range
  <2> QED BY <1>2, <1>7, <1>8, <1>11, <1>12, <1>14, <2>1, LineFields
<1>15. ASSUME NEW g, Head1(g) \in Range(c.read), g \notin c.heads, g # "index"
       PROVE  Head1(g) \in Range(Demoted(c, m))
  <2>1. Head1(g) \in Range(ls)
    BY <1>2, <1>15, LineFields
  <2> QED BY <1>5, <1>8, <1>12, <1>15, <2>1
<1>16. ASSUME Under(c.read), NEW l \in Range(c.read), l.k = "pointer"
       PROVE  l \in Range(Demoted(c, m))
  <2>1. l \in Range(ls)
    BY <1>2, <1>16
  <2>2. CASE c.mode = "pointer"
    <3>1. PICK i \in DOMAIN ls : l = ls[i]
      BY <2>1 DEF Range
    <3>2. PICK j \in DOMAIN ls : j < i /\ ls[j] = Index /\ NoHeadBetween(ls, j, i)
      BY <1>3, <1>16, <3>1 DEF Under
    <3>3. j \in 1 .. i /\ ls[j] = Head1("index")
      BY <1>2, <3>2, LineFields
    <3>4. i \in Section(ls, "index")
      BY <3>1, <3>2, <3>3 DEF Section, NoHeadBetween, Heading
    <3>5. i \in old1
      BY <1>16, <3>1, <3>4, LineFields DEF old1
    <3> QED BY <1>6, <1>11, <1>12, <2>2, <3>1, <3>5
  <2>3. CASE c.mode # "pointer"
    <3>1. "index" \notin Gone(c)
      BY <1>5, <2>3 DEF TagNotesAssumption
    <3> QED BY <1>3, <1>8, <1>12, <1>16, <2>1, <3>1
  <2> QED BY <2>2, <2>3
<1>17. ASSUME NEW l \in Range(c.read), l.k = "marker",
              l.of \notin Markers(ls, Positions(ls, c.heads))
       PROVE  l \in Range(Demoted(c, m))
  <2>1. CASE l \in Range(T)
    BY <1>12, <2>1
  <2>2. CASE l \in Range(ls)
    <3>1. PICK i \in DOMAIN ls : l = ls[i]
      BY <2>2 DEF Range
    <3>2. i \notin Positions(ls, c.heads)
      BY <1>17, <3>1 DEF Markers, IsMarker
    <3>3. CASE i \in Positions(ls, Gone(c))
      <4>1. c.mode = "pointer" /\ i \in Section(ls, "index")
        BY <1>5, <3>2, <3>3 DEF Positions
      <4>2. i \in old1
        BY <1>17, <3>1, <4>1, LineFields DEF old1
      <4> QED BY <1>6, <1>11, <1>12, <3>1, <4>1, <4>2
    <3> QED BY <1>8, <1>12, <3>1, <3>3
  <2> QED BY <1>2, <1>17, <2>1, <2>2
<1> QED
  BY <1>12, <1>13, <1>14, <1>15, <1>16, <1>17 DEF ls

\* A merged marker takes the place of the dated ones of its kind.
LEMMA CooledFacts ==
    ASSUME NEW ls \in Seq(Line), NEW kind \in NoteKinds, today \in Nat
    PROVE  /\ Cooled(ls, kind) \in Seq(Line)
           /\ Marker(kind, today) \in Range(Cooled(ls, kind))
           /\ \A l \in Range(Cooled(ls, kind)) : l.k # "marker" => l \in Range(ls)
           /\ \A l \in Range(ls) : l.k # "marker" \/ l.of # kind => l \in Range(Cooled(ls, kind))
           /\ Under(ls) => Under(Cooled(ls, kind))
<1> DEFINE stay == {i \in DOMAIN ls : ~Dated(ls[i], kind)}
           rest == LinesAt(ls, stay)
<1> PICK m : m = Marker(kind, today)
  OBVIOUS
<1>1. m \in Line /\ m.k = "marker"
  BY NewLines, LineFields
<1>2. stay \in SUBSET DOMAIN ls
  OBVIOUS
<1>3. rest \in Seq(Line) /\ Range(rest) = {ls[i] : i \in stay}
  <2> HIDE DEF stay
  <2> QED BY <1>2, LinesAtFacts, LinesAtRange
<1>4. Cooled(ls, kind) = Append(rest, m)
  BY DEF Cooled
<1>5. Under(ls) => Under(rest)
  <2>1. \A j \in DOMAIN ls : ls[j] = Index => j \in stay
    BY LineFields DEF Dated, IsMarker
  <2> HIDE DEF stay
  <2> QED BY <1>2, <2>1, UnderChoice
<1>6. \A l \in Range(ls) : l.k # "marker" \/ l.of # kind => l \in Range(rest)
  BY <1>3 DEF Range, Dated, IsMarker
<1>7. Range(rest) \subseteq Range(ls)
  BY <1>3 DEF Range
<1> HIDE DEF rest
<1>8. Append(rest, m) = rest \o <<m>> /\ <<m>> \in Seq(Line) /\ Range(<<m>>) = {m}
  BY <1>1, <1>3 DEF Range
<1>9. Under(<<m>>)
  BY <1>1 DEF Under
<1>10. rest \o <<m>> \in Seq(Line) /\ Range(rest \o <<m>>) = Range(rest) \union {m}
  BY <1>3, <1>8, ConcatFacts
<1>11. Under(ls) => Under(rest \o <<m>>)
  BY <1>3, <1>5, <1>8, <1>9, UnderConcat
<1> QED
  BY <1>1, <1>4, <1>6, <1>7, <1>8, <1>10, <1>11

-----------------------------------------------------------------------------
Standings == {"none", "live", "retracted"}
DemoteCall(op, targets) ==
    [op : {op}, read : Seq(Line), heads : SUBSET Heads, to : targets, had : SUBSET Heads, mode : {"pointer", "drop"}]
NoteCall ==
    {AtRest}
    \union DemoteCall("check", Archives)
    \union DemoteCall("demote", Archives \union {"new"})
    \union [op : {"hint"}, read : Seq(Line), kind : NoteKinds]
    \union [op : {"revise"}, to : Archives, had : SUBSET Heads, mode : {"append", "overwrite"}]

NoteTypeOK ==
    /\ notes \in Seq(Line)
    /\ archive \in [Archives -> SUBSET Heads]
    /\ standing \in [Archives -> Standings]
    /\ lost \in SUBSET Archives
    /\ pinned \in BOOLEAN
    /\ today \in Nat
    /\ hinted \in SUBSET NoteKinds
    /\ writing \in [Writers -> NoteCall]
    /\ alone \in BOOLEAN

LEMMA NoteCallFacts ==
    ASSUME NEW c \in NoteCall
    PROVE  /\ c.op \in {"check", "demote"} =>
                 /\ c.read \in Seq(Line) /\ c.heads \in SUBSET Heads /\ c.to \in Archives \union {"new"}
                 /\ c.had \in SUBSET Heads /\ c.mode \in {"pointer", "drop"}
           /\ c.op = "check" => c.to \in Archives
           /\ c.op = "hint" => c.read \in Seq(Line) /\ c.kind \in NoteKinds
           /\ c.op = "revise" => c.to \in Archives /\ c.had \in SUBSET Heads
           /\ c.op \in {"none", "check", "demote", "hint", "revise"}
           /\ c = AtRest <=> c.op = "none"
<1>1. CASE c \in DemoteCall("check", Archives)
  BY <1>1 DEF DemoteCall, AtRest
<1>2. CASE c \in DemoteCall("demote", Archives \union {"new"})
  BY <1>2 DEF DemoteCall, AtRest
<1>3. CASE c \notin DemoteCall("check", Archives) \union DemoteCall("demote", Archives \union {"new"})
  BY <1>3 DEF NoteCall, AtRest
<1> QED BY <1>1, <1>2, <1>3

\* A line more, or some sections less: what update_tag and add_decisions write.
LEMMA AppendFacts ==
    ASSUME NEW ls \in Seq(Line), NEW l \in Line, l.k # "pointer"
    PROVE  /\ Append(ls, l) \in Seq(Line)
           /\ Range(Append(ls, l)) = Range(ls) \union {l}
           /\ Under(ls) => Under(Append(ls, l))
<1>1. PICK x \in Seq(Line) : x = <<l>>
  <2>1. <<l>> \in Seq(Line)
    OBVIOUS
  <2> QED BY <2>1
<1>2. Append(ls, l) = ls \o x /\ Range(x) = {l}
  BY <1>1 DEF Range
<1>3. Under(x)
  BY <1>1 DEF Under
<1> QED BY <1>2, <1>3, ConcatFacts, UnderConcat

LEMMA ReplacedFacts ==
    ASSUME NEW ls \in Seq(Line), NEW hs
    PROVE  LET new == Without(Body(ls), hs) \o Trailer(ls)
           IN  /\ new \in Seq(Line)
               /\ Range(new) \subseteq Range(ls)
               /\ Under(ls) => Under(new)
<1>1. /\ Body(ls) \in Seq(Line) /\ Trailer(ls) \in Seq(Line)
      /\ Range(ls) = Range(Body(ls)) \union Range(Trailer(ls))
  BY LayersFacts
<1>2. PICK w \in Seq(Line) : /\ w = Without(Body(ls), hs)
                             /\ Range(w) \subseteq Range(Body(ls))
                             /\ Under(Body(ls)) => Under(w)
  BY <1>1, WithoutFacts
<1>3. w \o Trailer(ls) \in Seq(Line) /\ Range(w \o Trailer(ls)) = Range(w) \union Range(Trailer(ls))
  BY <1>1, ConcatFacts
<1>4. Under(ls) => Under(w \o Trailer(ls))
  BY <1>1, <1>2, UnderBody, UnderConcat
<1> QED BY <1>1, <1>2, <1>3, <1>4

\* The pointers of a text lead to sections that the materials hold, or to a
\* material that was written over.
LeadsIn(arch, over, ls) ==
    \A l \in Range(ls) : l.k = "pointer" => l.of \in arch[l.to] \/ l.to \in over

HasRead(c) == c.op \in {"check", "demote", "hint"}
LeadInv ==
    /\ LeadsIn(archive, lost, notes)
    /\ \A w \in Writers : HasRead(writing[w]) => LeadsIn(archive, lost, writing[w].read)

\* One call at a time, what a call has read is what the notes and the text of the
\* material are, that material is not retracted, what was hinted today is marked,
\* and what is not there holds nothing.
AloneInv ==
    alone =>
       /\ Under(notes)
       /\ \A kind \in hinted : Active(notes, kind)
       /\ \A m \in Archives : standing[m] = "none" => archive[m] = {}
       /\ \A w \in Writers : writing[w] # AtRest =>
             /\ HasRead(writing[w]) => writing[w].read = notes
             /\ writing[w].op = "hint" => ~Active(notes, writing[w].kind)
             /\ writing[w].op \in {"demote", "revise"} /\ writing[w].to # "new" =>
                   standing[writing[w].to] = "live" /\ writing[w].had = archive[writing[w].to]
             /\ writing[w].op = "demote" /\ writing[w].to = "new" => writing[w].had = {}
             /\ \A v \in Writers : v # w => writing[v] = AtRest

NoteInv == NoteTypeOK /\ LeadInv /\ AloneInv


LEMMA NoteInitial ==
    ASSUME TagNotesAssumption, NoteInit
    PROVE  NoteInv
<1>1. NoteTypeOK
  <2>1. notes \in Seq(Line) /\ today \in Nat
    BY DEF NoteInit
  <2>4. pinned \in BOOLEAN /\ alone \in BOOLEAN
    BY DEF NoteInit
  <2>2. /\ hinted \in SUBSET NoteKinds /\ archive \in [Archives -> SUBSET Heads]
        /\ standing \in [Archives -> Standings] /\ lost \in SUBSET Archives
    BY DEF NoteInit, Standings
  <2>3. writing \in [Writers -> NoteCall]
    BY DEF NoteInit, NoteCall
  <2> QED BY <2>1, <2>2, <2>3, <2>4 DEF NoteTypeOK
<1>2. /\ notes = <<>> /\ hinted = {} /\ archive = [m \in Archives |-> {}]
      /\ \A w \in Writers : writing[w] = AtRest
  BY DEF NoteInit
<1>3. Range(notes) = {} /\ Under(notes)
  BY <1>2 DEF Range, Under
<1> QED BY <1>1, <1>2, <1>3 DEF NoteInv, LeadInv, LeadsIn, AloneInv, HasRead, AtRest

LEMMA Append1Keeps ==
    ASSUME NoteInv, NEW h \in Heads, Append1(h)
    PROVE  NoteInv'
<1>1. PICK l \in Line : l = Head1(h) /\ l.k = "head"
  BY NewLines, LineFields
<1>2. /\ notes' = Append(notes, l) /\ (alone => Calm)
      /\ UNCHANGED <<archive, standing, lost, pinned, today, hinted, writing, alone>>
  BY <1>1 DEF Append1
<1>3. /\ Append(notes, l) \in Seq(Line) /\ Range(Append(notes, l)) = Range(notes) \union {l}
      /\ Under(notes) => Under(Append(notes, l))
  BY <1>1, AppendFacts DEF NoteInv, NoteTypeOK
<1>4. \A kind \in hinted : Active(notes, kind) => Active(notes, kind)'
  BY <1>2, <1>3 DEF Active
<1>5. NoteTypeOK'
  BY <1>2, <1>3 DEF NoteInv, NoteTypeOK
<1>6. LeadInv'
  BY <1>1, <1>2, <1>3 DEF NoteInv, LeadInv, LeadsIn
<1>7. AloneInv'
  BY <1>2, <1>3, <1>4 DEF NoteInv, AloneInv, Calm
<1> QED BY <1>5, <1>6, <1>7 DEF NoteInv

LEMMA ReplaceKeeps ==
    ASSUME TagNotesAssumption, NoteInv, Replace
    PROVE  NoteInv'
<1>1. /\ alone => Calm
      /\ hinted' = {}
      /\ UNCHANGED <<archive, standing, lost, pinned, today, writing, alone>>
  BY DEF Replace
<1>2. /\ notes' \in Seq(Line)
      /\ \A l \in Range(notes') : l.k = "pointer" => l \in Range(notes)
      /\ Under(notes) => Under(notes')
  <2>1. CASE \E h \in HeadsOf(Body(notes)) : notes' = Without(Body(notes), {h}) \o Trailer(notes)
    BY <2>1, ReplacedFacts DEF NoteInv, NoteTypeOK
  <2>2. CASE \E kind \in {"bootstrap", "delta"} : notes' = Append(notes, Marker(kind, Ever))
    <3>1. PICK kind \in NoteKinds : notes' = Append(notes, Marker(kind, Ever))
      BY <2>2 DEF NoteKinds
    <3>2. Ever \in Nat
      BY DEF Ever, TagNotesAssumption
    <3>3. PICK l \in Line : l = Marker(kind, Ever) /\ l.k = "marker"
      BY <3>2, NewLines, LineFields
    <3> QED BY <3>1, <3>3, AppendFacts DEF NoteInv, NoteTypeOK
  <2> QED BY <2>1, <2>2 DEF Replace
<1>3. NoteTypeOK'
  BY <1>1, <1>2 DEF NoteInv, NoteTypeOK
<1>4. LeadInv'
  BY <1>1, <1>2 DEF NoteInv, LeadInv, LeadsIn
<1>5. AloneInv'
  BY <1>1, <1>2 DEF NoteInv, AloneInv, Calm
<1> QED BY <1>3, <1>4, <1>5 DEF NoteInv

\* A call begins, with the notes as they are.
LEMMA ReadKeeps ==
    ASSUME NoteInv, NEW w \in Writers, NEW c \in NoteCall, c.op # "none",
           HasRead(c) => c.read = notes,
           c.op = "hint" => ~Active(notes, c.kind),
           c.op \in {"demote", "revise"} /\ c.to # "new" => standing[c.to] = "live" /\ c.had = archive[c.to],
           c.op = "demote" /\ c.to = "new" => c.had = {},
           alone => Calm, writing' = [writing EXCEPT ![w] = c],
           UNCHANGED <<notes, archive, standing, lost, pinned, today, hinted, alone>>
    PROVE  NoteInv'
<1>1. NoteTypeOK'
  BY DEF NoteInv, NoteTypeOK
<1>2. writing'[w] = c /\ \A v \in Writers : v # w => writing'[v] = writing[v]
  BY DEF NoteInv, NoteTypeOK
<1>3. LeadInv'
  BY <1>2 DEF NoteInv, LeadInv, LeadsIn
<1>4. AloneInv'
  <2> SUFFICES ASSUME alone
               PROVE  AloneInv'
    BY DEF AloneInv
  <2>1. \A v \in Writers : v # w => writing'[v] = AtRest
    BY <1>2 DEF Calm
  <2>2. \A kind : Active(notes, kind)' <=> Active(notes, kind)
    BY DEF Active
  <2> QED BY <1>2, <2>1, <2>2 DEF NoteInv, AloneInv
<1> QED BY <1>1, <1>3, <1>4 DEF NoteInv

LEMMA DemoteReadKeeps ==
    ASSUME TagNotesAssumption, NoteInv, NEW w \in Writers, DemoteRead(w)
    PROVE  NoteInv'
<1>1. PICK hs \in SUBSET HeadsOf(Body(notes)), to \in Archives \union {"new"}, mode \in {"pointer", "drop"} :
         writing' = [writing EXCEPT ![w] =
                        [op |-> IF to = "new" THEN "demote" ELSE "check", read |-> notes, heads |-> hs,
                         to |-> to, had |-> {}, mode |-> mode]]
  BY DEF DemoteRead
<1>2. hs \in SUBSET Heads
  <2>1. Body(notes) \in Seq(Line)
    BY LayersFacts DEF NoteInv, NoteTypeOK
  <2>2. ASSUME NEW l \in Range(Body(notes)), l.k = "head", l.of # "index"
        PROVE  l.of \in Heads
    <3>1. l \in Line
      BY <2>1, <2>2 DEF Range
    <3> QED BY <2>2, <3>1, LineFacts
  <2> QED BY <2>2 DEF HeadsOf
<1>3. PICK c : c = [op |-> IF to = "new" THEN "demote" ELSE "check", read |-> notes, heads |-> hs,
                    to |-> to, had |-> {}, mode |-> mode]
  OBVIOUS
<1>4. c \in NoteCall
  <2>1. notes \in Seq(Line)
    BY DEF NoteInv, NoteTypeOK
  <2>2. CASE to = "new"
    <3>1. c \in DemoteCall("demote", Archives \union {"new"})
      BY <1>2, <1>3, <2>1, <2>2 DEF DemoteCall
    <3> QED BY <3>1 DEF NoteCall
  <2>3. CASE to # "new"
    <3>1. c \in DemoteCall("check", Archives)
      BY <1>2, <1>3, <2>1, <2>3 DEF DemoteCall
    <3> QED BY <3>1 DEF NoteCall
  <2> QED BY <2>2, <2>3
<1>5. /\ c.op \in {"check", "demote"} /\ c.read = notes /\ c.had = {} /\ (c.op = "demote" => c.to = "new")
      /\ (alone => Calm) /\ UNCHANGED <<notes, archive, standing, lost, pinned, today, hinted, alone>>
  BY <1>3 DEF DemoteRead
<1>6. writing' = [writing EXCEPT ![w] = c]
  BY <1>1, <1>3
<1> QED BY <1>4, <1>5, <1>6, ReadKeeps

\* A call that goes on to the text of its material, or is refused.
LEMMA DemoteLookKeeps ==
    ASSUME TagNotesAssumption, NoteInv, NEW w \in Writers, DemoteLook(w)
    PROVE  NoteInv'
<1> DEFINE c == writing[w]
<1>1. c \in NoteCall /\ c.op = "check" /\ c # AtRest
  BY DEF DemoteLook, NoteInv, NoteTypeOK, AtRest
<1>2. /\ c.read \in Seq(Line) /\ c.heads \in SUBSET Heads /\ c.to \in Archives
      /\ c.had \in SUBSET Heads /\ c.mode \in {"pointer", "drop"}
  BY <1>1, NoteCallFacts
<1>3. c \in DemoteCall("check", Archives)
  BY <1>1 DEF NoteCall, DemoteCall, AtRest
<1>4. PICK d : d = IF standing[c.to] = "live" THEN [c EXCEPT !.op = "demote", !.had = archive[c.to]] ELSE AtRest
  OBVIOUS
<1>5. writing' = [writing EXCEPT ![w] = d] /\ UNCHANGED <<notes, archive, standing, lost, pinned, today, hinted, alone>>
  BY <1>4 DEF DemoteLook
<1>6. /\ archive \in [Archives -> SUBSET Heads] /\ writing \in [Writers -> NoteCall]
  BY DEF NoteInv, NoteTypeOK
<1>7. \/ d = AtRest
      \/ /\ d.op = "demote" /\ d.read = c.read /\ d.to = c.to /\ standing[c.to] = "live" /\ d.had = archive[c.to]
         /\ d \in DemoteCall("demote", Archives \union {"new"})
  <2> HIDE DEF c
  <2> QED BY <1>2, <1>3, <1>4, <1>6 DEF DemoteCall
<1>8. d \in NoteCall
  BY <1>7 DEF NoteCall
<1>9. LeadsIn(archive, lost, c.read) /\ (alone => c.read = notes)
  BY <1>1 DEF NoteInv, LeadInv, AloneInv, HasRead
<1>10. alone => \A v \in Writers : v # w => writing[v] = AtRest
  BY <1>1 DEF NoteInv, AloneInv
<1> HIDE DEF c
<1>11. NoteTypeOK'
  BY <1>5, <1>6, <1>8 DEF NoteInv, NoteTypeOK
<1>12. writing'[w] = d /\ \A v \in Writers : v # w => writing'[v] = writing[v]
  BY <1>5, <1>6
<1>13. ~HasRead(AtRest) /\ AtRest.op = "none"
  BY DEF HasRead, AtRest
<1>14. LeadInv'
  <2>1. LeadsIn(archive, lost, notes)' /\ \A v \in Writers : HasRead(writing[v]) => LeadsIn(archive, lost, writing[v].read)
    BY <1>5 DEF NoteInv, LeadInv, LeadsIn
  <2>2. ASSUME NEW v \in Writers, HasRead(writing'[v])
        PROVE  LeadsIn(archive', lost', writing'[v].read)
    <3>1. archive' = archive /\ lost' = lost
      BY <1>5
    <3>2. CASE v = w
      BY <1>7, <1>9, <1>12, <1>13, <2>2, <3>1, <3>2
    <3>3. CASE v # w
      BY <1>12, <2>1, <2>2, <3>1, <3>3
    <3> QED BY <3>2, <3>3
  <2> QED BY <2>1, <2>2 DEF LeadInv
<1>15. AloneInv'
  <2> SUFFICES ASSUME alone
               PROVE  AloneInv'
    BY <1>5 DEF AloneInv
  <2>1. \A kind : Active(notes, kind)' <=> Active(notes, kind)
    BY <1>5 DEF Active
  <2>2. d.op # "hint" /\ d.op # "revise" /\ (d # AtRest => d.to # "new")
    BY <1>2, <1>7, <1>13 DEF TagNotesAssumption
  <2>3. \A v \in Writers : v # w => writing'[v] = AtRest
    BY <1>10, <1>12
  <2> QED BY <1>5, <1>7, <1>9, <1>12, <1>13, <2>1, <2>2, <2>3 DEF NoteInv, AloneInv
<1> QED BY <1>11, <1>14, <1>15 DEF NoteInv

LEMMA ReviseReadKeeps ==
    ASSUME TagNotesAssumption, NoteInv, NEW w \in Writers, ReviseRead(w)
    PROVE  NoteInv'
<1>1. PICK m \in Archives, mode \in {"append", "overwrite"} :
         /\ standing[m] = "live"
         /\ writing' = [writing EXCEPT ![w] = [op |-> "revise", to |-> m, had |-> archive[m], mode |-> mode]]
  BY DEF ReviseRead
<1>2. PICK c \in NoteCall : c = [op |-> "revise", to |-> m, had |-> archive[m], mode |-> mode]
  BY DEF NoteInv, NoteTypeOK, NoteCall
<1>3. c.op = "revise" /\ c.to = m /\ c.had = archive[m] /\ ~HasRead(c)
  BY <1>2 DEF HasRead
<1>4. (alone => Calm) /\ UNCHANGED <<notes, archive, standing, lost, pinned, today, hinted, alone>>
  BY DEF ReviseRead
<1>5. writing' = [writing EXCEPT ![w] = c]
  BY <1>1, <1>2
<1> QED BY <1>1, <1>3, <1>4, <1>5, ReadKeeps

LEMMA HintReadKeeps ==
    ASSUME NoteInv, NEW w \in Writers, HintRead(w)
    PROVE  NoteInv'
<1>1. Kind \in NoteKinds
  BY DEF Kind, NoteKinds
<1>2. PICK c \in NoteCall : c = [op |-> "hint", read |-> notes, kind |-> Kind]
  BY <1>1 DEF NoteInv, NoteTypeOK, NoteCall
<1>3. c.op = "hint" /\ c.read = notes /\ c.kind = Kind
  BY <1>2
<1> QED BY <1>2, <1>3, ReadKeeps DEF HintRead, HasRead

\* A call ends, with other notes; the materials may hold more, or are written over,
\* and the notes have pointers to what they hold.
LEMMA WriteKeeps ==
    ASSUME NoteInv, NEW w \in Writers,
           notes' \in Seq(Line), archive' \in [Archives -> SUBSET Heads], standing' \in [Archives -> Standings],
           lost' \in SUBSET Archives, hinted' \in SUBSET NoteKinds,
           lost \subseteq lost',
           \A m \in Archives : m \in lost' \/ archive[m] \subseteq archive'[m],
           LeadsIn(archive', lost', notes'),
           alone => Under(notes') /\ \A kind \in hinted' : Active(notes', kind),
           alone => \A m \in Archives : standing'[m] = "none" => archive'[m] = {},
           alone => \A v \in Writers : v # w => writing[v] = AtRest,
           writing' = [writing EXCEPT ![w] = AtRest],
           UNCHANGED <<pinned, today, alone>>
    PROVE  NoteInv'
<1>1. AtRest \in NoteCall
  BY DEF NoteCall
<1>2. NoteTypeOK'
  BY <1>1 DEF NoteInv, NoteTypeOK
<1>3. writing'[w] = AtRest /\ \A v \in Writers : v # w => writing'[v] = writing[v]
  BY DEF NoteInv, NoteTypeOK
<1>4. ASSUME NEW v \in Writers, HasRead(writing'[v])
      PROVE  writing'[v] = writing[v] /\ LeadsIn(archive', lost', writing[v].read)
  <2>0. v # w /\ writing'[v] = writing[v]
    BY <1>3, <1>4 DEF HasRead, AtRest
  <2>1. HasRead(writing[v]) /\ writing[v] \in NoteCall
    BY <1>4, <2>0 DEF NoteInv, NoteTypeOK
  <2>2. writing[v].read \in Seq(Line) /\ LeadsIn(archive, lost, writing[v].read)
    BY <2>1, NoteCallFacts DEF NoteInv, LeadInv, HasRead
  <2>3. \A l \in Range(writing[v].read) : l \in Line
    BY <2>2 DEF Range
  <2>4. \A l \in Range(writing[v].read) : l.k = "pointer" => l.to \in Archives
    BY <2>3, LineFacts
  <2> QED BY <2>0, <2>2, <2>4 DEF LeadsIn
<1>5. LeadInv'
  BY <1>4 DEF LeadInv
<1>6. \A kind : Active(notes, kind)' <=> Active(notes', kind)
  BY DEF Active
<1>7. AloneInv'
  <2> SUFFICES ASSUME alone
               PROVE  AloneInv'
    BY DEF AloneInv
  <2>1. \A v \in Writers : writing'[v] = AtRest
    BY <1>3
  <2> QED BY <1>6, <2>1 DEF AloneInv
<1> QED BY <1>2, <1>5, <1>7 DEF NoteInv

\* Nobody else is under way when a call ends, if calls do not overlap.
LEMMA OthersRest ==
    ASSUME NoteInv, NEW w \in Writers, writing[w] # AtRest, alone
    PROVE  /\ HasRead(writing[w]) => writing[w].read = notes
           /\ \A v \in Writers : v # w => writing[v] = AtRest
           /\ Under(notes)
           /\ \A kind \in hinted : Active(notes, kind)
           /\ writing[w].op = "hint" => ~Active(notes, writing[w].kind)
BY DEF NoteInv, AloneInv

\* What a demotion is told of: a material that is there, or any that is not.
LEMMA TargetFacts ==
    ASSUME TagNotesAssumption, NoteInv, NEW w \in Writers, writing[w].op = "demote",
           NEW m \in Targets(writing[w])
    PROVE  /\ m \in Archives
           /\ alone => /\ writing[w].had = archive[m]
                       /\ standing[m] = IF writing[w].to = "new" THEN "none" ELSE "live"
<1>1. writing[w] \in NoteCall /\ writing[w] # AtRest
  BY DEF NoteInv, NoteTypeOK, AtRest
<1>2. writing[w].to \in Archives \union {"new"}
  BY <1>1, NoteCallFacts
<1>3. CASE writing[w].to = "new"
  BY <1>1, <1>3 DEF Targets, NoteInv, AloneInv
<1>4. CASE writing[w].to # "new"
  BY <1>1, <1>2, <1>4 DEF Targets, NoteInv, AloneInv
<1> QED BY <1>3, <1>4

LEMMA DemoteWriteKeeps ==
    ASSUME TagNotesAssumption, NoteInv, NEW w \in Writers, DemoteWrite(w)
    PROVE  NoteInv'
<1> DEFINE c == writing[w]
<1>1. c \in NoteCall /\ c.op = "demote" /\ c # AtRest /\ HasRead(c)
  BY DEF DemoteWrite, NoteInv, NoteTypeOK, AtRest, HasRead
<1>2. /\ c.read \in Seq(Line) /\ c.heads \in SUBSET Heads /\ c.had \in SUBSET Heads
      /\ c.mode \in {"pointer", "drop"}
  BY <1>1, NoteCallFacts
<1>3. writing' = [writing EXCEPT ![w] = AtRest] /\ UNCHANGED <<pinned, today, alone>>
  BY DEF DemoteWrite
<1>4. alone => \A v \in Writers : v # w => writing[v] = AtRest
  BY <1>1, OthersRest
<1>5. PICK m \in Targets(c) :
         IF Accepted(notes, Demoted(c, m))
         THEN /\ notes' = Demoted(c, m)
              /\ archive' = [archive EXCEPT ![m] = c.had \union c.heads]
              /\ standing' = IF c.to = "new" THEN [standing EXCEPT ![m] = "live"] ELSE standing
              /\ lost' = Lost(c, m)
              /\ hinted' = hinted \ Markers(Body(c.read), Positions(Body(c.read), c.heads))
         ELSE UNCHANGED <<notes, archive, standing, lost, hinted>>
  BY DEF DemoteWrite
<1>6. /\ m \in Archives
      /\ alone => c.had = archive[m] /\ standing[m] = IF c.to = "new" THEN "none" ELSE "live"
  BY <1>1, TargetFacts
<1>7. /\ archive \in [Archives -> SUBSET Heads] /\ hinted \in SUBSET NoteKinds
      /\ standing \in [Archives -> Standings] /\ lost \in SUBSET Archives
  BY DEF NoteInv, NoteTypeOK
<1>8. alone => \A n \in Archives : standing[n] = "none" => archive[n] = {}
  BY DEF NoteInv, AloneInv
<1>9. CASE Accepted(notes, Demoted(c, m))
  <2>1. /\ notes' = Demoted(c, m)
        /\ archive' = [archive EXCEPT ![m] = c.had \union c.heads]
        /\ standing' = IF c.to = "new" THEN [standing EXCEPT ![m] = "live"] ELSE standing
        /\ lost' = Lost(c, m)
        /\ hinted' = hinted \ Markers(Body(c.read), Positions(Body(c.read), c.heads))
    BY <1>5, <1>9
  <2>2. /\ Demoted(c, m) \in Seq(Line)
        /\ \A l \in Range(Demoted(c, m)) : l.k = "pointer" =>
              l \in Range(c.read) \/ (l.of \in c.heads /\ l.to = m)
        /\ Under(c.read) => Under(Demoted(c, m))
        /\ \A l \in Range(c.read) :
              l.k = "marker" /\ l.of \notin Markers(Body(c.read), Positions(Body(c.read), c.heads)) =>
              l \in Range(Demoted(c, m))
    <3> HIDE DEF c
    <3> QED BY <1>2, <1>6, DemotedFacts
  <2>3. LeadsIn(archive, lost, c.read)
    BY <1>1 DEF NoteInv, LeadInv
  <2>5. alone => c.read = notes /\ Under(notes) /\ \A kind \in hinted : Active(notes, kind)
    BY <1>1, OthersRest
  <2> HIDE DEF c
  <2>6. /\ archive' \in [Archives -> SUBSET Heads] /\ lost' \in SUBSET Archives /\ lost \subseteq lost'
        /\ \A n \in Archives : n # m => archive'[n] = archive[n]
        /\ archive'[m] = c.had \union c.heads
        /\ c.had = archive[m] \/ m \in lost'
    BY <1>2, <1>6, <1>7, <2>1 DEF Lost
  <2>7. ASSUME NEW l \in Range(Demoted(c, m)), l.k = "pointer"
        PROVE  l.of \in archive'[l.to] \/ l.to \in lost'
    <3>1. l \in Line
      BY <2>2 DEF Range
    <3>2. l.to \in Archives
      BY <2>7, <3>1, LineFacts
    <3>3. CASE l \in Range(c.read)
      <4>1. l.of \in archive[l.to] \/ l.to \in lost
        BY <2>3, <2>7, <3>3 DEF LeadsIn
      <4> QED BY <2>6, <3>2, <4>1
    <3>4. CASE l.of \in c.heads /\ l.to = m
      BY <2>6, <3>4
    <3> QED BY <2>2, <2>7, <3>3, <3>4
  <2>8. LeadsIn(archive', lost', Demoted(c, m))
    BY <2>7 DEF LeadsIn
  <2>9. ASSUME alone, NEW kind \in hinted'
        PROVE  Active(Demoted(c, m), kind)
    <3>1. kind \notin Markers(Body(c.read), Positions(Body(c.read), c.heads)) /\ Active(c.read, kind)
      BY <2>1, <2>5, <2>9
    <3> QED BY <2>2, <3>1 DEF Active, IsMarker
  <2>10. hinted' \in SUBSET NoteKinds /\ standing' \in [Archives -> Standings]
    BY <1>6, <1>7, <2>1 DEF Standings
  <2>11. \A n \in Archives : n \in lost' \/ archive[n] \subseteq archive'[n]
    BY <2>6
  <2>12. ASSUME alone, NEW n \in Archives, standing'[n] = "none"
         PROVE  archive'[n] = {}
    <3>1. n # m /\ standing[n] = "none"
      BY <1>6, <1>7, <2>1, <2>12
    <3> QED BY <1>8, <2>6, <2>12, <3>1
  <2>13. /\ notes' \in Seq(Line) /\ LeadsIn(archive', lost', notes')
         /\ alone => Under(notes') /\ \A kind \in hinted' : Active(notes', kind)
    BY <2>1, <2>2, <2>5, <2>8, <2>9
  <2> QED
    BY <1>3, <1>4, <2>6, <2>10, <2>11, <2>12, <2>13, WriteKeeps
<1>10. CASE ~Accepted(notes, Demoted(c, m))
  <2>1. UNCHANGED <<notes, archive, standing, lost, hinted>>
    BY <1>5, <1>10
  <2>2. notes \in Seq(Line) /\ LeadsIn(archive, lost, notes)
    BY DEF NoteInv, NoteTypeOK, LeadInv
  <2>3. alone => Under(notes) /\ \A kind \in hinted : Active(notes, kind)
    BY DEF NoteInv, AloneInv
  <2> HIDE DEF c
  <2> QED BY <1>3, <1>4, <1>7, <1>8, <2>1, <2>2, <2>3, WriteKeeps
<1> QED BY <1>9, <1>10

LEMMA ReviseWriteKeeps ==
    ASSUME TagNotesAssumption, NoteInv, NEW w \in Writers, ReviseWrite(w)
    PROVE  NoteInv'
<1> DEFINE c == writing[w]
<1>1. c \in NoteCall /\ c.op = "revise" /\ c # AtRest
  BY DEF ReviseWrite, NoteInv, NoteTypeOK, AtRest
<1>2. c.to \in Archives /\ c.had \in SUBSET Heads /\ c.to # "new"
  BY <1>1, NoteCallFacts DEF TagNotesAssumption
<1>3. writing' = [writing EXCEPT ![w] = AtRest] /\ UNCHANGED <<notes, standing, hinted, pinned, today, alone>>
  BY DEF ReviseWrite
<1>4. alone => \A v \in Writers : v # w => writing[v] = AtRest
  BY <1>1, OthersRest
<1>5. /\ archive \in [Archives -> SUBSET Heads] /\ hinted \in SUBSET NoteKinds
      /\ standing \in [Archives -> Standings] /\ lost \in SUBSET Archives /\ notes \in Seq(Line)
  BY DEF NoteInv, NoteTypeOK
<1>6. alone => /\ Under(notes) /\ \A kind \in hinted : Active(notes, kind)
               /\ \A n \in Archives : standing[n] = "none" => archive[n] = {}
               /\ standing[c.to] = "live"
  BY <1>1, <1>2 DEF NoteInv, AloneInv
<1>7. /\ archive' \in [Archives -> SUBSET Heads] /\ lost' \in SUBSET Archives /\ lost \subseteq lost'
      /\ \A n \in Archives : n # c.to => archive'[n] = archive[n]
      /\ archive'[c.to] = archive[c.to] \/ c.to \in lost'
  <2>1. \/ archive' = [archive EXCEPT ![c.to] = c.had] /\ lost' = Lost(c, c.to)
        \/ archive' = [archive EXCEPT ![c.to] = {}] /\ lost' = lost \union {c.to}
    BY DEF ReviseWrite
  <2> HIDE DEF c
  <2> QED BY <1>2, <1>5, <2>1 DEF Lost
<1> HIDE DEF c
<1>8. \A n \in Archives : n \in lost' \/ archive[n] \subseteq archive'[n]
  BY <1>7
<1>9. LeadsIn(archive', lost', notes)
  <2>1. LeadsIn(archive, lost, notes)
    BY DEF NoteInv, LeadInv
  <2>2. \A l \in Range(notes) : l \in Line
    BY <1>5 DEF Range
  <2>3. \A l \in Range(notes) : l.k = "pointer" => l.to \in Archives
    BY <2>2, LineFacts
  <2> QED BY <1>7, <1>8, <2>1, <2>3 DEF LeadsIn
<1>10. alone => \A n \in Archives : standing[n] = "none" => archive'[n] = {}
  BY <1>6, <1>7
<1>11. alone => \A kind \in hinted' : Active(notes', kind)
  BY <1>3, <1>6
<1> QED BY <1>3, <1>4, <1>5, <1>6, <1>7, <1>8, <1>9, <1>10, <1>11, WriteKeeps

LEMMA HintWriteKeeps ==
    ASSUME NoteInv, NEW w \in Writers, HintWrite(w)
    PROVE  NoteInv'
<1> DEFINE c == writing[w]
<1>1. c \in NoteCall /\ c.op = "hint" /\ c # AtRest /\ HasRead(c)
  BY DEF HintWrite, NoteInv, NoteTypeOK, AtRest, HasRead
<1>2. c.read \in Seq(Line) /\ c.kind \in NoteKinds
  BY <1>1, NoteCallFacts
<1>3. writing' = [writing EXCEPT ![w] = AtRest] /\ UNCHANGED <<archive, standing, lost, pinned, today, alone>>
  BY DEF HintWrite
<1>4. alone => \A v \in Writers : v # w => writing[v] = AtRest
  BY <1>1, OthersRest
<1>5. /\ notes \in Seq(Line) /\ archive \in [Archives -> SUBSET Heads]
      /\ hinted \in SUBSET NoteKinds /\ LeadsIn(archive, lost, notes) /\ today \in Nat
      /\ standing \in [Archives -> Standings] /\ lost \in SUBSET Archives
  BY DEF NoteInv, NoteTypeOK, LeadInv
<1>6. alone => /\ Under(notes) /\ \A kind \in hinted : Active(notes, kind)
               /\ \A m \in Archives : standing[m] = "none" => archive[m] = {}
  BY DEF NoteInv, AloneInv
<1>7. CASE Accepted(notes, Cooled(c.read, c.kind))
  <2>1. notes' = Cooled(c.read, c.kind) /\ hinted' = hinted \union {c.kind}
    BY <1>7 DEF HintWrite
  <2>2. LeadsIn(archive, lost, c.read)
    BY <1>1 DEF NoteInv, LeadInv
  <2>3. alone => c.read = notes
    BY <1>1, OthersRest
  <2> HIDE DEF c
  <2>4. /\ Cooled(c.read, c.kind) \in Seq(Line)
        /\ Marker(c.kind, today) \in Range(Cooled(c.read, c.kind))
        /\ \A l \in Range(Cooled(c.read, c.kind)) : l.k # "marker" => l \in Range(c.read)
        /\ \A l \in Range(c.read) : l.k # "marker" \/ l.of # c.kind => l \in Range(Cooled(c.read, c.kind))
        /\ Under(c.read) => Under(Cooled(c.read, c.kind))
    BY <1>2, <1>5, CooledFacts
  <2>5. LeadsIn(archive, lost, Cooled(c.read, c.kind))
    BY <2>2, <2>4 DEF LeadsIn
  <2>6. Active(Cooled(c.read, c.kind), c.kind)
    BY <1>5, <2>4, LineFields DEF Active, IsMarker
  <2>7. ASSUME NEW kind, kind # c.kind, Active(c.read, kind)
        PROVE  Active(Cooled(c.read, c.kind), kind)
    BY <2>4, <2>7 DEF Active, IsMarker
  <2>8. alone => \A kind \in hinted' : Active(Cooled(c.read, c.kind), kind)
    BY <1>6, <2>1, <2>3, <2>6, <2>7
  <2>9. hinted' \in SUBSET NoteKinds
    BY <1>2, <1>5, <2>1
  <2>10. /\ notes' \in Seq(Line) /\ LeadsIn(archive, lost, notes')
         /\ alone => Under(notes') /\ \A kind \in hinted' : Active(notes', kind)
    BY <1>6, <2>1, <2>3, <2>4, <2>5, <2>8
  <2>11. \A m \in Archives : m \in lost' \/ archive[m] \subseteq archive'[m]
    BY <1>3
  <2> QED
    BY <1>3, <1>4, <1>5, <1>6, <2>9, <2>10, <2>11, WriteKeeps
<1>8. CASE ~Accepted(notes, Cooled(c.read, c.kind))
  <2>1. UNCHANGED <<notes, hinted>>
    BY <1>8 DEF HintWrite
  <2> HIDE DEF c
  <2> QED BY <1>3, <1>4, <1>5, <1>6, <2>1, WriteKeeps
<1> QED BY <1>7, <1>8

LEMMA RecomposeKeeps ==
    ASSUME NoteInv, Recompose
    PROVE  NoteInv'
<1>1. (alone => Calm) /\ pinned' = ~pinned /\ UNCHANGED <<notes, archive, standing, lost, today, hinted, writing, alone>>
  BY DEF Recompose
<1>2. pinned' \in BOOLEAN
  BY <1>1
<1>3. NoteTypeOK'
  BY <1>1, <1>2 DEF NoteInv, NoteTypeOK
<1>4. \A kind : Active(notes, kind)' <=> Active(notes, kind)
  BY <1>1 DEF Active
<1> QED BY <1>1, <1>3, <1>4 DEF NoteInv, LeadInv, AloneInv

LEMMA RetractMaterialKeeps ==
    ASSUME NoteInv, NEW m \in Archives, RetractMaterial(m)
    PROVE  NoteInv'
<1>1. /\ (alone => Calm) /\ UNCHANGED <<notes, archive, lost, pinned, today, hinted, writing, alone>>
      /\ standing[m] \in {"live", "retracted"}
      /\ \E s \in {"live", "retracted"} : standing' = [standing EXCEPT ![m] = s]
  BY DEF RetractMaterial
<1>2. NoteTypeOK'
  BY <1>1 DEF NoteInv, NoteTypeOK, Standings
<1>3. \A n \in Archives : standing'[n] = "none" => standing[n] = "none"
  BY <1>1 DEF NoteInv, NoteTypeOK
<1>4. LeadInv'
  BY <1>1 DEF NoteInv, LeadInv, LeadsIn
<1>5. AloneInv'
  <2>1. \A kind : Active(notes, kind)' <=> Active(notes, kind)
    BY <1>1 DEF Active
  <2> QED BY <1>1, <1>3, <2>1 DEF NoteInv, AloneInv, Calm
<1> QED BY <1>2, <1>4, <1>5 DEF NoteInv

LEMMA MorrowKeeps ==
    ASSUME NoteInv, Morrow
    PROVE  NoteInv'
<1>1. Calm /\ today' = today + 1 /\ hinted' = {} /\ UNCHANGED <<notes, archive, standing, lost, pinned, writing, alone>>
  BY DEF Morrow
<1>2. NoteTypeOK'
  BY <1>1 DEF NoteInv, NoteTypeOK
<1> QED BY <1>1, <1>2 DEF NoteInv, LeadInv, AloneInv, Calm

LEMMA NoteStep ==
    ASSUME TagNotesAssumption, NoteInv, [NoteNext]_noteVars
    PROVE  NoteInv'
<1>1. CASE UNCHANGED noteVars
  BY <1>1 DEF noteVars, NoteInv, NoteTypeOK, LeadInv, LeadsIn, AloneInv, Active, IsMarker
<1>2. CASE NoteNext
  BY <1>2, Append1Keeps, DemoteReadKeeps, DemoteLookKeeps, DemoteWriteKeeps, ReviseReadKeeps, ReviseWriteKeeps,
     RetractMaterialKeeps, HintReadKeeps, HintWriteKeeps, ReplaceKeeps, RecomposeKeeps, MorrowKeeps DEF NoteNext
<1> QED BY <1>1, <1>2

\* The calls under way change in a read or in a write of one writer.
Reads(w) == DemoteRead(w) \/ DemoteLook(w) \/ ReviseRead(w) \/ HintRead(w)
LEMMA WritingChanges ==
    ASSUME NoteNext, writing' # writing
    PROVE  \E w \in Writers : Reads(w) \/ DemoteWrite(w) \/ ReviseWrite(w) \/ HintWrite(w)
BY DEF NoteNext, Append1, Replace, Recompose, RetractMaterial, Morrow, Reads

\* What no call forgets: sections, pointers, and what the materials hold.
SectionsKept ==
    HeadsOf(notes) \ HeadsOf(notes') \subseteq
        UNION {archive'[m] : m \in {n \in Archives : standing'[n] = "live"}}
PointersKept ==
    /\ Pointers(notes) \subseteq Pointers(notes')
    /\ \A l \in Pointers(notes') \ Pointers(notes) : standing'[l.to] = "live" /\ l.of \in archive'[l.to]
MaterialsKept ==
    \A m \in Archives :
        \/ archive[m] \subseteq archive'[m]
        \/ \E w \in Writers : writing[w].op = "revise" /\ writing[w].to = m /\ writing[w].mode = "overwrite"

LEMMA DemoteForgetsNothing ==
    ASSUME TagNotesAssumption, NoteInv, alone, NEW w \in Writers, DemoteWrite(w)
    PROVE  SectionsKept /\ PointersKept /\ MaterialsKept
<1> DEFINE c == writing[w]
<1>1. c \in NoteCall /\ c.op = "demote" /\ c # AtRest /\ HasRead(c)
  BY DEF DemoteWrite, NoteInv, NoteTypeOK, AtRest, HasRead
<1>2. /\ c.read \in Seq(Line) /\ c.heads \in SUBSET Heads /\ c.had \in SUBSET Heads
      /\ c.mode \in {"pointer", "drop"}
  BY <1>1, NoteCallFacts
<1>3. c.read = notes /\ Under(c.read)
  BY <1>1, OthersRest
<1>4. PICK m \in Targets(c) :
         IF Accepted(notes, Demoted(c, m))
         THEN /\ notes' = Demoted(c, m)
              /\ archive' = [archive EXCEPT ![m] = c.had \union c.heads]
              /\ standing' = IF c.to = "new" THEN [standing EXCEPT ![m] = "live"] ELSE standing
         ELSE UNCHANGED <<notes, archive, standing, lost, hinted>>
  BY DEF DemoteWrite
<1>5. /\ m \in Archives
      /\ c.had = archive[m] /\ standing[m] = IF c.to = "new" THEN "none" ELSE "live"
  BY <1>1, TargetFacts
<1>6. archive \in [Archives -> SUBSET Heads] /\ standing \in [Archives -> Standings]
  BY DEF NoteInv, NoteTypeOK
<1>7. CASE ~Accepted(notes, Demoted(c, m))
  <2>1. notes' = notes /\ archive' = archive
    BY <1>4, <1>7
  <2> QED BY <2>1 DEF HeadsOf, SectionsKept, PointersKept, MaterialsKept, Pointers
<1>8. CASE Accepted(notes, Demoted(c, m))
  <2>1. /\ notes' = Demoted(c, m) /\ archive' = [archive EXCEPT ![m] = c.had \union c.heads]
        /\ standing' = IF c.to = "new" THEN [standing EXCEPT ![m] = "live"] ELSE standing
    BY <1>4, <1>8
  <2> HIDE DEF c
  <2>2. /\ standing'[m] = "live"
        /\ archive'[m] = archive[m] \union c.heads
        /\ \A n \in Archives : archive[n] \subseteq archive'[n]
    BY <1>5, <1>6, <2>1
  <2>3. /\ \A g : Head1(g) \in Range(c.read) /\ g \notin c.heads /\ g # "index" =>
               Head1(g) \in Range(Demoted(c, m))
        /\ \A l \in Range(c.read) : l.k = "pointer" => l \in Range(Demoted(c, m))
        /\ \A l \in Range(Demoted(c, m)) : l.k = "pointer" =>
               l \in Range(c.read) \/ (l.of \in c.heads /\ l.to = m)
    BY <1>2, <1>3, <1>5, DemotedFacts
  <2>4. ASSUME NEW g \in HeadsOf(notes), g \notin c.heads
        PROVE  g \in HeadsOf(notes')
    <3>1. PICK l \in Range(notes) : l.k = "head" /\ l.of = g /\ g # "index"
      BY DEF HeadsOf
    <3>2. l \in Line
      BY <1>2, <1>3, <3>1 DEF Range
    <3>3. l = Head1(g)
      BY <3>1, <3>2, LineFacts
    <3>4. l \in Range(notes')
      BY <1>3, <2>1, <2>3, <2>4, <3>1, <3>3
    <3> QED BY <3>1, <3>4 DEF HeadsOf
  <2>5. SectionsKept
    <3>1. \A g \in HeadsOf(notes) \ HeadsOf(notes') : g \in archive'[m]
      BY <2>2, <2>4
    <3> QED BY <1>5, <2>2, <3>1 DEF SectionsKept
  <2>6. PointersKept
    BY <1>3, <2>1, <2>2, <2>3 DEF PointersKept, Pointers
  <2> QED BY <2>2, <2>5, <2>6 DEF MaterialsKept
<1> QED BY <1>7, <1>8

LEMMA ReviseForgetsNothing ==
    ASSUME TagNotesAssumption, NoteInv, alone, NEW w \in Writers, ReviseWrite(w)
    PROVE  SectionsKept /\ PointersKept /\ MaterialsKept
<1> DEFINE c == writing[w]
<1>1. c \in NoteCall /\ c.op = "revise" /\ c # AtRest
  BY DEF ReviseWrite, NoteInv, NoteTypeOK, AtRest
<1>2. c.to \in Archives /\ c.to # "new" /\ c.mode \in {"append", "overwrite"}
  BY <1>1, NoteCallFacts DEF TagNotesAssumption, NoteCall, DemoteCall, AtRest
<1>3. c.had = archive[c.to]
  BY <1>1, <1>2 DEF NoteInv, AloneInv
<1>4. notes' = notes /\ archive \in [Archives -> SUBSET Heads]
  BY DEF ReviseWrite, NoteInv, NoteTypeOK
<1>5. MaterialsKept
  <2>1. CASE c.mode = "append"
    <3>1. archive' = [archive EXCEPT ![c.to] = c.had]
      BY <2>1 DEF ReviseWrite
    <3>2. \A n \in Archives : archive'[n] = archive[n]
      BY <1>2, <1>3, <1>4, <3>1
    <3> QED BY <3>2 DEF MaterialsKept
  <2>2. CASE c.mode # "append"
    <3>1. archive' = [archive EXCEPT ![c.to] = {}]
      BY <2>2 DEF ReviseWrite
    <3>2. \A n \in Archives : n # c.to => archive'[n] = archive[n]
      BY <1>4, <3>1
    <3> QED BY <1>1, <1>2, <2>2, <3>2 DEF MaterialsKept
  <2> QED BY <2>1, <2>2
<1> QED BY <1>4, <1>5 DEF SectionsKept, PointersKept, HeadsOf, Pointers

LEMMA HintForgetsNothing ==
    ASSUME NoteInv, alone, NEW w \in Writers, HintWrite(w)
    PROVE  {l \in Range(notes) : l.k # "marker"} = {l \in Range(notes') : l.k # "marker"}
<1> DEFINE c == writing[w]
<1>1. c \in NoteCall /\ c.op = "hint" /\ c # AtRest /\ HasRead(c)
  BY DEF HintWrite, NoteInv, NoteTypeOK, AtRest, HasRead
<1>2. c.read \in Seq(Line) /\ c.kind \in NoteKinds /\ today \in Nat
  BY <1>1, NoteCallFacts DEF NoteInv, NoteTypeOK
<1>3. c.read = notes
  BY <1>1, OthersRest
<1>4. notes' = Cooled(c.read, c.kind) \/ notes' = notes
  BY DEF HintWrite
<1> HIDE DEF c
<1>5. /\ \A l \in Range(c.read) : l.k # "marker" \/ l.of # c.kind => l \in Range(Cooled(c.read, c.kind))
      /\ \A l \in Range(Cooled(c.read, c.kind)) : l.k # "marker" => l \in Range(c.read)
  BY <1>2, CooledFacts
<1> QED BY <1>3, <1>4, <1>5

\* No call forgets a section or a pointer ...
LEMMA NoteForgetsNothing ==
    ASSUME TagNotesAssumption, NoteInv, [NoteNext]_noteVars, alone
    PROVE  NothingForgotten
<1> SUFFICES ASSUME writing' # writing
             PROVE  SectionsKept /\ PointersKept /\ MaterialsKept
  BY DEF NothingForgotten, SectionsKept, PointersKept, MaterialsKept
<1>1. NoteNext
  BY DEF noteVars
<1>2. PICK w \in Writers : Reads(w) \/ DemoteWrite(w) \/ ReviseWrite(w) \/ HintWrite(w)
  BY <1>1, WritingChanges
<1>3. CASE Reads(w)
  <2>1. notes' = notes /\ archive' = archive
    BY <1>3 DEF Reads, DemoteRead, DemoteLook, ReviseRead, HintRead
  <2> QED BY <2>1 DEF SectionsKept, PointersKept, MaterialsKept, HeadsOf, Pointers
<1>4. CASE DemoteWrite(w)
  BY <1>4, DemoteForgetsNothing
<1>5. CASE ReviseWrite(w)
  BY <1>5, ReviseForgetsNothing
<1>6. CASE HintWrite(w)
  <2>1. {l \in Range(notes) : l.k # "marker"} = {l \in Range(notes') : l.k # "marker"}
    BY <1>6, HintForgetsNothing
  <2>2. archive' = archive
    BY <1>6 DEF HintWrite
  <2> QED BY <2>1, <2>2 DEF SectionsKept, PointersKept, MaterialsKept, HeadsOf, Pointers
<1> QED BY <1>2, <1>3, <1>4, <1>5, <1>6

\* ... and no hint is given that was given today.
LEMMA HintIsNew ==
    ASSUME NoteInv, [NoteNext]_noteVars, alone
    PROVE  OneHintADay
<1> SUFFICES ASSUME NEW w \in Writers, writing[w].op = "hint", writing'[w] = AtRest
             PROVE  writing[w].kind \notin hinted
  BY DEF OneHintADay
<1>1. writing[w] # AtRest
  BY DEF AtRest
<1>2. ~Active(notes, writing[w].kind) /\ \A kind \in hinted : Active(notes, kind)
  BY <1>1, OthersRest
<1> QED BY <1>2

\* Whatever overlaps, the pointers of the notes lead to the sections they name,
\* unless their material was written over; one call at a time, no section is lost
\* on its way to a material and no hint is given twice a day.
THEOREM NotesAlwaysKept ==
    ASSUME TagNotesAssumption
    PROVE  NoteSpec => NotesAreKept
<1>1. NoteInit => NoteInv
  BY NoteInitial
<1>2. NoteInv /\ [NoteNext]_noteVars => NoteInv'
  BY NoteStep
<1>3. NoteInv => \A l \in Range(notes) : Leads(l)
  BY DEF NoteInv, LeadInv, LeadsIn, Leads
<1>4. NoteInv /\ [NoteNext]_noteVars => [alone => NothingForgotten /\ OneHintADay]_noteVars
  BY NoteForgetsNothing, HintIsNew
<1> QED
  BY <1>1, <1>2, <1>3, <1>4, PTL DEF NoteSpec, NotesAreKept
================================================================================
