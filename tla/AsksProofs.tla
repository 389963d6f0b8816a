------------------------------ MODULE AsksProofs ------------------------------
(***************************************************************************)
(* Proofs about Asks, Records, Activities and DeltaNotices, in this order, *)
(* for any sessions, activities, questions, records, tags and faults.      *)
(*                                                                         *)
(* Asks.  The invariant is the conjunction of the type invariant, the two  *)
(* invariants of the rows and one fact about calls under way: a row that a *)
(* call names exists, and a row under triage is answered or triaged        *)
(* already.  The last is what makes a stale triage harmless: the UPDATE    *)
(* finds the row answered, and then blocking something, or does not touch  *)
(* it.  For calls that do not overlap, a call under way is alone besides,  *)
(* the question it posts is not cooling, and the activity of a check-in is *)
(* still in progress when it delivers.                                     *)
(*                                                                         *)
(* The other invariants are introduced where they are stated.              *)
(***************************************************************************)
EXTENDS Asks, Records, Activities, DeltaNotices, FiniteSetTheorems, TLAPS

CallsRefer ==
    \A s \in Sessions :
       /\ call[s].pc \in {"tag", "link"} => call[s].ask \in Rows
       /\ call[s].pc \in {"triage", "promote"} =>
             asks[call[s].ask].status \in {"answered"} \union Triaged

IInv == TypeOK /\ OneOpenPerQuestion /\ BlocksWhileUndecided /\ CallsRefer

\* What a call record holds, by the step it is at.
LEMMA CallFields ==
    ASSUME NEW c \in Call
    PROVE  /\ c.pc = "idle" => c = Idle
           /\ c.pc = "post" => /\ c.q \in Questions
                               /\ c.blocks \in (SUBSET Activities) \ {{}}
                               /\ c.tags \in (SUBSET Tags) \ {{}}
           /\ c.pc \in {"tag", "link"} => c.ask \in Ids /\ c.tags \in (SUBSET Tags) \ {{}}
           /\ c.pc \in {"triage", "promote"} => c.ask \in Ids
           /\ c.pc = "triage" => c.verdict \in Triaged
           /\ c.pc \in {"checkin", "deliver"} => c.act \in Activities /\ c.seen \in ActStatus
           /\ c.pc = "checkin" => [c EXCEPT !.pc = "deliver"] \in Call
  BY DEF Call, Idle

\* A row is a record of its fields; no row is told apart by its status.
LEMMA RowFields ==
    ASSUME TypeOK, NEW i \in Ids
    PROVE  /\ i \in Rows => asks[i] \in Row
           /\ i \notin Rows => asks[i] = NoRow
           /\ asks[i].status \in AskStatus \union {"none"}
           /\ asks[i].status # "none" => i \in Rows
  BY DEF TypeOK, Rows, Row, NoRow, AskStatus, Undecided, Triaged

LEMMA InitIInv == Init => IInv
<1> SUFFICES ASSUME Init PROVE IInv
  OBVIOUS
<1>1. TypeOK
  BY DEF Init, TypeOK, ActStatus, Call
<1>2. Rows = {}
  BY DEF Init, Rows, NoRow
<1>3. OneOpenPerQuestion /\ BlocksWhileUndecided
  BY <1>2 DEF OneOpenPerQuestion, BlocksWhileUndecided
<1>4. CallsRefer
  BY DEF Init, CallsRefer, Idle
<1>. QED  BY <1>1, <1>3, <1>4 DEF IInv

\* Steps that leave the rows alone keep what is said of the rows.
LEMMA SameRows ==
    ASSUME IInv, UNCHANGED asks
    PROVE  /\ Rows' = Rows
           /\ OneOpenPerQuestion' /\ BlocksWhileUndecided'
  BY DEF IInv, OneOpenPerQuestion, BlocksWhileUndecided, Rows, Open, Undecided

\* A step of one session's call, the rows unchanged.
LEMMA CallStep ==
    ASSUME IInv, UNCHANGED asks, NEW s \in Sessions, NEW c \in Call, Become(s, c),
           act' \in [Activities -> ActStatus], made' \subseteq Ids, delivered' \subseteq Ids,
           c.pc \in {"tag", "link"} => c.ask \in Rows,
           c.pc \in {"triage", "promote"} => asks[c.ask].status \in {"answered"} \union Triaged
    PROVE  IInv'
<1>1. TypeOK'
  BY DEF IInv, TypeOK, Become
<1>2. CallsRefer'
  <2> SUFFICES ASSUME NEW r \in Sessions
               PROVE  /\ call'[r].pc \in {"tag", "link"} => call'[r].ask \in Rows'
                      /\ call'[r].pc \in {"triage", "promote"} =>
                            asks'[call'[r].ask].status \in {"answered"} \union Triaged
    BY DEF CallsRefer
  <2>1. Rows' = Rows
    BY SameRows
  <2>2. CASE r = s
    BY <2>1, <2>2 DEF IInv, TypeOK, Become
  <2>3. CASE r # s
    BY <2>1, <2>3 DEF IInv, TypeOK, Become, CallsRefer
  <2>. QED  BY <2>2, <2>3
<1>. QED  BY <1>1, <1>2, SameRows DEF IInv

\* A change of one row that exists keeps the rest of the invariant when the
\* row keeps its question, opens nothing, and blocks as its status demands;
\* a row under triage may only be settled.  The calls stay, or end, or go on
\* to tag a row that exists.
LEMMA RowStep ==
    ASSUME IInv, NEW i \in Rows, NEW r \in Row, asks' = [asks EXCEPT ![i] = r],
           r.q = asks[i].q, r.status = "open" => Open(i),
           (r.blocks # {}) <=> (r.status \in Undecided),
           asks[i].status \in {"answered"} \union Triaged => r.status \in {"answered"} \union Triaged,
           call' \in [Sessions -> Call],
           \A s \in Sessions : \/ call'[s] = call[s]
                               \/ call'[s] = Idle
                               \/ call'[s].pc = "tag" /\ call'[s].ask \in Rows,
           UNCHANGED act, made' \subseteq Ids, delivered' \subseteq Ids
    PROVE  IInv'
<1>1. i \in Ids /\ asks' \in [Ids -> Row \union {NoRow}]
  BY DEF IInv, TypeOK, Rows
<1>2. Rows' = Rows
  BY <1>1 DEF IInv, TypeOK, Rows, Row, AskStatus, Undecided, Triaged
<1>3. TypeOK'
  BY <1>1 DEF IInv, TypeOK
<1>4. OneOpenPerQuestion'
  <2> SUFFICES ASSUME NEW j \in Rows, NEW k \in Rows, Open(j)', Open(k)', asks'[j].q = asks'[k].q
               PROVE  j = k
    BY <1>2 DEF OneOpenPerQuestion
  <2>1. \A l \in Rows : asks'[l].q = asks[l].q /\ (Open(l)' => Open(l))
    BY DEF IInv, TypeOK, Open, Rows
  <2>. QED  BY <2>1 DEF IInv, OneOpenPerQuestion
<1>5. BlocksWhileUndecided'
  BY <1>1, <1>2 DEF IInv, TypeOK, BlocksWhileUndecided
<1>6. CallsRefer'
  <2> SUFFICES ASSUME NEW s \in Sessions
               PROVE  /\ call'[s].pc \in {"tag", "link"} => call'[s].ask \in Rows
                      /\ call'[s].pc \in {"triage", "promote"} =>
                            asks'[call'[s].ask].status \in {"answered"} \union Triaged
    BY <1>2 DEF CallsRefer
  <2>1. CASE call'[s] = call[s]
    BY <2>1, <1>1, CallFields DEF IInv, TypeOK, CallsRefer
  <2>2. CASE call'[s] = Idle
    BY <2>2 DEF Idle
  <2>3. CASE call'[s].pc = "tag" /\ call'[s].ask \in Rows
    BY <2>3
  <2>. QED  BY <2>1, <2>2, <2>3
<1>. QED  BY <1>3, <1>4, <1>5, <1>6 DEF IInv

\* A call becomes another: the calls stay well typed.
LEMMA BecomeType ==
    ASSUME TypeOK, NEW s \in Sessions, NEW c \in Call, Become(s, c)
    PROVE  /\ call' \in [Sessions -> Call] /\ call'[s] = c
           /\ \A r \in Sessions : r # s => call'[r] = call[r]
  BY DEF TypeOK, Become

LEMMA IdleCall == Idle \in Call
  BY DEF Call

\* add_ask: the read before the write.
LEMMA AddAskCheckIInv == ASSUME IInv, NEW s \in Sessions, AddAskCheck(s) PROVE IInv'
<1>1. PICK q \in Questions, blocks \in (SUBSET Activities) \ {{}}, t \in Tags :
         Become(s, [pc |-> "post", q |-> q, blocks |-> blocks, tags |-> {t}])
  BY DEF AddAskCheck
<1>2. [pc |-> "post", q |-> q, blocks |-> blocks, tags |-> {t}] \in Call
  BY DEF Call
<1>. QED  BY <1>1, <1>2, CallStep DEF AddAskCheck, IInv, TypeOK

\* The upsert, when the question has an open ask.
LEMMA RepeatIInv == ASSUME IInv, NEW s \in Sessions, call[s].pc = "post", Repeat(s),
                           UNCHANGED <<act, made, delivered>>
                    PROVE  IInv'
<1>1. PICK i \in RowsFor(call[s].q) :
         /\ Open(i)
         /\ asks' = [asks EXCEPT ![i].blocks = @ \union call[s].blocks]
         /\ Become(s, [pc |-> "tag", ask |-> i, tags |-> call[s].tags, new |-> FALSE])
  BY DEF Repeat
<1> DEFINE r == [asks[i] EXCEPT !.blocks = @ \union call[s].blocks]
           c == [pc |-> "tag", ask |-> i, tags |-> call[s].tags, new |-> FALSE]
<1>2. call[s] \in Call /\ i \in Rows /\ i \in Ids
  BY DEF IInv, TypeOK, RowsFor, Rows
<1>3. call[s].blocks \in (SUBSET Activities) \ {{}} /\ call[s].tags \in (SUBSET Tags) \ {{}}
  BY <1>2, CallFields
<1>4. c \in Call
  BY <1>2, <1>3 DEF Call
<1>5. asks[i] \in Row
  BY <1>2, RowFields DEF IInv
<1>6. r \in Row /\ r.q = asks[i].q /\ r.status = "open" /\ r.blocks # {}
  BY <1>1, <1>3, <1>5 DEF Row, Open
<1>7. asks' = [asks EXCEPT ![i] = r]
  BY <1>1
<1>8. /\ call' \in [Sessions -> Call]
      /\ \A u \in Sessions : call'[u] = call[u] \/ (call'[u].pc = "tag" /\ call'[u].ask \in Rows)
  BY <1>1, <1>2, <1>4, BecomeType DEF IInv
<1> HIDE DEF r, c
<1>9. r.status \in Undecided
  BY <1>6 DEF Undecided
<1>10. asks[i].status \notin {"answered"} \union Triaged
  BY <1>1 DEF Open, Triaged
<1>11. made' \subseteq Ids /\ delivered' \subseteq Ids
  BY DEF IInv, TypeOK
<1>. QED  BY <1>1, <1>2, <1>6, <1>7, <1>8, <1>9, <1>10, <1>11, RowStep

\* The upsert, when it has none: the new row is the only open one.
LEMMA InsertIInv == ASSUME IInv, NEW s \in Sessions, call[s].pc = "post", Insert(s),
                           ~\E i \in RowsFor(call[s].q) : Open(i),
                           UNCHANGED <<act, made, delivered>>
                    PROVE  IInv'
<1> DEFINE row == [q |-> call[s].q, status |-> "open", blocks |-> call[s].blocks,
                   tags |-> {}, cooling |-> FALSE]
<1>1. PICK i \in Ids \ Rows :
         /\ asks' = [asks EXCEPT ![i] = row]
         /\ Become(s, [pc |-> "tag", ask |-> i, tags |-> call[s].tags, new |-> TRUE])
  BY DEF Insert
<1> DEFINE c == [pc |-> "tag", ask |-> i, tags |-> call[s].tags, new |-> TRUE]
<1>2. /\ call[s] \in Call
      /\ call[s].q \in Questions /\ call[s].blocks \in (SUBSET Activities) \ {{}}
      /\ call[s].tags \in (SUBSET Tags) \ {{}}
  BY CallFields DEF IInv, TypeOK
<1>3. c \in Call
  BY <1>2 DEF Call
<1>4. row \in Row
  BY <1>2 DEF Row, AskStatus, Undecided
<1>5. asks' \in [Ids -> Row \union {NoRow}] /\ asks'[i] = row
      /\ \A j \in Ids : j # i => asks'[j] = asks[j]
  BY <1>1, <1>4 DEF IInv, TypeOK
<1>6. Rows' = Rows \union {i}
  BY <1>5 DEF Rows
<1>7. call' \in [Sessions -> Call] /\ call'[s] = c /\ \A u \in Sessions : u # s => call'[u] = call[u]
  BY <1>1, <1>3, BecomeType DEF IInv
<1>8. TypeOK'
  BY <1>5, <1>7 DEF IInv, TypeOK
<1>9. OneOpenPerQuestion'
  <2> SUFFICES ASSUME NEW j \in Rows', NEW k \in Rows', Open(j)', Open(k)', asks'[j].q = asks'[k].q
               PROVE  j = k
    BY DEF OneOpenPerQuestion
  <2>1. \A l \in Rows : ~(Open(l) /\ asks[l].q = call[s].q)
    BY DEF RowsFor
  <2>2. \A l \in Rows : asks'[l] = asks[l]
    BY <1>5 DEF Rows
  <2>. QED  BY <1>5, <1>6, <2>1, <2>2 DEF IInv, OneOpenPerQuestion, Open
<1>10. BlocksWhileUndecided'
  BY <1>2, <1>5, <1>6 DEF IInv, BlocksWhileUndecided, Undecided, Rows
<1>11. CallsRefer'
  <2> SUFFICES ASSUME NEW u \in Sessions
               PROVE  /\ call'[u].pc \in {"tag", "link"} => call'[u].ask \in Rows'
                      /\ call'[u].pc \in {"triage", "promote"} =>
                            asks'[call'[u].ask].status \in {"answered"} \union Triaged
    BY DEF CallsRefer
  <2>1. CASE u = s
    BY <2>1, <1>6, <1>7
  <2>2. CASE u # s
    <3>1. call'[u] = call[u] /\ call[u] \in Call
      BY <2>2, <1>7 DEF IInv, TypeOK
    <3>2. call[u].pc \in {"triage", "promote"} => call[u].ask \in Rows
      BY <3>1, CallFields, RowFields DEF IInv, CallsRefer, Triaged
    <3>3. \A l \in Rows : asks'[l] = asks[l]
      BY <1>5 DEF Rows
    <3>. QED  BY <3>1, <3>2, <3>3, <1>6 DEF IInv, CallsRefer
  <2>. QED  BY <2>1, <2>2
<1>. QED  BY <1>8, <1>9, <1>10, <1>11 DEF IInv

LEMMA AddAskWriteIInv == ASSUME IInv, NEW s \in Sessions, AddAskWrite(s) PROVE IInv'
  BY RepeatIInv, InsertIInv DEF AddAskWrite

LEMMA AddAskReadTagsIInv == ASSUME IInv, NEW s \in Sessions, AddAskReadTags(s) PROVE IInv'
<1> DEFINE c == [pc |-> "link", ask |-> call[s].ask, tags |-> call[s].tags]
<1>1. call[s] \in Call /\ call[s].pc = "tag"
  BY DEF IInv, TypeOK, AddAskReadTags
<1>2. c \in Call /\ c.ask \in Rows
  BY <1>1, CallFields DEF Call, IInv, CallsRefer
<1>3. Become(s, c) \/ Become(s, Idle)
  BY DEF AddAskReadTags, Return
<1>4. CASE Become(s, c)
  BY <1>2, <1>4, CallStep DEF AddAskReadTags, IInv, TypeOK
<1>5. CASE Become(s, Idle)
  BY <1>5, IdleCall, CallStep DEF AddAskReadTags, IInv, TypeOK, Idle
<1>. QED  BY <1>3, <1>4, <1>5

LEMMA AddAskLinkIInv == ASSUME IInv, NEW s \in Sessions, AddAskLink(s) PROVE IInv'
<1> DEFINE i == call[s].ask
           r == [asks[i] EXCEPT !.tags = @ \union call[s].tags]
<1>1. call[s] \in Call /\ call[s].pc = "link"
  BY DEF IInv, TypeOK, AddAskLink
<1>2. i \in Rows /\ i \in Ids /\ call[s].tags \subseteq Tags
  BY <1>1, CallFields DEF IInv, CallsRefer
<1>3. asks[i] \in Row
  BY <1>2, RowFields DEF IInv
<1>4. r \in Row /\ r.q = asks[i].q /\ r.status = asks[i].status /\ r.blocks = asks[i].blocks
  BY <1>2, <1>3 DEF Row
<1>5. asks' = [asks EXCEPT ![i] = r]
  BY DEF AddAskLink
<1>6. /\ call' \in [Sessions -> Call]
      /\ \A u \in Sessions : call'[u] = call[u] \/ call'[u] = Idle
  BY IdleCall, BecomeType DEF AddAskLink, Return, IInv
<1>7. (r.blocks # {}) <=> (r.status \in Undecided)
  BY <1>2, <1>4 DEF IInv, BlocksWhileUndecided
<1>8. UNCHANGED act /\ made' \subseteq Ids /\ delivered' \subseteq Ids
  BY DEF AddAskLink, IInv, TypeOK
<1> HIDE DEF i, r
<1>. QED  BY <1>2, <1>4, <1>5, <1>6, <1>7, <1>8, RowStep DEF Open

\* Answers, withdrawals and the end of a cooldown: one row, no call.
LEMMA RowActionsIInv ==
    ASSUME IInv, AnswerAsk \/ CoolDown \/ \E s \in Sessions : WithdrawAsk(s)
    PROVE  IInv'
<1>1. PICK i \in Rows :
         \/ Open(i) /\ asks' = [asks EXCEPT ![i].status = "answered"]
         \/ asks' = [asks EXCEPT ![i].cooling = FALSE]
         \/ /\ Open(i)
            /\ asks' = [asks EXCEPT ![i] =
                          [@ EXCEPT !.status = "withdrawn", !.cooling = TRUE, !.blocks = {}]]
  BY DEF AnswerAsk, CoolDown, WithdrawAsk
<1>2. /\ UNCHANGED <<act, call>> /\ made' \subseteq Ids /\ delivered' \subseteq Ids
      /\ call' \in [Sessions -> Call] /\ \A u \in Sessions : call'[u] = call[u]
  BY DEF AnswerAsk, CoolDown, WithdrawAsk, IInv, TypeOK
<1>3. asks[i] \in Row /\ i \in Ids
  BY RowFields DEF IInv, Rows
<1>4. (asks[i].blocks # {}) <=> (asks[i].status \in Undecided)
  BY DEF IInv, BlocksWhileUndecided
<1>5. CASE Open(i) /\ asks' = [asks EXCEPT ![i].status = "answered"]
  <2> DEFINE r == [asks[i] EXCEPT !.status = "answered"]
  <2>1. r \in Row /\ r.q = asks[i].q /\ r.status = "answered" /\ r.blocks = asks[i].blocks
    BY <1>3 DEF Row, AskStatus, Undecided
  <2>2. asks' = [asks EXCEPT ![i] = r]
    BY <1>5
  <2> HIDE DEF r
  <2>3. (r.blocks # {}) <=> (r.status \in Undecided)
    BY <1>4, <1>5, <2>1 DEF Open, Undecided
  <2>. QED  BY <1>2, <1>5, <2>1, <2>2, <2>3, RowStep
<1>6. CASE asks' = [asks EXCEPT ![i].cooling = FALSE]
  <2> DEFINE r == [asks[i] EXCEPT !.cooling = FALSE]
  <2>1. r \in Row /\ r.q = asks[i].q /\ r.status = asks[i].status /\ r.blocks = asks[i].blocks
    BY <1>3 DEF Row
  <2>2. asks' = [asks EXCEPT ![i] = r]
    BY <1>6
  <2> HIDE DEF r
  <2>. QED  BY <1>2, <1>4, <2>1, <2>2, RowStep DEF Open
<1>7. CASE /\ Open(i)
           /\ asks' = [asks EXCEPT ![i] =
                         [@ EXCEPT !.status = "withdrawn", !.cooling = TRUE, !.blocks = {}]]
  <2> DEFINE r == [asks[i] EXCEPT !.status = "withdrawn", !.cooling = TRUE, !.blocks = {}]
  <2>1. r \in Row /\ r.q = asks[i].q /\ r.status = "withdrawn" /\ r.blocks = {}
    BY <1>3 DEF Row, AskStatus
  <2>2. asks' = [asks EXCEPT ![i] = r]
    BY <1>7
  <2> HIDE DEF r
  <2>3. asks[i].status \notin {"answered"} \union Triaged /\ r.status \notin Undecided
    BY <1>7, <2>1 DEF Open, Triaged, Undecided
  <2>. QED  BY <1>2, <2>1, <2>2, <2>3, RowStep
<1>. QED  BY <1>1, <1>5, <1>6, <1>7

LEMMA TriageCheckIInv == ASSUME IInv, NEW s \in Sessions, NEW i \in Rows, TriageCheck(s, i) PROVE IInv'
<1>1. PICK v \in Triaged : Become(s, [pc |-> "triage", ask |-> i, verdict |-> v])
  BY DEF TriageCheck
<1>2. [pc |-> "triage", ask |-> i, verdict |-> v] \in Call
  BY DEF Call, Rows
<1>. QED  BY <1>1, <1>2, CallStep DEF TriageCheck, IInv, TypeOK

LEMMA PromoteRecordIInv == ASSUME IInv, NEW s \in Sessions, PromoteRecord(s) PROVE IInv'
<1>1. call[s] \in Call /\ call[s].pc = "triage"
  BY DEF IInv, TypeOK, PromoteRecord
<1>2. call[s].ask \in Ids /\ asks[call[s].ask].status \in {"answered"} \union Triaged
  BY <1>1, CallFields DEF IInv, CallsRefer
<1>3. [pc |-> "promote", ask |-> call[s].ask] \in Call
  BY <1>2 DEF Call
<1>4. act' \in [Activities -> ActStatus] /\ made' \subseteq Ids /\ delivered' \subseteq Ids
  BY <1>2 DEF PromoteRecord, IInv, TypeOK
<1>. QED  BY <1>2, <1>3, <1>4, CallStep DEF PromoteRecord

\* The UPDATE of a triage: the row is answered and is settled, or stays.
LEMMA TriageWriteIInv == ASSUME IInv, NEW s \in Sessions, TriageWrite(s) PROVE IInv'
<1> DEFINE i == call[s].ask
<1>1. call[s] \in Call /\ call[s].pc \in {"triage", "promote"}
  BY DEF IInv, TypeOK, TriageWrite
<1>2. i \in Ids /\ asks[i].status \in {"answered"} \union Triaged /\ i \in Rows
  BY <1>1, CallFields, RowFields DEF IInv, CallsRefer, Triaged
<1>3. PICK v \in Triaged : Settle(i, v)
  BY DEF TriageWrite, Triaged
<1>4. Become(s, Idle) /\ UNCHANGED <<act, made, delivered>>
  BY DEF TriageWrite, Return
<1>5. CASE asks[i].status = "answered"
  <2> DEFINE r == [asks[i] EXCEPT !.status = v, !.blocks = {}]
  <2>1. asks' = [asks EXCEPT ![i] = r]
    BY <1>3, <1>5 DEF Settle
  <2>2. asks[i] \in Row
    BY <1>2, RowFields DEF IInv
  <2>3. r \in Row /\ r.q = asks[i].q /\ r.status = v /\ r.blocks = {}
    BY <2>2 DEF Row, AskStatus
  <2>4. /\ call' \in [Sessions -> Call]
        /\ \A u \in Sessions : call'[u] = call[u] \/ call'[u] = Idle
    BY <1>4, IdleCall, BecomeType DEF IInv
  <2>5. made' \subseteq Ids /\ delivered' \subseteq Ids
    BY <1>4 DEF IInv, TypeOK
  <2> HIDE DEF r, i
  <2>6. r.status # "open" /\ r.status \notin Undecided
    BY <2>3 DEF Triaged, Undecided
  <2>. QED  BY <1>2, <1>4, <2>1, <2>3, <2>4, <2>5, <2>6, RowStep
<1>6. CASE asks[i].status # "answered"
  <2>1. UNCHANGED asks
    BY <1>3, <1>6 DEF Settle
  <2>. QED  BY <1>4, <2>1, IdleCall, CallStep DEF IInv, TypeOK, Idle
<1>. QED  BY <1>5, <1>6

\* Calls that give up, and the steps of a check-in.
LEMMA ReturnIInv ==
    ASSUME IInv, NEW s \in Sessions,
           AddAskLinkFails(s) \/ PromoteRecordFails(s) \/ TriageWriteFails(s)
    PROVE  IInv'
<1>1. Become(s, Idle) /\ UNCHANGED <<act, asks, made, delivered>>
  BY DEF AddAskLinkFails, PromoteRecordFails, TriageWriteFails, Return
<1>. QED  BY <1>1, IdleCall, CallStep DEF IInv, TypeOK, Idle

LEMMA CheckInIInv == ASSUME IInv, NEW s \in Sessions, CheckIn(s) PROVE IInv'
<1>1. ASSUME NEW a \in Activities, CheckInRead(s, a) PROVE IInv'
  <2>1. [pc |-> "checkin", act |-> a, seen |-> act[a]] \in Call
    BY DEF Call, IInv, TypeOK
  <2>. QED  BY <1>1, <2>1, CallStep DEF CheckInRead, IInv, TypeOK
<1>2. ASSUME CheckInStart(s) \/ CheckInStartFails(s) PROVE IInv'
  <2> DEFINE c == [call[s] EXCEPT !.pc = "deliver"]
  <2>1. call[s] \in Call /\ call[s].pc = "checkin"
    BY <1>2 DEF IInv, TypeOK, CheckInStart, CheckInStartFails
  <2>2. c \in Call /\ c.pc = "deliver"
    BY <2>1 DEF Call, Idle
  <2>3. act' \in [Activities -> ActStatus]
    BY <1>2 DEF IInv, TypeOK, CheckInStart, CheckInStartFails, ActStatus
  <2>4. Become(s, c) /\ UNCHANGED <<asks, made, delivered>>
    BY <1>2 DEF CheckInStart, CheckInStartFails
  <2> HIDE DEF c
  <2>. QED  BY <2>2, <2>3, <2>4, CallStep DEF IInv, TypeOK
<1>3. ASSUME CheckInDeliver(s) PROVE IInv'
  <2>1. delivered' \subseteq Ids
    BY <1>3 DEF CheckInDeliver, AwaitingTriage, Rows, IInv, TypeOK
  <2>2. Become(s, Idle) /\ UNCHANGED <<act, asks, made>>
    BY <1>3 DEF CheckInDeliver, Return
  <2>. QED  BY <2>1, <2>2, IdleCall, CallStep DEF IInv, TypeOK, Idle
<1>. QED  BY <1>1, <1>2, <1>3 DEF CheckIn

LEMMA SetStatusIInv ==
    ASSUME IInv, NEW s \in Sessions, NEW a \in Activities, SetStatus(s, a)
    PROVE  IInv'
<1>1. act' \in [Activities -> ActStatus] /\ UNCHANGED <<asks, made, call, delivered>>
  BY DEF SetStatus, IInv, TypeOK
<1>2. TypeOK'
  BY <1>1 DEF IInv, TypeOK
<1>3. CallsRefer'
  BY <1>1, SameRows DEF IInv, CallsRefer
<1>. QED  BY <1>1, <1>2, <1>3, SameRows DEF IInv

\* The induction: one step per operation.
LEMMA NextIInv == IInv /\ [Next]_vars => IInv'
<1> SUFFICES ASSUME IInv, [Next]_vars PROVE IInv'
  OBVIOUS
<1>1. ASSUME NEW s \in Sessions, AddAsk(s) PROVE IInv'
  BY <1>1, AddAskCheckIInv, AddAskWriteIInv, AddAskReadTagsIInv, AddAskLinkIInv, ReturnIInv DEF AddAsk
<1>2. ASSUME NEW s \in Sessions, TriageAsk(s) PROVE IInv'
  BY <1>2, TriageCheckIInv, PromoteRecordIInv, TriageWriteIInv, ReturnIInv DEF TriageAsk
<1>3. CASE UNCHANGED vars
  <2>1. UNCHANGED <<act, asks, made, call, delivered>>
    BY <1>3 DEF vars
  <2>2. TypeOK' /\ CallsRefer'
    BY <2>1, SameRows DEF IInv, TypeOK, CallsRefer
  <2>. QED  BY <2>1, <2>2, SameRows DEF IInv
<1>. QED  BY <1>1, <1>2, <1>3, RowActionsIInv, CheckInIInv, SetStatusIInv DEF Next

LEMMA InvariantHolds == Spec => []IInv
<1>. QED  BY InitIInv, NextIInv, PTL DEF Spec

\* Every state of ask_service and of the calls under way is well typed.
THEOREM TypeCorrect == Spec => []TypeOK
<1>1. IInv => TypeOK
  BY DEF IInv
<1>. QED  BY <1>1, InvariantHolds, PTL

\* add_ask_with_conn: however posts, withdrawals and answers interleave, a
\* question never has two open asks.
THEOREM OneOpen == Spec => []OneOpenPerQuestion
<1>1. IInv => OneOpenPerQuestion
  BY DEF IInv
<1>. QED  BY <1>1, InvariantHolds, PTL

\* ask_blocks: an undecided ask blocks some activity, so that a check-in can
\* hand it out, and no other ask blocks any.
THEOREM BlocksExactlyUndecided == Spec => []BlocksWhileUndecided
<1>1. IInv => BlocksWhileUndecided
  BY DEF IInv
<1>. QED  BY <1>1, InvariantHolds, PTL

\* Both together, for any number of sessions, activities and questions.
THEOREM OpenAsksSound == Spec => []OpenAsksAreSound
<1>1. OpenAsksAreSound <=> OneOpenPerQuestion /\ BlocksWhileUndecided
  BY DEF OpenAsksAreSound
<1>. QED  BY <1>1, OneOpen, BlocksExactlyUndecided, PTL

--------------------------------------------------------------------------------
\* A step changes the status of a row along one edge of the life cycle only:
\* the stale pre-check of a triage never decides.
LEMMA StepFollowsLifecycle ==
    ASSUME IInv, Next, NEW i \in Ids, asks'[i].status # asks[i].status
    PROVE  <<asks[i].status, asks'[i].status>> \in Lifecycle
<1>0. asks \in [Ids -> Row \union {NoRow}] /\ asks' # asks
  BY DEF IInv, TypeOK
<1>1. ASSUME NEW s \in Sessions, AddAskWrite(s) PROVE <<asks[i].status, asks'[i].status>> \in Lifecycle
  <2>1. CASE Repeat(s)
    <3>1. PICK j \in Rows : asks' = [asks EXCEPT ![j].blocks = @ \union call[s].blocks]
      BY <2>1 DEF Repeat, RowsFor
    <3>2. asks[j] \in Row /\ j \in Ids
      BY RowFields DEF IInv, Rows
    <3>3. asks'[i].status = asks[i].status
      BY <1>0, <3>1, <3>2 DEF Row
    <3>. QED  BY <3>3
  <2>2. CASE Insert(s)
    BY <1>0, <2>2, RowFields DEF Insert, IInv, NoRow, Lifecycle
  <2>. QED  BY <1>1, <2>1, <2>2 DEF AddAskWrite
<1>2. ASSUME NEW s \in Sessions, AddAskLink(s) PROVE FALSE
  <2>1. call[s] \in Call /\ call[s].pc = "link"
    BY <1>2 DEF IInv, TypeOK, AddAskLink
  <2>2. call[s].ask \in Rows /\ call[s].ask \in Ids
    BY <2>1, CallFields DEF IInv, CallsRefer
  <2>3. asks[call[s].ask] \in Row
    BY <2>2, RowFields DEF IInv
  <2>4. asks'[i].status = asks[i].status
    BY <1>0, <1>2, <2>2, <2>3 DEF AddAskLink, Row
  <2>. QED  BY <2>4
<1>3. ASSUME NEW s \in Sessions, TriageWrite(s) PROVE <<asks[i].status, asks'[i].status>> \in Lifecycle
  <2>1. PICK v \in Triaged : Settle(call[s].ask, v)
    BY <1>3 DEF TriageWrite, Triaged
  <2>2. call[s] \in Call /\ call[s].pc \in {"triage", "promote"}
    BY <1>3 DEF IInv, TypeOK, TriageWrite
  <2>3. call[s].ask \in Rows /\ call[s].ask \in Ids
    BY <2>2, CallFields, RowFields DEF IInv, CallsRefer, Triaged
  <2>4. asks[call[s].ask] \in Row
    BY <2>3, RowFields DEF IInv
  <2>5. i = call[s].ask /\ asks[i].status = "answered" /\ asks'[i].status = v
    BY <1>0, <2>1, <2>3, <2>4 DEF Settle, Row
  <2>. QED  BY <2>5 DEF Triaged, Lifecycle
<1>4. ASSUME AnswerAsk \/ CoolDown \/ \E s \in Sessions : WithdrawAsk(s)
      PROVE  <<asks[i].status, asks'[i].status>> \in Lifecycle
  <2>1. PICK j \in Rows :
           \/ Open(j) /\ asks' = [asks EXCEPT ![j].status = "answered"]
           \/ asks' = [asks EXCEPT ![j].cooling = FALSE]
           \/ /\ Open(j)
              /\ asks' = [asks EXCEPT ![j] =
                            [@ EXCEPT !.status = "withdrawn", !.cooling = TRUE, !.blocks = {}]]
    BY <1>4 DEF AnswerAsk, CoolDown, WithdrawAsk
  <2>2. asks[j] \in Row /\ j \in Ids
    BY RowFields DEF IInv, Rows
  <2>3. i = j
    BY <1>0, <2>1, <2>2
  <2>4. CASE Open(j) /\ asks' = [asks EXCEPT ![j].status = "answered"]
    <3>1. asks[i].status = "open" /\ asks'[i].status = "answered"
      BY <1>0, <2>2, <2>3, <2>4 DEF Open, Row
    <3>. QED  BY <3>1 DEF Lifecycle
  <2>5. CASE asks' = [asks EXCEPT ![j].cooling = FALSE]
    <3>1. asks'[i].status = asks[i].status
      BY <1>0, <2>2, <2>3, <2>5 DEF Row
    <3>. QED  BY <3>1
  <2>6. CASE /\ Open(j)
             /\ asks' = [asks EXCEPT ![j] =
                           [@ EXCEPT !.status = "withdrawn", !.cooling = TRUE, !.blocks = {}]]
    <3>1. asks'[j] = [asks[j] EXCEPT !.status = "withdrawn", !.cooling = TRUE, !.blocks = {}]
      BY <1>0, <2>2, <2>6
    <3>2. asks[i].status = "open" /\ asks'[i].status = "withdrawn"
      BY <2>2, <2>3, <2>6, <3>1 DEF Open, Row
    <3>. QED  BY <3>2 DEF Lifecycle
  <2>. QED  BY <2>1, <2>4, <2>5, <2>6
<1>5. ASSUME NEW s \in Sessions, UNCHANGED asks PROVE FALSE
  BY <1>0, <1>5
<1>. QED
  <2>1. ASSUME NEW s \in Sessions, AddAsk(s) PROVE <<asks[i].status, asks'[i].status>> \in Lifecycle
    BY <2>1, <1>1, <1>2, <1>5 DEF AddAsk, AddAskCheck, AddAskReadTags, AddAskLinkFails
  <2>2. ASSUME NEW s \in Sessions, TriageAsk(s) PROVE <<asks[i].status, asks'[i].status>> \in Lifecycle
    BY <2>2, <1>3, <1>5 DEF TriageAsk, TriageCheck, PromoteRecord, PromoteRecordFails, TriageWriteFails
  <2>3. ASSUME NEW s \in Sessions, CheckIn(s) \/ \E a \in Activities : SetStatus(s, a) PROVE FALSE
    BY <2>3, <1>5 DEF CheckIn, CheckInRead, CheckInStart, CheckInStartFails, CheckInDeliver, SetStatus
  <2>. QED  BY <1>4, <2>1, <2>2, <2>3 DEF Next

\* The UPDATEs of answer_ask, withdraw_ask and triage_ask decide by themselves
\* whether the ask is in the status they start from: no answer, verdict or
\* withdrawal is overwritten.
THEOREM OnlyLifecycleSteps == Spec => StatusFollowsLifecycle
<1>1. ASSUME IInv, [Next]_vars
      PROVE  [\A i \in Ids : asks'[i].status # asks[i].status =>
                 <<asks[i].status, asks'[i].status>> \in Lifecycle]_vars
  BY <1>1, StepFollowsLifecycle
<1>. QED  BY <1>1, InvariantHolds, PTL DEF Spec, StatusFollowsLifecycle

\* Deciding is final: a triaged ask stays triaged.
LEMMA TriagedStays ==
    ASSUME IInv, Next, NEW i \in Ids, asks[i].status \in Triaged
    PROVE  asks'[i].status \in Triaged
  BY StepFollowsLifecycle DEF Lifecycle, Triaged

\* The induction for DecisionMeansTriaged, when no write raises.
LEMMA StepDecision ==
    ASSUME "write" \notin may, IInv, DecisionMeansTriaged, Next
    PROVE  DecisionMeansTriaged'
<1> SUFFICES ASSUME NEW i \in made'
             PROVE  \/ asks'[i].status \in Triaged
                    \/ \E s \in Sessions : call'[s].pc = "promote" /\ call'[s].ask = i
  <2>1. made' \subseteq Ids
    BY NextIInv DEF IInv, TypeOK
  <2>. QED  BY <2>1 DEF DecisionMeansTriaged
<1>1. i \in Ids
  BY NextIInv DEF IInv, TypeOK
<1>2. CASE asks[i].status \in Triaged
  BY <1>1, <1>2, TriagedStays
<1>3. ASSUME NEW s \in Sessions, PromoteRecord(s)
      PROVE  call'[s].pc = "promote" /\ call'[s].ask = call[s].ask
  BY <1>3 DEF PromoteRecord, Become, IInv, TypeOK
<1>4. CASE i \notin made
  <2>1. PICK s \in Sessions : PromoteRecord(s) /\ i = call[s].ask
    BY <1>4 DEF Next, AddAsk, AddAskCheck, AddAskWrite, AddAskReadTags, AddAskLink, AddAskLinkFails,
                WithdrawAsk, TriageAsk, TriageCheck, PromoteRecord, PromoteRecordFails, TriageWrite,
                TriageWriteFails, CheckIn, CheckInRead, CheckInStart, CheckInStartFails,
                CheckInDeliver, SetStatus, AnswerAsk, CoolDown
  <2>. QED  BY <1>3, <2>1
<1>5. CASE i \in made /\ asks[i].status \notin Triaged
  <2>1. PICK s \in Sessions : call[s].pc = "promote" /\ call[s].ask = i
    BY <1>5 DEF DecisionMeansTriaged
  <2>2. CASE TriageWrite(s)
    <3>1. Settle(i, "promoted")
      BY <2>1, <2>2 DEF TriageWrite
    <3>2. asks[i].status = "answered" /\ asks[i] \in Row
      BY <1>1, <1>5, <2>1, RowFields DEF IInv, CallsRefer, Triaged
    <3>. QED  BY <1>1, <3>1, <3>2 DEF Settle, IInv, TypeOK, Row, Triaged
  <2>3. CASE ~TriageWrite(s)
    <3>0. call[s] # Idle
      BY <2>1 DEF Idle
    <3>1. ~AddAsk(s) /\ ~CheckIn(s) /\ ~PromoteRecord(s) /\ \A j \in Rows : ~TriageCheck(s, j)
      <4>1. ~AddAsk(s)
        BY <2>1, <3>0 DEF AddAsk, AddAskCheck, AddAskWrite, AddAskReadTags, AddAskLink, AddAskLinkFails,
           MayStart
      <4>2. ~CheckIn(s)
        <5>1. (\A a \in Activities : ~CheckInRead(s, a)) /\ ~CheckInDeliver(s)
          BY <2>1, <3>0 DEF CheckInRead, CheckInDeliver, MayStart
        <5>2. ~CheckInStart(s) /\ ~CheckInStartFails(s)
          BY <2>1, Zenon DEF CheckInStart, CheckInStartFails
        <5>. QED  BY <5>1, <5>2 DEF CheckIn
      <4>3. ~PromoteRecord(s) /\ \A j \in Rows : ~TriageCheck(s, j)
        BY <2>1, <3>0 DEF PromoteRecord, TriageCheck, MayStart
      <4>. QED  BY <4>1, <4>2, <4>3
    <3>2. ~TriageAsk(s)
      BY <2>3, <3>1 DEF TriageAsk, PromoteRecordFails, TriageWriteFails
    <3>3. ASSUME NEW u \in Sessions, u # s, NEW c, Become(u, c) PROVE call'[s] = call[s]
      BY <3>3 DEF Become, IInv, TypeOK
    <3>4. ASSUME NEW u \in Sessions, u # s, AddAsk(u) PROVE call'[s] = call[s]
      BY <3>3, <3>4, Zenon DEF AddAsk, AddAskCheck, AddAskWrite, Insert, Repeat, AddAskReadTags,
                        AddAskLink, AddAskLinkFails, Return
    <3>5. ASSUME NEW u \in Sessions, u # s, TriageAsk(u) PROVE call'[s] = call[s]
      BY <3>3, <3>5, Zenon DEF TriageAsk, TriageCheck, PromoteRecord, PromoteRecordFails, TriageWrite,
                        TriageWriteFails, Return
    <3>6. ASSUME NEW u \in Sessions, u # s, CheckIn(u) PROVE call'[s] = call[s]
      BY <3>3, <3>6, Zenon DEF CheckIn, CheckInRead, CheckInStart, CheckInStartFails, CheckInDeliver, Return
    <3>7. ASSUME \/ AnswerAsk \/ CoolDown
                 \/ \E u \in Sessions : WithdrawAsk(u) \/ \E a \in Activities : SetStatus(u, a)
          PROVE  UNCHANGED call
      BY <3>7 DEF AnswerAsk, CoolDown, SetStatus, WithdrawAsk
    <3>8. call'[s] = call[s]
      BY <3>1, <3>2, <3>4, <3>5, <3>6, <3>7 DEF Next
    <3>. QED  BY <2>1, <3>8
  <2>. QED  BY <2>2, <2>3
<1>. QED  BY <1>2, <1>4, <1>5

\* triage_ask commits the decision of a promotion before it moves the ask.  As
\* long as no write raises, a decision is left over only where another triage
\* of the same ask has won.
THEOREM DecisionsAreForTriaged == Spec => []("write" \notin may => DecisionMeansTriaged)
<1> DEFINE Inv == "write" \notin may => DecisionMeansTriaged
<1>1. Init => Inv
  BY DEF Init, DecisionMeansTriaged
<1>2. IInv /\ Inv /\ [Next]_vars => Inv'
  <2>1. ASSUME UNCHANGED vars, DecisionMeansTriaged PROVE DecisionMeansTriaged'
    BY <2>1 DEF vars, DecisionMeansTriaged
  <2>2. [Next]_vars => may' = may
    BY DEF Next, vars
  <2>. QED  BY <2>1, <2>2, StepDecision
<1>. QED  BY <1>1, <1>2, InvariantHolds, PTL DEF Spec

--------------------------------------------------------------------------------
\* One call at a time: what a call under way has read still holds.
Alone == \A r, s \in Sessions : call[r] # Idle /\ call[s] # Idle => r = s
StillUncooled == \A s \in Sessions : call[s].pc = "post" => ~Cooling(call[s].q)
StillSeen ==
    \A s \in Sessions :
       /\ call[s].pc = "checkin" => call[s].seen = act[call[s].act]
       /\ call[s].pc = "deliver" => act[call[s].act] = "in_progress"

SInv == IInv /\ Alone /\ StillUncooled /\ StillSeen

\* What can happen while a session is in a call: its next step, an answer from the
\* dashboard, or the passing of five minutes.
Proceeds(s) ==
    \/ AddAskWrite(s) \/ AddAskReadTags(s) \/ AddAskLink(s) \/ AddAskLinkFails(s)
    \/ PromoteRecord(s) \/ PromoteRecordFails(s) \/ TriageWrite(s) \/ TriageWriteFails(s)
    \/ CheckInStart(s) \/ CheckInStartFails(s) \/ CheckInDeliver(s)

LEMMA UnderWay ==
    ASSUME "overlap" \notin may, Alone, Next, NEW s \in Sessions, call[s] # Idle
    PROVE  Proceeds(s) \/ AnswerAsk \/ CoolDown
<1>1. \A u \in Sessions : ~MayStart(u)
  BY DEF MayStart
<1>2. \A u \in Sessions : u # s => call[u] = Idle
  BY DEF Alone
<1>3. ASSUME NEW u \in Sessions, AddAsk(u) PROVE Proceeds(s)
  <2>1. u = s
    BY <1>1, <1>2, <1>3 DEF AddAsk, AddAskCheck, AddAskWrite, AddAskReadTags, AddAskLink, AddAskLinkFails, Idle
  <2>. QED  BY <1>1, <1>3, <2>1 DEF AddAsk, AddAskCheck, Proceeds
<1>4. ASSUME NEW u \in Sessions, TriageAsk(u) PROVE Proceeds(s)
  <2>1. u = s
    BY <1>1, <1>2, <1>4 DEF TriageAsk, TriageCheck, PromoteRecord, PromoteRecordFails, TriageWrite,
                            TriageWriteFails, Idle
  <2>. QED  BY <1>1, <1>4, <2>1 DEF TriageAsk, TriageCheck, Proceeds
<1>5. ASSUME NEW u \in Sessions, CheckIn(u) PROVE Proceeds(s)
  <2>1. PICK v \in Sessions : v = u /\ (CheckInStart(v) \/ CheckInStartFails(v) \/ CheckInDeliver(v))
    BY <1>1, <1>5 DEF CheckIn, CheckInRead
  <2>2. call[v].pc \in {"checkin", "deliver"}
    BY <2>1 DEF CheckInStart, CheckInStartFails, CheckInDeliver
  <2>3. v = s
    BY <1>2, <2>2 DEF Idle
  <2>. QED  BY <2>1, <2>3 DEF Proceeds
<1>6. ASSUME NEW u \in Sessions PROVE ~WithdrawAsk(u) /\ \A a \in Activities : ~SetStatus(u, a)
  BY <1>1 DEF WithdrawAsk, SetStatus
<1>. QED  BY <1>3, <1>4, <1>5, <1>6 DEF Next

\* A step of a call under way is the step of one session, and leads to a new post
\* or to a delivery in no other way than these.
LEMMA Onward ==
    ASSUME TypeOK, NEW s \in Sessions, Proceeds(s)
    PROVE  /\ call[s] # Idle
           /\ \A u \in Sessions : u # s => call'[u] = call[u]
           /\ call'[s].pc \notin {"post", "checkin"}
           /\ call'[s].pc = "deliver" =>
                 \/ CheckInStart(s)
                 \/ CheckInStartFails(s)
<1>1. CASE AddAskWrite(s)
  BY <1>1 DEF AddAskWrite, Insert, Repeat, Become, TypeOK, Idle
<1>2. CASE AddAskReadTags(s) \/ AddAskLink(s) \/ AddAskLinkFails(s)
  BY <1>2 DEF AddAskReadTags, AddAskLink, AddAskLinkFails, Become, Return, TypeOK, Idle
<1>3. CASE PromoteRecord(s) \/ PromoteRecordFails(s) \/ TriageWrite(s) \/ TriageWriteFails(s)
  BY <1>3 DEF PromoteRecord, PromoteRecordFails, TriageWrite, TriageWriteFails, Become, Return, TypeOK, Idle
<1>4. CASE CheckInDeliver(s)
  BY <1>4 DEF CheckInDeliver, Become, Return, TypeOK, Idle
<1>5. CASE CheckInStart(s) \/ CheckInStartFails(s)
  <2>1. /\ call[s].pc = "checkin" /\ Become(s, [call[s] EXCEPT !.pc = "deliver"])
        /\ CheckInStart(s) \/ CheckInStartFails(s)
    BY <1>5 DEF CheckInStart, CheckInStartFails
  <2>2. call[s] \in Call
    BY DEF TypeOK
  <2>3. /\ [call[s] EXCEPT !.pc = "deliver"] \in Call /\ [call[s] EXCEPT !.pc = "deliver"].pc = "deliver"
    BY <2>1, <2>2, CallFields DEF Call, Idle
  <2>4. call'[s] = [call[s] EXCEPT !.pc = "deliver"] /\ \A u \in Sessions : u # s => call'[u] = call[u]
    BY <2>1, <2>3, BecomeType
  <2>5. call[s] # Idle
    BY <2>1 DEF Idle
  <2>. QED  BY <2>1, <2>3, <2>4, <2>5
<1>. QED  BY <1>1, <1>2, <1>3, <1>4, <1>5 DEF Proceeds

\* Answers and time cool no question down anew.
LEMMA NoNewCooling ==
    ASSUME IInv, AnswerAsk \/ CoolDown, NEW q, ~Cooling(q)
    PROVE  ~Cooling(q)'
<1>1. PICK j \in Rows :
         \/ asks' = [asks EXCEPT ![j].status = "answered"]
         \/ asks' = [asks EXCEPT ![j].cooling = FALSE]
  BY DEF AnswerAsk, CoolDown
<1>2. asks[j] \in Row /\ j \in Ids /\ asks \in [Ids -> Row \union {NoRow}]
  BY RowFields DEF IInv, TypeOK, Rows
<1>3. \A i \in Ids : i # j => asks'[i] = asks[i]
  BY <1>1, <1>2
<1>4. /\ asks'[j].q = asks[j].q
      /\ asks'[j].status = "withdrawn" /\ asks'[j].cooling =>
            asks[j].status = "withdrawn" /\ asks[j].cooling
  <2>1. CASE asks' = [asks EXCEPT ![j].status = "answered"]
    BY <1>2, <2>1 DEF Row
  <2>2. CASE asks' = [asks EXCEPT ![j].cooling = FALSE]
    BY <1>2, <2>2 DEF Row
  <2>. QED  BY <1>1, <2>1, <2>2
<1>. QED
  <2> SUFFICES ASSUME NEW i \in Ids, asks'[i].status = "withdrawn", asks'[i].cooling, asks'[i].q = q
               PROVE  Cooling(q)
    BY DEF Cooling, RowsFor, Rows
  <2>1. asks[i].status = "withdrawn" /\ asks[i].cooling /\ asks[i].q = q
    BY <1>3, <1>4
  <2>. QED  BY <2>1 DEF Cooling, RowsFor, Rows

LEMMA SerialStep == "overlap" \notin may /\ "write" \notin may /\ SInv /\ [Next]_vars => SInv'
<1> SUFFICES ASSUME "overlap" \notin may, "write" \notin may, SInv, [Next]_vars PROVE SInv'
  OBVIOUS
<1>0. IInv /\ IInv' /\ TypeOK /\ TypeOK'
  BY NextIInv DEF SInv, IInv
<1>1. CASE UNCHANGED vars
  BY <1>0, <1>1 DEF SInv, Alone, StillUncooled, StillSeen, Cooling, RowsFor, Rows, vars
<1>2. ASSUME NEW s \in Sessions, Proceeds(s) PROVE SInv'
  <2>1. \A u \in Sessions : u # s => call'[u] = Idle
    BY <1>0, <1>2, Onward DEF SInv, Alone
  <2>2. Alone'
    BY <2>1 DEF Alone
  <2>3. StillUncooled'
    BY <1>0, <1>2, <2>1, Onward DEF StillUncooled, Idle
  <2>4. ASSUME call'[s].pc = "deliver" PROVE act'[call'[s].act] = "in_progress"
    <3>1. CheckInStart(s)
      BY <1>0, <1>2, <2>4, Onward DEF CheckInStartFails
    <3>2. call[s] \in Call /\ call[s].pc = "checkin" /\ call[s].act \in Activities
      BY <1>0, <3>1, CallFields DEF CheckInStart, TypeOK
    <3>3. call'[s] = [call[s] EXCEPT !.pc = "deliver"]
      BY <1>0, <3>1 DEF CheckInStart, Become, TypeOK
    <3>4. call'[s].act = call[s].act
      BY <3>2, <3>3 DEF Call, Idle
    <3>5. call[s].seen = act[call[s].act]
      BY <3>2 DEF SInv, StillSeen
    <3>. QED  BY <1>0, <3>1, <3>2, <3>4, <3>5 DEF CheckInStart, TypeOK
  <2>5. call'[s].pc # "checkin"
    BY <1>0, <1>2, Onward
  <2>. QED  BY <1>0, <2>1, <2>2, <2>3, <2>4, <2>5 DEF SInv, StillSeen, Idle
<1>3. CASE AnswerAsk \/ CoolDown
  <2>1. UNCHANGED <<act, call>>
    BY <1>3 DEF AnswerAsk, CoolDown
  <2>2. StillUncooled'
    BY <1>0, <1>3, <2>1, NoNewCooling DEF SInv, StillUncooled
  <2>. QED  BY <1>0, <2>1, <2>2 DEF SInv, Alone, StillSeen
<1>4. ASSUME NEW s \in Sessions, AddAskCheck(s) PROVE SInv'
  <2>1. PICK q \in Questions, blocks \in (SUBSET Activities) \ {{}}, t \in Tags :
           /\ ~Cooling(q)
           /\ Become(s, [pc |-> "post", q |-> q, blocks |-> blocks, tags |-> {t}])
    BY <1>4 DEF AddAskCheck
  <2>2. /\ call'[s] = [pc |-> "post", q |-> q, blocks |-> blocks, tags |-> {t}]
        /\ UNCHANGED asks /\ \A u \in Sessions : u # s => call'[u] = Idle
    BY <1>0, <1>4, <2>1 DEF AddAskCheck, MayStart, Become, TypeOK
  <2>3. ~Cooling(q)'
    BY <2>1, <2>2 DEF Cooling, RowsFor, Rows
  <2>. QED  BY <1>0, <2>2, <2>3 DEF SInv, Alone, StillUncooled, StillSeen, Idle
<1>5. ASSUME NEW s \in Sessions, NEW i \in Rows, TriageCheck(s, i) PROVE SInv'
  <2>1. PICK v \in Triaged : Become(s, [pc |-> "triage", ask |-> i, verdict |-> v])
    BY <1>5 DEF TriageCheck
  <2>2. call'[s].pc = "triage" /\ \A u \in Sessions : u # s => call'[u] = Idle
    BY <1>0, <1>5, <2>1 DEF TriageCheck, MayStart, Become, TypeOK
  <2>. QED  BY <1>0, <2>2 DEF SInv, Alone, StillUncooled, StillSeen, Idle
<1>6. ASSUME NEW s \in Sessions, NEW a \in Activities, CheckInRead(s, a) PROVE SInv'
  <2>1. /\ call'[s] = [pc |-> "checkin", act |-> a, seen |-> act[a]] /\ UNCHANGED act
        /\ \A u \in Sessions : u # s => call'[u] = Idle
    BY <1>0, <1>6 DEF CheckInRead, MayStart, Become, TypeOK
  <2>. QED  BY <1>0, <2>1 DEF SInv, Alone, StillUncooled, StillSeen, Idle
<1>7. ASSUME NEW s \in Sessions, WithdrawAsk(s) \/ \E a \in Activities : SetStatus(s, a) PROVE SInv'
  <2>1. \A u \in Sessions : call'[u] = Idle
    BY <1>7 DEF WithdrawAsk, SetStatus, MayStart
  <2>. QED  BY <1>0, <2>1 DEF SInv, Alone, StillUncooled, StillSeen, Idle
<1>. QED  BY <1>1, <1>2, <1>3, <1>4, <1>5, <1>6, <1>7, Zenon DEF Next, AddAsk, TriageAsk, CheckIn, Proceeds

--------------------------------------------------------------------------------
\* The row of a new ask is of the question that a post has checked.
LEMMA NewRow ==
    ASSUME IInv, Next, NEW i \in Ids, asks[i].status = "none", asks'[i].status = "open"
    PROVE  \E s \in Sessions : call[s].pc = "post" /\ call[s].q = asks'[i].q
<1>0. asks \in [Ids -> Row \union {NoRow}] /\ i \notin Rows
  BY DEF IInv, TypeOK, Rows
<1>1. ASSUME NEW s \in Sessions, AddAskWrite(s) PROVE call[s].pc = "post" /\ call[s].q = asks'[i].q
  <2>1. ~Repeat(s)
    BY <1>0 DEF Repeat, RowsFor, Rows
  <2>2. Insert(s)
    BY <1>1, <2>1 DEF AddAskWrite
  <2>. QED  BY <1>0, <1>1, <2>2 DEF AddAskWrite, Insert
<1>2. ASSUME NEW s \in Sessions PROVE ~AddAskLink(s) /\ ~TriageWrite(s)
  <2>1. ASSUME AddAskLink(s) PROVE FALSE
    <3>1. call[s].ask \in Rows
      BY <2>1 DEF IInv, CallsRefer, AddAskLink
    <3>. QED  BY <1>0, <2>1, <3>1 DEF AddAskLink
  <2>2. ASSUME TriageWrite(s) PROVE FALSE
    <3>1. asks[call[s].ask].status # "none"
      BY <2>2 DEF IInv, CallsRefer, TriageWrite, Triaged
    <3>2. asks'[i] = asks[i]
      BY <1>0, <2>2, <3>1 DEF TriageWrite, Settle
    <3>. QED  BY <3>2
  <2>. QED  BY <2>1, <2>2
<1>3. ~AnswerAsk /\ ~CoolDown /\ \A s \in Sessions : ~WithdrawAsk(s)
  BY <1>0 DEF AnswerAsk, CoolDown, WithdrawAsk
<1>4. asks' # asks
  OBVIOUS
<1>. QED
  <2>1. ASSUME NEW s \in Sessions, AddAsk(s) PROVE AddAskWrite(s)
    BY <1>2, <1>4, <2>1 DEF AddAsk, AddAskCheck, AddAskReadTags, AddAskLinkFails
  <2>2. ASSUME NEW s \in Sessions PROVE ~TriageAsk(s)
    BY <1>2, <1>4, <2>2 DEF TriageAsk, TriageCheck, PromoteRecord, PromoteRecordFails, TriageWriteFails
  <2>3. ASSUME NEW s \in Sessions PROVE ~CheckIn(s) /\ \A a \in Activities : ~SetStatus(s, a)
    BY <1>4, <2>3 DEF CheckIn, CheckInRead, CheckInStart, CheckInStartFails, CheckInDeliver, SetStatus
  <2>. QED  BY <1>1, <1>3, <2>1, <2>2, <2>3 DEF Next

LEMMA CooldownStep == ASSUME SInv, [Next]_vars PROVE [KeepsCooldown]_vars
<1> SUFFICES ASSUME Next, NEW q \in Questions, Cooling(q), NEW i \in Ids,
                    asks[i].status = "none", asks'[i].status = "open", asks'[i].q = q
             PROVE  FALSE
  BY DEF KeepsCooldown
<1>. QED  BY NewRow DEF SInv, StillUncooled

LEMMA HandOverStep == ASSUME "overlap" \notin may, SInv, [Next]_vars PROVE [HandsOver]_vars
<1> SUFFICES ASSUME Next, NEW s \in Sessions, call[s].pc = "deliver", call'[s] = Idle,
                    NEW i \in Rows, asks[i].status = "answered", call[s].act \in asks[i].blocks
             PROVE  i \in delivered'
  BY DEF HandsOver
<1>1. call[s] # Idle
  BY DEF Idle
<1>2. Proceeds(s)
  BY <1>1, UnderWay DEF SInv, AnswerAsk, CoolDown
<1>3. CheckInDeliver(s)
  BY <1>2, Zenon DEF Proceeds, AddAskWrite, AddAskReadTags, AddAskLink, AddAskLinkFails, PromoteRecord,
     PromoteRecordFails, TriageWrite, TriageWriteFails, CheckInStart, CheckInStartFails
<1>4. act[call[s].act] = "in_progress"
  BY DEF SInv, StillSeen
<1>. QED  BY <1>3, <1>4 DEF CheckInDeliver, AwaitingTriage

\* ask_service and check_in, of which no write raises: a decision is left over only
\* where another triage has won; and when no call overlaps another, a question
\* just withdrawn is not posted again and a check-in hands over every answer.
THEOREM TriageAlwaysSound == Spec => TriageIsSound
<1> DEFINE Inv == may \cap {"overlap", "write"} = {} => SInv
           Keeps == may \cap {"overlap", "write"} = {} => KeepsCooldown /\ HandsOver
<1>1. Init => Inv
  BY InitIInv DEF SInv, Init, Alone, StillUncooled, StillSeen, Idle
<1>2. Inv /\ [Next]_vars => Inv'
  <2>1. [Next]_vars => may' = may
    BY DEF Next, vars
  <2>. QED  BY <2>1, SerialStep
<1>3. Inv /\ [Next]_vars => [Keeps]_vars
  BY CooldownStep, HandOverStep
<1>4. Spec => [][Keeps]_vars
  BY <1>1, <1>2, <1>3, PTL DEF Spec
<1>. QED  BY <1>4, DecisionsAreForTriaged, PTL DEF TriageIsSound

--------------------------------------------------------------------------------
(***************************************************************************)
(* Records, for any callers, records and texts.  The invariant says what   *)
(* the transaction under way has made of what is committed: one more row,  *)
(* first bare and then with all that belongs to it.  While calls of        *)
(* update_material do not overlap, the text a call has read is the stored  *)
(* one, and the citations match; without the former the latter is not      *)
(* inductive.                                                              *)
(***************************************************************************)

Record == [kind : {"item", "material"}, topic : BOOLEAN, text : SUBSET RecordIds]
Data == [rows : [RecordIds -> Record \cup {None}], linked : SUBSET RecordIds,
         cites : SUBSET (RecordIds \X RecordIds), told : [RecordIds -> Nat],
         spread : SUBSET RecordIds]
AnItem == [topic : BOOLEAN, text : SUBSET RecordIds, spread : BOOLEAN]
InItem == {"fill", "spread", "release"}
InBatch == {"item", "insert"} \cup InItem
Filing == {NoCall}
    \cup [pc : {"item"}, left : Nat, made : SUBSET RecordIds, spread : SUBSET RecordIds]
    \cup [pc : {"insert"} \cup InItem, left : Nat, made : SUBSET RecordIds,
          spread : SUBSET RecordIds, item : AnItem, late : BOOLEAN]
    \cup [pc : {"update"}, id : RecordIds, how : {"title", "overwrite", "append"},
          row : SUBSET RecordIds]

RecordTypeOK ==
    /\ db \in Data
    /\ work \in {NoWork} \cup [by : Callers, id : RecordIds, data : Data]
    /\ filing \in [Callers -> Filing]
    /\ apart \in BOOLEAN

\* What BatchesAreWhole and CitationsMatch ask of the records, for any of them.
Whole(d) ==
    \A id \in RecordIds :
       IF id \in Stored(d)
       THEN d.told[id] = 1 /\ (d.rows[id].topic => id \in d.linked)
       ELSE d.told[id] = 0 /\ id \notin d.linked \cup d.spread /\ Cites(d, id) = {}
Matching(d) ==
    \A id \in Stored(d) : Cites(d, id) = d.rows[id].text /\ Cites(d, id) \subseteq Stored(d)

\* What a batch will answer, at every step of it.
BatchKept(c) ==
    filing[c].pc \in InBatch =>
       /\ filing[c].made \subseteq Stored(db)
       /\ filing[c].spread = db.spread \cap filing[c].made

\* The transaction under way is that of the one caller inside an item.
WorkOwned == \A c \in Callers : filing[c].pc \in InItem <=> work.by = c

\* d is e with one more row; and with all that belongs to it.
RowAdded(e, d, id) ==
    /\ id \notin Stored(e)
    /\ d.rows[id] \in Record
    /\ \A j \in RecordIds \ {id} : d.rows[j] = e.rows[j]
RowFilled(e, d, id) ==
    /\ RowAdded(e, d, id)
    /\ d.rows[id].text \subseteq Stored(e) \cup {id}
    /\ d.linked = e.linked \cup IF d.rows[id].topic THEN {id} ELSE {}
    /\ d.cites = Cited(e.cites, id, d.rows[id].text)
    /\ d.told = Announced(e.told, id)

\* What the transaction under way has made of what is committed.
WorkTrue(c) ==
    work.by = c =>
       /\ filing[c].pc = "fill" =>
             /\ RowAdded(db, work.data, work.id)
             /\ work.data.rows[work.id].topic = filing[c].item.topic
             /\ work.data.linked = db.linked /\ work.data.cites = db.cites
             /\ work.data.told = db.told /\ work.data.spread = db.spread
       /\ filing[c].pc \in {"spread", "release"} => RowFilled(db, work.data, work.id)
       /\ filing[c].pc = "spread" => work.data.spread = db.spread
       /\ filing[c].pc = "release" =>
             work.data.spread = db.spread \cup IF filing[c].item.spread THEN {work.id} ELSE {}

\* What an update read is there, and while updates do not overlap still true.
UpdateTrue(c) ==
    filing[c].pc = "update" =>
       /\ filing[c].id \in Stored(db)
       /\ apart => filing[c].row = db.rows[filing[c].id].text
OneUpdate == apart => \A c, d \in Callers : At(c, "update") /\ At(d, "update") => c = d

RecordInv ==
    /\ RecordTypeOK /\ Whole(db) /\ WorkOwned /\ OneUpdate
    /\ \A c \in Callers : BatchKept(c) /\ WorkTrue(c) /\ UpdateTrue(c)
    /\ apart => Matching(db)

LEMMA FilingFields ==
    ASSUME NEW f \in Filing
    PROVE  /\ f.pc \in {"none", "update"} \cup InBatch
           /\ f.pc = "none" => f = NoCall
           /\ f.pc \in InBatch => /\ f.left \in Nat
                                  /\ f.made \subseteq RecordIds /\ f.spread \subseteq RecordIds
           /\ f.pc \in InItem \cup {"insert"} =>
                 /\ f.item \in AnItem /\ f.late \in BOOLEAN
                 /\ \A v \in BOOLEAN : [f EXCEPT !.late = v] \in Filing
                 /\ \A p \in InItem : [f EXCEPT !.pc = p] \in Filing
                 /\ \A v \in BOOLEAN : [f EXCEPT !.pc = "release", !.item.spread = v] \in Filing
           /\ f.pc = "update" => /\ f.id \in RecordIds /\ f.how \in {"title", "overwrite", "append"}
                                 /\ f.row \subseteq RecordIds
<1>1. CASE f = NoCall
  BY <1>1 DEF NoCall, InBatch, InItem
<1>2. CASE f \in [pc : {"item"}, left : Nat, made : SUBSET RecordIds, spread : SUBSET RecordIds]
  BY <1>2 DEF InBatch, InItem
<1>3. CASE f \in [pc : {"insert"} \cup InItem, left : Nat, made : SUBSET RecordIds,
                  spread : SUBSET RecordIds, item : AnItem, late : BOOLEAN]
  <2>1. \A v \in BOOLEAN : [f.item EXCEPT !.spread = v] \in AnItem
    BY <1>3 DEF AnItem
  <2>2. \A v \in BOOLEAN : [f EXCEPT !.pc = "release", !.item.spread = v]
                           = [f EXCEPT !.pc = "release", !.item = [f.item EXCEPT !.spread = v]]
    BY <1>3
  <2>3. \A v \in AnItem : [f EXCEPT !.pc = "release", !.item = v] \in Filing
    BY <1>3 DEF Filing, InItem
  <2>4. /\ \A v \in BOOLEAN : [f EXCEPT !.late = v] \in Filing
        /\ \A p \in InItem : [f EXCEPT !.pc = p] \in Filing
    BY <1>3 DEF Filing, InItem
  <2>. QED  BY <1>3, <2>1, <2>2, <2>3, <2>4 DEF InBatch, InItem
<1>4. CASE f \in [pc : {"update"}, id : RecordIds, how : {"title", "overwrite", "append"},
                  row : SUBSET RecordIds]
  BY <1>4 DEF InBatch, InItem
<1>. QED  BY <1>1, <1>2, <1>3, <1>4 DEF Filing

LEMMA WorkFields ==
    ASSUME RecordTypeOK
    PROVE  /\ \A c \in Callers : work.by = c => work.id \in RecordIds /\ work.data \in Data
           /\ work.by \in Callers \cup {Nobody}
           /\ work.by = Nobody <=> work = NoWork
           /\ Nobody \notin Callers
  BY RecordsAssumption DEF RecordTypeOK, NoWork, Nobody

\* A row added with all that belongs to it leaves the records whole.
LEMMA RowFilledKeeps ==
    ASSUME NEW e \in Data, NEW d \in Data, NEW id \in RecordIds, RowFilled(e, d, id), Whole(e),
           e.spread \subseteq d.spread, d.spread \subseteq e.spread \cup {id}
    PROVE  /\ Stored(d) = Stored(e) \cup {id}
           /\ Whole(d)
           /\ Matching(e) => Matching(d)
<1>1. d.rows[id] # None
  BY DEF RowFilled, RowAdded, Record, None
<1>2. Stored(d) = Stored(e) \cup {id}
  BY <1>1 DEF Stored, RowFilled, RowAdded
<1>3. ASSUME NEW j \in RecordIds, j # id
      PROVE  Cites(d, j) = Cites(e, j)
  BY <1>3 DEF RowFilled, Cited, Cites
<1>4. Cites(d, id) = d.rows[id].text
  <2>1. d.rows[id].text \subseteq RecordIds
    BY DEF RowFilled, RowAdded, Record
  <2>. QED  BY <2>1 DEF RowFilled, Cited, Cites
<1>5. Whole(d)
  <2>. SUFFICES ASSUME NEW j \in RecordIds
                PROVE  IF j \in Stored(d)
                       THEN d.told[j] = 1 /\ (d.rows[j].topic => j \in d.linked)
                       ELSE d.told[j] = 0 /\ j \notin d.linked \cup d.spread /\ Cites(d, j) = {}
    BY DEF Whole
  <2>1. CASE j = id
    <3>1. e.told[id] = 0
      BY DEF Whole, RowFilled, RowAdded
    <3>2. d.told[id] = 1
      BY <3>1 DEF RowFilled, Announced, Data
    <3>. QED  BY <2>1, <3>2, <1>2 DEF RowFilled
  <2>2. CASE j # id
    <3>1. d.told[j] = e.told[j]
      BY <2>2 DEF RowFilled, Announced, Data
    <3>2. d.rows[j] = e.rows[j] /\ (j \in d.linked <=> j \in e.linked)
      BY <2>2 DEF RowFilled, RowAdded
    <3>. QED  BY <2>2, <3>1, <3>2, <1>2, <1>3 DEF Whole
  <2>. QED  BY <2>1, <2>2
<1>6. ASSUME Matching(e)
      PROVE  Matching(d)
  <2>. SUFFICES ASSUME NEW j \in Stored(d)
                PROVE  Cites(d, j) = d.rows[j].text /\ Cites(d, j) \subseteq Stored(d)
    BY DEF Matching
  <2>1. CASE j = id
    BY <2>1, <1>4, <1>2 DEF RowFilled
  <2>2. CASE j # id
    <3>1. j \in Stored(e) /\ j \in RecordIds
      BY <1>2, <2>2 DEF Stored
    <3>2. d.rows[j] = e.rows[j]
      BY <2>2, <3>1 DEF RowFilled, RowAdded
    <3>. QED  BY <1>6, <3>1, <3>2, <2>2, <1>3, <1>2 DEF Matching
  <2>. QED  BY <2>1, <2>2
<1>. QED  BY <1>2, <1>5, <1>6

\* The shape of most steps: only the call of c moves on.
LEMMA FilingOnly ==
    ASSUME RecordInv, UNCHANGED <<db, work, apart>>, NEW c \in Callers, NEW mine \in Filing,
           filing[c].pc \notin InItem, mine.pc \notin InItem,
           filing' = [filing EXCEPT ![c] = mine],
           mine.pc \in InBatch => /\ mine.made \subseteq Stored(db)
                                  /\ mine.spread = db.spread \cap mine.made,
           mine.pc = "update" => /\ mine.id \in Stored(db)
                                 /\ apart => mine.row = db.rows[mine.id].text
                                 /\ apart => \A x \in Callers : ~At(x, "update")
    PROVE  RecordInv'
<1>1. RecordTypeOK'
  BY DEF RecordInv, RecordTypeOK
<1>2. filing \in [Callers -> Filing] /\ filing'[c] = mine
  BY DEF RecordInv, RecordTypeOK
<1>3. \A x \in Callers \ {c} : filing'[x] = filing[x]
  BY <1>2
<1>4. Whole(db)' /\ (apart => Matching(db))'
  BY DEF RecordInv, Whole, Matching, Stored, Cites
<1>5. WorkOwned'
  BY <1>2, <1>3 DEF RecordInv, WorkOwned
<1>6. OneUpdate'
  BY <1>2, <1>3 DEF RecordInv, OneUpdate, At
<1>7. ASSUME NEW x \in Callers
      PROVE  BatchKept(x)' /\ WorkTrue(x)' /\ UpdateTrue(x)'
  <2>1. CASE x = c
    <3>1. work.by # c
      BY DEF RecordInv, WorkOwned
    <3>. QED  BY <2>1, <3>1, <1>2 DEF BatchKept, WorkTrue, UpdateTrue, Stored
  <2>2. CASE x # c
    BY <2>2, <1>3 DEF RecordInv, BatchKept, WorkTrue, UpdateTrue, RowAdded, RowFilled, Stored
  <2>. QED  BY <2>1, <2>2
<1>. QED  BY <1>1, <1>4, <1>5, <1>6, <1>7 DEF RecordInv

\* A step of c inside an item, or into or out of it, that commits nothing.
LEMMA WorkOnly ==
    ASSUME RecordInv, UNCHANGED <<db, apart>>, NEW c \in Callers, NEW mine \in Filing,
           filing' = [filing EXCEPT ![c] = mine],
           work = NoWork \/ work.by = c,
           work' \in {NoWork} \cup [by : {c}, id : RecordIds, data : Data],
           filing[c].pc \in InBatch, mine.pc \in InBatch,
           mine.made = filing[c].made, mine.spread = filing[c].spread,
           mine.pc \in InItem <=> work'.by = c,
           WorkTrue(c)'
    PROVE  RecordInv'
<1>0. RecordTypeOK
  BY DEF RecordInv
<1>1. RecordTypeOK'
  BY <1>0 DEF RecordTypeOK
<1>2. filing \in [Callers -> Filing] /\ filing'[c] = mine
  BY <1>0 DEF RecordTypeOK
<1>3. \A x \in Callers \ {c} : filing'[x] = filing[x]
  BY <1>2
<1>4. Whole(db)' /\ (apart => Matching(db))'
  BY DEF RecordInv, Whole, Matching, Stored, Cites
<1>a. \A x \in Callers \ {c} : work.by # x /\ work'.by # x
  BY <1>0, WorkFields DEF NoWork, Nobody
<1>5. WorkOwned'
  BY <1>2, <1>3, <1>a DEF RecordInv, WorkOwned
<1>6. OneUpdate'
  BY <1>2, <1>3 DEF RecordInv, OneUpdate, At, InBatch, InItem
<1>7. ASSUME NEW x \in Callers
      PROVE  BatchKept(x)' /\ WorkTrue(x)' /\ UpdateTrue(x)'
  <2>1. CASE x = c
    <3>1. BatchKept(c)' /\ UpdateTrue(c)'
      BY <1>2 DEF RecordInv, BatchKept, UpdateTrue, InBatch, InItem, Stored
    <3>. QED  BY <2>1, <3>1
  <2>2. CASE x # c
    BY <2>2, <1>3, <1>a DEF RecordInv, BatchKept, WorkTrue, UpdateTrue, Stored
  <2>. QED  BY <2>1, <2>2
<1>. QED  BY <1>1, <1>4, <1>5, <1>6, <1>7 DEF RecordInv

\* What a commit leaves of the other calls.
LEMMA CommittedOthers ==
    ASSUME RecordTypeOK, NEW c \in Callers, NEW d, NEW mine \in Filing, Committed(c, d, mine)
    PROVE  /\ filing' \in [Callers -> Filing]
           /\ filing'[c] = mine
           /\ \A x \in Callers \ {c} :
                 /\ filing'[x].pc = filing[x].pc
                 /\ filing[x].pc \in InBatch => filing'[x].made = filing[x].made /\ filing'[x].spread = filing[x].spread
                 /\ filing[x].pc = "update" => filing'[x] = filing[x]
<1>1. ASSUME NEW x \in Callers \ {c}
      PROVE  /\ filing'[x] \in Filing
             /\ filing'[x].pc = filing[x].pc
             /\ filing[x].pc \in InBatch => filing'[x].made = filing[x].made /\ filing'[x].spread = filing[x].spread
             /\ filing[x].pc = "update" => filing'[x] = filing[x]
  <2>1. filing[x] \in Filing
    BY DEF RecordTypeOK
  <2>2. CASE At(x, "insert")
    <3>1. filing[x].item.topic \in BOOLEAN
      BY <2>1, <2>2, FilingFields DEF At, AnItem
    <3>2. filing'[x] = [filing[x] EXCEPT !.late = filing[x].item.topic]
      BY <2>2 DEF Committed, Item
    <3>3. filing'[x] \in Filing
      BY <3>1, <3>2, <2>1, <2>2, FilingFields DEF At
    <3>4. filing[x] \in [pc : {"insert"} \cup InItem, left : Nat, made : SUBSET RecordIds,
                         spread : SUBSET RecordIds, item : AnItem, late : BOOLEAN]
      BY <2>1, <2>2 DEF Filing, At, NoCall
    <3>. QED  BY <3>2, <3>3, <3>4, <2>2 DEF At
  <2>3. CASE ~At(x, "insert")
    BY <2>1, <2>3 DEF Committed
  <2>. QED  BY <2>2, <2>3
<1>2. filing'[c] = mine /\ filing' = [x \in Callers |-> filing'[x]]
  BY DEF Committed
<1>. QED  BY <1>1, <1>2

\* The shape of every commit.
LEMMA Committing ==
    ASSUME RecordInv, UNCHANGED apart, NEW c \in Callers, NEW d \in Data, NEW mine \in Filing,
           Committed(c, d, mine),
           work = NoWork \/ work.by = c,
           Whole(d), apart => Matching(d),
           Stored(db) \subseteq Stored(d),
           db.spread = d.spread \cap (Stored(db) \cup db.spread),
           mine.pc \in {"none", "item"},
           mine.pc = "item" => /\ mine.made \subseteq Stored(d)
                               /\ mine.spread = d.spread \cap mine.made,
           \A x \in Callers \ {c} :
              apart /\ filing[x].pc = "update" => d.rows[filing[x].id].text = db.rows[filing[x].id].text
    PROVE  RecordInv'
<1>0. RecordTypeOK
  BY DEF RecordInv
<1>1. /\ filing' \in [Callers -> Filing]
      /\ filing'[c] = mine
      /\ \A x \in Callers \ {c} :
            /\ filing'[x].pc = filing[x].pc
            /\ filing[x].pc \in InBatch => filing'[x].made = filing[x].made /\ filing'[x].spread = filing[x].spread
            /\ filing[x].pc = "update" => filing'[x] = filing[x]
  BY <1>0, CommittedOthers
<1>2. db' = d /\ work' = NoWork
  BY DEF Committed
<1>3. RecordTypeOK'
  BY <1>0, <1>1, <1>2 DEF RecordTypeOK
<1>4. Whole(db)' /\ (apart => Matching(db))'
  BY <1>2 DEF Whole, Matching, Stored, Cites
<1>a. \A x \in Callers : work'.by # x
  BY <1>0, <1>2, WorkFields DEF NoWork
<1>b. \A x \in Callers \ {c} : filing[x].pc \notin InItem
  BY <1>0, WorkFields DEF RecordInv, WorkOwned, NoWork
<1>5. WorkOwned'
  BY <1>1, <1>a, <1>b DEF WorkOwned, InItem
<1>6. OneUpdate'
  BY <1>1 DEF RecordInv, OneUpdate, At
<1>7. ASSUME NEW x \in Callers
      PROVE  BatchKept(x)' /\ WorkTrue(x)' /\ UpdateTrue(x)'
  <2>1. WorkTrue(x)'
    BY <1>a DEF WorkTrue
  <2>2. CASE x = c
    <3>1. BatchKept(c)'
      BY <1>1, <1>2 DEF BatchKept, InBatch, InItem, Stored
    <3>2. UpdateTrue(c)'
      BY <1>1 DEF UpdateTrue
    <3>. QED  BY <2>1, <2>2, <3>1, <3>2
  <2>3. CASE x # c
    <3>1. BatchKept(x)'
      BY <2>3, <1>1, <1>2 DEF RecordInv, BatchKept, Stored
    <3>2. UpdateTrue(x)'
      BY <2>3, <1>1, <1>2 DEF RecordInv, UpdateTrue, Stored
    <3>. QED  BY <2>1, <3>1, <3>2
  <2>. QED  BY <2>2, <2>3
<1>. QED  BY <1>3, <1>4, <1>5, <1>6, <1>7 DEF RecordInv

LEMMA RecordInit == RecordsInit => RecordInv
<1> SUFFICES ASSUME RecordsInit PROVE RecordInv
  OBVIOUS
<1>1. db \in Data /\ Stored(db) = {}
  BY DEF RecordsInit, Data, Stored
<1>2. RecordTypeOK
  BY <1>1 DEF RecordsInit, RecordTypeOK, Filing
<1>3. Whole(db) /\ Matching(db)
  BY <1>1 DEF RecordsInit, Whole, Matching, Cites
<1>4. \A c \in Callers : filing[c].pc = "none" /\ work.by # c
  BY <1>2, WorkFields DEF RecordsInit, NoCall
<1>5. WorkOwned /\ OneUpdate
  BY <1>4 DEF WorkOwned, OneUpdate, At, InItem
<1>6. \A c \in Callers : BatchKept(c) /\ WorkTrue(c) /\ UpdateTrue(c)
  BY <1>4 DEF BatchKept, WorkTrue, UpdateTrue, InBatch, InItem
<1>. QED  BY <1>2, <1>3, <1>5, <1>6 DEF RecordInv

LEMMA BatchSteps ==
    ASSUME RecordInv, UNCHANGED apart, NEW c \in Callers,
           AddBatch(c) \/ ItemRead(c) \/ Answer(c)
    PROVE  RecordInv'
<1>0. filing[c] \in Filing /\ MaxItems \in Nat
  BY RecordsAssumption DEF RecordInv, RecordTypeOK
<1>1. CASE AddBatch(c)
  <2>1. PICK n \in 1..MaxItems : Go(c, [pc |-> "item", left |-> n, made |-> {}, spread |-> {}])
    BY <1>1 DEF AddBatch
  <2>2. [pc |-> "item", left |-> n, made |-> {}, spread |-> {}] \in Filing
    BY <1>0 DEF Filing
  <2>3. filing[c].pc = "none"
    BY <1>1 DEF AddBatch, Free, NoCall
  <2>. QED  BY <2>1, <2>2, <2>3, <1>1, FilingOnly DEF AddBatch, Go, InItem
<1>2. CASE ItemRead(c)
  <2>. DEFINE mine(item) == [pc |-> "insert", left |-> filing[c].left - 1, made |-> filing[c].made,
                             spread |-> filing[c].spread, item |-> item, late |-> FALSE]
  <2>1. PICK item \in Items : Go(c, mine(item))
    BY <1>2 DEF ItemRead
  <2>2. filing[c].pc = "item" /\ filing[c].left - 1 \in Nat
    <3>1. filing[c].pc = "item" /\ filing[c].left > 0
      BY <1>2 DEF ItemRead, At
    <3>2. filing[c].left \in Nat
      BY <3>1, <1>0, FilingFields DEF InBatch
    <3>. QED  BY <3>1, <3>2
  <2>3. item \in AnItem
    BY RecordsAssumption DEF Items, AnItem
  <2>4. mine(item) \in Filing
    BY <2>2, <2>3, <1>0, FilingFields DEF Filing, InBatch
  <2>5. BatchKept(c)
    BY DEF RecordInv
  <2>6. mine(item).made \subseteq Stored(db) /\ mine(item).spread = db.spread \cap mine(item).made
    BY <2>5, <2>2 DEF BatchKept, InBatch
  <2>. QED  BY <2>1, <2>2, <2>4, <2>6, <1>2, FilingOnly DEF ItemRead, Go, InItem
<1>3. CASE Answer(c)
  <2>1. filing[c].pc = "item" /\ filing' = [filing EXCEPT ![c] = NoCall]
    BY <1>3 DEF Answer, At, Go
  <2>2. NoCall \in Filing /\ NoCall.pc = "none"
    BY DEF Filing, NoCall
  <2>. QED  BY <2>1, <2>2, <1>3, FilingOnly DEF Answer, InItem, InBatch
<1>. QED  BY <1>1, <1>2, <1>3

LEMMA InsertStep ==
    ASSUME RecordInv, UNCHANGED apart, NEW c \in Callers, ItemInsert(c)
    PROVE  RecordInv'
<1>0. filing[c] \in Filing /\ db \in Data /\ RecordTypeOK
  BY DEF RecordInv, RecordTypeOK
<1>. DEFINE new(id) == [kind |-> "item", topic |-> Item(c).topic, text |-> Item(c).text]
            data(id) == [db EXCEPT !.rows[id] = new(id)]
            mine == [filing[c] EXCEPT !.pc = "fill"]
<1>1. PICK id \in RecordIds \ Stored(db) : work' = [by |-> c, id |-> id, data |-> data(id)]
  BY DEF ItemInsert
<1>2. filing[c].pc = "insert" /\ work = NoWork /\ db' = db /\ filing' = [filing EXCEPT ![c] = mine]
  BY DEF ItemInsert, At, Go
<1>3. filing[c].item \in AnItem /\ mine \in Filing
  BY <1>0, <1>2, FilingFields DEF InItem
<1>4. mine.pc = "fill" /\ mine.made = filing[c].made /\ mine.spread = filing[c].spread /\ mine.item = filing[c].item
  BY <1>0, <1>2 DEF Filing, NoCall
<1>5. new(id) \in Record /\ new(id).topic = filing[c].item.topic
  BY <1>3 DEF Record, AnItem, Item
<1>6. /\ data(id).rows = [db.rows EXCEPT ![id] = new(id)]
      /\ data(id).linked = db.linked /\ data(id).cites = db.cites
      /\ data(id).told = db.told /\ data(id).spread = db.spread
      /\ data(id) = [db EXCEPT !.rows = [db.rows EXCEPT ![id] = new(id)]]
  BY <1>0 DEF Data
<1>7. data(id) \in Data
  <2>1. [db.rows EXCEPT ![id] = new(id)] \in [RecordIds -> Record \cup {None}]
    BY <1>0, <1>5 DEF Data
  <2>. QED  BY <2>1, <1>0, <1>6 DEF Data
<1>. HIDE DEF data, new, mine
<1>8. RowAdded(db, data(id), id) /\ data(id).rows[id] = new(id)
  BY <1>0, <1>5, <1>6 DEF RowAdded, Data
<1>9. filing'[c] = mine
  BY <1>0, <1>2 DEF RecordTypeOK
<1>10. WorkTrue(c)'
  BY <1>1, <1>2, <1>4, <1>5, <1>6, <1>8, <1>9 DEF WorkTrue, RowAdded, Stored
<1>11. work' \in [by : {c}, id : RecordIds, data : Data] /\ work'.by = c
  BY <1>1, <1>7
<1>. QED  BY <1>2, <1>3, <1>4, <1>10, <1>11, WorkOnly DEF InBatch, InItem

LEMMA FillStep ==
    ASSUME RecordInv, UNCHANGED apart, NEW c \in Callers, ItemFill(c)
    PROVE  RecordInv'
<1>0. filing[c] \in Filing /\ db \in Data /\ RecordTypeOK
  BY DEF RecordInv, RecordTypeOK
<1>. DEFINE id == work.id
            text == Known(work.data, Item(c).text)
            new == [work.data.rows[id] EXCEPT !.text = text]
            filledRows == [work.data.rows EXCEPT ![id] = new]
            linked == IF Item(c).topic THEN work.data.linked \cup {id} ELSE work.data.linked
            cites == Cited(work.data.cites, id, text)
            filledTold == Announced(work.data.told, id)
            data == [work.data EXCEPT !.rows = filledRows, !.linked = linked, !.cites = cites, !.told = filledTold]
            mine == [filing[c] EXCEPT !.pc = IF Item(c).spread THEN "spread" ELSE "release"]
<1>1. filing[c].pc = "fill" /\ db' = db /\ filing' = [filing EXCEPT ![c] = mine]
  BY DEF ItemFill, At, Go
<1>2. work.by = c
  BY <1>1 DEF RecordInv, WorkOwned, InItem
<1>3. work.id \in RecordIds /\ work.data \in Data /\ work \in [by : Callers, id : RecordIds, data : Data]
  BY <1>0, <1>2, WorkFields DEF RecordTypeOK
<1>4. filing[c].item \in AnItem /\ mine \in Filing
  <2>1. filing[c].item \in AnItem
    BY <1>0, <1>1, FilingFields DEF InItem
  <2>2. (IF Item(c).spread THEN "spread" ELSE "release") \in InItem
    BY DEF InItem
  <2>. QED  BY <2>1, <2>2, <1>0, <1>1, FilingFields DEF InItem
<1>5. /\ mine.pc = IF Item(c).spread THEN "spread" ELSE "release"
      /\ mine.made = filing[c].made /\ mine.spread = filing[c].spread /\ mine.item = filing[c].item
  BY <1>0, <1>1 DEF Filing, NoCall
<1>6. WorkTrue(c)
  BY DEF RecordInv
<1>7. /\ RowAdded(db, work.data, id)
      /\ work.data.rows[id].topic = Item(c).topic
      /\ work.data.linked = db.linked /\ work.data.cites = db.cites
      /\ work.data.told = db.told /\ work.data.spread = db.spread
  BY <1>6, <1>1, <1>2 DEF WorkTrue, Item
<1>8. work' = [work EXCEPT !.data = data]
  <2>1. work' = [work EXCEPT !.data = Filled(work.data, id, Item(c))]
    BY <1>3 DEF ItemFill
  <2>2. Filled(work.data, id, Item(c)) = data
    BY <1>3 DEF Data, Filled
  <2>. QED  BY <2>1, <2>2
<1>9. text \subseteq Stored(db) \cup {id} /\ text \subseteq RecordIds
  BY <1>7 DEF Known, Stored, RowAdded
<1>10. new \in Record /\ new.topic = Item(c).topic /\ new.text = text
  BY <1>7, <1>9 DEF RowAdded, Record
<1>11. filledRows \in [RecordIds -> Record \cup {None}] /\ filledRows[id] = new
       /\ \A j \in RecordIds \ {id} : filledRows[j] = db.rows[j]
  BY <1>3, <1>7, <1>10 DEF Data, RowAdded
<1>12. cites \subseteq RecordIds \X RecordIds
  BY <1>3, <1>9 DEF Data, Cited
<1>13. filledTold \in [RecordIds -> Nat]
  BY <1>3 DEF Data, Announced
<1>. HIDE DEF text, new
<1>14. data \in Data
  BY <1>3, <1>11, <1>12, <1>13 DEF Data
<1>15. /\ data.rows = filledRows /\ data.linked = linked /\ data.cites = cites
       /\ data.told = filledTold /\ data.spread = db.spread
  BY <1>3, <1>7 DEF Data
<1>16. RowFilled(db, data, id)
  <2>1. RowAdded(db, data, id)
    BY <1>7, <1>10, <1>11, <1>15 DEF RowAdded
  <2>2. data.rows[id].text = text /\ data.rows[id].topic = Item(c).topic
    BY <1>10, <1>11, <1>15
  <2>3. data.linked = db.linked \cup IF data.rows[id].topic THEN {id} ELSE {}
    BY <2>2, <1>7, <1>15
  <2>. QED  BY <2>1, <2>2, <2>3, <1>7, <1>9, <1>15 DEF RowFilled
<1>. HIDE DEF data, mine, id
<1>17. work'.by = c /\ work'.id = id /\ work'.data = data /\ work' \in [by : {c}, id : RecordIds, data : Data]
  BY <1>2, <1>3, <1>8, <1>14 DEF id
<1>18. filing'[c] = mine
  BY <1>0, <1>1 DEF RecordTypeOK
<1>19. WorkTrue(c)'
  <2>1. RowFilled(db, work.data, work.id)'
    BY <1>1, <1>16, <1>17 DEF RowFilled, RowAdded, Stored
  <2>2. work'.data.spread = db'.spread
    BY <1>1, <1>15, <1>17
  <2>3. filing'[c].pc # "fill" /\ (filing'[c].pc = "release" => ~filing'[c].item.spread)
    BY <1>5, <1>18 DEF Item
  <2>. QED  BY <2>1, <2>2, <2>3 DEF WorkTrue
<1>20. filing[c].pc \in InBatch /\ mine.pc \in InBatch /\ mine.pc \in InItem
  BY <1>1, <1>5 DEF InBatch, InItem
<1>. QED  BY <1>1, <1>2, <1>4, <1>5, <1>17, <1>19, <1>20, WorkOnly

LEMMA SpreadStep ==
    ASSUME RecordInv, UNCHANGED apart, NEW c \in Callers, ItemSpread(c)
    PROVE  RecordInv'
<1>0. filing[c] \in Filing /\ db \in Data /\ RecordTypeOK
  BY DEF RecordInv, RecordTypeOK
<1>. DEFINE mine(ok) == [filing[c] EXCEPT !.pc = "release", !.item.spread = ok]
            data == [work.data EXCEPT !.spread = @ \cup {work.id}]
<1>1. PICK ok \in BOOLEAN : /\ work' = IF ok THEN [work EXCEPT !.data.spread = @ \cup {work.id}] ELSE work
                            /\ Go(c, mine(ok))
  BY DEF ItemSpread
<1>2. filing[c].pc = "spread" /\ db' = db /\ filing' = [filing EXCEPT ![c] = mine(ok)]
  BY <1>1 DEF ItemSpread, At, Go
<1>3. work.by = c /\ work.id \in RecordIds /\ work.data \in Data
      /\ work \in [by : Callers, id : RecordIds, data : Data]
  <2>1. work.by = c
    BY <1>2 DEF RecordInv, WorkOwned, InItem
  <2>. QED  BY <2>1, <1>0, WorkFields DEF RecordTypeOK
<1>4. mine(ok) \in Filing
  BY <1>0, <1>2, FilingFields DEF InItem
<1>5. mine(ok).pc = "release" /\ mine(ok).made = filing[c].made /\ mine(ok).spread = filing[c].spread
      /\ mine(ok).item.spread = ok
  <2>1. filing[c] \in [pc : {"insert"} \cup InItem, left : Nat, made : SUBSET RecordIds,
                       spread : SUBSET RecordIds, item : AnItem, late : BOOLEAN]
    BY <1>0, <1>2 DEF Filing, NoCall
  <2>2. filing[c].item \in AnItem
    BY <2>1
  <2>3. [filing[c].item EXCEPT !.spread = ok].spread = ok
    BY <2>2 DEF AnItem
  <2>4. mine(ok) = [filing[c] EXCEPT !.pc = "release", !.item = [filing[c].item EXCEPT !.spread = ok]]
    BY <2>1
  <2>. QED  BY <2>1, <2>3, <2>4
<1>6. WorkTrue(c)
  BY DEF RecordInv
<1>7. RowFilled(db, work.data, work.id) /\ work.data.spread = db.spread
  BY <1>6, <1>2, <1>3 DEF WorkTrue
<1>8. /\ data \in Data /\ data.rows = work.data.rows /\ data.linked = work.data.linked
      /\ data.cites = work.data.cites /\ data.told = work.data.told
      /\ data.spread = db.spread \cup {work.id}
  BY <1>3, <1>7 DEF Data
<1>9. work' = IF ok THEN [work EXCEPT !.data = data] ELSE work
  BY <1>1, <1>3
<1>. HIDE DEF data, mine
<1>10. /\ work'.by = c /\ work'.id = work.id /\ work' \in [by : {c}, id : RecordIds, data : Data]
       /\ work'.data = IF ok THEN data ELSE work.data
  BY <1>3, <1>8, <1>9
<1>11. filing'[c] = mine(ok)
  BY <1>0, <1>2 DEF RecordTypeOK
<1>12. WorkTrue(c)'
  <2>0. /\ work'.data.rows = work.data.rows /\ work'.data.linked = work.data.linked
        /\ work'.data.cites = work.data.cites /\ work'.data.told = work.data.told
        /\ work'.id = work.id /\ db' = db
    BY <1>2, <1>8, <1>10
  <2>1. RowFilled(db, work.data, work.id)'
    BY <2>0, <1>7 DEF RowFilled, RowAdded, Stored
  <2>2. work'.data.spread = db'.spread \cup IF ok THEN {work'.id} ELSE {}
    BY <1>2, <1>7, <1>8, <1>10
  <2>. QED  BY <2>1, <2>2, <1>5, <1>11 DEF WorkTrue
<1>13. filing[c].pc \in InBatch /\ mine(ok).pc \in InBatch /\ mine(ok).pc \in InItem
  BY <1>2, <1>5 DEF InBatch, InItem
<1>. QED  BY <1>2, <1>3, <1>4, <1>5, <1>10, <1>12, <1>13, WorkOnly

LEMMA ReleaseStep ==
    ASSUME RecordInv, UNCHANGED apart, NEW c \in Callers, ItemRelease(c)
    PROVE  RecordInv'
<1>0. filing[c] \in Filing /\ db \in Data /\ RecordTypeOK /\ Whole(db)
  BY DEF RecordInv, RecordTypeOK
<1>. DEFINE id == work.id
            d == work.data
            spreads == IF Item(c).spread THEN {id} ELSE {}
            mine == Rest(c, filing[c].made \cup {id}, filing[c].spread \cup spreads)
<1>1. filing[c].pc = "release" /\ Committed(c, d, mine)
  BY DEF ItemRelease, At
<1>2. work.by = c
  BY <1>1 DEF RecordInv, WorkOwned, InItem
<1>3. id \in RecordIds /\ d \in Data
  BY <1>0, <1>2, WorkFields
<1>4. WorkTrue(c) /\ BatchKept(c)
  BY DEF RecordInv
<1>5. RowFilled(db, d, id) /\ d.spread = db.spread \cup spreads
  BY <1>4, <1>1, <1>2 DEF WorkTrue, Item
<1>6. filing[c].made \subseteq Stored(db) /\ filing[c].spread = db.spread \cap filing[c].made
  BY <1>4, <1>1 DEF BatchKept, InBatch, InItem
<1>7. id \in RecordIds \ Stored(db) /\ id \notin db.spread
  BY <1>0, <1>3, <1>5 DEF RowFilled, RowAdded, Whole
<1>8. mine \in Filing /\ mine.pc = "item"
  <2>1. filing[c].left \in Nat /\ filing[c].made \subseteq RecordIds /\ filing[c].spread \subseteq RecordIds
    BY <1>0, <1>1, FilingFields DEF InBatch, InItem
  <2>. QED  BY <2>1, <1>3 DEF Rest, Filing
<1>. HIDE DEF d, id
<1>9. /\ Stored(d) = Stored(db) \cup {id}
      /\ Whole(d)
      /\ Matching(db) => Matching(d)
  BY <1>0, <1>3, <1>5, RowFilledKeeps
<1>10. apart => Matching(d)
  BY <1>9 DEF RecordInv
<1>11. db.spread = d.spread \cap (Stored(db) \cup db.spread)
  BY <1>5, <1>7
<1>12. mine.made \subseteq Stored(d) /\ mine.spread = d.spread \cap mine.made
  BY <1>5, <1>6, <1>7, <1>9 DEF Rest
<1>13. ASSUME NEW x \in Callers \ {c}, filing[x].pc = "update"
       PROVE  d.rows[filing[x].id].text = db.rows[filing[x].id].text
  <2>1. filing[x].id \in Stored(db) /\ filing[x].id \in RecordIds
    BY <1>13 DEF RecordInv, UpdateTrue, Stored
  <2>. QED  BY <2>1, <1>5, <1>7 DEF RowFilled, RowAdded
<1>. HIDE DEF mine
<1>. QED  BY <1>1, <1>2, <1>3, <1>8, <1>9, <1>10, <1>11, <1>12, <1>13, Committing

LEMMA FailStep ==
    ASSUME RecordInv, UNCHANGED apart, NEW c \in Callers, ItemFail(c)
    PROVE  RecordInv'
<1>0. filing[c] \in Filing /\ RecordTypeOK /\ BatchKept(c)
  BY DEF RecordInv, RecordTypeOK
<1>. DEFINE mine == Rest(c, filing[c].made, filing[c].spread)
<1>1. /\ filing[c].pc \in {"insert"} \cup InItem /\ db' = db
      /\ filing' = [filing EXCEPT ![c] = mine] /\ work' = IF work.by = c THEN NoWork ELSE work
  BY DEF ItemFail, Go, InItem
<1>2. mine \in Filing /\ mine.pc = "item" /\ mine.made = filing[c].made /\ mine.spread = filing[c].spread
  <2>1. filing[c].left \in Nat /\ filing[c].made \subseteq RecordIds /\ filing[c].spread \subseteq RecordIds
    BY <1>0, <1>1, FilingFields DEF InBatch
  <2>. QED  BY <2>1 DEF Rest, Filing
<1>3. mine.pc \in InBatch /\ mine.pc \notin InItem /\ filing[c].pc \in InBatch
  BY <1>1, <1>2 DEF InBatch, InItem
<1>4. CASE work.by = c
  <2>1. work' = NoWork /\ work'.by # c /\ filing'[c] = mine
    BY <1>0, <1>1, <1>4, WorkFields DEF NoWork, RecordTypeOK
  <2>2. WorkTrue(c)'
    BY <2>1 DEF WorkTrue
  <2>. QED  BY <1>1, <1>2, <1>3, <1>4, <2>1, <2>2, WorkOnly
<1>5. CASE work.by # c
  <2>1. filing[c].pc \notin InItem
    BY <1>5 DEF RecordInv, WorkOwned
  <2>2. mine.made \subseteq Stored(db) /\ mine.spread = db.spread \cap mine.made
    BY <1>0, <1>2, <1>3 DEF BatchKept
  <2>. QED  BY <1>1, <1>2, <1>3, <1>5, <2>1, <2>2, FilingOnly
<1>. QED  BY <1>4, <1>5

LEMMA AddMaterialStep ==
    ASSUME RecordInv, UNCHANGED apart, NEW c \in Callers, AddMaterial(c)
    PROVE  RecordInv'
<1>0. filing[c] \in Filing /\ db \in Data /\ RecordTypeOK /\ Whole(db)
  BY DEF RecordInv, RecordTypeOK
<1>. DEFINE text(id, named) == named \cap (Stored(db) \cup {id})
            new(id, named) == [kind |-> "material", topic |-> FALSE, text |-> text(id, named)]
            d(id, named) == [db EXCEPT !.rows[id] = new(id, named),
                                       !.cites = Cited(@, id, text(id, named)), !.told = Announced(@, id)]
<1>1. PICK id \in RecordIds \ Stored(db), named \in Texts : Committed(c, d(id, named), NoCall)
  BY DEF AddMaterial
<1>2. work = NoWork
  BY DEF AddMaterial
<1>3. text(id, named) \subseteq RecordIds /\ text(id, named) \subseteq Stored(db) \cup {id}
  BY RecordsAssumption
<1>4. new(id, named) \in Record /\ ~new(id, named).topic /\ new(id, named).text = text(id, named)
  BY <1>3 DEF Record
<1>. HIDE DEF new, text
<1>5. /\ d(id, named).rows = [db.rows EXCEPT ![id] = new(id, named)]
      /\ d(id, named).linked = db.linked /\ d(id, named).spread = db.spread
      /\ d(id, named).cites = Cited(db.cites, id, text(id, named))
      /\ d(id, named).told = Announced(db.told, id)
  BY <1>0 DEF Data
<1>6. d(id, named) \in Data
  <2>1. [db.rows EXCEPT ![id] = new(id, named)] \in [RecordIds -> Record \cup {None}]
    BY <1>0, <1>4 DEF Data
  <2>2. Cited(db.cites, id, text(id, named)) \subseteq RecordIds \X RecordIds
    BY <1>0, <1>3 DEF Data, Cited
  <2>3. Announced(db.told, id) \in [RecordIds -> Nat]
    BY <1>0 DEF Data, Announced
  <2>4. d(id, named) = [db EXCEPT !.rows = [db.rows EXCEPT ![id] = new(id, named)],
                                  !.cites = Cited(db.cites, id, text(id, named)),
                                  !.told = Announced(db.told, id)]
    BY <1>0 DEF Data
  <2>. QED  BY <2>1, <2>2, <2>3, <2>4, <1>0 DEF Data
<1>. HIDE DEF d
<1>7. RowFilled(db, d(id, named), id)
  BY <1>0, <1>3, <1>4, <1>5 DEF RowFilled, RowAdded, Data
<1>8. /\ Stored(d(id, named)) = Stored(db) \cup {id}
      /\ Whole(d(id, named))
      /\ Matching(db) => Matching(d(id, named))
  BY <1>0, <1>5, <1>6, <1>7, RowFilledKeeps
<1>9. apart => Matching(d(id, named))
  BY <1>8 DEF RecordInv
<1>10. db.spread = d(id, named).spread \cap (Stored(db) \cup db.spread)
  BY <1>5
<1>11. ASSUME NEW x \in Callers \ {c}, filing[x].pc = "update"
       PROVE  d(id, named).rows[filing[x].id].text = db.rows[filing[x].id].text
  <2>1. filing[x].id \in Stored(db) /\ filing[x].id \in RecordIds
    BY <1>11 DEF RecordInv, UpdateTrue, Stored
  <2>. QED  BY <2>1, <1>7 DEF RowFilled, RowAdded
<1>12. NoCall \in Filing /\ NoCall.pc = "none"
  BY DEF Filing, NoCall
<1>. QED  BY <1>1, <1>2, <1>6, <1>8, <1>9, <1>10, <1>11, <1>12, Committing

LEMMA UpdateReadStep ==
    ASSUME RecordInv, UNCHANGED apart, NEW c \in Callers, UpdateRead(c)
    PROVE  RecordInv'
<1>0. filing[c] \in Filing /\ db \in Data
  BY DEF RecordInv, RecordTypeOK
<1>. DEFINE mine(id, how) == [pc |-> "update", id |-> id, how |-> how, row |-> db.rows[id].text]
<1>1. PICK id \in Stored(db), how \in {"title", "overwrite", "append"} : Go(c, mine(id, how))
  BY DEF UpdateRead
<1>2. filing[c].pc = "none" /\ (apart => \A x \in Callers : ~At(x, "update"))
  BY DEF UpdateRead, Free, NoCall
<1>3. id \in RecordIds /\ db.rows[id].text \subseteq RecordIds
  BY <1>0 DEF Stored, Data, Record, None
<1>4. mine(id, how) \in Filing
  BY <1>3 DEF Filing
<1>. QED  BY <1>1, <1>2, <1>4, FilingOnly DEF UpdateRead, Go, InBatch, InItem

LEMMA UpdateWriteStep ==
    ASSUME RecordInv, UNCHANGED apart, NEW c \in Callers, UpdateWrite(c)
    PROVE  RecordInv'
<1>0. filing[c] \in Filing /\ db \in Data /\ RecordTypeOK /\ Whole(db)
  BY DEF RecordInv, RecordTypeOK
<1>. DEFINE id == filing[c].id
            how == filing[c].how
            row == filing[c].row
            text(named) == CASE how = "title" -> db.rows[id].text
                             [] how = "overwrite" -> Known(db, named)
                             [] OTHER -> row \cup Known(db, named)
            cited(named) == IF how = "title" THEN row ELSE text(named)
            d(named) == [db EXCEPT !.rows[id].text = text(named), !.cites = Cited(@, id, cited(named))]
<1>1. PICK named \in Texts : Committed(c, d(named), NoCall)
  BY DEF UpdateWrite
<1>2. work = NoWork /\ filing[c].pc = "update"
  BY DEF UpdateWrite, At
<1>3. id \in RecordIds /\ how \in {"title", "overwrite", "append"} /\ row \subseteq RecordIds
  BY <1>0, <1>2, FilingFields
<1>4. UpdateTrue(c) /\ (apart => Matching(db))
  BY DEF RecordInv
<1>5. id \in Stored(db) /\ (apart => row = db.rows[id].text)
  BY <1>2, <1>4 DEF UpdateTrue
<1>6. db.rows[id] \in Record
  BY <1>0, <1>3, <1>5 DEF Stored, Data
<1>7. /\ text(named) \subseteq RecordIds /\ cited(named) \subseteq RecordIds
      /\ apart => cited(named) = text(named) /\ text(named) \subseteq Stored(db)
  <2>1. Known(db, named) \subseteq Stored(db) /\ Stored(db) \subseteq RecordIds
    BY DEF Known, Stored
  <2>2. db.rows[id].text \subseteq RecordIds
    BY <1>6 DEF Record
  <2>3. apart => db.rows[id].text \subseteq Stored(db)
    BY <1>4, <1>5 DEF Matching
  <2>. QED  BY <2>1, <2>2, <2>3, <1>3, <1>5
<1>. HIDE DEF id, how, row, text, cited
<1>8. /\ d(named).rows = [db.rows EXCEPT ![id] = [db.rows[id] EXCEPT !.text = text(named)]]
      /\ d(named).linked = db.linked /\ d(named).spread = db.spread /\ d(named).told = db.told
      /\ d(named).cites = Cited(db.cites, id, cited(named))
      /\ d(named) = [db EXCEPT !.rows = [db.rows EXCEPT ![id] = [db.rows[id] EXCEPT !.text = text(named)]],
                               !.cites = Cited(db.cites, id, cited(named))]
  BY <1>0 DEF Data
<1>. DEFINE new == [db.rows[id] EXCEPT !.text = text(named)]
<1>9. new \in Record /\ new.text = text(named) /\ new.topic = db.rows[id].topic /\ new # None
  BY <1>6, <1>7 DEF Record, None
<1>10. d(named) \in Data
  <2>1. [db.rows EXCEPT ![id] = new] \in [RecordIds -> Record \cup {None}]
    BY <1>0, <1>9 DEF Data
  <2>2. Cited(db.cites, id, cited(named)) \subseteq RecordIds \X RecordIds
    BY <1>0, <1>3, <1>7 DEF Data, Cited
  <2>. QED  BY <2>1, <2>2, <1>8, <1>0 DEF Data
<1>. HIDE DEF d, new
<1>11. /\ d(named).rows[id] = new
       /\ \A j \in RecordIds \ {id} : d(named).rows[j] = db.rows[j]
  BY <1>0, <1>3, <1>8 DEF Data, new
<1>12. Stored(d(named)) = Stored(db)
  BY <1>5, <1>9, <1>11 DEF Stored
<1>13. /\ \A j \in RecordIds \ {id} : Cites(d(named), j) = Cites(db, j)
       /\ Cites(d(named), id) = cited(named)
  BY <1>7, <1>8 DEF Cites, Cited
<1>14. Whole(d(named))
  BY <1>0, <1>3, <1>5, <1>8, <1>9, <1>11, <1>12, <1>13 DEF Whole
<1>15. ASSUME apart
       PROVE  Matching(d(named))
  <2>. SUFFICES ASSUME NEW j \in Stored(d(named))
                PROVE  Cites(d(named), j) = d(named).rows[j].text /\ Cites(d(named), j) \subseteq Stored(d(named))
    BY DEF Matching
  <2>1. j \in Stored(db) /\ j \in RecordIds
    BY <1>12 DEF Stored
  <2>2. CASE j = id
    BY <2>2, <1>15, <1>7, <1>9, <1>11, <1>12, <1>13
  <2>3. CASE j # id
    BY <2>1, <2>3, <1>15, <1>4, <1>11, <1>12, <1>13 DEF Matching
  <2>. QED  BY <2>2, <2>3
<1>16. ASSUME NEW x \in Callers \ {c}, apart
       PROVE  filing[x].pc # "update"
  BY <1>2, <1>16 DEF RecordInv, OneUpdate, At
<1>17. NoCall \in Filing /\ NoCall.pc = "none"
  BY DEF Filing, NoCall
<1>18. db.spread = d(named).spread \cap (Stored(db) \cup db.spread)
  BY <1>8
<1>. QED  BY <1>1, <1>2, <1>10, <1>12, <1>14, <1>15, <1>16, <1>17, <1>18, Committing

LEMMA UpdateFailStep ==
    ASSUME RecordInv, UNCHANGED apart, NEW c \in Callers, UpdateFail(c)
    PROVE  RecordInv'
<1>1. filing[c].pc = "update" /\ filing' = [filing EXCEPT ![c] = NoCall]
  BY DEF UpdateFail, At, Go
<1>2. NoCall \in Filing /\ NoCall.pc = "none"
  BY DEF Filing, NoCall
<1>. QED  BY <1>1, <1>2, FilingOnly DEF UpdateFail, InBatch, InItem

LEMMA RecordCrash ==
    ASSUME RecordInv, UNCHANGED apart, Crash
    PROVE  RecordInv'
<1>1. filing' = [c \in Callers |-> NoCall] /\ work' = NoWork /\ db' = db
  BY DEF Crash
<1>2. RecordTypeOK'
  BY <1>1 DEF RecordInv, RecordTypeOK, Filing
<1>3. \A c \in Callers : filing'[c].pc = "none" /\ work'.by # c
  BY <1>1, RecordsAssumption DEF NoCall, NoWork, Nobody
<1>4. Whole(db)' /\ (apart => Matching(db))'
  BY <1>1 DEF RecordInv, Whole, Matching, Stored, Cites
<1>5. WorkOwned' /\ OneUpdate'
  BY <1>3 DEF WorkOwned, OneUpdate, At, InItem
<1>6. \A c \in Callers : BatchKept(c)' /\ WorkTrue(c)' /\ UpdateTrue(c)'
  BY <1>3 DEF BatchKept, WorkTrue, UpdateTrue, InBatch, InItem
<1>. QED  BY <1>2, <1>4, <1>5, <1>6 DEF RecordInv

LEMMA RecordStep == RecordInv /\ [RecordsNext]_recordVars => RecordInv'
<1> SUFFICES ASSUME RecordInv, [RecordsNext]_recordVars PROVE RecordInv'
  OBVIOUS
<1>1. CASE UNCHANGED recordVars
  BY <1>1 DEF recordVars, RecordInv, RecordTypeOK, Whole, Matching, WorkOwned, OneUpdate, BatchKept,
     WorkTrue, UpdateTrue, RowAdded, RowFilled, Stored, Cites, At
<1>2. CASE RecordsNext
  <2>1. UNCHANGED apart
    BY <1>2 DEF RecordsNext
  <2>2. ASSUME NEW c \in Callers,
               \/ AddBatch(c) \/ ItemRead(c) \/ ItemInsert(c) \/ ItemFill(c) \/ ItemSpread(c)
               \/ ItemRelease(c) \/ ItemFail(c) \/ Answer(c)
               \/ AddMaterial(c) \/ UpdateRead(c) \/ UpdateWrite(c) \/ UpdateFail(c)
        PROVE  RecordInv'
    BY <2>1, <2>2, BatchSteps, InsertStep, FillStep, SpreadStep, ReleaseStep, FailStep, AddMaterialStep,
       UpdateReadStep, UpdateWriteStep, UpdateFailStep
  <2>3. CASE Crash
    BY <2>1, <2>3, RecordCrash
  <2>. QED  BY <1>2, <2>2, <2>3 DEF RecordsNext
<1>. QED  BY <1>1, <1>2

\* Whatever fails, is cut short by a crash or runs between the steps, an item of a
\* batch is stored with all its parts or with none and a batch answers what it
\* stored; while updates of materials do not overlap, the citations kept of every
\* record are those of its text and of records there are.
THEOREM RecordsAlwaysWhole == RecordsSpec => []RecordsAreWhole
<1>1. RecordInv => RecordsAreWhole
  <2> SUFFICES ASSUME RecordInv PROVE RecordsAreWhole
    OBVIOUS
  <2>1. ASSUME NEW c \in Callers, At(c, "item")
        PROVE  filing[c].made \subseteq Stored(db) /\ filing[c].spread = db.spread \cap filing[c].made
    BY <2>1 DEF RecordInv, BatchKept, At, InBatch
  <2>2. Whole(db) /\ (apart => Matching(db))
    BY DEF RecordInv
  <2>. QED  BY <2>1, <2>2 DEF RecordsAreWhole, BatchesAreWhole, CitationsMatch, Whole, Matching
<1>2. RecordsInit => RecordInv
  BY RecordInit
<1>3. RecordInv /\ [RecordsNext]_recordVars => RecordInv'
  BY RecordStep
<1>. QED  BY <1>1, <1>2, <1>3, PTL DEF RecordsSpec

--------------------------------------------------------------------------------
\* Activities.  The invariant: an update under way holds to what it was asked and
\* saw, the row of a call is there, the days of a snoozed row are days it has been
\* snoozed; and one call at a time, what a call read is so still.
ActRow == [status : REAL_STATUSES, days : Nat]
Wish == REAL_STATUSES \union {"keep"}
Doing ==
    {Resting}
    \union [pc : {"insert"}, intent : {"implement", "other"}, checkin : BOOLEAN]
    \union [pc : {"look"}, act : Acts]
    \union [pc : {"set"}, act : Acts, saw : REAL_STATUSES, asked : Wish, to : Wish]
    \union [pc : {"start"}, act : Acts, seen : REAL_STATUSES]
    \union [pc : {"answer"}, act : Acts, status : REAL_STATUSES]
ActTypeOK ==
    /\ acts \in [Acts -> ActRow \union {NoAct}]
    /\ standing \in BOOLEAN
    /\ doing \in [Agents -> Doing]
    /\ said \in [Agents -> [act : Acts, status : REAL_STATUSES] \union {NotSaid}]
    /\ quiet \in [Acts -> Nat]
    /\ alone \in BOOLEAN

\* An update holds to what it was asked and what it saw.
HoldsTo(c) == c.pc = "set" => c.to = NewStatus(c.asked, c.saw)

\* A row that a call names is there.
Named == \A s \in Agents : doing[s].pc \in {"look", "set", "start", "answer"} => Exists(doing[s].act)

\* The days since updated_at of a snoozed row are days it has been snoozed.
SnoozedSince == \A a \in Acts : acts[a].status = "snoozed" => acts[a].days <= quiet[a]

\* Calls one at a time: what a check-in read, and what the guard read, is so still.
StillSo(c) ==
    /\ c.pc = "start" => acts[c.act].status = c.seen
    /\ c.pc = "answer" => acts[c.act].status = c.status
    /\ c.pc = "insert" /\ c.intent = "implement" => standing
OneActs == \A s, t \in Agents : doing[s] # Resting /\ doing[t] # Resting => s = t
ActsApart == alone => OneActs /\ \A s \in Agents : StillSo(doing[s])

ActInv == ActTypeOK /\ (\A s \in Agents : HoldsTo(doing[s])) /\ Named /\ SnoozedSince /\ ActsApart

\* What the record of a call holds, by the step it is at.
LEMMA DoingFields ==
    ASSUME NEW c \in Doing
    PROVE  /\ c.pc \in {"none", "insert", "look", "set", "start", "answer"}
           /\ c.pc = "none" => c = Resting
           /\ c.pc = "insert" => c.intent \in {"implement", "other"} /\ c.checkin \in BOOLEAN
           /\ c.pc \in {"look", "set", "start", "answer"} => c.act \in Acts
           /\ c.pc = "set" => c.saw \in REAL_STATUSES /\ c.asked \in Wish /\ c.to \in Wish
           /\ c.pc = "start" => c.seen \in REAL_STATUSES
           /\ c.pc = "answer" => c.status \in REAL_STATUSES
  BY DEF Doing, Resting

LEMMA ActFields ==
    ASSUME ActTypeOK, NEW a \in Acts
    PROVE  /\ Exists(a) => acts[a] \in ActRow /\ acts[a].status \in REAL_STATUSES /\ acts[a].days \in Nat
           /\ ~Exists(a) => acts[a].status \notin REAL_STATUSES
           /\ acts[a].status = "snoozed" => Exists(a)
  BY DEF ActTypeOK, ActRow, Exists, NoAct, REAL_STATUSES

LEMMA ActInitInv == ASSUME ActInit PROVE ActInv
  BY DEF ActInit, ActInv, ActTypeOK, Doing, HoldsTo, Named, SnoozedSince, ActsApart, OneActs,
         StillSo, Resting, NoAct, REAL_STATUSES

\* A step of one session, the rows and the decision as they were.
LEMMA SessionStep ==
    ASSUME ActInv, NEW s \in Agents, NEW c \in Doing, GoesTo(s, c),
           UNCHANGED <<acts, standing, quiet, alone>>,
           said' \in [Agents -> [act : Acts, status : REAL_STATUSES] \union {NotSaid}],
           HoldsTo(c), c.pc \in {"look", "set", "start", "answer"} => Exists(c.act),
           alone => StillSo(c) /\ \A t \in Agents \ {s} : doing[t] = Resting
    PROVE  ActInv'
<1>0. /\ doing' \in [Agents -> Doing]
      /\ doing'[s] = c
      /\ \A t \in Agents \ {s} : doing'[t] = doing[t]
  BY DEF ActInv, ActTypeOK, GoesTo
<1>1. ActTypeOK'
  BY <1>0 DEF ActInv, ActTypeOK
<1>2. \A t \in Agents : HoldsTo(doing'[t])
  BY <1>0 DEF ActInv
<1>3. Named'
  BY <1>0 DEF ActInv, Named, Exists
<1>4. SnoozedSince'
  BY DEF ActInv, SnoozedSince
<1>5. ActsApart'
  <2> SUFFICES ASSUME alone PROVE OneActs' /\ \A t \in Agents : StillSo(doing[t])'
    BY DEF ActsApart
  <2>1. OneActs'
    BY <1>0 DEF OneActs
  <2>2. \A t \in Agents : StillSo(doing[t])'
    <3> TAKE t \in Agents
    <3>1. CASE t = s
      BY <3>1, <1>0 DEF StillSo
    <3>2. CASE t # s
      BY <3>2, <1>0 DEF StillSo, ActInv, ActsApart
    <3>. QED  BY <3>1, <3>2
  <2>. QED  BY <2>1, <2>2
<1>6. \A t \in Agents : HoldsTo(doing[t])'
  BY <1>2 DEF HoldsTo, NewStatus
<1>. QED  BY <1>1, <1>3, <1>4, <1>5, <1>6 DEF ActInv

\* A write of one row at the end or in the middle of the call of one session.
LEMMA WriteStep ==
    ASSUME ActInv, NEW s \in Agents, NEW c \in Doing, GoesTo(s, c), doing[s] # Resting,
           NEW a \in Acts, NEW row \in ActRow, Write(a, row), row.days = 0,
           UNCHANGED <<standing, said, alone>>,
           HoldsTo(c), c.pc \in {"look", "set", "start", "answer"} => c.act = a,
           c.pc = "start" => row.status = c.seen,
           c.pc = "answer" => row.status = c.status,
           c.pc = "insert" => FALSE
    PROVE  ActInv'
<1>0. /\ doing' \in [Agents -> Doing]
      /\ doing'[s] = c
      /\ \A t \in Agents \ {s} : doing'[t] = doing[t]
      /\ acts' \in [Acts -> ActRow \union {NoAct}]
      /\ acts'[a] = row
      /\ \A b \in Acts \ {a} : acts'[b] = acts[b]
      /\ quiet' \in [Acts -> Nat]
      /\ \A b \in Acts \ {a} : quiet'[b] = quiet[b]
  BY DEF ActInv, ActTypeOK, GoesTo, Write
<1>1. ActTypeOK'
  BY <1>0 DEF ActInv, ActTypeOK
<1>2. \A t \in Agents : HoldsTo(doing[t])'
  BY <1>0 DEF ActInv, HoldsTo, NewStatus
<1>a. \A b \in Acts : Exists(b) => Exists(b)'
  BY <1>0 DEF Exists, ActRow, NoAct, REAL_STATUSES
<1>b. Exists(a)'
  BY <1>0 DEF Exists, ActRow, NoAct, REAL_STATUSES
<1>3. Named'
  <2> SUFFICES ASSUME NEW t \in Agents, doing'[t].pc \in {"look", "set", "start", "answer"}
               PROVE  Exists(doing[t].act)'
    BY DEF Named
  <2>1. CASE t = s
    BY <2>1, <1>0, <1>b
  <2>2. CASE t # s
    <3>1. Exists(doing[t].act) /\ doing[t].act \in Acts /\ doing'[t].act = doing[t].act
      BY <2>2, <1>0, DoingFields DEF ActInv, Named, ActTypeOK
    <3>. QED  BY <3>1, <1>a DEF Exists
  <2>. QED  BY <2>1, <2>2
<1>4. SnoozedSince'
  <2> SUFFICES ASSUME NEW b \in Acts, acts'[b].status = "snoozed"
               PROVE  acts'[b].days <= quiet'[b]
    BY DEF SnoozedSince
  <2>1. CASE b = a
    BY <2>1, <1>0
  <2>2. CASE b # a
    BY <2>2, <1>0 DEF ActInv, SnoozedSince
  <2>. QED  BY <2>1, <2>2
<1>5. ActsApart'
  <2> SUFFICES ASSUME alone PROVE OneActs' /\ \A t \in Agents : StillSo(doing[t])'
    BY DEF ActsApart
  <2>0. \A t \in Agents \ {s} : doing[t] = Resting
    BY DEF ActInv, ActsApart, OneActs
  <2>1. OneActs'
    BY <1>0, <2>0 DEF OneActs
  <2>2. \A t \in Agents : StillSo(doing[t])'
    <3> TAKE t \in Agents
    <3>1. CASE t = s
      BY <3>1, <1>0 DEF StillSo
    <3>2. CASE t # s
      BY <3>2, <1>0, <2>0 DEF StillSo, Resting
    <3>. QED  BY <3>1, <3>2
  <2>. QED  BY <2>1, <2>2
<1>. QED  BY <1>1, <1>2, <1>3, <1>4, <1>5 DEF ActInv

\* The invariant holds from step to step, and a step changes statuses and answers
\* as it should.
Sound == ChangesAreAskedFor /\ (alone => AnswersStored /\ RestsOnDecision)

LEMMA NoChange ==
    ASSUME ActInv, UNCHANGED <<acts, said>>
    PROVE  Sound
  BY DEF Sound, ChangesAreAskedFor, AnswersStored, RestsOnDecision

LEMMA AddCheckKeeps ==
    ASSUME ActInv, UNCHANGED alone, NEW s \in Agents, AddCheck(s)
    PROVE  ActInv' /\ Sound
<1>1. PICK intent \in {"implement", "other"}, cites \in BOOLEAN, checkin \in BOOLEAN :
          /\ GuardPasses(intent, cites)
          /\ GoesTo(s, [pc |-> "insert", intent |-> intent, checkin |-> checkin])
  BY DEF AddCheck
<1> DEFINE c == [pc |-> "insert", intent |-> intent, checkin |-> checkin]
<1>2. c \in Doing /\ c.pc = "insert" /\ c.intent = intent
  BY DEF Doing
<1>3. HoldsTo(c) /\ StillSo(c) /\ (alone => \A t \in Agents \ {s} : doing[t] = Resting)
  BY <1>1, <1>2 DEF HoldsTo, StillSo, GuardPasses, AddCheck, Undisturbed
<1>4. UNCHANGED <<acts, standing, quiet, alone, said>>
  BY DEF AddCheck
<1> HIDE DEF c
<1>5. ActInv'
  BY <1>1, <1>2, <1>3, <1>4, SessionStep DEF ActInv, ActTypeOK, c
<1>. QED  BY <1>4, <1>5, NoChange

LEMMA AddWriteKeeps ==
    ASSUME ActInv, UNCHANGED alone, NEW s \in Agents, AddWrite(s)
    PROVE  ActInv' /\ Sound
<1>0. doing[s] # Resting /\ UNCHANGED <<standing, said, alone>> /\ doing[s] \in Doing
  BY DEF AddWrite, Resting, ActInv, ActTypeOK
<1>1. CASE Done(s) /\ UNCHANGED <<acts, quiet>>
  <2>1. Resting \in Doing /\ Resting.pc = "none"
    BY DEF Doing, Resting
  <2>2. HoldsTo(Resting) /\ StillSo(Resting) /\ (alone => \A t \in Agents \ {s} : doing[t] = Resting)
    BY <1>0, <2>1 DEF HoldsTo, StillSo, ActInv, ActsApart, OneActs
  <2>3. ActInv'
    BY <1>0, <1>1, <2>1, <2>2, SessionStep DEF Done, ActInv, ActTypeOK
  <2>. QED  BY <1>0, <1>1, <2>3, NoChange
<1>2. ASSUME NEW a \in Acts, ~Exists(a), Write(a, [status |-> "pending", days |-> 0]),
             IF doing[s].checkin THEN GoesTo(s, [pc |-> "look", act |-> a]) ELSE Done(s)
      PROVE  ActInv' /\ Sound
  <2> DEFINE row == [status |-> "pending", days |-> 0]
             c == IF doing[s].checkin THEN [pc |-> "look", act |-> a] ELSE Resting
  <2>1. c \in Doing /\ c.pc \in {"look", "none"} /\ (c.pc = "look" => c.act = a)
    BY DEF Doing, Resting
  <2>2. GoesTo(s, c)
    BY <1>2 DEF Done
  <2>3. row \in ActRow /\ row.days = 0 /\ row.status = "pending"
    BY DEF ActRow, REAL_STATUSES
  <2> HIDE DEF c, row
  <2>4. HoldsTo(c)
    BY <2>1 DEF HoldsTo
  <2>4a. Write(a, row)
    BY <1>2 DEF row
  <2>5. ActInv'
    BY <1>0, <2>1, <2>2, <2>3, <2>4, <2>4a, WriteStep
  <2>6. \A b \in Acts : Exists(b) => acts'[b] = acts[b]
    BY <1>2 DEF Write, ActInv, ActTypeOK
  <2>7. Sound
    BY <1>0, <2>6 DEF Sound, ChangesAreAskedFor, AnswersStored, RestsOnDecision, ActInv, ActsApart, StillSo
  <2>. QED  BY <2>5, <2>7
<1>. QED  BY <1>1, <1>2 DEF AddWrite

LEMMA UpdateReadKeeps ==
    ASSUME ActInv, UNCHANGED alone, NEW s \in Agents, NEW a \in Acts, UpdateActivityRead(s, a)
    PROVE  ActInv' /\ Sound
<1>1. PICK asked \in Wish :
          GoesTo(s, [pc |-> "set", act |-> a, saw |-> acts[a].status, asked |-> asked,
                     to |-> NewStatus(asked, acts[a].status)])
  BY DEF UpdateActivityRead, Wish
<1> DEFINE c == [pc |-> "set", act |-> a, saw |-> acts[a].status, asked |-> asked,
                 to |-> NewStatus(asked, acts[a].status)]
<1>0. Exists(a) /\ acts[a].status \in REAL_STATUSES
  BY ActFields DEF UpdateActivityRead, ActInv
<1>2. /\ c \in Doing /\ c.pc = "set" /\ c.act = a
      /\ HoldsTo(c)
  BY <1>0 DEF Doing, HoldsTo, NewStatus, Wish, REAL_STATUSES
<1>3. GoesTo(s, c)
  BY <1>1
<1> HIDE DEF c
<1>4. UNCHANGED <<acts, standing, quiet, alone, said>>
  BY DEF UpdateActivityRead
<1>5. StillSo(c) /\ (alone => \A t \in Agents \ {s} : doing[t] = Resting)
  BY <1>2 DEF StillSo, UpdateActivityRead, Undisturbed
<1>6. ActInv'
  BY <1>0, <1>2, <1>3, <1>4, <1>5, SessionStep DEF ActInv, ActTypeOK
<1>. QED  BY <1>4, <1>6, NoChange

LEMMA UpdateWriteKeeps ==
    ASSUME ActInv, UNCHANGED alone, NEW s \in Agents, UpdateActivityWrite(s)
    PROVE  ActInv' /\ Sound
<1> DEFINE a == doing[s].act
           row == Updated(acts[a], doing[s])
<1>0. /\ doing[s] \in Doing /\ doing[s].pc = "set" /\ doing[s] # Resting /\ a \in Acts
      /\ doing[s].to \in Wish /\ doing[s].asked \in Wish /\ doing[s].saw \in REAL_STATUSES
      /\ doing[s].to = NewStatus(doing[s].asked, doing[s].saw)
      /\ Exists(a)
      /\ UNCHANGED <<standing, said, alone>>
  BY DoingFields DEF UpdateActivityWrite, Resting, ActInv, ActTypeOK, HoldsTo, Named
<1>1. acts[a] \in ActRow /\ acts[a].status \in REAL_STATUSES
  BY <1>0, ActFields DEF ActInv
<1>2. /\ row \in ActRow /\ row.days = 0
      /\ row.status = IF doing[s].to = "keep" THEN acts[a].status ELSE doing[s].to
  BY <1>0, <1>1 DEF Updated, ActRow, Wish
<1>3. Write(a, row) /\ GoesTo(s, Resting)
  BY DEF UpdateActivityWrite, Done
<1> HIDE DEF row
<1>4. Resting \in Doing /\ Resting.pc = "none" /\ HoldsTo(Resting)
  BY DEF Doing, Resting, HoldsTo
<1>5. ActInv'
  BY <1>0, <1>2, <1>3, <1>4, WriteStep
<1>6. /\ acts'[a] = row /\ \A b \in Acts \ {a} : acts'[b] = acts[b]
      /\ doing'[s] # doing[s]
  BY <1>0, <1>3 DEF Write, GoesTo, ActInv, ActTypeOK
<1>7. ChangesAreAskedFor
  <2> SUFFICES ASSUME NEW b \in Acts, Exists(b), acts'[b].status # acts[b].status
               PROVE  Asked(s, b, acts'[b].status)
    BY DEF ChangesAreAskedFor
  <2>1. b = a
    BY <1>6
  <2>2. doing[s].to # "keep" /\ acts'[b].status = doing[s].to
    BY <1>2, <1>6, <2>1
  <2>. QED  BY <2>1, <2>2, <1>0, <1>6 DEF Asked, NewStatus
<1>. QED  BY <1>0, <1>5, <1>7 DEF Sound, AnswersStored, RestsOnDecision, ActInv, ActsApart, StillSo

LEMMA CheckInLookKeeps ==
    ASSUME ActInv, UNCHANGED alone, NEW s \in Agents, NEW a \in Acts, CheckInLook(s, a)
    PROVE  ActInv' /\ Sound
<1> DEFINE c == [pc |-> "start", act |-> a, seen |-> acts[a].status]
<1>0. Exists(a) /\ acts[a].status \in REAL_STATUSES
  BY ActFields DEF CheckInLook, ActInv
<1>1. c \in Doing /\ c.pc = "start" /\ c.act = a /\ c.seen = acts[a].status
  BY <1>0 DEF Doing
<1>2. GoesTo(s, c) /\ UNCHANGED <<acts, standing, quiet, alone, said>>
  BY DEF CheckInLook
<1> HIDE DEF c
<1>3. HoldsTo(c) /\ StillSo(c) /\ (alone => \A t \in Agents \ {s} : doing[t] = Resting)
  BY <1>1 DEF HoldsTo, StillSo, CheckInLook, Undisturbed
<1>4. ActInv'
  BY <1>0, <1>1, <1>2, <1>3, SessionStep DEF ActInv, ActTypeOK
<1>. QED  BY <1>2, <1>4, NoChange

LEMMA CheckInSetsKeeps ==
    ASSUME ActInv, UNCHANGED alone, NEW s \in Agents, CheckInSets(s)
    PROVE  ActInv' /\ Sound
<1> DEFINE a == doing[s].act
<1>0. /\ doing[s] \in Doing /\ doing[s].pc = "start" /\ doing[s] # Resting /\ a \in Acts
      /\ doing[s].seen \in REAL_STATUSES
      /\ Exists(a) /\ acts[a] \in ActRow
      /\ UNCHANGED <<standing, said, alone>>
  BY DoingFields, ActFields DEF CheckInSets, Resting, ActInv, ActTypeOK, Named
<1>1. ASSUME doing[s].seen # "in_progress",
             Write(a, [acts[a] EXCEPT !.status = "in_progress", !.days = 0]),
             GoesTo(s, [pc |-> "answer", act |-> a, status |-> "in_progress"])
      PROVE  ActInv' /\ Sound
  <2> DEFINE row == [acts[a] EXCEPT !.status = "in_progress", !.days = 0]
             c == [pc |-> "answer", act |-> a, status |-> "in_progress"]
  <2>1. row \in ActRow /\ row.days = 0 /\ row.status = "in_progress"
    BY <1>0 DEF ActRow, REAL_STATUSES
  <2>2. c \in Doing /\ c.pc = "answer" /\ c.act = a /\ c.status = "in_progress"
    BY <1>0 DEF Doing, REAL_STATUSES
  <2>3. Write(a, row) /\ GoesTo(s, c)
    BY <1>1
  <2> HIDE DEF row, c
  <2>4. HoldsTo(c)
    BY <2>2 DEF HoldsTo
  <2>5. ActInv'
    BY <1>0, <2>1, <2>2, <2>3, <2>4, WriteStep
  <2>6. /\ acts'[a] = row /\ \A b \in Acts \ {a} : acts'[b] = acts[b]
        /\ doing'[s] = c /\ c # doing[s]
    BY <1>0, <2>2, <2>3 DEF Write, GoesTo, ActInv, ActTypeOK
  <2>7. ChangesAreAskedFor
    BY <1>0, <1>1, <2>1, <2>6 DEF ChangesAreAskedFor, Asked
  <2>. QED  BY <1>0, <2>5, <2>7 DEF Sound, AnswersStored, RestsOnDecision, ActInv, ActsApart, StillSo
<1>2. ASSUME GoesTo(s, [pc |-> "answer", act |-> a, status |-> doing[s].seen]), UNCHANGED <<acts, quiet>>
      PROVE  ActInv' /\ Sound
  <2> DEFINE c == [pc |-> "answer", act |-> a, status |-> doing[s].seen]
  <2>1. c \in Doing /\ c.pc = "answer" /\ c.act = a /\ c.status = doing[s].seen
    BY <1>0 DEF Doing
  <2>2. GoesTo(s, c)
    BY <1>2
  <2> HIDE DEF c
  <2>3. HoldsTo(c) /\ (alone => StillSo(c) /\ \A t \in Agents \ {s} : doing[t] = Resting)
    BY <1>0, <2>1 DEF HoldsTo, StillSo, ActInv, ActsApart, OneActs
  <2>4. ActInv'
    BY <1>0, <1>2, <2>1, <2>2, <2>3, SessionStep DEF ActInv, ActTypeOK
  <2>. QED  BY <1>0, <1>2, <2>4, NoChange
<1>. QED  BY <1>1, <1>2 DEF CheckInSets

LEMMA CheckInAnswerKeeps ==
    ASSUME ActInv, UNCHANGED alone, NEW s \in Agents, CheckInAnswer(s)
    PROVE  ActInv' /\ Sound
<1>0. /\ doing[s] \in Doing /\ doing[s].pc = "answer" /\ doing[s] # Resting
      /\ doing[s].act \in Acts /\ doing[s].status \in REAL_STATUSES
      /\ GoesTo(s, Resting) /\ UNCHANGED <<acts, standing, quiet, alone>>
  BY DoingFields DEF CheckInAnswer, Done, Resting, ActInv, ActTypeOK
<1>1. /\ said' \in [Agents -> [act : Acts, status : REAL_STATUSES] \union {NotSaid}]
      /\ said'[s] = [act |-> doing[s].act, status |-> doing[s].status]
      /\ \A t \in Agents \ {s} : said'[t] = said[t]
  BY <1>0 DEF CheckInAnswer, ActInv, ActTypeOK
<1>2. /\ Resting \in Doing /\ Resting.pc = "none" /\ HoldsTo(Resting) /\ StillSo(Resting)
      /\ alone => \A t \in Agents \ {s} : doing[t] = Resting
  BY <1>0 DEF Doing, Resting, HoldsTo, StillSo, ActInv, ActsApart, OneActs
<1>3. ActInv'
  BY <1>0, <1>1, <1>2, SessionStep
<1>4. alone => AnswersStored
  BY <1>0, <1>1 DEF AnswersStored, ActInv, ActsApart, StillSo
<1>. QED  BY <1>0, <1>3, <1>4 DEF Sound, ChangesAreAskedFor, RestsOnDecision

\* A step that changes rows, while sessions do nothing or calls overlap, and keeps
\* what is said of them.
LEMMA RowsStep ==
    ASSUME ActInv, UNCHANGED <<doing, said, standing, alone>>, Undisturbed(Agents),
           acts' \in [Acts -> ActRow \union {NoAct}], quiet' \in [Acts -> Nat],
           \A a \in Acts : acts'[a] = NoAct <=> acts[a] = NoAct,
           SnoozedSince'
    PROVE  ActInv'
<1>1. ActTypeOK'
  BY DEF ActInv, ActTypeOK
<1>2. \A t \in Agents : HoldsTo(doing[t])'
  BY DEF ActInv, HoldsTo, NewStatus
<1>3. Named'
  <2> SUFFICES ASSUME NEW t \in Agents, doing[t].pc \in {"look", "set", "start", "answer"}
               PROVE  Exists(doing[t].act)'
    BY DEF Named
  <2>1. doing[t].act \in Acts /\ Exists(doing[t].act)
    BY DoingFields DEF ActInv, Named, ActTypeOK
  <2>. QED  BY <2>1 DEF Exists
<1>4. ActsApart'
  BY DEF ActsApart, OneActs, StillSo, Undisturbed, Resting
<1>. QED  BY <1>1, <1>2, <1>3, <1>4 DEF ActInv

LEMMA ListKeeps ==
    ASSUME ActivitiesAssumption, ActInv, UNCHANGED alone, List
    PROVE  ActInv' /\ Sound
<1>1. /\ acts' = [a \in Acts |->
                    IF Overdue(a) THEN [acts[a] EXCEPT !.status = "pending", !.days = 0] ELSE acts[a]]
      /\ quiet' = [a \in Acts |-> IF Overdue(a) THEN 0 ELSE quiet[a]]
      /\ UNCHANGED <<doing, said, standing, alone>> /\ Undisturbed(Agents)
  BY DEF List
<1>2. \A a \in Acts : /\ Overdue(a) => /\ acts[a] \in ActRow /\ acts[a].status = "snoozed"
                                       /\ quiet[a] >= SnoozeDays
                                       /\ acts'[a] = [acts[a] EXCEPT !.status = "pending", !.days = 0]
                                       /\ acts'[a] \in ActRow /\ acts'[a].status = "pending"
                                       /\ acts'[a] # NoAct /\ acts[a] # NoAct
                      /\ ~Overdue(a) => acts'[a] = acts[a] /\ quiet'[a] = quiet[a]
  <2> TAKE a \in Acts
  <2>1. CASE Overdue(a)
    <3>1. acts[a] \in ActRow /\ acts[a].status = "snoozed" /\ acts[a].days \in Nat /\ quiet[a] \in Nat
      BY <2>1, ActFields DEF Overdue, ActInv, ActTypeOK
    <3>2. quiet[a] >= SnoozeDays
      BY <2>1, <3>1 DEF Overdue, ActInv, SnoozedSince, ActivitiesAssumption
    <3>3. acts'[a] = [acts[a] EXCEPT !.status = "pending", !.days = 0]
      BY <2>1, <1>1
    <3>4. [acts[a] EXCEPT !.status = "pending", !.days = 0] \in ActRow
      BY <3>1 DEF ActRow, REAL_STATUSES
    <3>5. acts'[a] \in ActRow /\ acts'[a].status = "pending"
      BY <3>1, <3>3, <3>4 DEF ActRow
    <3>6. acts'[a] # NoAct /\ acts[a] # NoAct
      BY <3>1, <3>5 DEF ActRow, NoAct, REAL_STATUSES
    <3>. QED  BY <2>1, <3>1, <3>2, <3>3, <3>5, <3>6
  <2>2. CASE ~Overdue(a)
    BY <2>2, <1>1
  <2>. QED  BY <2>1, <2>2
<1>3. acts' \in [Acts -> ActRow \union {NoAct}] /\ quiet' \in [Acts -> Nat]
  BY <1>1, <1>2 DEF ActInv, ActTypeOK
<1>4. SnoozedSince'
  BY <1>2 DEF SnoozedSince, ActInv
<1>5. ActInv'
  BY <1>1, <1>2, <1>3, <1>4, RowsStep
<1>6. ChangesAreAskedFor
  BY <1>2 DEF ChangesAreAskedFor
<1>. QED  BY <1>1, <1>5, <1>6 DEF Sound, AnswersStored, RestsOnDecision, ActInv, ActsApart, StillSo

LEMMA BumpKeeps ==
    ASSUME ActInv, UNCHANGED alone, NEW a \in Acts, Bump(a)
    PROVE  ActInv' /\ Sound
<1>1. /\ acts' = [acts EXCEPT ![a] = [@ EXCEPT !.days = 0]]
      /\ UNCHANGED <<quiet, doing, said, standing, alone>> /\ Undisturbed(Agents) /\ Exists(a)
  BY DEF Bump
<1>2. acts[a] \in ActRow
  BY <1>1, ActFields DEF ActInv
<1>3. /\ acts'[a] \in ActRow /\ acts'[a].status = acts[a].status /\ acts'[a].days = 0
      /\ \A b \in Acts \ {a} : acts'[b] = acts[b]
      /\ acts' \in [Acts -> ActRow \union {NoAct}]
  BY <1>1, <1>2 DEF ActInv, ActTypeOK, ActRow
<1>4. acts'[a] # NoAct /\ acts[a] # NoAct
  BY <1>2, <1>3 DEF ActRow, NoAct, REAL_STATUSES
<1>5. SnoozedSince'
  BY <1>1, <1>3 DEF SnoozedSince, ActInv, ActTypeOK
<1>6. ActInv'
  BY <1>1, <1>3, <1>4, <1>5, RowsStep DEF ActInv, ActTypeOK
<1>7. ChangesAreAskedFor
  BY <1>3 DEF ChangesAreAskedFor
<1>. QED  BY <1>1, <1>6, <1>7 DEF Sound, AnswersStored, RestsOnDecision, ActInv, ActsApart, StillSo

LEMMA RetractDecisionKeeps ==
    ASSUME ActInv, UNCHANGED alone, RetractDecision
    PROVE  ActInv' /\ Sound
<1>1. /\ UNCHANGED <<acts, quiet, doing, said, alone>> /\ standing' \in BOOLEAN /\ Undisturbed(Agents)
  BY DEF RetractDecision
<1>2. ActTypeOK' /\ Named' /\ SnoozedSince' /\ \A t \in Agents : HoldsTo(doing[t])'
  BY <1>1 DEF ActInv, ActTypeOK, Named, SnoozedSince, Exists, HoldsTo, NewStatus
<1>3. ActsApart'
  BY <1>1 DEF ActsApart, OneActs, StillSo, Undisturbed, Resting
<1>. QED  BY <1>1, <1>2, <1>3, NoChange DEF ActInv

LEMMA OlderIsMonotone ==
    ASSUME ActivitiesAssumption, NEW m \in Nat, NEW n \in Nat, m <= n
    PROVE  Older(m) \in Nat /\ Older(m) <= Older(n)
  BY DEF ActivitiesAssumption, Older

LEMMA DayKeeps ==
    ASSUME ActivitiesAssumption, ActInv, UNCHANGED alone, Day
    PROVE  ActInv' /\ Sound
<1>1. /\ acts' = [a \in Acts |-> IF Exists(a) THEN [acts[a] EXCEPT !.days = Older(@)] ELSE NoAct]
      /\ quiet' = [a \in Acts |-> IF acts[a].status = "snoozed" THEN Older(quiet[a]) ELSE 0]
      /\ UNCHANGED <<doing, said, standing, alone>> /\ Undisturbed(Agents)
  BY DEF Day, Undisturbed
<1>2. \A a \in Acts : /\ Exists(a) => /\ acts'[a] \in ActRow /\ acts'[a].status = acts[a].status
                                      /\ acts'[a].days = Older(acts[a].days) /\ acts[a].days \in Nat
                      /\ ~Exists(a) => acts'[a] = NoAct /\ acts[a] = NoAct
                      /\ quiet'[a] \in Nat
  <2> TAKE a \in Acts
  <2>1. quiet'[a] \in Nat
    BY <1>1, OlderIsMonotone DEF ActInv, ActTypeOK
  <2>2. CASE Exists(a)
    <3>1. acts[a] \in ActRow /\ acts[a].days \in Nat
      BY <2>2, ActFields DEF ActInv
    <3>2. Older(acts[a].days) \in Nat
      BY <3>1, OlderIsMonotone
    <3>3. acts'[a] = [acts[a] EXCEPT !.days = Older(@)]
      BY <2>2, <1>1
    <3>. QED  BY <2>1, <2>2, <3>1, <3>2, <3>3 DEF ActRow
  <2>3. CASE ~Exists(a)
    BY <2>1, <2>3, <1>1 DEF Exists
  <2>. QED  BY <2>2, <2>3
<1>3. acts' \in [Acts -> ActRow \union {NoAct}] /\ quiet' \in [Acts -> Nat]
  BY <1>1, <1>2
<1>4. SnoozedSince'
  <2> SUFFICES ASSUME NEW a \in Acts, acts'[a].status = "snoozed"
               PROVE  acts'[a].days <= quiet'[a]
    BY DEF SnoozedSince
  <2>1. Exists(a) /\ acts[a].status = "snoozed" /\ quiet[a] \in Nat
    BY <1>2, ActFields DEF NoAct, ActInv, ActTypeOK
  <2>2. acts[a].days <= quiet[a] /\ acts[a].days \in Nat
    BY <1>2, <2>1 DEF ActInv, SnoozedSince
  <2>. QED  BY <1>1, <1>2, <2>1, <2>2, OlderIsMonotone
<1>5. \A a \in Acts : acts'[a] = NoAct <=> acts[a] = NoAct
  BY <1>2 DEF Exists, ActRow, NoAct, REAL_STATUSES
<1>6. ActInv'
  BY <1>1, <1>3, <1>4, <1>5, RowsStep
<1>7. ChangesAreAskedFor
  BY <1>2 DEF ChangesAreAskedFor
<1>. QED  BY <1>1, <1>6, <1>7 DEF Sound, AnswersStored, RestsOnDecision, ActInv, ActsApart, StillSo

LEMMA ActStep ==
    ASSUME ActivitiesAssumption, ActInv, ActNext
    PROVE  ActInv' /\ Sound
  BY AddCheckKeeps, AddWriteKeeps, UpdateReadKeeps, UpdateWriteKeeps, CheckInLookKeeps, CheckInSetsKeeps,
     CheckInAnswerKeeps, ListKeeps, BumpKeeps, RetractDecisionKeeps, DayKeeps DEF ActNext

LEMMA ActStutter ==
    ASSUME ActInv, UNCHANGED actVars
    PROVE  ActInv' 
  BY DEF actVars, ActInv, ActTypeOK, HoldsTo, NewStatus, Named, Exists, SnoozedSince, ActsApart, OneActs, StillSo

\* The status of an activity changes as someone asked, whatever overlaps, and one
\* call at a time a check-in answers what is stored (activity_service.py,
\* checkin_service.py).
THEOREM ActivitiesAlwaysSound ==
    ASSUME ActivitiesAssumption
    PROVE  ActSpec => ActivitiesAreSound
<1>1. ActInit => ActInv
  BY ActInitInv
<1>2. ActInv /\ [ActNext]_actVars => ActInv'
  BY ActivitiesAssumption, ActStep, ActStutter
<1>3. ActInv /\ [ActNext]_actVars => [Sound]_actVars
  BY ActivitiesAssumption, ActStep
<1>. QED  BY <1>1, <1>2, <1>3, PTL DEF ActSpec, ActivitiesAreSound, Sound

--------------------------------------------------------------------------------
\* Delta notices.  The invariant relates the watermark of a session to what the
\* session was told, shown and wrote, and what a call under way carries to the
\* records there are.
Entry == [by : Listeners, in : SUBSET (Topics \union Scopes), live : BOOLEAN, late : BOOLEAN]
RefIds == Kinds \X Nat
InFlight ==
    [tool : {"check_in"}, act : Scopes, context : SUBSET RefIds]
    \union [tool : {"write"}, row : RefIds]
    \union [tool : {"other"}]
DeltaTypeOK ==
    /\ rows \in [Kinds -> Seq(Entry)]
    /\ pinned \in [Scopes -> SUBSET Ref]
    /\ mark \in [Listeners -> [scope : Scopes, at : [Kinds -> Nat]] \union {NoMark}]
    /\ under \in [Listeners -> SUBSET InFlight]
    /\ shown \in [Listeners -> SUBSET RefIds]
    /\ told \in [Listeners -> SUBSET RefIds]
    /\ inTurn \in BOOLEAN
    /\ IsFiniteSet(Ref)

\* A record that a check-in of activity a accounts for.
Covered(context, a, r) ==
    \/ r \in context
    \/ r[1] = "decision"
       /\ Cardinality({q \in context : q[1] = "decision" /\ q[2] > r[2]}) >= Limit
    \/ r[1] = "material" /\ a \notin RowOf(r).in

\* A session has one call under way; what it wrote is its own; one call at a time,
\* what a check-in gathered is all there is when it is answered.
OneUnderWay(s) == IsFiniteSet(under[s]) /\ \A c, d \in under[s] : c = d
WritesOwn(s) == \A c \in under[s] : c.tool = "write" => c.row \in Ref /\ RowOf(c.row).by = s
Gathered(s) ==
    inTurn => \A c \in under[s] : c.tool = "check_in" =>
       \A r \in Ref : Live(r) /\ InScope(r, c.act) /\ ~RowOf(r).late => Covered(c.context, c.act, r)
Calls(s) == OneUnderWay(s) /\ WritesOwn(s) /\ Gathered(s)

\* The watermark of a session is an id of its kind or 0, what the session was told
\* is below it, and so are its own records but one whose answer is on its way.
MarkBounded(s) == \A k \in Kinds : mark[s].at[k] <= Len(rows[k])
ToldBelow(s) ==
    \A r \in told[s] : r \in Ref /\ r[2] <= mark[s].at[r[1]] /\ (RowOf(r).by = s => RowOf(r).late)
OwnBelow(s) ==
    \A r \in Ref : RowOf(r).by = s /\ InScope(r, mark[s].scope) /\ ~RowOf(r).late =>
       r[2] <= mark[s].at[r[1]] \/ \E c \in under[s] : c.tool = "write" /\ c.row = r
KnowsBelow(s) ==
    inTurn => \A r \in Ref :
       Live(r) /\ InScope(r, mark[s].scope) /\ ~RowOf(r).late /\ r[2] <= mark[s].at[r[1]] => Knows(s, r)
Marked(s) == mark[s] # NoMark => MarkBounded(s) /\ ToldBelow(s) /\ OwnBelow(s) /\ KnowsBelow(s)

InTurn == inTurn => \A s, t \in Listeners : under[s] # {} /\ under[t] # {} => s = t

DeltaInv == DeltaTypeOK /\ InTurn /\ \A s \in Listeners : Calls(s) /\ Marked(s)

--------------------------------------------------------------------------------
LEMMA RefIs ==
    ASSUME rows \in [Kinds -> Seq(Entry)]
    PROVE  /\ \A r \in Ref : r[1] \in Kinds /\ r[2] \in 1..Len(rows[r[1]]) /\ r = <<r[1], r[2]>> /\ r \in RefIds
                             /\ RowOf(r) \in Entry
           /\ \A k \in Kinds : \A i \in 1..Len(rows[k]) : <<k, i>> \in Ref
<1>1. \A k \in Kinds : rows[k] \in Seq(Entry) /\ Len(rows[k]) \in Nat /\ \A i \in 1..Len(rows[k]) : rows[k][i] \in Entry
  OBVIOUS
<1>2. DOMAIN rows = Kinds
  OBVIOUS
<1>. QED  BY <1>1, <1>2 DEF Ref, RefIds, RowOf

LEMMA RefIsNext ==
    ASSUME rows' \in [Kinds -> Seq(Entry)]
    PROVE  /\ \A r \in Ref' : r[1] \in Kinds /\ r[2] \in 1..Len(rows'[r[1]]) /\ r = <<r[1], r[2]>> /\ r \in RefIds
                              /\ RowOf(r)' \in Entry
           /\ \A k \in Kinds : \A i \in 1..Len(rows'[k]) : <<k, i>> \in Ref'
<1>1. \A k \in Kinds : rows'[k] \in Seq(Entry) /\ Len(rows'[k]) \in Nat /\ \A i \in 1..Len(rows'[k]) : rows'[k][i] \in Entry
  OBVIOUS
<1>2. DOMAIN rows' = Kinds
  OBVIOUS
<1>. QED  BY <1>1, <1>2 DEF Ref, RefIds, RowOf

\* The records only grow: none goes, who wrote one stays, and one that nothing
\* happened to since it was written is as it was.
StaysAs(r) ==
    /\ RowOf(r)'.by = RowOf(r).by /\ RowOf(r).in \subseteq RowOf(r)'.in
    /\ ~RowOf(r)'.late => RowOf(r)' = RowOf(r)
RowsGrow ==
    /\ rows' \in [Kinds -> Seq(Entry)]
    /\ IsFiniteSet(Ref')
    /\ Ref \subseteq Ref'
    /\ \A k \in Kinds : Len(rows[k]) <= Len(rows'[k])
    /\ \A r \in Ref' \ Ref : r[2] > Len(rows[r[1]])
    /\ \A r \in Ref : StaysAs(r)

LEMMA RowsStay ==
    ASSUME DeltaTypeOK, UNCHANGED rows
    PROVE  RowsGrow
  BY DEF RowsGrow, StaysAs, DeltaTypeOK, RowOf, Ref

LEMMA AlterGrows ==
    ASSUME DeltaTypeOK, NEW r \in Ref, NEW row \in Entry, Alter(r, row),
           row.by = RowOf(r).by, RowOf(r).in \subseteq row.in, row.late
    PROVE  RowsGrow /\ Ref' = Ref
<1> DEFINE k == r[1]
           i == r[2]
<1>1. /\ rows \in [Kinds -> Seq(Entry)] /\ k \in Kinds /\ i \in 1..Len(rows[k])
      /\ \A q \in Ref : q[1] \in Kinds /\ q[2] \in 1..Len(rows[q[1]]) /\ q = <<q[1], q[2]>>
  BY RefIs DEF DeltaTypeOK
<1>2. rows' = [rows EXCEPT ![k] = [@ EXCEPT ![i] = row]]
  BY DEF Alter
<1> HIDE DEF k, i
<1>3. /\ [rows[k] EXCEPT ![i] = row] \in Seq(Entry)
      /\ Len([rows[k] EXCEPT ![i] = row]) = Len(rows[k])
      /\ \A j \in 1..Len(rows[k]) : [rows[k] EXCEPT ![i] = row][j] = IF j = i THEN row ELSE rows[k][j]
  BY <1>1
<1>4. /\ rows' \in [Kinds -> Seq(Entry)]
      /\ \A l \in Kinds : Len(rows'[l]) = Len(rows[l])
      /\ \A l \in Kinds : \A j \in 1..Len(rows[l]) : rows'[l][j] = IF l = k /\ j = i THEN row ELSE rows[l][j]
  BY <1>1, <1>2, <1>3
<1>5. Ref' = Ref
  BY <1>1, <1>4 DEF Ref
<1>6. \A q \in Ref : StaysAs(q)
  <2> TAKE q \in Ref
  <2>1. CASE q = r
    <3>1. RowOf(q)' = row
      BY <2>1, <1>1, <1>4 DEF RowOf, k, i
    <3>. QED  BY <2>1, <3>1 DEF StaysAs
  <2>2. CASE q # r
    <3>1. ~(q[1] = k /\ q[2] = i)
      BY <2>2, <1>1 DEF k, i
    <3>2. RowOf(q)' = RowOf(q)
      BY <3>1, <1>1, <1>4 DEF RowOf
    <3>. QED  BY <3>2 DEF StaysAs
  <2>. QED  BY <2>1, <2>2
<1>. QED  BY <1>4, <1>5, <1>6 DEF RowsGrow, DeltaTypeOK

LEMMA AddGrows ==
    ASSUME DeltaTypeOK, NEW k \in Kinds, NEW row \in Entry, rows' = [rows EXCEPT ![k] = Append(@, row)],
           NEW new, new = <<k, Len(rows[k]) + 1>>
    PROVE  /\ RowsGrow
           /\ Ref' = Ref \union {new}
           /\ RowOf(new)' = row
           /\ new \in RefIds
<1>1. /\ rows \in [Kinds -> Seq(Entry)] /\ Len(rows[k]) \in Nat
      /\ \A q \in Ref : q[1] \in Kinds /\ q[2] \in 1..Len(rows[q[1]]) /\ q = <<q[1], q[2]>>
      /\ \A l \in Kinds : \A i \in 1..Len(rows[l]) : <<l, i>> \in Ref
      /\ IsFiniteSet(Ref)
  BY RefIs DEF DeltaTypeOK
<1>2. /\ Append(rows[k], row) \in Seq(Entry)
      /\ Len(Append(rows[k], row)) = Len(rows[k]) + 1
      /\ \A j \in 1..Len(rows[k]) : Append(rows[k], row)[j] = rows[k][j]
      /\ Append(rows[k], row)[Len(rows[k]) + 1] = row
  BY <1>1
<1>3. /\ rows' \in [Kinds -> Seq(Entry)]
      /\ \A l \in Kinds : l # k => rows'[l] = rows[l]
      /\ rows'[k] = Append(rows[k], row)
  BY <1>1, <1>2
<1>4. \A r \in Ref' : r[1] \in Kinds /\ r[2] \in 1..Len(rows'[r[1]]) /\ r = <<r[1], r[2]>>
  BY <1>3, RefIsNext
<1>5. \A l \in Kinds : \A i \in 1..Len(rows'[l]) : <<l, i>> \in Ref'
  BY <1>3, RefIsNext
<1>6. Ref' \subseteq Ref \union {new}
  <2> SUFFICES ASSUME NEW r \in Ref', r # new
               PROVE  r \in Ref
    OBVIOUS
  <2>1. r[1] \in Kinds /\ r[2] \in 1..Len(rows[r[1]]) /\ r = <<r[1], r[2]>>
    BY <1>1, <1>2, <1>3, <1>4
  <2>. QED  BY <2>1, <1>1
<1>7. Ref \subseteq Ref'
  <2> SUFFICES ASSUME NEW r \in Ref
               PROVE  r \in Ref'
    OBVIOUS
  <2>1. r[1] \in Kinds /\ r[2] \in 1..Len(rows'[r[1]]) /\ r = <<r[1], r[2]>>
    BY <1>1, <1>2, <1>3
  <2>. QED  BY <2>1, <1>5
<1>8. new \in Ref' /\ new \in RefIds
  BY <1>1, <1>2, <1>3, <1>5 DEF RefIds
<1>9. Ref' = Ref \union {new}
  BY <1>6, <1>7, <1>8
<1>10. IsFiniteSet(Ref')
  BY <1>1, <1>9, FS_AddElement
<1>11. RowOf(new)' = row
  BY <1>2, <1>3 DEF RowOf
<1>12. \A r \in Ref : StaysAs(r)
  BY <1>1, <1>2, <1>3 DEF StaysAs, RowOf
<1>13. \A l \in Kinds : Len(rows[l]) <= Len(rows'[l])
  BY <1>1, <1>2, <1>3
<1>14. \A r \in Ref' \ Ref : r[2] > Len(rows[r[1]])
  BY <1>1, <1>9
<1>. QED  BY <1>3, <1>7, <1>8, <1>9, <1>10, <1>11, <1>12, <1>13, <1>14 DEF RowsGrow

LEMMA InScopeGrows ==
    ASSUME NEW r, StaysAs(r), NEW a
    PROVE  /\ InScope(r, a) => InScope(r, a)'
           /\ ~RowOf(r)'.late => (InScope(r, a)' <=> InScope(r, a)) /\ (Live(r)' <=> Live(r)) /\ ~RowOf(r).late
  BY DEF StaysAs, InScope, Live

\* What a session knows it goes on knowing.
LEMMA KnowsOn ==
    ASSUME RowsGrow, NEW s \in Listeners, mark'[s].scope = mark[s].scope,
           shown'[s] = shown[s], told[s] \subseteq told'[s],
           NEW r \in Ref, ~RowOf(r)'.late, Knows(s, r)
    PROVE  Knows(s, r)'
<1>1. RowOf(r)' = RowOf(r)
  BY DEF RowsGrow, StaysAs
<1>2. CASE r \in told[s] \union shown[s]
  BY <1>2 DEF Knows
<1>3. ASSUME NEW q \in Ref, q[1] = r[1], q[2] >= r[2], RowOf(q).by = s, InScope(q, mark[s].scope)
      PROVE  Knows(s, r)'
  <2>1. q \in Ref' /\ RowOf(q)'.by = s /\ InScope(q, mark[s].scope)'
    BY <1>3, InScopeGrows DEF RowsGrow, StaysAs
  <2>. QED  BY <1>3, <2>1 DEF Knows
<1>4. CASE r[1] = "decision" /\ Cardinality({q \in shown[s] : q[1] = "decision" /\ q[2] > r[2]}) >= Limit
  BY <1>4 DEF Knows
<1>5. CASE r[1] = "material" /\ mark[s].scope \notin RowOf(r).in
  BY <1>1, <1>5 DEF Knows
<1>. QED  BY <1>2, <1>3, <1>4, <1>5 DEF Knows

\* A step that leaves a session its watermark, and what it was shown and told.
LEMMA MarkedOn ==
    ASSUME DeltaInv, RowsGrow, UNCHANGED inTurn, NEW s \in Listeners,
           mark'[s] = mark[s], shown'[s] = shown[s], told'[s] = told[s],
           \A c \in under[s] : c.tool = "write" =>
              c \in under'[s] \/ (mark[s] # NoMark /\ InScope(c.row, mark[s].scope) /\ ~RowOf(c.row).late
                                  => c.row[2] <= mark[s].at[c.row[1]]),
           \A r \in Ref' \ Ref : RowOf(r)'.by = s => \E c \in under'[s] : c.tool = "write" /\ c.row = r
    PROVE  Marked(s)'
<1> SUFFICES ASSUME mark[s] # NoMark
             PROVE  MarkBounded(s)' /\ ToldBelow(s)' /\ OwnBelow(s)' /\ KnowsBelow(s)'
  BY DEF Marked, NoMark
<1>1. /\ MarkBounded(s) /\ ToldBelow(s) /\ OwnBelow(s) /\ KnowsBelow(s)
      /\ mark[s] \in [scope : Scopes, at : [Kinds -> Nat]]
      /\ \A r \in Ref : r[1] \in Kinds /\ r[2] \in Nat
      /\ \A r \in Ref' : r[1] \in Kinds /\ r[2] \in Nat
      /\ \A k \in Kinds : Len(rows[k]) \in Nat /\ Len(rows'[k]) \in Nat
  BY RefIs, RefIsNext DEF DeltaInv, DeltaTypeOK, Marked, RowsGrow
<1>1a. \A k \in Kinds : mark[s].at[k] \in Nat /\ mark[s].at[k] <= Len(rows[k])
  BY <1>1 DEF MarkBounded
<1>2. MarkBounded(s)'
  BY <1>1, <1>1a DEF MarkBounded, RowsGrow
<1>3. ToldBelow(s)'
  <2> SUFFICES ASSUME NEW r \in told[s]
               PROVE  r \in Ref' /\ r[2] <= mark[s].at[r[1]] /\ (RowOf(r)'.by = s => RowOf(r)'.late)
    BY DEF ToldBelow
  <2>1. r \in Ref /\ r[2] <= mark[s].at[r[1]] /\ (RowOf(r).by = s => RowOf(r).late)
    BY <1>1 DEF ToldBelow
  <2>2. StaysAs(r) /\ r \in Ref'
    BY <2>1 DEF RowsGrow
  <2>3. RowOf(r)'.by = s => RowOf(r)'.late
    BY <2>1, <2>2, <1>1 DEF StaysAs
  <2>. QED  BY <2>1, <2>2, <2>3
<1>4. OwnBelow(s)'
  <2> SUFFICES ASSUME NEW r \in Ref', RowOf(r)'.by = s, InScope(r, mark[s].scope)', ~RowOf(r)'.late
               PROVE  r[2] <= mark[s].at[r[1]] \/ \E c \in under'[s] : c.tool = "write" /\ c.row = r
    BY DEF OwnBelow, InScope
  <2>1. CASE r \in Ref
    <3>1. RowOf(r).by = s /\ InScope(r, mark[s].scope) /\ ~RowOf(r).late
      BY <2>1, InScopeGrows DEF RowsGrow, StaysAs
    <3>2. r[2] <= mark[s].at[r[1]] \/ \E c \in under[s] : c.tool = "write" /\ c.row = r
      BY <2>1, <3>1, <1>1 DEF OwnBelow
    <3>. QED  BY <3>1, <3>2
  <2>2. CASE r \notin Ref
    BY <2>2
  <2>. QED  BY <2>1, <2>2
<1>5. KnowsBelow(s)'
  <2> SUFFICES ASSUME inTurn, NEW r \in Ref', Live(r)', InScope(r, mark[s].scope)', ~RowOf(r)'.late,
                      r[2] <= mark[s].at[r[1]]
               PROVE  Knows(s, r)'
    BY DEF KnowsBelow, InScope
  <2>1. r \in Ref
    <3>1. r[1] \in Kinds /\ r[2] \in Nat
      BY <1>1
    <3>2. r[2] <= Len(rows[r[1]])
      BY <1>1, <1>1a, <3>1
    <3>. QED  BY <1>1, <3>1, <3>2 DEF RowsGrow
  <2>2. Live(r) /\ InScope(r, mark[s].scope) /\ ~RowOf(r).late
    BY <2>1, InScopeGrows DEF RowsGrow
  <2>3. Knows(s, r)
    BY <2>1, <2>2, <1>1 DEF KnowsBelow
  <2>. QED  BY <2>1, <2>3, KnowsOn
<1>. QED  BY <1>2, <1>3, <1>4, <1>5

--------------------------------------------------------------------------------
\* A call comes in where none of the session is under way.
LEMMA Enters ==
    ASSUME DeltaInv, MaxCalls = 1, NEW s \in Listeners, NEW c, Enter(s, c)
    PROVE  /\ under[s] = {} /\ under'[s] = {c}
           /\ \A t \in Listeners \ {s} : under'[t] = under[t]
           /\ inTurn => \A t \in Listeners : under[t] = {}
<1>1. IsFiniteSet(under[s]) /\ Cardinality(under[s]) < 1
  BY DEF DeltaInv, Calls, OneUnderWay, Enter
<1>2. Cardinality(under[s]) \in Nat
  BY <1>1, FS_CardinalityType
<1>3. under[s] = {}
  BY <1>1, <1>2, FS_EmptySet
<1>. QED  BY <1>3 DEF Enter, DeltaInv, DeltaTypeOK

LEMMA EnterStep ==
    ASSUME DeltaInv, MaxCalls = 1, RowsGrow, UNCHANGED <<inTurn, mark, shown, told>>,
           pinned' \in [Scopes -> SUBSET Ref'],
           NEW s \in Listeners, NEW c \in InFlight, Enter(s, c),
           c.tool = "write" => c.row \in Ref' /\ RowOf(c.row)'.by = s,
           \A r \in Ref' \ Ref : c.tool = "write" /\ c.row = r /\ RowOf(r)'.by = s,
           c.tool = "check_in" =>
              \A r \in Ref' : Live(r)' /\ InScope(r, c.act)' /\ ~RowOf(r)'.late => Covered(c.context, c.act, r)'
    PROVE  DeltaInv'
<1>1. /\ under[s] = {} /\ under'[s] = {c}
      /\ \A t \in Listeners \ {s} : under'[t] = under[t]
      /\ inTurn => \A t \in Listeners : under[t] = {}
  BY Enters
<1>2. under' \in [Listeners -> SUBSET InFlight]
  BY <1>1 DEF Enter, DeltaInv, DeltaTypeOK
<1>3. DeltaTypeOK'
  BY <1>2 DEF DeltaTypeOK, DeltaInv, RowsGrow
<1>4. InTurn'
  BY <1>1 DEF InTurn
<1>5. ASSUME NEW t \in Listeners
      PROVE  Calls(t)'
  <2>1. CASE t = s
    <3>1. OneUnderWay(t)'
      <4>1. IsFiniteSet({c})
        BY FS_Singleton
      <4>. QED  BY <2>1, <1>1, <4>1 DEF OneUnderWay
    <3>2. WritesOwn(t)'
      BY <2>1, <1>1 DEF WritesOwn
    <3>3. Gathered(t)'
      BY <2>1, <1>1 DEF Gathered
    <3>. QED  BY <3>1, <3>2, <3>3 DEF Calls
  <2>2. CASE t # s
    <3>1. under'[t] = under[t] /\ OneUnderWay(t) /\ WritesOwn(t)
      BY <2>2, <1>1 DEF DeltaInv, Calls
    <3>2. OneUnderWay(t)'
      BY <3>1 DEF OneUnderWay
    <3>3. WritesOwn(t)'
      BY <3>1 DEF WritesOwn, RowsGrow, StaysAs
    <3>4. Gathered(t)'
      BY <3>1, <1>1 DEF Gathered
    <3>. QED  BY <3>2, <3>3, <3>4 DEF Calls
  <2>. QED  BY <2>1, <2>2
<1>6. ASSUME NEW t \in Listeners
      PROVE  Marked(t)'
  <2>1. mark'[t] = mark[t] /\ shown'[t] = shown[t] /\ told'[t] = told[t]
    OBVIOUS
  <2>2. \A d \in under[t] : d \in under'[t]
    BY <1>1
  <2>3. \A r \in Ref' \ Ref : RowOf(r)'.by = t => \E d \in under'[t] : d.tool = "write" /\ d.row = r
    BY <1>1
  <2>. QED  BY <2>1, <2>2, <2>3, MarkedOn
<1>. QED  BY <1>3, <1>4, <1>5, <1>6 DEF DeltaInv

\* The newest decisions, all there are or so many as there is room for.
LEMMA RecentCover ==
    ASSUME DeltaTypeOK, DeltaAssumption, NEW a \in Scopes, NEW recent \in SUBSET DecisionsOfTopics(a),
           AreRecent(recent, DecisionsOfTopics(a)), NEW r \in Ref, Live(r), InScope(r, a)
    PROVE  Context(recent, a) \subseteq Ref /\ Covered(Context(recent, a), a, r)
<1>0. Context(recent, a) \subseteq Ref
  BY DEF Context, DecisionsOfTopics, LatestLog, LogsCatalog, LogsOfTopics, Materials, PinnedTargets, DeltaTypeOK
<1>1. CASE r[1] = "log"
  BY <1>0, <1>1 DEF Covered, Context, LatestLog, LogsCatalog, LogsOfTopics
<1>2. CASE r[1] = "material"
  BY <1>0, <1>2 DEF Covered, Context, Materials
<1>3. CASE r[1] = "decision"
  <2>1. r \in DecisionsOfTopics(a)
    BY <1>3 DEF DecisionsOfTopics
  <2>2. CASE r \in recent
    BY <1>0, <2>2 DEF Covered, Context
  <2>3. CASE r \notin recent
    <3> DEFINE newer == {q \in Context(recent, a) : q[1] = "decision" /\ q[2] > r[2]}
    <3>1. Cardinality(recent) = Limit /\ \A q \in recent : q[2] > r[2]
      BY <2>1, <2>3 DEF AreRecent
    <3>2. recent \subseteq newer /\ newer \subseteq Ref
      BY <1>0, <3>1 DEF Context, DecisionsOfTopics
    <3>3. IsFiniteSet(newer)
      BY <3>2, FS_Subset DEF DeltaTypeOK
    <3>4. IsFiniteSet(recent) /\ Cardinality(recent) <= Cardinality(newer)
      BY <3>2, <3>3, FS_Subset
    <3>5. Cardinality(newer) >= Limit
      <4>1. Cardinality(newer) \in Nat
        BY <3>3, FS_CardinalityType
      <4>. QED  BY <4>1, <3>1, <3>4 DEF DeltaAssumption
    <3>. QED  BY <1>0, <1>3, <3>5 DEF Covered
  <2>. QED  BY <2>2, <2>3
<1>4. r[1] \in {"decision", "log", "material"}
  BY RefIs DEF DeltaTypeOK, DeltaAssumption
<1>. QED  BY <1>1, <1>2, <1>3, <1>4

\* check_in gathers, a record is added, another tool runs.
LEMMA GatherKeeps ==
    ASSUME DeltaAssumption, MaxCalls = 1, DeltaInv, UNCHANGED inTurn,
           NEW s \in Listeners, NEW a \in Scopes, Gather(s, a)
    PROVE  DeltaInv'
<1>1. PICK recent \in SUBSET DecisionsOfTopics(a) :
          /\ AreRecent(recent, DecisionsOfTopics(a))
          /\ Enter(s, [tool |-> "check_in", act |-> a, context |-> Context(recent, a)])
  BY DEF Gather
<1> DEFINE full == Context(recent, a)
<1>2. UNCHANGED <<rows, pinned, mark, order, shown, told>> /\ DeltaTypeOK
  BY DEF Gather, DeltaInv
<1>3. RowsGrow /\ Ref' = Ref
  BY <1>2, RowsStay DEF Ref
<1>4. full \in SUBSET RefIds
  <2>1. full \subseteq Ref
    BY <1>2 DEF Context, DecisionsOfTopics, LatestLog, LogsCatalog, LogsOfTopics, Materials, PinnedTargets, DeltaTypeOK
  <2>. QED  BY <2>1, <1>2, RefIs DEF DeltaTypeOK
<1>5. PICK c : c = [tool |-> "check_in", act |-> a, context |-> full]
  OBVIOUS
<1>6. c \in InFlight /\ c.tool = "check_in" /\ c.act = a /\ c.context = full
  BY <1>4, <1>5 DEF InFlight
<1>7. \A r \in Ref : Live(r) /\ InScope(r, a) => Covered(full, a, r)
  BY <1>1, <1>2, RecentCover
<1>7a. PICK fixed : fixed = full
  OBVIOUS
<1>7b. \A r \in Ref : Live(r) /\ InScope(r, a) => Covered(fixed, a, r)
  BY <1>7, <1>7a
<1> HIDE DEF full
<1>8. \A r \in Ref' : Live(r)' /\ InScope(r, a)' => Covered(fixed, a, r)'
  <2> TAKE r \in Ref'
  <2>1. RowOf(r)' = RowOf(r)
    BY <1>2 DEF RowOf
  <2>2. Live(r)' = Live(r) /\ (InScope(r, a)' <=> InScope(r, a)) /\ (Covered(fixed, a, r)' <=> Covered(fixed, a, r))
    BY <2>1 DEF Live, InScope, Covered
  <2>. QED  BY <1>3, <1>7b, <2>2
<1>9. Enter(s, c)
  BY <1>1, <1>5 DEF full
<1>10. \A r \in Ref' : Live(r)' /\ InScope(r, c.act)' /\ ~RowOf(r)'.late => Covered(c.context, c.act, r)'
  BY <1>6, <1>7a, <1>8
<1>11. pinned' \in [Scopes -> SUBSET Ref']
  BY <1>2, <1>3 DEF DeltaTypeOK
<1>. QED  BY <1>2, <1>3, <1>6, <1>9, <1>10, <1>11, EnterStep

LEMMA AddRecordKeeps ==
    ASSUME DeltaAssumption, MaxCalls = 1, DeltaInv, UNCHANGED inTurn,
           NEW s \in Listeners, NEW k \in Kinds, NEW p \in Topics \union Scopes, AddRecord(s, k, {p})
    PROVE  DeltaInv'
<1>1. PICK new : new = <<k, Len(rows[k]) + 1>>
  OBVIOUS
<1>2. PICK row : row = [by |-> s, in |-> {p}, live |-> TRUE, late |-> FALSE]
  OBVIOUS
<1>3. row \in Entry /\ row.by = s
  BY <1>2 DEF Entry
<1>4. DeltaTypeOK /\ rows' = [rows EXCEPT ![k] = Append(@, row)] /\ UNCHANGED <<pinned, mark, order, shown, told>>
  BY <1>2 DEF AddRecord, DeltaInv
<1>5. RowsGrow /\ Ref' = Ref \union {new} /\ RowOf(new)' = row /\ new \in RefIds
  BY <1>1, <1>3, <1>4, AddGrows
<1>6. PICK c : c = [tool |-> "write", row |-> new]
  OBVIOUS
<1>7. c \in InFlight /\ c.tool = "write" /\ c.row = new
  BY <1>5, <1>6 DEF InFlight
<1>8. Enter(s, c)
  BY <1>1, <1>6 DEF AddRecord
<1>9. pinned' \in [Scopes -> SUBSET Ref']
  BY <1>4, <1>5 DEF DeltaTypeOK
<1>10. RowOf(c.row)'.by = s
  BY <1>3, <1>5, <1>7
<1>. QED  BY <1>3, <1>4, <1>5, <1>7, <1>8, <1>9, <1>10, EnterStep

LEMMA OtherKeeps ==
    ASSUME DeltaAssumption, MaxCalls = 1, DeltaInv, UNCHANGED inTurn, NEW s \in Listeners, Other(s)
    PROVE  DeltaInv'
<1>1. UNCHANGED <<mark, order, shown, told>> /\ DeltaTypeOK
  BY DEF Other, DeltaInv
<1>2. RowsGrow /\ Ref' = Ref /\ pinned' \in [Scopes -> SUBSET Ref']
  <2>1. CASE UNCHANGED <<rows, pinned>>
    BY <2>1, <1>1, RowsStay DEF Ref, DeltaTypeOK
  <2>2. ASSUME NEW r \in Ref, UNCHANGED pinned,
               \/ Alter(r, [RowOf(r) EXCEPT !.live = ~@, !.late = TRUE])
               \/ \E t \in Topics : Alter(r, [RowOf(r) EXCEPT !.in = @ \union {t}, !.late = TRUE])
        PROVE  RowsGrow /\ Ref' = Ref /\ pinned' \in [Scopes -> SUBSET Ref']
    <3>1. RowOf(r) \in Entry
      BY <1>1, RefIs DEF DeltaTypeOK
    <3>2. PICK row : /\ Alter(r, row)
                     /\ \/ row = [RowOf(r) EXCEPT !.live = ~@, !.late = TRUE]
                        \/ \E t \in Topics : row = [RowOf(r) EXCEPT !.in = @ \union {t}, !.late = TRUE]
      BY <2>2
    <3>3. row \in Entry /\ row.by = RowOf(r).by /\ RowOf(r).in \subseteq row.in /\ row.late
      BY <3>1, <3>2 DEF Entry
    <3>4. RowsGrow /\ Ref' = Ref
      BY <1>1, <3>2, <3>3, AlterGrows
    <3>. QED  BY <1>1, <2>2, <3>4 DEF DeltaTypeOK
  <2>3. ASSUME NEW r \in Ref, NEW a \in Scopes,
               pinned' = [pinned EXCEPT ![a] = @ \union {r}], UNCHANGED rows
        PROVE  RowsGrow /\ Ref' = Ref /\ pinned' \in [Scopes -> SUBSET Ref']
    BY <2>3, <1>1, RowsStay DEF Ref, DeltaTypeOK
  <2>. QED  BY <2>1, <2>2, <2>3 DEF Other
<1>3. PICK c : c = [tool |-> "other"]
  OBVIOUS
<1>4. c \in InFlight /\ c.tool = "other"
  BY <1>3 DEF InFlight
<1>5. Enter(s, c)
  BY <1>3 DEF Other
<1>. QED  BY <1>1, <1>2, <1>4, <1>5, EnterStep

--------------------------------------------------------------------------------
LEMMA RecordsStay ==
    ASSUME UNCHANGED rows
    PROVE  /\ Ref' = Ref
           /\ \A r : RowOf(r)' = RowOf(r) /\ (Live(r)' <=> Live(r)) /\ \A a : InScope(r, a)' <=> InScope(r, a)
  BY DEF Ref, RowOf, Live, InScope

\* A call leaves, the records as they are.
LEMMA Leaves ==
    ASSUME DeltaInv, UNCHANGED <<rows, inTurn>>, NEW s \in Listeners, NEW c \in under[s], Leave(s, c)
    PROVE  /\ under'[s] = {} /\ \A d \in under[s] : d = c
           /\ \A t \in Listeners \ {s} : under'[t] = under[t]
           /\ under' \in [Listeners -> SUBSET InFlight]
           /\ \A t \in Listeners : Calls(t)'
<1>1. /\ under'[s] = {} /\ \A d \in under[s] : d = c
      /\ \A t \in Listeners \ {s} : under'[t] = under[t]
      /\ under' \in [Listeners -> SUBSET InFlight]
  BY DEF Leave, DeltaInv, DeltaTypeOK, Calls, OneUnderWay
<1>2. ASSUME NEW t \in Listeners
      PROVE  Calls(t)'
  <2>1. CASE t = s
    BY <2>1, <1>1, FS_EmptySet DEF Calls, OneUnderWay, WritesOwn, Gathered
  <2>2. CASE t # s
    <3>1. under'[t] = under[t] /\ OneUnderWay(t) /\ WritesOwn(t) /\ Gathered(t)
      BY <2>2, <1>1 DEF DeltaInv, Calls
    <3>2. OneUnderWay(t)'
      BY <3>1 DEF OneUnderWay
    <3>3. WritesOwn(t)'
      BY <3>1, RecordsStay DEF WritesOwn
    <3>4. Gathered(t)'
      <4> SUFFICES ASSUME inTurn', NEW d \in under[t], d.tool = "check_in", NEW r \in Ref,
                          Live(r)', InScope(r, d.act)', ~RowOf(r)'.late
                   PROVE  Covered(d.context, d.act, r)'
        BY <3>1, RecordsStay DEF Gathered
      <4>1. Live(r) /\ InScope(r, d.act) /\ ~RowOf(r).late
        BY RecordsStay
      <4>2. Covered(d.context, d.act, r)
        BY <3>1, <4>1 DEF Gathered
      <4>. QED  BY <4>2, RecordsStay DEF Covered
    <3>. QED  BY <3>2, <3>3, <3>4 DEF Calls
  <2>. QED  BY <2>1, <2>2
<1>. QED  BY <1>1, <1>2

LEMMA Moves ==
    ASSUME DeltaInv, NEW s \in Listeners, mark[s] # NoMark, NEW at \in [Kinds -> Nat], MoveTo(s, at)
    PROVE  /\ mark' \in [Listeners -> [scope : Scopes, at : [Kinds -> Nat]] \union {NoMark}]
           /\ mark'[s].scope = mark[s].scope /\ mark'[s].at = at /\ mark[s].at \in [Kinds -> Nat]
           /\ \A t \in Listeners \ {s} : mark'[t] = mark[t]
<1>1. mark[s] \in [scope : Scopes, at : [Kinds -> Nat]]
  BY DEF DeltaInv, DeltaTypeOK
<1>2. [mark[s] EXCEPT !.at = at] \in [scope : Scopes, at : [Kinds -> Nat]]
  BY <1>1
<1>. QED  BY <1>1, <1>2 DEF MoveTo, DeltaInv, DeltaTypeOK

\* The watermark of a session moves up, to an id there is, as the session is told
\* what is passed, or knows it.
LEMMA MarkedUp ==
    ASSUME DeltaInv, UNCHANGED <<rows, inTurn, shown>>, NEW s \in Listeners, mark[s] # NoMark,
           NEW at \in [Kinds -> Nat], MoveTo(s, at),
           \A k \in Kinds : mark[s].at[k] <= at[k] /\ at[k] <= Len(rows[k]),
           told[s] \subseteq told'[s],
           \A r \in told'[s] \ told[s] : r \in Ref /\ r[2] <= at[r[1]] /\ (RowOf(r).by = s => RowOf(r).late),
           \A r \in Ref : RowOf(r).by = s /\ InScope(r, mark[s].scope) /\ ~RowOf(r).late =>
               r[2] <= at[r[1]],
           inTurn => \A r \in Ref :
               Live(r) /\ InScope(r, mark[s].scope) /\ ~RowOf(r).late /\ ~(r[2] <= mark[s].at[r[1]]) /\ r[2] <= at[r[1]]
               => Knows(s, r)'
    PROVE  Marked(s)'
<1>1. /\ mark'[s].scope = mark[s].scope /\ mark'[s].at = at /\ mark[s].at \in [Kinds -> Nat]
      /\ DeltaTypeOK /\ ToldBelow(s) /\ KnowsBelow(s)
      /\ Ref' = Ref /\ \A r \in Ref : r[1] \in Kinds /\ r[2] \in Nat
  BY Moves, RecordsStay, RefIs DEF DeltaInv, DeltaTypeOK, Marked
<1>2. MarkBounded(s)'
  BY <1>1 DEF MarkBounded
<1>3. ToldBelow(s)'
  <2> SUFFICES ASSUME NEW r \in told'[s]
               PROVE  r \in Ref /\ r[2] <= at[r[1]] /\ (RowOf(r).by = s => RowOf(r).late)
    BY <1>1, RecordsStay DEF ToldBelow
  <2>1. CASE r \in told[s]
    <3>1. r \in Ref /\ r[2] <= mark[s].at[r[1]] /\ (RowOf(r).by = s => RowOf(r).late)
      BY <1>1, <2>1 DEF ToldBelow
    <3>2. r[1] \in Kinds /\ r[2] \in Nat /\ mark[s].at[r[1]] \in Nat /\ at[r[1]] \in Nat
      BY <1>1, <3>1
    <3>3. mark[s].at[r[1]] <= at[r[1]]
      BY <3>2
    <3>. QED  BY <3>1, <3>2, <3>3
  <2>. QED  BY <2>1
<1>4. OwnBelow(s)'
  BY <1>1, RecordsStay DEF OwnBelow
<1>5. KnowsBelow(s)'
  <2> SUFFICES ASSUME inTurn, NEW r \in Ref, Live(r), InScope(r, mark[s].scope), ~RowOf(r).late, r[2] <= at[r[1]]
               PROVE  Knows(s, r)'
    BY <1>1, RecordsStay DEF KnowsBelow
  <2>1. CASE r[2] <= mark[s].at[r[1]]
    <3>1. Knows(s, r)
      BY <1>1, <2>1 DEF KnowsBelow
    <3>. QED  BY <1>1, <3>1, RowsStay, RecordsStay, KnowsOn
  <2>2. CASE ~(r[2] <= mark[s].at[r[1]])
    BY <2>2
  <2>. QED  BY <2>1, <2>2
<1>. QED  BY <1>2, <1>3, <1>4, <1>5 DEF Marked

\* The records, and what every other session was shown and told, as they were: a
\* handler of session s.
LEMMA HandlerStep ==
    ASSUME DeltaInv, UNCHANGED <<rows, pinned, inTurn>>, NEW s \in Listeners, NEW c \in under[s], Leave(s, c),
           mark' \in [Listeners -> [scope : Scopes, at : [Kinds -> Nat]] \union {NoMark}],
           shown' \in [Listeners -> SUBSET RefIds], told' \in [Listeners -> SUBSET RefIds],
           \A t \in Listeners \ {s} : mark'[t] \in {mark[t], NoMark} /\ shown'[t] = shown[t] /\ told'[t] = told[t],
           Marked(s)'
    PROVE  DeltaInv'
<1>1. /\ under'[s] = {}
      /\ \A t \in Listeners \ {s} : under'[t] = under[t]
      /\ under' \in [Listeners -> SUBSET InFlight]
      /\ \A t \in Listeners : Calls(t)'
  BY Leaves
<1>2. DeltaTypeOK /\ InTurn /\ RowsGrow /\ Ref' = Ref
  BY RowsStay, RecordsStay DEF DeltaInv
<1>3. DeltaTypeOK'
  BY <1>1, <1>2 DEF DeltaTypeOK
<1>4. InTurn'
  BY <1>1, <1>2 DEF InTurn
<1>5. ASSUME NEW t \in Listeners \ {s}
      PROVE  Marked(t)'
  <2>1. CASE mark'[t] = NoMark
    BY <2>1 DEF Marked
  <2>2. CASE mark'[t] = mark[t]
    BY <1>1, <1>2, <2>2, MarkedOn
  <2>. QED  BY <2>1, <2>2
<1>. QED  BY <1>1, <1>3, <1>4, <1>5 DEF DeltaInv

LEMMA HandleCheckInKeeps ==
    ASSUME DeltaInv, UNCHANGED inTurn, NEW s \in Listeners, HandleCheckIn(s)
    PROVE  DeltaInv'
<1>1. PICK c \in under[s], at \in [Kinds -> 0..MaxRows] :
       /\ c.tool = "check_in"
       /\ IsBaseline(at, c.act)
       /\ mark' = [x \in Listeners |->
                     IF x = s THEN [scope |-> c.act, at |-> at]
                     ELSE IF x \in Evicted(s) THEN NoMark ELSE mark[x]]
       /\ shown' = [shown EXCEPT ![s] = c.context]
       /\ told' = [told EXCEPT ![s] = {}]
       /\ Leave(s, c)
       /\ UNCHANGED <<rows, pinned>>
  BY DEF HandleCheckIn
<1>2. DeltaTypeOK /\ Calls(s)
  BY DEF DeltaInv
<1>3. c \in InFlight /\ c.act \in Scopes /\ c.context \in SUBSET RefIds
  BY <1>1, <1>2 DEF DeltaTypeOK, InFlight
<1>4. at \in [Kinds -> Nat]
  OBVIOUS
<1>5. /\ mark'[s].scope = c.act /\ mark'[s].at = at
      /\ \A t \in Listeners \ {s} : mark'[t] \in {mark[t], NoMark}
      /\ mark' \in [Listeners -> [scope : Scopes, at : [Kinds -> Nat]] \union {NoMark}]
  BY <1>1, <1>2, <1>3, <1>4 DEF DeltaTypeOK
<1>6. /\ shown'[s] = c.context /\ told'[s] = {}
      /\ \A t \in Listeners \ {s} : shown'[t] = shown[t] /\ told'[t] = told[t]
      /\ shown' \in [Listeners -> SUBSET RefIds] /\ told' \in [Listeners -> SUBSET RefIds]
  BY <1>1, <1>2, <1>3 DEF DeltaTypeOK
<1>7. /\ \A r \in Ref : r[1] \in Kinds /\ r[2] \in 1..Len(rows[r[1]])
      /\ \A k \in Kinds : Len(rows[k]) \in Nat
      /\ Ref' = Ref
  BY <1>1, <1>2, RefIs, RecordsStay DEF DeltaTypeOK
<1>8. /\ \A k \in Kinds : at[k] <= Len(rows[k])
      /\ \A r \in Ref : InScope(r, c.act) => r[2] <= at[r[1]]
  <2>1. ASSUME NEW k \in Kinds
        PROVE  at[k] <= Len(rows[k])
    <3>1. at[k] \in {0} \union IdsOf({r \in Ref : InScope(r, c.act)}, k)
      BY <1>1 DEF IsBaseline, IsHighest
    <3>2. \A n \in IdsOf({r \in Ref : InScope(r, c.act)}, k) : n <= Len(rows[k])
      BY <1>7 DEF IdsOf
    <3>. QED  BY <1>7, <3>1, <3>2
  <2>2. ASSUME NEW r \in Ref, InScope(r, c.act)
        PROVE  r[2] <= at[r[1]]
    <3>1. r[1] \in Kinds /\ r[2] \in IdsOf({q \in Ref : InScope(q, c.act)}, r[1])
      BY <1>7, <2>2 DEF IdsOf
    <3>. QED  BY <1>1, <3>1 DEF IsBaseline, IsHighest
  <2>. QED  BY <2>1, <2>2
<1>9. Marked(s)'
  <2>1. MarkBounded(s)'
    BY <1>1, <1>5, <1>8 DEF MarkBounded
  <2>2. ToldBelow(s)'
    BY <1>6 DEF ToldBelow
  <2>3. OwnBelow(s)'
    BY <1>1, <1>5, <1>7, <1>8, RecordsStay DEF OwnBelow
  <2>4. KnowsBelow(s)'
    <3> SUFFICES ASSUME inTurn, NEW r \in Ref, Live(r), InScope(r, c.act), ~RowOf(r).late
                 PROVE  Knows(s, r)'
      BY <1>1, <1>5, <1>7, RecordsStay DEF KnowsBelow
    <3>1. Covered(c.context, c.act, r)
      BY <1>1, <1>2 DEF Calls, Gathered
    <3>2. RowOf(r)' = RowOf(r)
      BY <1>1, RecordsStay
    <3>3. Covered(shown'[s], mark'[s].scope, r)
      BY <3>1, <1>5, <1>6
    <3>. QED  BY <3>2, <3>3 DEF Covered, Knows
  <2>. QED  BY <2>1, <2>2, <2>3, <2>4 DEF Marked
<1>. QED  BY <1>1, <1>5, <1>6, <1>9, HandlerStep

LEMMA HandleWriteKeeps ==
    ASSUME DeltaInv, UNCHANGED inTurn, NEW s \in Listeners, HandleWrite(s)
    PROVE  DeltaInv'
<1>1. PICK c \in under[s] :
       /\ c.tool = "write"
       /\ Leave(s, c)
       /\ IF mark[s] # NoMark /\ InScope(c.row, mark[s].scope)
          THEN MoveTo(s, [mark[s].at EXCEPT ![c.row[1]] = IF c.row[2] > @ THEN c.row[2] ELSE @])
          ELSE UNCHANGED mark
       /\ UNCHANGED <<rows, pinned, order, shown, told>>
  BY DEF HandleWrite
<1>2. DeltaTypeOK /\ Calls(s) /\ Marked(s) /\ RowsGrow /\ Ref' = Ref
  BY <1>1, RowsStay, RecordsStay DEF DeltaInv
<1>3. /\ c.row \in Ref /\ RowOf(c.row).by = s
      /\ \A r \in Ref : r[1] \in Kinds /\ r[2] \in Nat /\ r[2] \in 1..Len(rows[r[1]]) /\ r = <<r[1], r[2]>>
      /\ \A k \in Kinds : Len(rows[k]) \in Nat
  BY <1>1, <1>2, RefIs DEF DeltaTypeOK, Calls, WritesOwn
<1>4. \A d \in under[s] : d = c
  BY <1>1, Leaves
<1>5. CASE mark[s] # NoMark /\ InScope(c.row, mark[s].scope)
  <2>1. PICK at : at = [mark[s].at EXCEPT ![c.row[1]] = IF c.row[2] > @ THEN c.row[2] ELSE @]
    OBVIOUS
  <2>2. mark[s].at \in [Kinds -> Nat] /\ c.row[1] \in Kinds /\ c.row[2] \in Nat /\ c.row[2] <= Len(rows[c.row[1]])
        /\ \A k \in Kinds : mark[s].at[k] <= Len(rows[k])
    BY <1>2, <1>3, <1>5 DEF DeltaTypeOK, Marked, MarkBounded
  <2>3. /\ at \in [Kinds -> Nat]
        /\ \A k \in Kinds : mark[s].at[k] <= at[k] /\ at[k] <= Len(rows[k])
        /\ \A k \in Kinds : at[k] = mark[s].at[k] \/ (k = c.row[1] /\ at[k] = c.row[2])
        /\ c.row[2] <= at[c.row[1]]
    BY <2>1, <2>2
  <2>4. MoveTo(s, at)
    BY <1>1, <1>5, <2>1
  <2>5. \A r \in Ref : RowOf(r).by = s /\ InScope(r, mark[s].scope) /\ ~RowOf(r).late => r[2] <= at[r[1]]
    <3> SUFFICES ASSUME NEW r \in Ref, RowOf(r).by = s, InScope(r, mark[s].scope), ~RowOf(r).late
                 PROVE  r[2] <= at[r[1]]
      OBVIOUS
    <3>1. r[2] <= mark[s].at[r[1]] \/ r = c.row
      BY <1>2, <1>4, <1>5 DEF Marked, OwnBelow
    <3>2. r[1] \in Kinds /\ r[2] \in Nat /\ mark[s].at[r[1]] \in Nat /\ at[r[1]] \in Nat
      BY <1>3, <2>2, <2>3
    <3>. QED  BY <2>3, <3>1, <3>2
  <2>6. /\ mark' \in [Listeners -> [scope : Scopes, at : [Kinds -> Nat]] \union {NoMark}]
        /\ mark'[s].scope = mark[s].scope
        /\ \A t \in Listeners \ {s} : mark'[t] = mark[t]
    BY <1>5, <2>3, <2>4, Moves
  <2>7. \A r \in Ref : ~(r[2] <= mark[s].at[r[1]]) /\ r[2] <= at[r[1]] => Knows(s, r)'
    <3> SUFFICES ASSUME NEW r \in Ref, ~(r[2] <= mark[s].at[r[1]]), r[2] <= at[r[1]]
                 PROVE  Knows(s, r)'
      OBVIOUS
    <3>1. r[1] = c.row[1] /\ r[2] <= c.row[2]
      BY <1>3, <2>3
    <3>2. c.row[2] >= r[2]
      BY <3>1, <1>3
    <3>3. c.row \in Ref' /\ RowOf(c.row)'.by = s /\ InScope(c.row, mark[s].scope)
      BY <1>1, <1>2, <1>3, <1>5, RecordsStay
    <3>4. PICK q : q = c.row
      OBVIOUS
    <3>5. q \in Ref' /\ q[1] = r[1] /\ q[2] >= r[2] /\ RowOf(q)'.by = s /\ InScope(q, mark[s].scope)
      BY <3>1, <3>2, <3>3, <3>4, <1>1, <1>3, RecordsStay
    <3>6. InScope(q, mark[s].scope)'
      BY <1>1, <2>6, <3>5 DEF InScope, RowOf
    <3>. QED  BY <3>5, <3>6 DEF Knows
  <2>8. Marked(s)'
    BY <1>1, <1>5, <2>3, <2>4, <2>5, <2>7, MarkedUp
  <2>. QED  BY <1>1, <1>2, <2>6, <2>8, HandlerStep DEF DeltaTypeOK
<1>6. CASE ~(mark[s] # NoMark /\ InScope(c.row, mark[s].scope))
  <2>1. UNCHANGED mark
    BY <1>1, <1>6
  <2>2. Marked(s)'
    BY <1>1, <1>2, <1>4, <1>6, <2>1, MarkedOn
  <2>. QED  BY <1>1, <1>2, <2>1, <2>2, HandlerStep DEF DeltaTypeOK
<1>. QED  BY <1>5, <1>6

LEMMA HandleOtherKeeps ==
    ASSUME DeltaInv, UNCHANGED inTurn, NEW s \in Listeners, HandleOther(s)
    PROVE  DeltaInv'
<1>1. PICK c \in under[s] :
       /\ c.tool = "other"
       /\ Leave(s, c)
       /\ \/ /\ mark[s] # NoMark
             /\ told' = [told EXCEPT ![s] = @ \union Delta(mark[s])]
             /\ \E at \in [Kinds -> 0..MaxRows] :
                   /\ \A k \in Kinds : IsHighest(at[k], {mark[s].at[k]} \union IdsOf(Delta(mark[s]), k))
                   /\ MoveTo(s, at)
          \/ UNCHANGED <<mark, told>>
       /\ UNCHANGED <<rows, pinned, order, shown>>
  BY DEF HandleOther
<1>2. DeltaTypeOK /\ Calls(s) /\ Marked(s) /\ RowsGrow /\ Ref' = Ref
  BY <1>1, RowsStay, RecordsStay DEF DeltaInv
<1>3. /\ \A r \in Ref : r[1] \in Kinds /\ r[2] \in Nat /\ r[2] <= Len(rows[r[1]]) /\ r \in RefIds
      /\ \A k \in Kinds : Len(rows[k]) \in Nat
  BY <1>2, RefIs DEF DeltaTypeOK
<1>4. \A d \in under[s] : d.tool = "other"
  BY <1>1, Leaves
<1>5. ASSUME mark[s] # NoMark, told' = [told EXCEPT ![s] = @ \union Delta(mark[s])],
             NEW at \in [Kinds -> 0..MaxRows], MoveTo(s, at),
             \A k \in Kinds : IsHighest(at[k], {mark[s].at[k]} \union IdsOf(Delta(mark[s]), k))
      PROVE  DeltaInv'
  <2>1. at \in [Kinds -> Nat] /\ mark[s].at \in [Kinds -> Nat]
    BY <1>2, <1>5 DEF DeltaTypeOK
  <2>2. /\ Delta(mark[s]) \subseteq Ref
        /\ \A r \in Ref : r \in Delta(mark[s]) <=> InScope(r, mark[s].scope) /\ Live(r) /\ r[2] > mark[s].at[r[1]]
    BY DEF Delta
  <2>3. /\ \A k \in Kinds : mark[s].at[k] <= at[k] /\ at[k] <= Len(rows[k])
        /\ \A r \in Delta(mark[s]) : r[2] <= at[r[1]]
    <3>1. \A k \in Kinds : mark[s].at[k] <= Len(rows[k])
      BY <1>2, <1>5 DEF Marked, MarkBounded
    <3>2. ASSUME NEW k \in Kinds
          PROVE  mark[s].at[k] <= at[k] /\ at[k] <= Len(rows[k])
      <4>1. mark[s].at[k] <= at[k] /\ at[k] \in {mark[s].at[k]} \union IdsOf(Delta(mark[s]), k)
        BY <1>5 DEF IsHighest
      <4>2. \A n \in IdsOf(Delta(mark[s]), k) : n <= Len(rows[k])
        BY <1>3, <2>2 DEF IdsOf
      <4>. QED  BY <3>1, <4>1, <4>2
    <3>3. ASSUME NEW r \in Delta(mark[s])
          PROVE  r[2] <= at[r[1]]
      <4>1. r[1] \in Kinds /\ r[2] \in IdsOf(Delta(mark[s]), r[1])
        BY <1>3, <2>2 DEF IdsOf
      <4>. QED  BY <4>1, <1>5 DEF IsHighest
    <3>. QED  BY <3>2, <3>3
  <2>4. /\ told[s] \subseteq told'[s] /\ told'[s] = told[s] \union Delta(mark[s])
        /\ \A t \in Listeners \ {s} : told'[t] = told[t]
        /\ told' \in [Listeners -> SUBSET RefIds]
    BY <1>2, <1>3, <1>5, <2>2 DEF DeltaTypeOK
  <2>5. \A r \in Ref : RowOf(r).by = s /\ InScope(r, mark[s].scope) /\ ~RowOf(r).late => r[2] <= mark[s].at[r[1]]
    BY <1>2, <1>4, <1>5 DEF Marked, OwnBelow
  <2>6. \A r \in Ref : RowOf(r).by = s /\ InScope(r, mark[s].scope) /\ ~RowOf(r).late => r[2] <= at[r[1]]
    <3> SUFFICES ASSUME NEW r \in Ref, r[2] <= mark[s].at[r[1]]
                 PROVE  r[2] <= at[r[1]]
      BY <2>5
    <3>1. r[1] \in Kinds /\ r[2] \in Nat
      BY <1>3
    <3>2. mark[s].at[r[1]] \in Nat /\ at[r[1]] \in Nat /\ mark[s].at[r[1]] <= at[r[1]]
      BY <2>1, <2>3, <3>1
    <3>. QED  BY <3>1, <3>2
  <2>7. \A r \in told'[s] \ told[s] : r \in Ref /\ r[2] <= at[r[1]] /\ (RowOf(r).by = s => RowOf(r).late)
    <3> SUFFICES ASSUME NEW r \in Delta(mark[s])
                 PROVE  r \in Ref /\ r[2] <= at[r[1]] /\ (RowOf(r).by = s => RowOf(r).late)
      BY <2>4
    <3>1. r \in Ref /\ InScope(r, mark[s].scope) /\ r[2] > mark[s].at[r[1]] /\ r[2] <= at[r[1]]
      BY <2>2, <2>3
    <3>2. ~(r[2] <= mark[s].at[r[1]])
      BY <1>3, <2>1, <3>1
    <3>. QED  BY <2>5, <3>1, <3>2
  <2>8. \A r \in Ref : Live(r) /\ InScope(r, mark[s].scope) /\ ~(r[2] <= mark[s].at[r[1]]) => Knows(s, r)'
    <3> SUFFICES ASSUME NEW r \in Ref, Live(r), InScope(r, mark[s].scope), ~(r[2] <= mark[s].at[r[1]])
                 PROVE  Knows(s, r)'
      OBVIOUS
    <3>1. r[2] > mark[s].at[r[1]]
      BY <1>3, <2>1
    <3>2. r \in told'[s]
      BY <2>2, <2>4, <3>1
    <3>. QED  BY <3>2 DEF Knows
  <2>9. Marked(s)'
    BY <1>1, <1>5, <2>1, <2>3, <2>4, <2>6, <2>7, <2>8, MarkedUp
  <2>10. /\ mark' \in [Listeners -> [scope : Scopes, at : [Kinds -> Nat]] \union {NoMark}]
         /\ \A t \in Listeners \ {s} : mark'[t] = mark[t]
    BY <1>5, <2>1, Moves
  <2>. QED  BY <1>1, <1>2, <2>4, <2>9, <2>10, HandlerStep DEF DeltaTypeOK
<1>6. CASE UNCHANGED <<mark, told>>
  <2>1. Marked(s)'
    BY <1>1, <1>2, <1>4, <1>6, MarkedOn
  <2>. QED  BY <1>1, <1>2, <1>6, <2>1, HandlerStep DEF DeltaTypeOK
<1>. QED  BY <1>1, <1>5, <1>6

LEMMA RestartKeeps ==
    ASSUME DeltaInv, UNCHANGED inTurn, Restart
    PROVE  DeltaInv'
<1>1. /\ \A s \in Listeners : mark'[s] = NoMark /\ under'[s] = {}
      /\ mark' \in [Listeners -> [scope : Scopes, at : [Kinds -> Nat]] \union {NoMark}]
      /\ under' \in [Listeners -> SUBSET InFlight]
      /\ Ref' = Ref /\ UNCHANGED <<rows, pinned, shown, told>>
  BY RecordsStay DEF Restart
<1>2. DeltaTypeOK'
  BY <1>1 DEF DeltaInv, DeltaTypeOK
<1>3. \A s \in Listeners : Marked(s)' /\ Calls(s)'
  BY <1>1, FS_EmptySet DEF Marked, Calls, OneUnderWay, WritesOwn, Gathered
<1>4. InTurn'
  BY <1>1 DEF InTurn
<1>. QED  BY <1>2, <1>3, <1>4 DEF DeltaInv

LEMMA DeltaInitInv == ASSUME DeltaInit PROVE DeltaInv
<1>1. Ref = {}
  BY DEF DeltaInit, Ref
<1>2. DeltaTypeOK
  BY <1>1, FS_EmptySet DEF DeltaInit, DeltaTypeOK
<1>3. \A s \in Listeners : Marked(s) /\ Calls(s)
  BY FS_EmptySet DEF DeltaInit, Marked, Calls, OneUnderWay, WritesOwn, Gathered
<1>4. InTurn
  BY DEF DeltaInit, InTurn
<1>. QED  BY <1>2, <1>3, <1>4 DEF DeltaInv

LEMMA DeltaStep ==
    ASSUME DeltaAssumption, MaxCalls = 1, DeltaInv, [DeltaNext]_deltaVars
    PROVE  DeltaInv'
<1>1. CASE UNCHANGED deltaVars
  <2>1. UNCHANGED <<rows, pinned, mark, under, shown, told, inTurn>> /\ DeltaTypeOK
    BY <1>1 DEF deltaVars, DeltaInv
  <2>2. RowsGrow /\ Ref' = Ref
    BY <2>1, RowsStay, RecordsStay
  <2>3. DeltaTypeOK'
    BY <2>1, <2>2 DEF DeltaTypeOK
  <2>4. InTurn'
    BY <2>1 DEF InTurn, DeltaInv
  <2>5. \A s \in Listeners : Marked(s)'
    BY <2>1, <2>2, MarkedOn
  <2>6. \A s \in Listeners : Calls(s)'
    <3> TAKE s \in Listeners
    <3>1. OneUnderWay(s) /\ WritesOwn(s) /\ Gathered(s)
      BY DEF DeltaInv, Calls
    <3>2. OneUnderWay(s)'
      BY <2>1, <3>1 DEF OneUnderWay
    <3>3. WritesOwn(s)'
      BY <2>1, <2>2, <3>1, RecordsStay DEF WritesOwn
    <3>4. Gathered(s)'
      BY <2>1, <2>2, <3>1, RecordsStay DEF Gathered, Covered
    <3>. QED  BY <3>2, <3>3, <3>4 DEF Calls
  <2>. QED  BY <2>3, <2>4, <2>5, <2>6 DEF DeltaInv
<1>2. ASSUME NEW s \in Listeners, NEW k \in Kinds, NEW p \in Places(k), AddRecord(s, k, {p}), UNCHANGED inTurn
      PROVE  DeltaInv'
  BY <1>2, AddRecordKeeps DEF Places
<1>3. CASE DeltaNext
  BY <1>2, <1>3, GatherKeeps, OtherKeeps, HandleCheckInKeeps, HandleWriteKeeps, HandleOtherKeeps, RestartKeeps
     DEF DeltaNext
<1>. QED  BY <1>1, <1>3

LEMMA DeltaInvSuffices == ASSUME DeltaInv PROVE NoticesAreSound
<1>1. /\ \A r \in Ref : r[1] \in Kinds /\ r[2] \in Nat
      /\ \A s \in Listeners : mark[s] # NoMark =>
            mark[s].at \in [Kinds -> Nat] /\ ToldBelow(s) /\ KnowsBelow(s)
  BY RefIs DEF DeltaInv, DeltaTypeOK, Marked
<1>2. NoEcho
  <2> SUFFICES ASSUME NEW s \in Listeners, mark[s] # NoMark
               PROVE  /\ told[s] \intersect Delta(mark[s]) = {}
                      /\ \A r \in told[s] : RowOf(r).by = s => RowOf(r).late
    BY DEF NoEcho
  <2>1. \A r \in told[s] : r \in Ref /\ r[2] <= mark[s].at[r[1]] /\ (RowOf(r).by = s => RowOf(r).late)
    BY <1>1 DEF ToldBelow
  <2>2. \A r \in Ref : r[2] <= mark[s].at[r[1]] => ~(r[2] > mark[s].at[r[1]])
    BY <1>1
  <2>. QED  BY <2>1, <2>2 DEF Delta
<1>3. inTurn => NothingMissed
  <2> SUFFICES ASSUME inTurn, NEW s \in Listeners, UpToDate(s), NEW r \in Ref, Live(r),
                      InScope(r, mark[s].scope), ~RowOf(r).late
               PROVE  Knows(s, r)
    BY DEF NothingMissed
  <2>1. mark[s] # NoMark /\ ~(r[2] > mark[s].at[r[1]])
    BY DEF UpToDate, Delta
  <2>2. r[2] <= mark[s].at[r[1]]
    BY <1>1, <2>1
  <2>. QED  BY <1>1, <2>1, <2>2 DEF KnowsBelow
<1>. QED  BY <1>2, <1>3 DEF NoticesAreSound

\* A session is told of a record once and never of its own, and one call at a time
\* it misses none (delta_middleware.py): for any sessions and activities, where the
\* calls of one session follow one another.
THEOREM NoticesAlwaysSound ==
    ASSUME DeltaAssumption, MaxCalls = 1
    PROVE  DeltaSpec => []NoticesAreSound
<1>1. DeltaInit => DeltaInv
  BY DeltaInitInv
<1>2. DeltaInv /\ [DeltaNext]_deltaVars => DeltaInv'
  BY DeltaAssumption, MaxCalls = 1, DeltaStep
<1>3. DeltaInv => NoticesAreSound
  BY DeltaInvSuffices
<1>. QED  BY <1>1, <1>2, <1>3, PTL DEF DeltaSpec
===============================================================================
