------------------------- MODULE RelayInboxProofs -------------------------
(***************************************************************************)
(* Proofs about the inbox for any number of drains, limits, records and    *)
(* faults: type correctness, that nothing is skipped but what a death, a   *)
(* torn line or a left-over offset takes, that without such a fault every  *)
(* record is handed out once, and counted right, and that the inbox        *)
(* implements the queue of InboxQueue.                                     *)
(*                                                                         *)
(* And about the hooks, for any number of entries, starts and kills: that  *)
(* the Stop hook keeps every call that records, also when it is killed     *)
(* between two writes, because what it extracts in two readings it would   *)
(* extract in one; and that what the hooks tell the agent is true.         *)
(***************************************************************************)
EXTENDS RelayInbox, Hooks, TLAPS, FiniteSetTheorems, WellFoundedInduction

\* TypeOK is not inductive alone: the writer only writes records it has.
TypeInv == TypeOK /\ (wpc # "idle" => next \in Msgs)

\* The flock: whoever is inside a critical section holds it.
LockInv ==
    /\ (wpc # "idle") <=> (lock = "writer")
    /\ \A d \in Drainers : (dpc[d] \in {"locked", "read", "truncated"}) <=> (lock = d)

\* What a drain has read is what lies between where it started and its new_offset.
DrainInv ==
    \A d \in Drainers :
        /\ dpc[d] = "read" =>
            /\ dto[d] \in EffectiveOffset..Len(file)
            /\ dbuf[d] = SubSeq(file, EffectiveOffset + 1, dto[d])
        /\ dpc[d] = "truncated" => file = <<>> /\ ~stale

Truncating == \E d \in Drainers : dpc[d] = "truncated"

\* The cursor is inside the file, but for one left over from before a truncation.
CursorInv == stale \/ Truncating \/ cursor <= Len(file)

IInv == TypeInv /\ LockInv /\ DrainInv /\ CursorInv

\* A record is ahead of the offset drains start from, or a left-over offset is there.
InFile(m) == \E i \in 1..Len(file) : file[i] = m /\ (i > EffectiveOffset \/ stale)

Safe(m) == m \in returned \union lost \union InHand \/ InFile(m)

\* Also the record just written is safe.
KeptInv == \A m \in appended \union (IF wpc = "written" THEN {next} ELSE {}) : Safe(m)

LEMMA LineTypes ==
    ASSUME NEW f \in Seq(Lines)
    PROVE  Len(f) \in Nat /\ \A i \in 1..Len(f) : f[i] \in Int
BY InboxAssumption DEF Lines, Msgs, Torn, Bad

\* What a write leaves in the file: every line but a torn tail is kept, and no record
\* is added but its own.
LEMMA WriteLineFacts ==
    ASSUME NEW f \in Seq(Lines), NEW m \in Msgs
    PROVE  /\ WriteLine(f, m) \in Seq(Lines)
           /\ Len(WriteLine(f, m)) >= Len(f)
           /\ \A i \in 1..Len(f) : IsRecord(f[i]) => WriteLine(f, m)[i] = f[i]
           /\ \A i \in 1..Len(WriteLine(f, m)) : IsRecord(WriteLine(f, m)[i]) =>
                \/ i \in 1..Len(f) /\ WriteLine(f, m)[i] = f[i]
                \/ i = Len(f) + 1 /\ WriteLine(f, m)[i] = m
<1>1. CASE HasTornTail(f)
  <2>1. WriteLine(f, m) = [f EXCEPT ![Len(f)] = Bad]
    BY <1>1 DEF WriteLine
  <2>2. Len(f) \in 1..Len(f) /\ f[Len(f)] = Torn
    BY <1>1 DEF HasTornTail
  <2> QED BY <2>1, <2>2, InboxAssumption DEF IsRecord, Msgs, Lines, Torn, Bad
<1>2. CASE ~HasTornTail(f)
  BY <1>2 DEF WriteLine, Lines
<1> QED BY <1>1, <1>2

LEMMA WriteTornFacts ==
    ASSUME NEW f \in Seq(Lines)
    PROVE  /\ WriteTorn(f) \in Seq(Lines)
           /\ Len(WriteTorn(f)) >= Len(f)
           /\ \A i \in 1..Len(f) : WriteTorn(f)[i] = f[i]
           /\ \A i \in 1..Len(WriteTorn(f)) : IsRecord(WriteTorn(f)[i]) =>
                i \in 1..Len(f) /\ WriteTorn(f)[i] = f[i]
<1>1. ~IsRecord(Torn)
  BY DEF IsRecord, Msgs, Torn
<1> QED BY <1>1 DEF WriteTorn, Lines

\* The lines that drain reads, as a subsequence of the file.
LEMMA ReadLines ==
    ASSUME NEW f \in Seq(Lines), NEW from \in Nat, NEW to \in from..Len(f)
    PROVE  /\ Len(SubSeq(f, from + 1, to)) = to - from
           /\ \A i \in (from + 1)..to :
                /\ i - from \in DOMAIN SubSeq(f, from + 1, to)
                /\ SubSeq(f, from + 1, to)[i - from] = f[i]
<1>1. SubSeq(f, from + 1, to) \in Seq(Lines) /\ to \in Nat /\ from <= to /\ to <= Len(f)
  OBVIOUS
<1>2. Len(SubSeq(f, from + 1, to)) = to - from
  BY <1>1
<1>3. DOMAIN SubSeq(f, from + 1, to) = 1..(to - from)
  BY <1>1, <1>2
<1>4. ASSUME NEW i \in (from + 1)..to
      PROVE  /\ i - from \in 1..(to - from)
             /\ SubSeq(f, from + 1, to)[i - from] = f[i]
  <2>1. i - from \in 1..(to - from) /\ from + 1 + (i - from) - 1 = i
    BY <1>1
  <2>2. SubSeq(f, from + 1, to)[i - from] = f[from + 1 + (i - from) - 1]
    BY <1>1, <2>1
  <2> QED BY <2>1, <2>2
<1> QED BY <1>2, <1>3, <1>4

\* The records of a part of the file are those at its places.
LEMMA RecordsBetween ==
    ASSUME NEW f \in Seq(Lines), NEW from \in Nat, NEW to \in from..Len(f)
    PROVE  /\ \A m \in RecordsIn(SubSeq(f, from + 1, to)) :
                IsRecord(m) /\ \E i \in (from + 1)..to : f[i] = m
           /\ \A i \in (from + 1)..to : IsRecord(f[i]) => f[i] \in RecordsIn(SubSeq(f, from + 1, to))
<1>1. to \in Nat /\ Len(SubSeq(f, from + 1, to)) = to - from
  BY ReadLines
<1>2. DOMAIN SubSeq(f, from + 1, to) = 1..(to - from)
  BY <1>1
<1>3. ASSUME NEW k \in 1..(to - from)
      PROVE  from + k \in (from + 1)..to /\ SubSeq(f, from + 1, to)[k] = f[from + k]
  <2>1. from + k \in (from + 1)..to /\ (from + k) - from = k
    BY <1>1
  <2>2. SubSeq(f, from + 1, to)[(from + k) - from] = f[from + k]
    BY <2>1, ReadLines
  <2> QED BY <2>1, <2>2
<1>4. ASSUME NEW i \in (from + 1)..to
      PROVE  i - from \in 1..(to - from) /\ SubSeq(f, from + 1, to)[i - from] = f[i]
  BY <1>2, ReadLines
<1>5. RecordsIn(SubSeq(f, from + 1, to)) = {l \in {SubSeq(f, from + 1, to)[k] : k \in 1..(to - from)} : IsRecord(l)}
  BY <1>2 DEF RecordsIn, Range
<1>6. ASSUME NEW k \in 1..(to - from)
      PROVE  \E i \in (from + 1)..to : f[i] = SubSeq(f, from + 1, to)[k]
  BY <1>3
<1>7. ASSUME NEW i \in (from + 1)..to
      PROVE  \E k \in 1..(to - from) : f[i] = SubSeq(f, from + 1, to)[k]
  BY <1>4
<1> QED BY <1>5, <1>6, <1>7

LEMMA NothingAfter == \A n \in Nat : \A i \in (n + 1)..0 : FALSE
OBVIOUS

LEMMA OffsetTypes ==
    ASSUME TypeOK
    PROVE  EffectiveOffset \in Nat /\ EffectiveOffset <= Len(file) /\ Len(file) \in Nat
BY DEF TypeOK, EffectiveOffset

LEMMA HandTypes ==
    ASSUME NEW d \in Drainers
    PROVE  Hand(d) \subseteq Msgs /\ PassedOver \subseteq Msgs /\ InHand \subseteq Msgs
BY DEF Hand, PassedOver, InHand, RecordsIn, IsRecord

-----------------------------------------------------------------------------
(* Type correctness *)

LEMMA InitType == Init => TypeInv
<1> SUFFICES ASSUME Init PROVE TypeInv
  OBVIOUS
<1>1. stale \in BOOLEAN
  BY DEF Init
<1> QED BY <1>1, InboxAssumption DEF Init, TypeInv, TypeOK, Msgs, Lines

\* The place of the cursor after a write.
LEMMA GrowType ==
    ASSUME TypeOK, NEW f \in Seq(Lines), Grow(f)
    PROVE  file' \in Seq(Lines) /\ cursor' \in Nat /\ stale' \in BOOLEAN
BY DEF Grow, TypeOK

LEMMA NextType == TypeInv /\ [Next]_vars => TypeInv'
<1> SUFFICES ASSUME TypeInv, [Next]_vars PROVE TypeInv'
  OBVIOUS
<1>t. TypeOK
  BY DEF TypeInv
<1> USE InboxAssumption DEF TypeInv
<1>1. CASE WriterLock
  BY <1>1 DEF WriterLock, drainVars, storeVars, TypeOK
<1>2. CASE WriterWrite
  <2>1. next \in Msgs /\ WriteLine(file, next) \in Seq(Lines)
    BY <1>2, <1>t, WriteLineFacts DEF WriterWrite, TypeOK
  <2>2. file' \in Seq(Lines) /\ cursor' \in Nat /\ stale' \in BOOLEAN
    BY <1>2, <1>t, <2>1, GrowType DEF WriterWrite
  <2> QED BY <1>2, <2>1, <2>2 DEF WriterWrite, drainVars, TypeOK
<1>3. CASE WriterReturn
  BY <1>3 DEF WriterReturn, drainVars, storeVars, Msgs, TypeOK
<1>4. CASE WriterFails
  <2>1. next \in Msgs /\ WriteLine(file, next) \in Seq(Lines) /\ WriteTorn(file) \in Seq(Lines)
    BY <1>4, <1>t, WriteLineFacts, WriteTornFacts DEF WriterFails, TypeOK
  <2>2. Grow(WriteLine(file, next)) \/ Grow(WriteTorn(file))
    BY <1>4 DEF WriterFails
  <2>3. file' \in Seq(Lines) /\ cursor' \in Nat /\ stale' \in BOOLEAN
    BY <1>t, <2>1, <2>2, GrowType
  <2> QED BY <1>4, <2>1, <2>3 DEF WriterFails, drainVars, TypeOK, Msgs
<1>5. ASSUME NEW d \in Drainers, Drain(d) PROVE TypeInv'
  <2>h. Hand(d) \subseteq Msgs /\ PassedOver \subseteq Msgs
    BY HandTypes
  <2>1. CASE DrainLock(d)
    BY <2>1 DEF DrainLock, writerVars, storeVars, TypeOK
  <2>2. CASE DrainRead(d)
    <3>1. EffectiveOffset \in Nat
      BY <1>t, OffsetTypes
    <3>2. PICK end \in EffectiveOffset..Len(file) :
            /\ dto' = [dto EXCEPT ![d] = end]
            /\ dbuf' = [dbuf EXCEPT ![d] = SubSeq(file, EffectiveOffset + 1, end)]
      BY <2>2 DEF DrainRead
    <3>3. end \in Nat /\ SubSeq(file, EffectiveOffset + 1, end) \in Seq(Lines)
      BY <1>t, <3>1, <3>2 DEF TypeOK
    <3> QED BY <2>2, <3>2, <3>3 DEF DrainRead, writerVars, storeVars, TypeOK
  <2>3. CASE DrainTruncate(d)
    <3>1. stale' \in BOOLEAN
      BY <2>3 DEF DrainTruncate, Truncate
    <3> QED BY <2>3, <2>h, <3>1 DEF DrainTruncate, Truncate, writerVars, TypeOK
  <2>4. CASE DrainCursor(d)
    <3>1. stale' \in BOOLEAN
      BY <2>4 DEF DrainCursor
    <3> QED BY <2>4, <2>h, <3>1 DEF DrainCursor, writerVars, NewCursor, TypeOK
  <2>5. CASE DrainReturn(d)
    BY <2>5, <2>h DEF DrainReturn, writerVars, storeVars, TypeOK
  <2> QED BY <1>5, <2>1, <2>2, <2>3, <2>4, <2>5 DEF Drain
<1>6. CASE Crash
  <2>1. InHand \subseteq Msgs
    BY DEF InHand, Hand, RecordsIn, IsRecord
  <2> QED BY <1>6, <2>1 DEF Crash, TypeOK
<1>7. CASE UNCHANGED vars
  BY <1>7 DEF vars, writerVars, drainVars, storeVars, TypeOK
<1> QED BY <1>1, <1>2, <1>3, <1>4, <1>5, <1>6, <1>7 DEF Next, Writer

\* Every reachable state of the inbox has the types TypeOK gives it.
THEOREM TypeCorrect == Spec => []TypeOK
<1>1. Init => TypeInv
  BY InitType
<1>2. TypeInv /\ [Next]_vars => TypeInv'
  BY NextType
<1>3. TypeInv => TypeOK
  BY DEF TypeInv
<1> QED BY <1>1, <1>2, <1>3, PTL DEF Spec

-----------------------------------------------------------------------------
(* The flock and the offsets *)

LEMMA InitIInv == Init => IInv
<1> SUFFICES ASSUME Init PROVE IInv
  OBVIOUS
<1>1. TypeInv
  BY InitType
<1> QED BY <1>1, InboxAssumption
        DEF Init, IInv, LockInv, DrainInv, CursorInv

\* At most one drain is inside its critical section, and the writer is not then.
LEMMA MutualExclusion ==
    ASSUME IInv, NEW d \in Drainers, dpc[d] \in {"locked", "read", "truncated"}
    PROVE  lock = d /\ wpc = "idle" /\ \A e \in Drainers \ {d} : dpc[e] \in {"idle", "drained"}
BY InboxAssumption DEF IInv, LockInv, TypeInv, TypeOK

\* While the writer is in its critical section no drain is in its own.
LEMMA WriterExcludes ==
    ASSUME IInv, wpc # "idle"
    PROVE  lock = "writer" /\ ~Truncating /\ \A e \in Drainers : dpc[e] \in {"idle", "drained"}
BY InboxAssumption DEF IInv, LockInv, TypeInv, TypeOK, Truncating

\* A write that adds behind the lines: the offset stays where it is, unless one that
\* was left over comes to be inside the file.
LEMMA GrowOffset ==
    ASSUME IInv, wpc # "idle", NEW f \in Seq(Lines), Len(f) >= Len(file), Grow(f)
    PROVE  /\ file' = f /\ stale' = stale /\ cursor' \in Nat
           /\ stale \/ cursor' <= Len(f)
           /\ \/ /\ EffectiveOffset' = EffectiveOffset
                 /\ (stale /\ cursor > Len(file))' <=> (stale /\ cursor > Len(file))
              \/ /\ EffectiveOffset' = Len(f) /\ stale /\ cursor > Len(file) /\ cursor' <= Len(f)
<1>1. file \in Seq(Lines) /\ cursor \in Nat /\ stale \in BOOLEAN /\ Len(file) \in Nat /\ Len(f) \in Nat
  BY DEF IInv, TypeInv, TypeOK
<1>2. ~Truncating
  BY WriterExcludes
<1>3. CASE stale /\ cursor > Len(file)
  BY <1>1, <1>3 DEF Grow, EffectiveOffset
<1>4. CASE ~(stale /\ cursor > Len(file))
  <2>1. cursor <= Len(file)
    BY <1>1, <1>2, <1>4 DEF IInv, CursorInv
  <2>2. cursor' = cursor /\ file' = f /\ stale' = stale
    BY <1>4 DEF Grow
  <2> QED BY <1>1, <2>1, <2>2 DEF EffectiveOffset
<1> QED BY <1>3, <1>4

\* What either kind of write makes of the file.
LEMMA WriteGrows ==
    ASSUME IInv, WriterWrite \/ WriterFails
    PROVE  /\ wpc = "locked" /\ next \in Msgs
           /\ UNCHANGED <<dpc, dto, dbuf, returned, redelivered, appended>>
           /\ \E f \in Seq(Lines) :
                /\ Grow(f) /\ Len(f) >= Len(file)
                /\ \A i \in 1..Len(file) : IsRecord(file[i]) => f[i] = file[i]
<1>1. wpc = "locked" /\ next \in Msgs /\ file \in Seq(Lines)
  BY DEF WriterWrite, WriterFails, IInv, TypeInv, TypeOK
<1>2. UNCHANGED <<dpc, dto, dbuf, returned, redelivered, appended>>
  BY DEF WriterWrite, WriterFails, drainVars
<1>3. Grow(WriteLine(file, next)) \/ Grow(WriteTorn(file))
  BY DEF WriterWrite, WriterFails
<1> QED BY <1>1, <1>2, <1>3, WriteLineFacts, WriteTornFacts

LEMMA NextIInv ==
    ASSUME IInv, [Next]_vars
    PROVE  IInv'
<1>0. TypeInv'
  BY NextType DEF IInv
<1>t. TypeOK /\ TypeInv
  BY DEF IInv, TypeInv
<1>1. CASE WriterLock \/ WriterReturn
  <2>1. LockInv'
    BY <1>1, <1>t, InboxAssumption DEF WriterLock, WriterReturn, IInv, LockInv, drainVars, TypeOK
  <2>2. UNCHANGED <<file, cursor, stale, dpc, dto, dbuf>>
    BY <1>1 DEF WriterLock, WriterReturn, drainVars, storeVars
  <2>3. DrainInv' /\ CursorInv'
    BY <2>2 DEF IInv, DrainInv, CursorInv, Truncating, EffectiveOffset
  <2> QED BY <1>0, <2>1, <2>3 DEF IInv
<1>2. CASE WriterWrite \/ WriterFails
  <2>1. LockInv'
    BY <1>2, <1>t, InboxAssumption DEF WriterWrite, WriterFails, IInv, LockInv, drainVars, TypeOK
  <2>2. wpc # "idle" /\ UNCHANGED <<dpc, dto, dbuf>>
    BY <1>2, WriteGrows
  <2>3. PICK f \in Seq(Lines) : Grow(f) /\ Len(f) >= Len(file)
    BY <1>2, WriteGrows
  <2>4. file' = f /\ (stale' \/ cursor' <= Len(file'))
    BY <2>2, <2>3, GrowOffset
  <2>5. \A e \in Drainers : dpc'[e] \in {"idle", "drained"}
    BY <2>2, WriterExcludes
  <2> QED BY <1>0, <2>1, <2>4, <2>5 DEF IInv, DrainInv, CursorInv
<1>5. ASSUME NEW d \in Drainers, DrainLock(d) PROVE IInv'
  <2>1. LockInv'
    BY <1>5, <1>t, InboxAssumption DEF DrainLock, IInv, LockInv, writerVars, TypeOK
  <2>2. /\ UNCHANGED <<file, cursor, stale, dto, dbuf>>
        /\ \A e \in Drainers : dpc'[e] = dpc[e] \/ (dpc[e] = "idle" /\ dpc'[e] = "locked")
    BY <1>5, <1>t DEF DrainLock, storeVars, TypeOK
  <2>3. DrainInv' /\ CursorInv'
    BY <2>2 DEF IInv, DrainInv, CursorInv, Truncating, EffectiveOffset
  <2> QED BY <1>0, <2>1, <2>3 DEF IInv
<1>6. ASSUME NEW d \in Drainers, DrainRead(d) PROVE IInv'
  <2>1. LockInv'
    BY <1>6, <1>t, InboxAssumption DEF DrainRead, IInv, LockInv, writerVars, TypeOK
  <2>2. /\ dpc[d] = "locked" /\ dpc' = [dpc EXCEPT ![d] = "read"]
        /\ UNCHANGED <<file, cursor, stale>>
    BY <1>6 DEF DrainRead, storeVars
  <2>3. \A e \in Drainers \ {d} : dpc[e] \in {"idle", "drained"}
    BY <2>2, MutualExclusion
  <2>4. PICK end \in EffectiveOffset..Len(file) :
            /\ dto' = [dto EXCEPT ![d] = end]
            /\ dbuf' = [dbuf EXCEPT ![d] = SubSeq(file, EffectiveOffset + 1, end)]
    BY <1>6 DEF DrainRead
  <2>5. EffectiveOffset' = EffectiveOffset
    BY <2>2 DEF EffectiveOffset
  <2>6. DrainInv'
    BY <1>t, <2>2, <2>3, <2>4, <2>5 DEF DrainInv, TypeOK
  <2>7. CursorInv'
    BY <1>t, <2>2, <2>3 DEF IInv, CursorInv, Truncating, TypeOK
  <2> QED BY <1>0, <2>1, <2>6, <2>7 DEF IInv
<1>7. ASSUME NEW d \in Drainers, DrainTruncate(d) PROVE IInv'
  <2>1. LockInv'
    BY <1>7, <1>t, InboxAssumption DEF DrainTruncate, Truncate, IInv, LockInv, writerVars, TypeOK
  <2>2. dpc[d] = "read" /\ dpc' = [dpc EXCEPT ![d] = "truncated"] /\ file' = <<>> /\ stale' = FALSE
    BY <1>7 DEF DrainTruncate, Truncate
  <2>3. dpc'[d] = "truncated" /\ \A e \in Drainers \ {d} : dpc'[e] \in {"idle", "drained"}
    BY <1>t, <2>2, MutualExclusion DEF TypeOK
  <2> QED BY <1>0, <2>1, <2>2, <2>3 DEF IInv, DrainInv, CursorInv, Truncating
<1>8. ASSUME NEW d \in Drainers, DrainCursor(d) PROVE IInv'
  <2>0. dpc[d] \in {"read", "truncated"} /\ dpc' = [dpc EXCEPT ![d] = "drained"] /\ file' = file
    BY <1>8 DEF DrainCursor
  <2>1. LockInv'
    BY <1>8, <1>t, <2>0, InboxAssumption, MutualExclusion
       DEF DrainCursor, IInv, LockInv, writerVars, TypeOK
  <2>2. \A e \in Drainers : dpc'[e] \in {"idle", "drained"}
    BY <1>t, <2>0, MutualExclusion DEF TypeOK
  <2>3. cursor' <= Len(file)
    BY <1>8, <1>t DEF DrainCursor, NewCursor, IInv, DrainInv, TypeOK
  <2> QED BY <1>0, <2>0, <2>1, <2>2, <2>3 DEF IInv, DrainInv, CursorInv
<1>9. ASSUME NEW d \in Drainers, DrainReturn(d) PROVE IInv'
  <2>1. LockInv'
    BY <1>9, <1>t, InboxAssumption DEF DrainReturn, IInv, LockInv, writerVars, TypeOK
  <2>2. /\ UNCHANGED <<file, cursor, stale>> /\ dpc' = [dpc EXCEPT ![d] = "idle"] /\ dpc[d] = "drained"
        /\ \A e \in Drainers \ {d} : dto'[e] = dto[e] /\ dbuf'[e] = dbuf[e]
    BY <1>9, <1>t DEF DrainReturn, storeVars, TypeOK
  <2>3. dpc'[d] = "idle" /\ \A e \in Drainers \ {d} : dpc'[e] = dpc[e]
    BY <1>t, <2>2 DEF TypeOK
  <2>4. Truncating' = Truncating /\ EffectiveOffset' = EffectiveOffset
    BY <2>2, <2>3 DEF Truncating, EffectiveOffset
  <2>5. DrainInv'
    BY <2>2, <2>3, <2>4 DEF IInv, DrainInv
  <2>6. CursorInv'
    BY <2>2, <2>4 DEF IInv, CursorInv
  <2> QED BY <1>0, <2>1, <2>5, <2>6 DEF IInv
<1>10. CASE Crash
  <2>1. LockInv'
    BY <1>10, InboxAssumption DEF Crash, LockInv
  <2>2. /\ UNCHANGED <<file, cursor>> /\ stale' = (stale \/ (cursor # 0 /\ Truncating))
        /\ \A e \in Drainers : dpc'[e] = "idle"
    BY <1>10 DEF Crash, Truncating
  <2>3. CursorInv'
    <3>1. CASE stale \/ (cursor # 0 /\ Truncating)
      BY <2>2, <3>1 DEF CursorInv
    <3>2. CASE cursor = 0 \/ cursor <= Len(file)
      BY <1>t, <2>2, <3>2 DEF CursorInv, TypeOK
    <3> QED BY <3>1, <3>2 DEF IInv, CursorInv
  <2> QED BY <1>0, <2>1, <2>2, <2>3 DEF IInv, DrainInv
<1>11. CASE UNCHANGED vars
  <2>1. LockInv' /\ DrainInv' /\ CursorInv'
    BY <1>11 DEF vars, writerVars, drainVars, storeVars, IInv, LockInv, DrainInv, CursorInv,
                 Truncating, EffectiveOffset
  <2> QED BY <1>0, <2>1 DEF IInv
<1> QED BY <1>1, <1>2, <1>5, <1>6, <1>7, <1>8, <1>9, <1>10, <1>11
        DEF Next, Writer, Drain
-----------------------------------------------------------------------------
(* Nothing is skipped *)

\* No step takes a record out of the places it can be safe in.
LEMMA NextKept ==
    ASSUME IInv, KeptInv, [Next]_vars
    PROVE  KeptInv'
<1>t. /\ TypeOK /\ file \in Seq(Lines) /\ Len(file) \in Nat /\ appended \subseteq Msgs
      /\ EffectiveOffset \in Nat /\ EffectiveOffset <= Len(file)
  BY OffsetTypes DEF IInv, TypeInv, TypeOK
<1>s. ASSUME NEW m PROVE Safe(m) <=> \/ m \in returned \/ m \in lost \/ (\E e \in Drainers : m \in Hand(e))
                                    \/ InFile(m)
  BY DEF Safe, InHand
<1>p. ASSUME NEW m PROVE Safe(m)' <=> \/ m \in returned' \/ m \in lost' \/ (\E e \in Drainers : m \in Hand(e)')
                                     \/ InFile(m)'
  BY DEF Safe, InHand
<1>1. CASE WriterLock \/ WriterReturn
  <2>1. UNCHANGED <<file, cursor, stale, dpc, dbuf, returned, lost>>
    BY <1>1 DEF WriterLock, WriterReturn, drainVars, storeVars
  <2>2. ASSUME NEW m PROVE Safe(m)' <=> Safe(m)
    BY <2>1 DEF Safe, InFile, InHand, Hand, EffectiveOffset
  <2>3. /\ wpc' # "written"
        /\ appended' = appended \/ (wpc = "written" /\ appended' = appended \union {next})
    BY <1>1 DEF WriterLock, WriterReturn
  <2> QED BY <2>2, <2>3 DEF KeptInv
<1>2. CASE WriterWrite \/ WriterFails
  <2>1. /\ wpc = "locked" /\ next \in Msgs
        /\ UNCHANGED <<dpc, dbuf, returned, appended>>
    BY <1>2, WriteGrows
  <2>2. PICK f \in Seq(Lines) : /\ Grow(f) /\ Len(f) >= Len(file)
                                /\ \A i \in 1..Len(file) : IsRecord(file[i]) => f[i] = file[i]
    BY <1>2, WriteGrows
  <2>3. /\ file' = f /\ stale' = stale /\ Len(f) \in Nat
        /\ EffectiveOffset' = EffectiveOffset \/ stale
    BY <2>1, <2>2, GrowOffset, LineTypes
  <2>4. ASSUME NEW m \in Msgs, InFile(m) PROVE InFile(m)'
    <3>1. PICK i \in 1..Len(file) : file[i] = m /\ (i > EffectiveOffset \/ stale)
      BY <2>4 DEF InFile
    <3>2. i \in 1..Len(f) /\ f[i] = m
      BY <1>t, <2>2, <2>3, <3>1 DEF IsRecord
    <3>3. i > EffectiveOffset' \/ stale'
      BY <2>3, <3>1
    <3> QED BY <2>3, <3>2, <3>3 DEF InFile
  <2>5. lost \subseteq lost' /\ \A e \in Drainers : Hand(e)' = Hand(e)
    BY <1>2, <2>1 DEF WriterWrite, WriterFails, Hand
  <2>6. ASSUME NEW m \in appended PROVE Safe(m)'
    <3>1. Safe(m) /\ m \in Msgs
      BY <1>t DEF KeptInv
    <3> QED BY <1>s, <1>p, <2>1, <2>4, <2>5, <3>1
  <2>7. CASE WriterFails
    <3>1. wpc' # "written"
      BY <2>7 DEF WriterFails
    <3> QED BY <2>1, <2>6, <3>1 DEF KeptInv
  <2>8. CASE WriterWrite
    <3>1. next' = next /\ wpc' = "written" /\ Grow(WriteLine(file, next))
      BY <2>8 DEF WriterWrite
    <3>2. Safe(next)'
      <4>1. CASE HasTornTail(file)
        <5>1. next \in lost'
          BY <2>8, <4>1 DEF WriterWrite
        <5>2. next' \in lost'
          BY <3>1, <5>1
        <5> QED BY <1>p, <5>2
      <4>2. CASE ~HasTornTail(file)
        <5>1. file' = Append(file, next)
          BY <3>1, <4>2 DEF Grow, WriteLine
        <5>2. Len(file') = Len(file) + 1 /\ file'[Len(file) + 1] = next
          BY <1>t, <2>1, <5>1
        <5>3. Len(file) + 1 > EffectiveOffset' \/ stale'
          BY <1>t, <2>3
        <5>4. InFile(next)'
          <6>1. Len(file) + 1 \in 1..Len(file')
            BY <1>t, <5>2
          <6> QED BY <3>1, <5>2, <5>3, <6>1 DEF InFile
        <5> QED BY <1>p, <5>4
      <4> QED BY <4>1, <4>2
    <3> QED BY <2>1, <2>6, <3>1, <3>2 DEF KeptInv
  <2> QED BY <1>2, <2>7, <2>8
<1>5. ASSUME NEW d \in Drainers, DrainLock(d) \/ DrainRead(d) PROVE KeptInv'
  <2>1. /\ UNCHANGED <<file, cursor, stale, returned, lost, wpc, next, appended>>
        /\ dpc[d] \in {"idle", "locked"} /\ dpc'[d] \in {"locked", "read"}
        /\ \A e \in Drainers \ {d} : dpc'[e] = dpc[e] /\ dbuf'[e] = dbuf[e]
    BY <1>5, <1>t DEF DrainLock, DrainRead, writerVars, storeVars, TypeOK
  <2>2. \A e \in Drainers : Hand(e)' = Hand(e)
    BY <2>1 DEF Hand
  <2>3. ASSUME NEW m PROVE Safe(m)' <=> Safe(m)
    BY <1>s, <1>p, <2>1, <2>2 DEF InFile, EffectiveOffset
  <2> QED BY <2>1, <2>3 DEF KeptInv
<1>7. ASSUME NEW d \in Drainers, DrainTruncate(d) \/ DrainCursor(d) PROVE KeptInv'
  <2>1. /\ UNCHANGED <<returned, wpc, next, appended, dbuf>>
        /\ dpc[d] \in {"read", "truncated"} /\ dpc'[d] \in {"truncated", "drained"}
        /\ \A e \in Drainers \ {d} : dpc'[e] = dpc[e]
        /\ lost' = lost \union PassedOver
    BY <1>7, <1>t DEF DrainTruncate, Truncate, DrainCursor, writerVars, TypeOK
  <2>2. wpc = "idle"
    BY <2>1, MutualExclusion
  <2>3. Hand(d)' = RecordsIn(dbuf[d]) /\ \A e \in Drainers : Hand(e) \subseteq Hand(e)'
    BY <2>1 DEF Hand, RecordsIn, IsRecord
  <2>4. ASSUME NEW m \in Msgs, InFile(m) PROVE Safe(m)'
    <3>1. PICK i \in 1..Len(file) : file[i] = m /\ (i > EffectiveOffset \/ stale)
      BY <2>4 DEF InFile
    <3>2. dpc[d] = "read"
      BY <1>t, <2>1, <3>1 DEF IInv, DrainInv
    <3>3. dto[d] \in EffectiveOffset..Len(file) /\ dbuf[d] = SubSeq(file, EffectiveOffset + 1, dto[d])
      BY <3>2 DEF IInv, DrainInv
    <3>4. CASE i <= EffectiveOffset
      <4>1. stale /\ i \in (0 + 1)..EffectiveOffset /\ EffectiveOffset \in 0..Len(file) /\ IsRecord(m)
        BY <1>t, <3>1, <3>4 DEF IsRecord
      <4>2. m \in RecordsIn(SubSeq(file, 0 + 1, EffectiveOffset))
        BY <1>t, <3>1, <4>1, RecordsBetween
      <4>3. m \in PassedOver
        BY <4>1, <4>2 DEF PassedOver
      <4> QED BY <1>p, <2>1, <4>3
    <3>5. CASE i > EffectiveOffset /\ i <= dto[d]
      <4>1. i \in (EffectiveOffset + 1)..dto[d] /\ IsRecord(m)
        BY <1>t, <3>3, <3>5 DEF IsRecord
      <4>2. m \in RecordsIn(dbuf[d])
        BY <1>t, <3>1, <3>3, <4>1, RecordsBetween
      <4> QED BY <1>p, <2>3, <4>2
    <3>6. CASE i > dto[d]
      <4>1. DrainCursor(d) /\ cursor' = dto[d] /\ file' = file
        BY <1>7, <1>t, <3>2, <3>3, <3>6 DEF DrainTruncate, AllRead, DrainCursor, NewCursor
      <4>2. EffectiveOffset' = dto[d]
        BY <1>t, <3>3, <4>1 DEF EffectiveOffset
      <4>3. InFile(m)'
        BY <3>1, <3>6, <4>1, <4>2 DEF InFile
      <4> QED BY <1>p, <4>3
    <3> QED BY <1>t, <3>3, <3>4, <3>5, <3>6
  <2>5. ASSUME NEW m \in appended PROVE Safe(m)'
    <3>1. Safe(m) /\ m \in Msgs
      BY <1>t DEF KeptInv
    <3> QED BY <1>s, <1>p, <2>1, <2>3, <2>4, <3>1
  <2> QED BY <2>1, <2>2, <2>5 DEF KeptInv
<1>9. ASSUME NEW d \in Drainers, DrainReturn(d) PROVE KeptInv'
  <2>1. /\ UNCHANGED <<file, cursor, stale, lost, wpc, next, appended>>
        /\ returned' = returned \union Hand(d)
        /\ \A e \in Drainers \ {d} : dpc'[e] = dpc[e] /\ dbuf'[e] = dbuf[e]
    BY <1>9, <1>t DEF DrainReturn, writerVars, storeVars, TypeOK
  <2>2. \A e \in Drainers \ {d} : Hand(e)' = Hand(e)
    BY <2>1 DEF Hand
  <2>3. ASSUME NEW m, Safe(m) PROVE Safe(m)'
    <3>1. InFile(m) => InFile(m)'
      BY <2>1 DEF InFile, EffectiveOffset
    <3> QED BY <1>s, <1>p, <2>1, <2>2, <2>3, <3>1
  <2> QED BY <2>1, <2>3 DEF KeptInv
<1>10. CASE Crash
  <2>1. /\ UNCHANGED <<file, cursor, appended, returned>> /\ wpc' = "idle"
        /\ lost' = lost \union InHand /\ (stale => stale')
    BY <1>10 DEF Crash
  <2>2. ASSUME NEW m, Safe(m) PROVE Safe(m)'
    <3>1. InFile(m) => InFile(m)'
      BY <2>1 DEF InFile, EffectiveOffset
    <3> QED BY <2>1, <2>2, <3>1 DEF Safe
  <2> QED BY <2>1, <2>2 DEF KeptInv
<1>11. CASE UNCHANGED vars
  BY <1>11 DEF vars, writerVars, drainVars, storeVars, KeptInv, Safe, InFile, InHand, Hand, EffectiveOffset
<1> QED BY <1>1, <1>2, <1>5, <1>7, <1>9, <1>10, <1>11 DEF Next, Writer, Drain

\* For any drains, limits, records and faults: a record whose append returned is with
\* the session or on its way to it, or one of three things took it: the death of a
\* process that had moved the cursor past it, a torn line, or an offset that was left
\* over from before a truncation.
THEOREM NothingEverSkipped == Spec => []NothingSkipped
<1>1. Init => IInv /\ KeptInv
  BY InitIInv DEF Init, KeptInv
<1>2. (IInv /\ KeptInv) /\ [Next]_vars => (IInv /\ KeptInv)'
  BY NextIInv, NextKept
<1>3. IInv /\ KeptInv => NothingSkipped
  BY DEF KeptInv, Safe, InFile, NothingSkipped
<1> QED BY <1>1, <1>2, <1>3, PTL DEF Spec
-----------------------------------------------------------------------------
(* Every record is handed out once, and counted right *)

\* No two lines are one record, the records in the file are older than the next,
\* and what is ahead of the offset, in the hands of a drain and returned are apart.
OnceInv ==
    /\ ~stale
    /\ \A i, j \in 1..Len(file) : IsRecord(file[i]) /\ file[i] = file[j] => i = j
    /\ \A i \in 1..Len(file) : IsRecord(file[i]) =>
            file[i] < next \/ (wpc = "written" /\ file[i] = next)
    /\ \A m \in returned : m < next
    /\ \A i \in (EffectiveOffset + 1)..Len(file) :
            file[i] \notin returned /\ \A d \in Drainers : file[i] \notin Hand(d)
    /\ \A d \in Drainers : \A m \in Hand(d) : m \notin returned /\ m < next
    /\ \A d, e \in Drainers : d # e => Hand(d) \intersect Hand(e) = {}
    /\ redelivered = {}

CleanInv == IInv /\ (faults = 0 => OnceInv)

\* An unterminated line is the last one.
TailInv == \A i \in 1..(Len(file) - 1) : file[i] # Torn

\* The writer adds one line at most, and a record no other line is.
LEMMA OnceWrite ==
    ASSUME IInv, OnceInv, WriterWrite \/ WriterReturn \/ WriterFails, faults' = faults
    PROVE  OnceInv'
<1>t. /\ TypeOK /\ next \in Nat /\ (wpc # "idle" => next \in Msgs)
      /\ file \in Seq(Lines) /\ returned \subseteq Msgs
      /\ \A m \in returned : m \in Nat
      /\ EffectiveOffset \in Nat /\ EffectiveOffset <= Len(file)
  BY OffsetTypes DEF IInv, TypeInv, TypeOK, Msgs
<1>h. \A d \in Drainers : Hand(d) \subseteq Msgs
  BY HandTypes
<1>1. wpc # "idle" /\ UNCHANGED <<returned, redelivered, dpc, dbuf>>
  BY DEF WriterWrite, WriterReturn, WriterFails, drainVars
<1>2. \A d \in Drainers : Hand(d)' = Hand(d)
  BY <1>1 DEF Hand
<1>4. Len(file) \in Nat /\ \A i \in 1..Len(file) : file[i] \in Int
  BY <1>t, LineTypes
<1>5. CASE WriterWrite
  <2>1. /\ wpc = "locked" /\ wpc' = "written" /\ next' = next
        /\ Grow(WriteLine(file, next)) /\ next \in Msgs
    BY <1>5, <1>t DEF WriterWrite
  <2>2. /\ Len(WriteLine(file, next)) \in Nat /\ Len(WriteLine(file, next)) >= Len(file)
        /\ WriteLine(file, next) \in Seq(Lines)
    BY <1>t, <2>1, WriteLineFacts, LineTypes
  <2>o. file' = WriteLine(file, next) /\ EffectiveOffset' = EffectiveOffset /\ ~stale'
    BY <1>1, <2>1, <2>2, GrowOffset DEF OnceInv
  <2>3. \A i \in 1..Len(file') : IsRecord(file'[i]) =>
             \/ i \in 1..Len(file) /\ file'[i] = file[i]
             \/ i = Len(file) + 1 /\ file'[i] = next
    BY <1>t, <2>1, <2>o, WriteLineFacts
  <2>4. \A i \in 1..Len(file) : IsRecord(file[i]) => file[i] < next
    BY <2>1 DEF OnceInv
  <2>5. \A i, j \in 1..Len(file') : IsRecord(file'[i]) /\ file'[i] = file'[j] => i = j
    <3> SUFFICES ASSUME NEW i \in 1..Len(file'), NEW j \in 1..Len(file'),
                        IsRecord(file'[i]), file'[i] = file'[j]
                 PROVE  i = j
      OBVIOUS
    <3>1. CASE file'[i] = next
      <4>1. \A k \in 1..Len(file') : IsRecord(file'[k]) /\ file'[k] = next => k = Len(file) + 1
        BY <1>t, <1>4, <2>3, <2>4
      <4> QED BY <3>1, <4>1
    <3>2. CASE file'[i] # next
      BY <2>3, <3>2 DEF OnceInv
    <3> QED BY <3>1, <3>2
  <2>7. \A i \in (EffectiveOffset + 1)..Len(file') :
            file'[i] \notin returned /\ \A d \in Drainers : file'[i] \notin Hand(d)
    <3> SUFFICES ASSUME NEW i \in (EffectiveOffset + 1)..Len(file'),
                        file'[i] \in returned \/ \E d \in Drainers : file'[i] \in Hand(d)
                 PROVE  FALSE
      OBVIOUS
    <3>1. i \in 1..Len(file') /\ IsRecord(file'[i])
      BY <1>t, <1>h, <2>2, <2>o DEF IsRecord
    <3>2. CASE i \in 1..Len(file) /\ file'[i] = file[i]
      <4>1. i \in (EffectiveOffset + 1)..Len(file)
        BY <1>t, <1>4, <3>2
      <4> QED BY <3>2, <4>1 DEF OnceInv
    <3>3. CASE file'[i] = next
      BY <1>t, <3>3 DEF OnceInv
    <3> QED BY <2>3, <3>1, <3>2, <3>3
  <2>10. \A i \in 1..Len(file') : IsRecord(file'[i]) =>
             file'[i] < next' \/ (wpc' = "written" /\ file'[i] = next')
    BY <2>1, <2>3, <2>4
  <2>11. \A d \in Drainers : \A m \in Hand(d) : m \notin returned /\ m < next
    BY DEF OnceInv
  <2>12. /\ \A m \in returned : m < next
         /\ \A d, e \in Drainers : d # e => Hand(d) \intersect Hand(e) = {}
         /\ redelivered = {}
    BY DEF OnceInv
  <2>13. /\ \A m \in returned' : m < next'
         /\ redelivered' = {}
         /\ \A d \in Drainers : \A m \in Hand(d)' : m \notin returned' /\ m < next'
         /\ \A d, e \in Drainers : d # e => Hand(d)' \intersect Hand(e)' = {}
    BY <1>1, <1>2, <2>1, <2>11, <2>12
  <2>14. \A i \in (EffectiveOffset' + 1)..Len(file') :
            file'[i] \notin returned' /\ \A d \in Drainers : file'[i] \notin Hand(d)'
    BY <1>1, <1>2, <2>o, <2>7
  <2> QED BY <2>o, <2>5, <2>10, <2>13, <2>14 DEF OnceInv, IsRecord
<1>6. CASE WriterReturn \/ WriterFails
  <2>1. /\ wpc' = "idle" /\ next' \in {next, next + 1} /\ Len(file') \in Nat
        /\ ~stale' /\ EffectiveOffset' = EffectiveOffset
        /\ \A i \in 1..Len(file') : IsRecord(file'[i]) => i \in 1..Len(file) /\ file'[i] = file[i]
        /\ wpc = "written" => next' = next + 1
    <3>1. CASE WriterReturn
      BY <1>4, <3>1 DEF WriterReturn, storeVars, EffectiveOffset, OnceInv
    <3>2. CASE WriterFails
      <4>1. Grow(WriteTorn(file)) /\ wpc = "locked" /\ wpc' = "idle" /\ next' \in {next, next + 1}
        <5>1. faults \in Nat
          BY <1>t DEF TypeOK
        <5> QED BY <3>2, <5>1 DEF WriterFails
      <4>2. /\ WriteTorn(file) \in Seq(Lines) /\ Len(WriteTorn(file)) >= Len(file)
            /\ \A i \in 1..Len(WriteTorn(file)) : IsRecord(WriteTorn(file)[i]) =>
                 i \in 1..Len(file) /\ WriteTorn(file)[i] = file[i]
        BY <1>t, WriteTornFacts
      <4>3. file' = WriteTorn(file) /\ EffectiveOffset' = EffectiveOffset /\ ~stale'
        BY <1>1, <4>1, <4>2, GrowOffset DEF OnceInv
      <4> QED BY <4>1, <4>2, <4>3, LineTypes
    <3> QED BY <1>6, <3>1, <3>2
  <2>2. \A i \in 1..Len(file') : IsRecord(file'[i]) => file'[i] < next'
    <3> SUFFICES ASSUME NEW i \in 1..Len(file'), IsRecord(file'[i]) PROVE file'[i] < next'
      OBVIOUS
    <3>1. i \in 1..Len(file) /\ file'[i] = file[i] /\ file[i] \in Int
      BY <1>4, <2>1
    <3>2. file[i] < next \/ (wpc = "written" /\ file[i] = next)
      BY <3>1 DEF OnceInv
    <3> QED BY <1>t, <2>1, <3>1, <3>2
  <2>3. \A m \in returned' : m < next'
    BY <1>t, <1>1, <2>1 DEF OnceInv
  <2>4. \A i \in (EffectiveOffset' + 1)..Len(file') :
            file'[i] \notin returned' /\ \A d \in Drainers : file'[i] \notin Hand(d)'
    <3> SUFFICES ASSUME NEW i \in (EffectiveOffset + 1)..Len(file'),
                        file'[i] \in returned \/ \E d \in Drainers : file'[i] \in Hand(d)
                 PROVE  FALSE
      BY <1>1, <1>2, <2>1
    <3>1. i \in 1..Len(file') /\ IsRecord(file'[i])
      BY <1>t, <1>h, <2>1 DEF IsRecord
    <3>2. i \in (EffectiveOffset + 1)..Len(file) /\ file'[i] = file[i]
      BY <1>t, <1>4, <2>1, <3>1
    <3> QED BY <3>2 DEF OnceInv
  <2>5. \A i, j \in 1..Len(file') : IsRecord(file'[i]) /\ file'[i] = file'[j] => i = j
    <3> SUFFICES ASSUME NEW i \in 1..Len(file'), NEW j \in 1..Len(file'),
                        IsRecord(file'[i]), file'[i] = file'[j]
                 PROVE  i = j
      OBVIOUS
    <3>1. /\ i \in 1..Len(file) /\ j \in 1..Len(file) /\ file'[i] = file[i] /\ file'[j] = file[j]
          /\ IsRecord(file[i])
      BY <2>1 DEF IsRecord
    <3> QED BY <3>1 DEF OnceInv
  <2>6. \A d \in Drainers : \A m \in Hand(d)' : m \notin returned' /\ m < next'
    <3>1. \A d \in Drainers : \A m \in Hand(d) : m \notin returned /\ m < next /\ m \in Nat
      BY <1>h DEF OnceInv, Msgs
    <3>2. \A d \in Drainers : \A m \in Hand(d) : m < next'
      BY <1>t, <2>1, <3>1
    <3> QED BY <1>1, <1>2, <3>1, <3>2
  <2>7. redelivered' = {} /\ \A d, e \in Drainers : d # e => Hand(d)' \intersect Hand(e)' = {}
    BY <1>1, <1>2 DEF OnceInv
  <2> QED BY <2>1, <2>2, <2>3, <2>4, <2>5, <2>6, <2>7 DEF OnceInv, IsRecord
<1> QED BY <1>5, <1>6

\* A drain that looks or reads touches nothing; the lines it takes out are in nobody
\* else's hands.
LEMMA OnceDrain ==
    ASSUME IInv, OnceInv, NEW d \in Drainers, Drain(d)
    PROVE  OnceInv'
<1>t. /\ TypeOK /\ next \in Nat /\ file \in Seq(Lines) /\ returned \subseteq Msgs
      /\ cursor \in Nat /\ \A e \in Drainers : dto[e] \in Nat
      /\ EffectiveOffset \in Nat /\ EffectiveOffset <= Len(file)
  BY OffsetTypes DEF IInv, TypeInv, TypeOK, Msgs
<1>h. \A e \in Drainers : Hand(e) \subseteq Msgs
  BY HandTypes
<1>1. Len(file) \in Nat /\ \A i \in 1..Len(file) : file[i] \in Int
  BY <1>t, LineTypes
<1>2. CASE DrainLock(d) \/ DrainRead(d)
  <2>1. /\ UNCHANGED <<file, cursor, stale, wpc, next, returned, redelivered>>
        /\ dpc[d] \in {"idle", "locked"} /\ dpc'[d] \in {"locked", "read"}
        /\ \A e \in Drainers \ {d} : dpc'[e] = dpc[e] /\ dbuf'[e] = dbuf[e]
    BY <1>2, <1>t DEF DrainLock, DrainRead, writerVars, storeVars, TypeOK
  <2>2. \A e \in Drainers : Hand(e)' = Hand(e)
    BY <2>1 DEF Hand
  <2>3. EffectiveOffset' = EffectiveOffset
    BY <2>1 DEF EffectiveOffset
  <2> QED BY <2>1, <2>2, <2>3 DEF OnceInv, IsRecord
<1>4. CASE DrainTruncate(d) \/ DrainCursor(d)
  <2>1. /\ UNCHANGED <<returned, redelivered, wpc, next, dbuf>> /\ stale' = FALSE
        /\ dpc[d] \in {"read", "truncated"} /\ dpc'[d] \in {"truncated", "drained"}
        /\ \A e \in Drainers \ {d} : dpc'[e] = dpc[e]
        /\ file' \in {file, <<>>}
    BY <1>4, <1>t DEF DrainTruncate, Truncate, DrainCursor, writerVars, TypeOK
  <2>2. wpc = "idle"
    BY <2>1, MutualExclusion
  <2>3. Hand(d)' = RecordsIn(dbuf[d]) /\ \A e \in Drainers \ {d} : Hand(e)' = Hand(e)
    BY <2>1 DEF Hand, RecordsIn, IsRecord
  <2>4. /\ \A m \in RecordsIn(dbuf[d]) : m \notin returned /\ m < next
        /\ \A e \in Drainers \ {d} : RecordsIn(dbuf[d]) \intersect Hand(e) = {}
        /\ \A i \in (EffectiveOffset' + 1)..Len(file') :
              /\ i \in (EffectiveOffset + 1)..Len(file) /\ file'[i] = file[i]
              /\ file[i] \notin RecordsIn(dbuf[d])
    <3>1. CASE dpc[d] = "truncated"
      <4>1. /\ Hand(d) = RecordsIn(dbuf[d]) /\ file = <<>> /\ file' = <<>>
        BY <2>1, <3>1 DEF Hand, IInv, DrainInv
      <4>2. Len(file') = 0 /\ EffectiveOffset' \in Nat
        BY <1>4, <1>t, <3>1, <4>1 DEF DrainTruncate, Truncate, DrainCursor, EffectiveOffset
      <4>3. \A i \in (EffectiveOffset' + 1)..Len(file') : FALSE
        BY <4>2, NothingAfter
      <4>4. /\ \A m \in Hand(d) : m \notin returned /\ m < next
            /\ \A e \in Drainers \ {d} : Hand(d) \intersect Hand(e) = {}
        BY DEF OnceInv
      <4> QED BY <4>1, <4>3, <4>4
    <3>2. CASE dpc[d] = "read"
      <4>1. dto[d] \in EffectiveOffset..Len(file) /\ dbuf[d] = SubSeq(file, EffectiveOffset + 1, dto[d])
        BY <3>2 DEF IInv, DrainInv
      <4>2. ASSUME NEW m \in RecordsIn(dbuf[d])
            PROVE  IsRecord(m) /\ \E i \in (EffectiveOffset + 1)..dto[d] : file[i] = m
        <5>1. \A l \in RecordsIn(SubSeq(file, EffectiveOffset + 1, dto[d])) :
                 IsRecord(l) /\ \E i \in (EffectiveOffset + 1)..dto[d] : file[i] = l
          BY <1>t, <4>1, RecordsBetween
        <5>2. m \in RecordsIn(SubSeq(file, EffectiveOffset + 1, dto[d]))
          BY <4>1, <4>2
        <5> QED BY <5>1, <5>2
      <4>3. ASSUME NEW m \in RecordsIn(dbuf[d])
            PROVE  m \notin returned /\ m < next /\ \A e \in Drainers : m \notin Hand(e)
        <5>1. PICK i \in (EffectiveOffset + 1)..dto[d] : file[i] = m
          BY <4>2
        <5>2. i \in 1..Len(file) /\ i \in (EffectiveOffset + 1)..Len(file) /\ IsRecord(file[i])
          BY <1>t, <1>1, <4>1, <4>2, <5>1
        <5> QED BY <2>2, <5>1, <5>2 DEF OnceInv
      <4>4. ASSUME NEW i \in (EffectiveOffset' + 1)..Len(file')
            PROVE  /\ i \in (EffectiveOffset + 1)..Len(file) /\ file'[i] = file[i]
                   /\ file[i] \notin RecordsIn(dbuf[d])
        <5>1. DrainCursor(d) /\ file' = file /\ cursor' = dto[d]
          <6>1. CASE DrainTruncate(d)
            <7>1. Len(file') = 0 /\ EffectiveOffset' \in Nat
              BY <1>t, <6>1 DEF DrainTruncate, Truncate, EffectiveOffset
            <7> QED BY <7>1, NothingAfter
          <6>2. CASE DrainCursor(d)
            BY <3>2, <6>2 DEF DrainCursor, NewCursor
          <6> QED BY <1>4, <6>1, <6>2
        <5>2. EffectiveOffset' = dto[d]
          BY <1>t, <1>1, <4>1, <5>1 DEF EffectiveOffset
        <5>3. i \in (dto[d] + 1)..Len(file) /\ i \in (EffectiveOffset + 1)..Len(file) /\ i \in 1..Len(file)
          BY <1>t, <1>1, <4>1, <5>1, <5>2
        <5>4. ASSUME file[i] \in RecordsIn(dbuf[d]) PROVE FALSE
          <6>1. IsRecord(file[i]) /\ \E k \in (EffectiveOffset + 1)..dto[d] : file[k] = file[i]
            BY <4>2, <5>4
          <6>2. PICK k \in (EffectiveOffset + 1)..dto[d] : file[k] = file[i]
            BY <6>1
          <6>3. k \in 1..Len(file) /\ k # i
            BY <1>t, <1>1, <4>1, <5>3
          <6> QED BY <5>3, <6>1, <6>2, <6>3 DEF OnceInv
        <5> QED BY <5>1, <5>3, <5>4
      <4> QED BY <4>3, <4>4
    <3> QED BY <2>1, <3>1, <3>2
  <2>5. \A i \in (EffectiveOffset' + 1)..Len(file') :
            file'[i] \notin returned' /\ \A e \in Drainers : file'[i] \notin Hand(e)'
    <3> SUFFICES ASSUME NEW i \in (EffectiveOffset' + 1)..Len(file')
                 PROVE  file'[i] \notin returned' /\ \A e \in Drainers : file'[i] \notin Hand(e)'
      OBVIOUS
    <3>1. /\ i \in (EffectiveOffset + 1)..Len(file) /\ file'[i] = file[i]
          /\ file[i] \notin RecordsIn(dbuf[d])
      BY <2>4
    <3>2. file[i] \notin returned /\ \A e \in Drainers : file[i] \notin Hand(e)
      BY <3>1 DEF OnceInv
    <3> QED BY <2>1, <2>3, <3>1, <3>2
  <2>6. /\ \A i, j \in 1..Len(file') : IsRecord(file'[i]) /\ file'[i] = file'[j] => i = j
        /\ \A i \in 1..Len(file') : IsRecord(file'[i]) => file'[i] < next'
    <3>1. CASE file' = file
      BY <2>1, <2>2, <3>1 DEF OnceInv
    <3>2. CASE file' = <<>>
      BY <3>2
    <3> QED BY <2>1, <3>1, <3>2
  <2>7. /\ \A e \in Drainers : \A m \in Hand(e)' : m \notin returned' /\ m < next'
        /\ \A e, g \in Drainers : e # g => Hand(e)' \intersect Hand(g)' = {}
    BY <2>1, <2>3, <2>4 DEF OnceInv
  <2>8. redelivered' = {} /\ \A m \in returned' : m < next'
    BY <2>1 DEF OnceInv
  <2> QED BY <2>1, <2>5, <2>6, <2>7, <2>8 DEF OnceInv, IsRecord
<1>5. CASE DrainReturn(d)
  <2>1. /\ UNCHANGED <<file, cursor, stale, wpc, next>>
        /\ returned' = returned \union Hand(d)
        /\ redelivered' = redelivered \union (returned \intersect Hand(d))
        /\ dpc'[d] = "idle"
        /\ \A e \in Drainers \ {d} : dpc'[e] = dpc[e] /\ dbuf'[e] = dbuf[e]
    BY <1>5, <1>t DEF DrainReturn, writerVars, storeVars, TypeOK
  <2>2. Hand(d)' = {} /\ \A e \in Drainers \ {d} : Hand(e)' = Hand(e)
    BY <2>1 DEF Hand
  <2>3. EffectiveOffset' = EffectiveOffset
    BY <2>1 DEF EffectiveOffset
  <2>4. /\ \A m \in Hand(d) : m \notin returned /\ m < next
        /\ \A e \in Drainers \ {d} : Hand(d) \intersect Hand(e) = {}
    BY DEF OnceInv
  <2>5. redelivered' = {} /\ \A m \in returned' : m < next'
    BY <2>1, <2>4 DEF OnceInv
  <2>6. \A i \in (EffectiveOffset' + 1)..Len(file') :
            file'[i] \notin returned' /\ \A e \in Drainers : file'[i] \notin Hand(e)'
    BY <2>1, <2>2, <2>3 DEF OnceInv
  <2>7. /\ \A e \in Drainers : \A m \in Hand(e)' : m \notin returned' /\ m < next'
        /\ \A e, g \in Drainers : e # g => Hand(e)' \intersect Hand(g)' = {}
    <3>1. \A e \in Drainers \ {d} : \A m \in Hand(e) : m \notin returned /\ m < next /\ m \notin Hand(d)
      BY <2>4 DEF OnceInv
    <3> QED BY <2>1, <2>2, <3>1 DEF OnceInv
  <2>8. /\ \A i, j \in 1..Len(file') : IsRecord(file'[i]) /\ file'[i] = file'[j] => i = j
        /\ \A i \in 1..Len(file') : IsRecord(file'[i]) =>
                file'[i] < next' \/ (wpc' = "written" /\ file'[i] = next')
    BY <2>1 DEF OnceInv
  <2> QED BY <2>1, <2>5, <2>6, <2>7, <2>8 DEF OnceInv, IsRecord
<1> QED BY <1>2, <1>4, <1>5 DEF Drain

LEMMA NextClean == CleanInv /\ [Next]_vars => CleanInv'
<1> SUFFICES ASSUME CleanInv, [Next]_vars PROVE CleanInv'
  OBVIOUS
<1>1. IInv /\ IInv'
  BY NextIInv DEF CleanInv
<1>2. faults \in Nat /\ faults' \in Nat
  BY <1>1 DEF IInv, TypeInv, TypeOK
<1>3. SUFFICES ASSUME faults' = 0 PROVE OnceInv'
  BY <1>1 DEF CleanInv
<1>4. ~Crash
  BY <1>2, <1>3 DEF Crash
<1>5. faults' = faults \/ WriterFails
  BY <1>4 DEF Next, Writer, Drain, WriterLock, WriterWrite, WriterReturn,
         DrainLock, DrainRead, DrainTruncate, Truncate, DrainCursor, DrainReturn, vars
<1>6. faults' = faults
  BY <1>2, <1>3, <1>5 DEF WriterFails
<1>7. OnceInv
  BY <1>3, <1>6 DEF CleanInv
<1>8. CASE WriterLock \/ UNCHANGED vars
  <2>1. /\ UNCHANGED <<file, cursor, stale, next, returned, redelivered, dpc, dbuf>>
        /\ wpc' = wpc \/ (wpc = "idle" /\ wpc' = "locked")
    BY <1>8 DEF WriterLock, vars, writerVars, drainVars, storeVars
  <2>2. EffectiveOffset' = EffectiveOffset /\ \A d \in Drainers : Hand(d)' = Hand(d)
    BY <2>1 DEF EffectiveOffset, Hand
  <2>3. \A i \in 1..Len(file) : IsRecord(file[i]) =>
            file[i] < next \/ (wpc' = "written" /\ file[i] = next)
    BY <1>7, <2>1 DEF OnceInv
  <2>4. /\ \A i, j \in 1..Len(file') : IsRecord(file'[i]) /\ file'[i] = file'[j] => i = j
        /\ \A i \in 1..Len(file') : IsRecord(file'[i]) =>
                file'[i] < next' \/ (wpc' = "written" /\ file'[i] = next')
    BY <1>7, <2>1, <2>3 DEF OnceInv
  <2>5. /\ ~stale' /\ redelivered' = {} /\ \A m \in returned' : m < next'
        /\ \A i \in (EffectiveOffset' + 1)..Len(file') :
              file'[i] \notin returned' /\ \A d \in Drainers : file'[i] \notin Hand(d)'
        /\ \A d \in Drainers : \A m \in Hand(d)' : m \notin returned' /\ m < next'
        /\ \A d, e \in Drainers : d # e => Hand(d)' \intersect Hand(e)' = {}
    BY <1>7, <2>1, <2>2 DEF OnceInv
  <2> QED BY <2>4, <2>5 DEF OnceInv, IsRecord
<1> QED BY <1>1, <1>4, <1>6, <1>7, <1>8, OnceWrite, OnceDrain DEF Next, Writer

\* Only a write moves the end of the file, and only one that fails leaves a torn line.
LEMMA NextTail == TypeInv /\ TailInv /\ [Next]_vars => TailInv'
<1> SUFFICES ASSUME TypeInv, TailInv, [Next]_vars PROVE TailInv'
  OBVIOUS
<1>t. file \in Seq(Lines) /\ Len(file) \in Nat /\ (wpc # "idle" => next \in Msgs)
  BY DEF TypeInv, TypeOK
<1>1. ASSUME file' = WriteLine(file, next), next \in Msgs PROVE TailInv'
  <2>2. CASE HasTornTail(file)
    <3>1. file' = [file EXCEPT ![Len(file)] = Bad]
      BY <1>1, <2>2 DEF WriteLine
    <3>2. Len(file') = Len(file) /\ \A i \in 1..(Len(file) - 1) : file'[i] = file[i]
      BY <1>t, <3>1
    <3> QED BY <3>2 DEF TailInv
  <2>3. CASE ~HasTornTail(file)
    <3>1. file' = Append(file, next)
      BY <1>1, <2>3 DEF WriteLine
    <3>2. Len(file') = Len(file) + 1 /\ \A i \in 1..Len(file) : file'[i] = file[i]
      BY <1>t, <3>1
    <3>3. \A i \in 1..Len(file) : file[i] # Torn
      BY <1>t, <2>3 DEF TailInv, HasTornTail
    <3> QED BY <1>t, <3>2, <3>3 DEF TailInv
  <2> QED BY <2>2, <2>3
<1>2. ASSUME file' = WriteTorn(file) PROVE TailInv'
  <2>2. CASE HasTornTail(file)
    BY <1>2, <2>2 DEF WriteTorn, TailInv
  <2>3. CASE ~HasTornTail(file)
    <3>1. file' = Append(file, Torn)
      BY <1>2, <2>3 DEF WriteTorn
    <3>2. Len(file') = Len(file) + 1 /\ \A i \in 1..Len(file) : file'[i] = file[i]
      BY <1>t, <3>1
    <3>3. \A i \in 1..Len(file) : file[i] # Torn
      BY <1>t, <2>3 DEF TailInv, HasTornTail
    <3> QED BY <1>t, <3>2, <3>3 DEF TailInv
  <2> QED BY <2>2, <2>3
<1>w. CASE WriterWrite \/ WriterFails
  <2>1. next \in Msgs /\ (file' = WriteLine(file, next) \/ file' = WriteTorn(file))
    BY <1>w, <1>t DEF WriterWrite, WriterFails, Grow
  <2> QED BY <1>1, <1>2, <2>1
<1>3. CASE file' = <<>>
  BY <1>3 DEF TailInv
<1>4. CASE UNCHANGED file
  BY <1>4 DEF TailInv
<1> QED BY <1>w, <1>3, <1>4
      DEF Next, Writer, Drain, WriterLock, WriterReturn, DrainLock, DrainRead, DrainTruncate, Truncate,
          DrainCursor, DrainReturn, Crash, vars, storeVars

\* With no limit, drain reads all there is but a torn tail, which is no record.
LEMMA CountsRight == TypeInv /\ TailInv => CountMatchesDrain
<1> SUFFICES ASSUME TypeInv, TailInv
             PROVE  \E end \in EffectiveOffset..Len(file) :
                      /\ StopsAt(file, EffectiveOffset, Len(file) + 1, end)
                      /\ CountUnread = Cardinality({i \in (EffectiveOffset + 1)..end : IsRecord(file[i])})
  BY DEF CountMatchesDrain
<1> DEFINE off == EffectiveOffset
           n == Len(file)
<1>1. /\ file \in Seq(Lines) /\ n \in Nat /\ off \in 0..n
  BY DEF TypeInv, TypeOK, EffectiveOffset
<1> HIDE DEF off, n
<1>2. ASSUME NEW j \in (off + 1)..n
      PROVE  Cardinality({i \in (off + 1)..(j - 1) : IsRecord(file[i])}) < n + 1
  <2>1. IsFiniteSet((off + 1)..(j - 1)) /\ Cardinality((off + 1)..(j - 1)) = (j - 1) - (off + 1) + 1
    BY <1>1, FS_Interval
  <2>2. /\ Cardinality({i \in (off + 1)..(j - 1) : IsRecord(file[i])}) <= Cardinality((off + 1)..(j - 1))
        /\ Cardinality({i \in (off + 1)..(j - 1) : IsRecord(file[i])}) \in Nat
    BY <2>1, FS_Subset, FS_CardinalityType
  <2> QED BY <1>1, <2>1, <2>2
<1>3. ASSUME NEW k \in off..n, \A j \in (off + 1)..k : file[j] # Torn
      PROVE  CanRead(file, off, n + 1, k)
  BY <1>1, <1>2, <1>3 DEF CanRead
<1>4. CountUnread = Cardinality({i \in (off + 1)..n : IsRecord(file[i])})
  BY DEF CountUnread, off, n
<1>5. CASE off < n /\ file[n] = Torn
  <2>1. CanRead(file, off, n + 1, n - 1)
    BY <1>1, <1>3, <1>5 DEF TailInv, n
  <2>2. ~CanRead(file, off, n + 1, n)
    <3> SUFFICES ASSUME CanRead(file, off, n + 1, n) PROVE FALSE
      OBVIOUS
    <3>1. \A j \in (off + 1)..n : file[j] # Torn
      BY DEF CanRead
    <3> QED BY <1>1, <1>5, <3>1
  <2>3. StopsAt(file, off, n + 1, n - 1)
    BY <1>1, <2>1, <2>2 DEF StopsAt
  <2>4. ~IsRecord(file[n])
    BY <1>5 DEF IsRecord, Msgs, Torn
  <2>5. {i \in (off + 1)..n : IsRecord(file[i])} = {i \in (off + 1)..(n - 1) : IsRecord(file[i])}
    BY <1>1, <2>4
  <2>6. n - 1 \in off..n
    BY <1>1, <1>5
  <2> QED BY <1>4, <2>3, <2>5, <2>6 DEF off, n
<1>6. CASE ~(off < n /\ file[n] = Torn)
  <2>1. \A j \in (off + 1)..n : file[j] # Torn
    BY <1>1, <1>6 DEF TailInv, n
  <2>2. StopsAt(file, off, n + 1, n)
    BY <1>1, <1>3, <2>1 DEF StopsAt, n
  <2>3. n \in off..n
    BY <1>1
  <2> QED BY <1>4, <2>2, <2>3 DEF off, n
<1> QED BY <1>5, <1>6

\* For any drains and limits: until the process dies, or an append fails with its line
\* written, every record is handed out once, also when writes are cut short; and what
\* the session is told is unread is what it would be handed, at any time the inbox is
\* at rest.
THEOREM DrainsAlwaysExact == Spec => []DrainsAreExact
<1>1. Init => CleanInv /\ TailInv
  <2> SUFFICES ASSUME Init PROVE CleanInv /\ TailInv
    OBVIOUS
  <2>1. IInv
    BY InitIInv
  <2>2. /\ file = <<>> /\ Len(file) = 0 /\ returned = {} /\ redelivered = {} /\ ~stale
        /\ cursor = 0 /\ dpc = [d \in Drainers |-> "idle"]
    BY DEF Init
  <2>3. EffectiveOffset = 0 /\ \A d \in Drainers : Hand(d) = {}
    BY <2>2 DEF EffectiveOffset, Hand
  <2>4. OnceInv /\ TailInv
    BY <2>2, <2>3 DEF OnceInv, TailInv
  <2> QED BY <2>1, <2>4 DEF CleanInv
<1>2. (CleanInv /\ TailInv) /\ [Next]_vars => (CleanInv /\ TailInv)'
  BY NextClean, NextTail DEF CleanInv, IInv
<1>3. CleanInv /\ TailInv => DrainsAreExact
  BY CountsRight DEF CleanInv, IInv, OnceInv, ExactlyOnce, DrainsAreExact
<1> QED BY <1>1, <1>2, <1>3, PTL DEF Spec
-----------------------------------------------------------------------------
(* The inbox is a queue *)

\* A whole line after a whole line is one record more, behind the others.
LEMMA AfterAppend ==
    ASSUME NEW f \in Seq(Lines), NEW m \in Msgs, NEW off \in Nat, off <= Len(f), ~HasTornTail(f)
    PROVE  /\ RecordsAfter(WriteLine(f, m), off) = RecordsAfter(f, off) \union {<<Len(f) + 1, m>>}
           /\ Queue!Before(RecordsAfter(f, off), {<<Len(f) + 1, m>>})
           /\ ~HasTornTail(WriteLine(f, m))
<1> DEFINE g == WriteLine(f, m)
           p == <<Len(f) + 1, m>>
<1>0. Len(f) \in Nat
  OBVIOUS
<1>1. g = Append(f, m)
  BY DEF WriteLine
<1>2. Len(g) = Len(f) + 1 /\ g[Len(f) + 1] = m /\ \A i \in 1..Len(f) : g[i] = f[i]
  BY <1>1
<1>3. IsRecord(m) /\ m # Torn
  BY DEF IsRecord, Msgs, Torn
<1>4. ~HasTornTail(g)
  BY <1>2, <1>3 DEF HasTornTail
<1> HIDE DEF g
<1>5. ASSUME NEW q \in RecordsAfter(g, off)
      PROVE  q \in RecordsAfter(f, off) \union {p}
  <2>1. PICK i \in (off + 1)..(Len(f) + 1) : q = <<i, g[i]>> /\ IsRecord(g[i])
    BY <1>2 DEF RecordsAfter
  <2>2. CASE i = Len(f) + 1
    BY <2>1, <2>2, <1>2
  <2>3. CASE i # Len(f) + 1
    <3>1. i \in (off + 1)..Len(f) /\ i \in 1..Len(f)
      BY <2>3, <1>0
    <3>2. g[i] = f[i]
      BY <3>1, <1>2
    <3> QED BY <2>1, <3>1, <3>2 DEF RecordsAfter
  <2> QED BY <2>2, <2>3
<1>6. p \in RecordsAfter(g, off)
  <2>1. Len(f) + 1 \in (off + 1)..Len(g)
    BY <1>2, <1>0
  <2> QED BY <2>1, <1>2, <1>3 DEF RecordsAfter
<1>7. ASSUME NEW q \in RecordsAfter(f, off)
      PROVE  q \in RecordsAfter(g, off)
  <2>1. PICK i \in (off + 1)..Len(f) : q = <<i, f[i]>> /\ IsRecord(f[i])
    BY DEF RecordsAfter
  <2>2. i \in (off + 1)..Len(g) /\ g[i] = f[i]
    BY <1>2, <1>0
  <2> QED BY <2>1, <2>2 DEF RecordsAfter
<1>8. Queue!Before(RecordsAfter(f, off), {p})
  <2>1. \A q \in RecordsAfter(f, off) : q[1] \in 1..Len(f)
    BY <1>0 DEF RecordsAfter
  <2> QED BY <2>1, <1>0 DEF Queue!Before
<1>9. RecordsAfter(g, off) = RecordsAfter(f, off) \union {p}
  BY <1>5, <1>6, <1>7
<1> QED BY <1>4, <1>8, <1>9 DEF g

\* A whole line glued to a torn one is no record, and repairs the tail.
LEMMA AfterGlue ==
    ASSUME NEW f \in Seq(Lines), NEW m \in Msgs, NEW off \in Nat, HasTornTail(f)
    PROVE  /\ RecordsAfter(WriteLine(f, m), off) = RecordsAfter(f, off)
           /\ ~HasTornTail(WriteLine(f, m))
<1> DEFINE g == WriteLine(f, m)
<1>0. Len(f) \in Nat
  OBVIOUS
<1>1. g = [f EXCEPT ![Len(f)] = Bad] /\ Len(f) \in 1..Len(f) /\ f[Len(f)] = Torn
  BY DEF WriteLine, HasTornTail
<1>2. Len(g) = Len(f) /\ g[Len(f)] = Bad /\ \A i \in 1..Len(f) \ {Len(f)} : g[i] = f[i]
  BY <1>1, <1>0
<1>3. ~IsRecord(Bad) /\ ~IsRecord(Torn) /\ Bad # Torn
  BY DEF IsRecord, Msgs, Bad, Torn
<1>4. ~HasTornTail(g)
  BY <1>2, <1>3 DEF HasTornTail
<1> HIDE DEF g
<1>5. \A j \in (off + 1)..Len(f) : IsRecord(g[j]) <=> IsRecord(f[j])
  <2> SUFFICES ASSUME NEW j \in (off + 1)..Len(f) PROVE IsRecord(g[j]) <=> IsRecord(f[j])
    OBVIOUS
  <2>1. CASE j = Len(f)
    BY <1>1, <1>2, <1>3, <2>1
  <2>2. CASE j # Len(f)
    <3>1. j \in 1..Len(f) \ {Len(f)}
      BY <1>0, <2>2
    <3> QED BY <1>2, <3>1
  <2> QED BY <2>1, <2>2
<1>6. \A j \in {k \in (off + 1)..Len(f) : IsRecord(f[k])} : g[j] = f[j]
  <2> SUFFICES ASSUME NEW j \in (off + 1)..Len(f), IsRecord(f[j]) PROVE g[j] = f[j]
    OBVIOUS
  <2>1. j # Len(f)
    BY <1>1, <1>3
  <2>2. j \in 1..Len(f) \ {Len(f)}
    BY <1>0, <2>1
  <2> QED BY <1>2, <2>2
<1>7. RecordsAfter(g, off) = RecordsAfter(f, off)
  BY <1>2, <1>5, <1>6 DEF RecordsAfter
<1> QED BY <1>4, <1>7 DEF g

\* A write that is cut short adds no record, and tears the tail.
LEMMA AfterTorn ==
    ASSUME NEW f \in Seq(Lines), NEW off \in Nat
    PROVE  /\ RecordsAfter(WriteTorn(f), off) = RecordsAfter(f, off)
           /\ HasTornTail(WriteTorn(f))
<1>1. CASE HasTornTail(f)
  BY <1>1 DEF WriteTorn
<1>2. CASE ~HasTornTail(f)
  <2> DEFINE g == WriteTorn(f)
  <2>0. Len(f) \in Nat
    OBVIOUS
  <2>1. g = Append(f, Torn)
    BY <1>2 DEF WriteTorn
  <2>2. Len(g) = Len(f) + 1 /\ g[Len(f) + 1] = Torn /\ (\A i \in 1..Len(f) : g[i] = f[i]) /\ g # <<>>
    BY <2>0, <2>1 DEF Lines
  <2>3. HasTornTail(g)
    BY <2>2 DEF HasTornTail
  <2>4. ~IsRecord(Torn)
    BY DEF IsRecord, Msgs, Torn
  <2> HIDE DEF g
  <2>5. {j \in (off + 1)..Len(g) : IsRecord(g[j])} = {j \in (off + 1)..Len(f) : IsRecord(f[j])}
    BY <2>2, <2>4, <2>0
  <2>6. \A j \in {k \in (off + 1)..Len(f) : IsRecord(f[k])} : g[j] = f[j]
    BY <2>2, <2>0
  <2>7. RecordsAfter(g, off) = RecordsAfter(f, off)
    BY <2>5, <2>6 DEF RecordsAfter
  <2> QED BY <2>3, <2>7 DEF g
<1> QED BY <1>1, <1>2

\* What lies between two offsets is a front part, and its records are those of the lines.
LEMMA FrontPart ==
    ASSUME NEW f \in Seq(Lines), NEW from \in Nat, NEW to \in from..Len(f)
    PROVE  /\ RecordsAfter(f, to) \subseteq RecordsAfter(f, from)
           /\ Queue!Before(RecordsAfter(f, from) \ RecordsAfter(f, to), RecordsAfter(f, to))
           /\ {p[2] : p \in RecordsAfter(f, from) \ RecordsAfter(f, to)} = RecordsIn(SubSeq(f, from + 1, to))
<1>0. Len(f) \in Nat /\ to \in Nat
  OBVIOUS
<1>1. RecordsAfter(f, to) \subseteq RecordsAfter(f, from)
  BY <1>0 DEF RecordsAfter
<1>2. ASSUME NEW p \in RecordsAfter(f, from) \ RecordsAfter(f, to)
      PROVE  \E i \in (from + 1)..to : p = <<i, f[i]>> /\ IsRecord(f[i])
  <2>1. PICK i \in (from + 1)..Len(f) : p = <<i, f[i]>> /\ IsRecord(f[i])
    BY DEF RecordsAfter
  <2>2. i \notin (to + 1)..Len(f)
    BY <2>1 DEF RecordsAfter
  <2>3. i \in (from + 1)..to
    BY <1>0, <2>2
  <2> QED BY <2>1, <2>3
<1>3. ASSUME NEW i \in (from + 1)..to, IsRecord(f[i])
      PROVE  <<i, f[i]>> \in RecordsAfter(f, from) \ RecordsAfter(f, to)
  <2>1. i \in (from + 1)..Len(f) /\ i \notin (to + 1)..Len(f)
    BY <1>0
  <2> QED BY <1>3, <2>1 DEF RecordsAfter
<1>4. Queue!Before(RecordsAfter(f, from) \ RecordsAfter(f, to), RecordsAfter(f, to))
  <2> SUFFICES ASSUME NEW p \in RecordsAfter(f, from) \ RecordsAfter(f, to), NEW q \in RecordsAfter(f, to)
               PROVE  p[1] < q[1]
    BY DEF Queue!Before
  <2>1. PICK i \in (from + 1)..to : p = <<i, f[i]>>
    BY <1>2
  <2>2. PICK j \in (to + 1)..Len(f) : q = <<j, f[j]>>
    BY DEF RecordsAfter
  <2> QED BY <1>0, <2>1, <2>2
<1>5. ASSUME NEW m
      PROVE  m \in {p[2] : p \in RecordsAfter(f, from) \ RecordsAfter(f, to)}
               <=> m \in RecordsIn(SubSeq(f, from + 1, to))
  <2>1. /\ \A l \in RecordsIn(SubSeq(f, from + 1, to)) : IsRecord(l) /\ \E i \in (from + 1)..to : f[i] = l
        /\ \A i \in (from + 1)..to : IsRecord(f[i]) => f[i] \in RecordsIn(SubSeq(f, from + 1, to))
    BY RecordsBetween
  <2>2. ASSUME NEW p \in RecordsAfter(f, from) \ RecordsAfter(f, to), m = p[2]
        PROVE  IsRecord(m) /\ \E i \in (from + 1)..to : f[i] = m
    <3>1. PICK i \in (from + 1)..to : p = <<i, f[i]>> /\ IsRecord(f[i])
      BY <1>2
    <3>2. m = f[i]
      BY <2>2, <3>1
    <3> QED BY <3>1, <3>2
  <2>3. ASSUME IsRecord(m), NEW i \in (from + 1)..to, f[i] = m
        PROVE  \E p \in RecordsAfter(f, from) \ RecordsAfter(f, to) : m = p[2]
    <3>1. <<i, f[i]>> \in RecordsAfter(f, from) \ RecordsAfter(f, to) /\ m = <<i, f[i]>>[2]
      BY <2>3, <1>3
    <3> QED BY <3>1
  <2> QED BY <2>1, <2>2, <2>3
<1> QED BY <1>1, <1>4, <1>5

\* Each step of the inbox is a step of the queue, or none.
LEMMA QueueStep ==
    ASSUME IInv, [Next]_vars
    PROVE  [Queue!Next]_(Queue!qvars)
<1>i. IInv'
  BY NextIInv
<1>0. /\ TypeOK /\ file \in Seq(Lines) /\ Len(file) \in Nat /\ cursor \in Nat /\ stale \in BOOLEAN
      /\ EffectiveOffset \in Nat /\ EffectiveOffset <= Len(file)
  BY OffsetTypes DEF IInv, TypeInv, TypeOK
<1>s. ASSUME UNCHANGED <<file, cursor, stale, returned>>, \A e \in Drainers : Hand(e)' = Hand(e)
      PROVE  [Queue!Next]_(Queue!qvars)
  <2>1. QueueOfInbox' = QueueOfInbox /\ HasTornTail(file)' = HasTornTail(file)
    BY <1>s DEF QueueOfInbox, RecordsAfter, EffectiveOffset, HasTornTail
  <2>2. [e \in Drainers |-> Hand(e)]' = [e \in Drainers |-> Hand(e)]
    BY <1>s
  <2>3. (stale /\ cursor > Len(file))' = (stale /\ cursor > Len(file))
    BY <1>s
  <2> QED BY <1>s, <2>1, <2>2, <2>3 DEF Queue!qvars
<1>1. CASE WriterLock \/ WriterReturn \/ UNCHANGED vars
  <2>1. UNCHANGED <<file, cursor, stale, dpc, dbuf, returned>>
    BY <1>1 DEF WriterLock, WriterReturn, vars, writerVars, drainVars, storeVars
  <2> QED BY <2>1, <1>s DEF Hand
<1>2. CASE WriterWrite \/ WriterFails
  <2>1. /\ wpc # "idle" /\ next \in Msgs /\ UNCHANGED <<dpc, dbuf, returned>>
    BY <1>2, WriteGrows
  <2>2. [e \in Drainers |-> Hand(e)]' = [e \in Drainers |-> Hand(e)] /\ returned' = returned
    BY <2>1 DEF Hand
  <2>3. PICK f \in {WriteLine(file, next), WriteTorn(file)} : Grow(f)
    BY <1>2 DEF WriterWrite, WriterFails
  <2>4. f \in Seq(Lines) /\ Len(f) >= Len(file) /\ Len(f) \in Nat
    BY <1>0, <2>1, <2>3, WriteLineFacts, WriteTornFacts, LineTypes
  <2>5. /\ file' = f /\ stale' = stale
        /\ \/ /\ EffectiveOffset' = EffectiveOffset
              /\ (stale /\ cursor > Len(file))' <=> (stale /\ cursor > Len(file))
           \/ /\ EffectiveOffset' = Len(f) /\ stale /\ cursor > Len(file) /\ cursor' <= Len(f)
    BY <2>1, <2>3, <2>4, GrowOffset
  <2>6. CASE EffectiveOffset' = Len(f) /\ stale /\ cursor > Len(file) /\ cursor' <= Len(f)
    <3>1. QueueOfInbox' = {}
      BY <2>4, <2>5, <2>6 DEF QueueOfInbox, RecordsAfter
    <3>2. (stale /\ cursor > Len(file))' = FALSE
      <4>1. cursor' \in Nat
        BY <1>i DEF IInv, TypeInv, TypeOK
      <4> QED BY <2>4, <2>5, <2>6, <4>1
    <3>3. HasTornTail(file)' \in BOOLEAN
      BY DEF HasTornTail
    <3> QED BY <2>2, <2>6, <3>1, <3>2, <3>3 DEF Queue!Skip, Queue!Next
  <2>7. CASE /\ EffectiveOffset' = EffectiveOffset
             /\ (stale /\ cursor > Len(file))' <=> (stale /\ cursor > Len(file))
    <3>1. (stale /\ cursor > Len(file))' = (stale /\ cursor > Len(file))
      BY <2>7
    <3>2. QueueOfInbox' = RecordsAfter(f, EffectiveOffset) /\ QueueOfInbox = RecordsAfter(file, EffectiveOffset)
      BY <2>5, <2>7 DEF QueueOfInbox
    <3>3. HasTornTail(file)' = HasTornTail(f)
      BY <2>5 DEF HasTornTail
    <3>4. CASE f = WriteLine(file, next) /\ HasTornTail(file)
      <4>1. QueueOfInbox' = QueueOfInbox /\ HasTornTail(file)' = FALSE
        BY <1>0, <2>1, <3>2, <3>3, <3>4, AfterGlue DEF HasTornTail
      <4> QED BY <2>2, <3>1, <3>4, <4>1 DEF Queue!Lose, Queue!Next
    <3>5. CASE f = WriteLine(file, next) /\ ~HasTornTail(file)
      <4> DEFINE p == <<Len(file) + 1, next>>
      <4>1. /\ QueueOfInbox' = QueueOfInbox \union {p} /\ Queue!Before(QueueOfInbox, {p})
            /\ ~HasTornTail(f)
        BY <1>0, <2>1, <3>2, <3>5, AfterAppend
      <4>2. HasTornTail(file)' = HasTornTail(file)
        BY <3>3, <3>5, <4>1 DEF HasTornTail
      <4>3. p[2] \in Msgs /\ p \in QueueOfInbox'
        BY <2>1, <4>1
      <4> HIDE DEF p
      <4> QED BY <2>2, <3>1, <3>5, <4>1, <4>2, <4>3 DEF Queue!Put, Queue!Next
    <3>6. CASE f = WriteTorn(file)
      <4>1. QueueOfInbox' = QueueOfInbox /\ HasTornTail(f)
        BY <1>0, <3>2, <3>6, AfterTorn
      <4>2. HasTornTail(file)' = TRUE
        BY <3>3, <4>1 DEF HasTornTail
      <4> QED BY <2>2, <3>1, <4>1, <4>2 DEF Queue!Damage, Queue!Next
    <3> QED BY <2>3, <3>4, <3>5, <3>6
  <2> QED BY <2>5, <2>6, <2>7
<1>3. ASSUME NEW d \in Drainers, DrainLock(d) \/ DrainRead(d)
      PROVE  [Queue!Next]_(Queue!qvars)
  <2>1. /\ UNCHANGED <<file, cursor, stale, returned>>
        /\ dpc[d] \in {"idle", "locked"} /\ dpc'[d] \in {"locked", "read"}
        /\ \A e \in Drainers \ {d} : dpc'[e] = dpc[e] /\ dbuf'[e] = dbuf[e]
    BY <1>3, <1>0 DEF DrainLock, DrainRead, storeVars, TypeOK
  <2>2. \A e \in Drainers : Hand(e)' = Hand(e)
    BY <2>1 DEF Hand
  <2> QED BY <2>1, <2>2, <1>s
<1>4. ASSUME NEW d \in Drainers, DrainTruncate(d) \/ (DrainCursor(d) /\ dpc[d] = "read")
      PROVE  [Queue!Next]_(Queue!qvars)
  <2>1. /\ dpc[d] = "read" /\ dpc'[d] \in {"truncated", "drained"}
        /\ \A e \in Drainers \ {d} : dpc'[e] = dpc[e]
        /\ UNCHANGED <<dbuf, returned>> /\ stale' = FALSE
    BY <1>4, <1>0 DEF DrainTruncate, Truncate, DrainCursor, TypeOK
  <2>2. dto[d] \in EffectiveOffset..Len(file) /\ dbuf[d] = SubSeq(file, EffectiveOffset + 1, dto[d])
    BY <2>1 DEF IInv, DrainInv
  <2>3. Hand(d) = {} /\ Hand(d)' = RecordsIn(dbuf[d]) /\ \A e \in Drainers \ {d} : Hand(e)' = Hand(e)
    BY <2>1 DEF Hand, RecordsIn, IsRecord
  <2>4. QueueOfInbox' = RecordsAfter(file, dto[d]) /\ HasTornTail(file)' = HasTornTail(file)
    <3>1. CASE DrainTruncate(d)
      <4>1. dto[d] = Len(file) /\ ~HasTornTail(file) /\ file' = <<>> /\ Len(file') = 0
        BY <1>0, <2>2, <3>1 DEF DrainTruncate, Truncate, AllRead
      <4>2. RecordsAfter(file, Len(file)) = {}
        BY <1>0 DEF RecordsAfter
      <4>3. EffectiveOffset' \in Nat
        BY <1>0, <3>1 DEF DrainTruncate, Truncate, EffectiveOffset
      <4>4. RecordsAfter(file', EffectiveOffset') = {}
        BY <4>1, <4>3, NothingAfter DEF RecordsAfter
      <4> QED BY <4>1, <4>2, <4>4 DEF QueueOfInbox, HasTornTail
    <3>2. CASE DrainCursor(d)
      <4>1. cursor' = dto[d] /\ file' = file
        BY <2>1, <3>2 DEF DrainCursor, NewCursor
      <4>2. EffectiveOffset' = dto[d]
        BY <1>0, <2>2, <4>1 DEF EffectiveOffset
      <4> QED BY <4>1, <4>2 DEF QueueOfInbox, HasTornTail
    <3> QED BY <1>4, <3>1, <3>2
  <2>5. /\ QueueOfInbox' \subseteq QueueOfInbox
        /\ Queue!Before(QueueOfInbox \ QueueOfInbox', QueueOfInbox')
        /\ {p[2] : p \in QueueOfInbox \ QueueOfInbox'} = Hand(d)'
    <3>1. /\ RecordsAfter(file, dto[d]) \subseteq RecordsAfter(file, EffectiveOffset)
          /\ Queue!Before(RecordsAfter(file, EffectiveOffset) \ RecordsAfter(file, dto[d]), RecordsAfter(file, dto[d]))
          /\ {p[2] : p \in RecordsAfter(file, EffectiveOffset) \ RecordsAfter(file, dto[d])}
               = RecordsIn(SubSeq(file, EffectiveOffset + 1, dto[d]))
      BY <1>0, <2>2, FrontPart
    <3> QED BY <2>2, <2>3, <2>4, <3>1 DEF QueueOfInbox
  <2>6. [e \in Drainers |-> Hand(e)]'
          = [[e \in Drainers |-> Hand(e)] EXCEPT ![d] = {p[2] : p \in QueueOfInbox \ QueueOfInbox'}]
    BY <2>3, <2>5
  <2>7. (stale /\ cursor > Len(file))' = FALSE /\ [e \in Drainers |-> Hand(e)][d] = {}
    BY <2>1, <2>3
  <2>8. Queue!Take(d)
    BY <2>1, <2>4, <2>5, <2>6, <2>7 DEF Queue!Take
  <2> QED BY <2>8 DEF Queue!Next
<1>5. ASSUME NEW d \in Drainers, DrainCursor(d), dpc[d] = "truncated"
      PROVE  [Queue!Next]_(Queue!qvars)
  <2>1. /\ file = <<>> /\ file' = file /\ stale = FALSE /\ stale' = FALSE /\ cursor' = 0 /\ Len(file) = 0
        /\ dpc'[d] = "drained" /\ UNCHANGED <<dbuf, returned>>
        /\ \A e \in Drainers \ {d} : dpc'[e] = dpc[e]
    BY <1>5, <1>0 DEF DrainCursor, IInv, DrainInv, TypeOK
  <2>2. [e \in Drainers |-> Hand(e)]' = [e \in Drainers |-> Hand(e)]
    BY <1>5, <2>1 DEF Hand
  <2>3. EffectiveOffset' \in Nat
    BY <2>1 DEF EffectiveOffset
  <2>4. QueueOfInbox = {} /\ QueueOfInbox' = {}
    BY <1>0, <2>1, <2>3, NothingAfter DEF QueueOfInbox, RecordsAfter
  <2>5. (stale /\ cursor > Len(file))' = (stale /\ cursor > Len(file))
    BY <2>1
  <2> QED BY <2>1, <2>2, <2>4, <2>5 DEF Queue!qvars, HasTornTail
<1>6. ASSUME NEW d \in Drainers, DrainReturn(d)
      PROVE  [Queue!Next]_(Queue!qvars)
  <2>1. /\ UNCHANGED <<file, cursor, stale>> /\ dpc'[d] = "idle"
        /\ returned' = returned \union Hand(d)
        /\ \A e \in Drainers \ {d} : dpc'[e] = dpc[e] /\ dbuf'[e] = dbuf[e]
    BY <1>6, <1>0 DEF DrainReturn, storeVars, TypeOK
  <2>2. Hand(d)' = {} /\ \A e \in Drainers \ {d} : Hand(e)' = Hand(e)
    BY <2>1 DEF Hand
  <2>3. [e \in Drainers |-> Hand(e)]' = [[e \in Drainers |-> Hand(e)] EXCEPT ![d] = {}]
    BY <2>2
  <2>4. QueueOfInbox' = QueueOfInbox /\ HasTornTail(file)' = HasTornTail(file)
    BY <2>1 DEF QueueOfInbox, RecordsAfter, EffectiveOffset, HasTornTail
  <2>5. (stale /\ cursor > Len(file))' = (stale /\ cursor > Len(file))
    BY <2>1
  <2>6. Queue!Deliver(d)
    BY <2>1, <2>3, <2>4, <2>5 DEF Queue!Deliver
  <2> QED BY <2>6 DEF Queue!Next
<1>7. CASE Crash
  <2>1. /\ UNCHANGED <<file, cursor, returned>> /\ \A e \in Drainers : dpc'[e] = "idle"
        /\ stale' = (stale \/ (cursor # 0 /\ Truncating))
    BY <1>7 DEF Crash, Truncating
  <2>2. [e \in Drainers |-> Hand(e)]' = Queue!Empty
    BY <2>1 DEF Hand, Queue!Empty
  <2>3. QueueOfInbox' = QueueOfInbox /\ HasTornTail(file)' = HasTornTail(file)
    BY <2>1 DEF QueueOfInbox, RecordsAfter, EffectiveOffset, HasTornTail
  <2>4. \/ (stale /\ cursor > Len(file))' = (stale /\ cursor > Len(file))
        \/ QueueOfInbox = {} /\ ~HasTornTail(file) /\ (stale /\ cursor > Len(file))' = TRUE
    <3>1. CASE Truncating /\ cursor # 0
      <4>1. file = <<>> /\ Len(file) = 0
        BY <3>1 DEF Truncating, IInv, DrainInv
      <4>2. QueueOfInbox = {} /\ ~HasTornTail(file)
        BY <1>0, <4>1, NothingAfter DEF QueueOfInbox, RecordsAfter, HasTornTail
      <4>3. stale' /\ cursor' > Len(file')
        <5>1. stale'
          BY <2>1, <3>1
        <5>2. cursor' > Len(file')
          BY <1>0, <2>1, <3>1, <4>1
        <5> QED BY <5>1, <5>2
      <4> QED BY <4>2, <4>3
    <3>2. CASE ~(Truncating /\ cursor # 0)
      <4>1. stale' <=> stale
        BY <2>1, <3>2
      <4> QED BY <2>1, <4>1
    <3> QED BY <3>1, <3>2
  <2>5. Queue!Drop
    BY <2>1, <2>2, <2>3, <2>4 DEF Queue!Drop
  <2> QED BY <2>5 DEF Queue!Next
<1>8. ASSUME NEW d \in Drainers, DrainCursor(d)
      PROVE  dpc[d] \in {"read", "truncated"}
  BY <1>8 DEF DrainCursor
<1> QED BY <1>1, <1>2, <1>3, <1>4, <1>5, <1>6, <1>7, <1>8 DEF Next, Writer, Drain

\* For any drains, limits, records and faults: what file, cursor and flock do is what a
\* queue does whose clients hold what they take until they deliver it. Whatever is cut
\* short and wherever the process dies, records leave at the head, into one client's
\* hands; a death costs what the dead had in hand, a torn line the next record, and an
\* offset that a death left over what waits when it takes effect.
THEOREM InboxIsAQueue == Spec => ImplementsQueue
<1>1. Init => IInv /\ Queue!Init
  <2> SUFFICES ASSUME Init PROVE IInv /\ Queue!Init
    OBVIOUS
  <2>1. IInv
    BY InitIInv
  <2>2. /\ file = <<>> /\ Len(file) = 0 /\ cursor = 0 /\ returned = {} /\ ~stale
        /\ \A d \in Drainers : dpc[d] = "idle"
    BY DEF Init
  <2>3. [d \in Drainers |-> Hand(d)] = Queue!Empty
    BY <2>2 DEF Hand, Queue!Empty
  <2>4. QueueOfInbox = {} /\ ~HasTornTail(file)
    BY <2>2 DEF QueueOfInbox, RecordsAfter, EffectiveOffset, HasTornTail
  <2> QED BY <2>1, <2>2, <2>3, <2>4 DEF Queue!Init
<1>2. IInv /\ [Next]_vars => IInv'
  BY NextIInv
<1>3. IInv /\ [Next]_vars => [Queue!Next]_(Queue!qvars)
  BY QueueStep
<1> QED BY <1>1, <1>2, <1>3, PTL DEF Spec, ImplementsQueue, Queue!Spec

--------------------------------------------------------------------------------
\* The hooks.

\* Every non-empty set of natural numbers has a least element.
LEMMA LeastNumber ==
    ASSUME NEW T, T \subseteq Nat, T # {}
    PROVE  \E x \in T : \A y \in T : x <= y
<1> DEFINE R == OpToRel(<, Nat)
<1>1. IsWellFoundedOn(R, Nat)
  BY NatLessThanWellFounded
<1>2. \E x \in T : \A y \in T : ~(<<y, x>> \in R)
  <2> HIDE DEF R
  <2> QED BY <1>1, WFMin
<1>3. \A x, y \in T : <<y, x>> \notin R => x <= y
  BY DEF OpToRel
<1> QED BY <1>2, <1>3

\* A number that has a property while 0 has it not has a first one that has it.
LEMMA FirstFailure ==
    ASSUME NEW T, T \subseteq Nat, T # {}, 0 \notin T
    PROVE  \E x \in T : x \in Nat \ {0} /\ x - 1 \in Nat /\ x - 1 \notin T
<1>1. PICK x \in T : \A y \in T : x <= y
  BY LeastNumber
<1> QED BY <1>1

Begun(turn) == [events |-> <<>>, turn |-> turn]

\* f reads the first n entries, from the first on.
Reads(f, entries, turn, n) ==
    f = [m \in 0 .. n |-> IF m = 0 THEN Begun(turn) ELSE Extracted(f[m - 1], entries[m])]

LEMMA ReadsFacts ==
    ASSUME NEW n \in Nat, NEW f, NEW entries, NEW turn, Reads(f, entries, turn, n)
    PROVE  /\ f[0] = Begun(turn)
           /\ \A m \in 1 .. n : f[m] = Extracted(f[m - 1], entries[m])
<1> DEFINE g == [m \in 0 .. n |-> IF m = 0 THEN Begun(turn) ELSE Extracted(f[m - 1], entries[m])]
<1>1. f = g
  BY DEF Reads
<1>2. \A m \in 0 .. n : g[m] = IF m = 0 THEN Begun(turn) ELSE Extracted(f[m - 1], entries[m])
  OBVIOUS
<1> HIDE DEF g
<1>3. 0 \in 0 .. n /\ \A m \in 1 .. n : m \in 0 .. n /\ m # 0
  OBVIOUS
<1> QED
  BY <1>1, <1>2, <1>3

LEMMA ReadsExist ==
    ASSUME NEW entries, NEW turn, NEW n \in Nat
    PROVE  \E f : Reads(f, entries, turn, n)
<1> DEFINE T == {m \in Nat : ~\E f : Reads(f, entries, turn, m)}
<1>1. 0 \notin T
  <2> DEFINE f == [m \in 0 .. 0 |-> Begun(turn)]
  <2>1. \A m \in 0 .. 0 : m = 0
    OBVIOUS
  <2>2. f = [m \in 0 .. 0 |-> IF m = 0 THEN Begun(turn) ELSE Extracted(f[m - 1], entries[m])]
    BY <2>1
  <2> QED BY <2>2 DEF Reads
<1>2. ASSUME NEW x \in T, x \in Nat \ {0}, x - 1 \in Nat, x - 1 \notin T PROVE FALSE
  <2>1. PICK f : Reads(f, entries, turn, x - 1)
    BY <1>2
  <2>2. f[0] = Begun(turn) /\ \A m \in 1 .. x - 1 : f[m] = Extracted(f[m - 1], entries[m])
    BY <1>2, <2>1, ReadsFacts
  <2> DEFINE g == [m \in 0 .. x |-> IF m = x THEN Extracted(f[x - 1], entries[x]) ELSE f[m]]
             h == [m \in 0 .. x |-> IF m = 0 THEN Begun(turn) ELSE Extracted(g[m - 1], entries[m])]
  <2>3. \A m \in 0 .. x - 1 : g[m] = f[m]
    BY <1>2
  <2>4. g[x] = Extracted(f[x - 1], entries[x])
    BY <1>2
  <2> HIDE DEF g
  <2>5. ASSUME NEW m \in 0 .. x PROVE g[m] = IF m = 0 THEN Begun(turn) ELSE Extracted(g[m - 1], entries[m])
    <3>1. CASE m = 0
      BY <1>2, <2>2, <2>3, <3>1
    <3>2. CASE m # 0 /\ m = x
      <4>1. g[x - 1] = f[x - 1]
        BY <1>2, <2>3
      <4> QED BY <2>4, <3>2, <4>1
    <3>3. CASE m \in 1 .. x - 1
      <4>1. g[m] = f[m] /\ g[m - 1] = f[m - 1] /\ f[m] = Extracted(f[m - 1], entries[m])
        BY <1>2, <2>2, <2>3, <3>3
      <4> QED BY <3>3, <4>1
    <3> QED BY <1>2, <3>1, <3>2, <3>3
  <2>6. g = h
    BY <2>5 DEF g
  <2> QED BY <1>2, <2>6 DEF Reads
<1>3. T = {}
  <2> HIDE DEF T
  <2>1. T \subseteq Nat
    BY DEF T
  <2> QED BY <1>1, <1>2, <2>1, FirstFailure
<1> QED BY <1>3

\* Two readings of what begins alike have read the same so far.
LEMMA ReadsAgree ==
    ASSUME NEW n \in Nat, NEW m \in Nat, NEW f, NEW g, NEW u, NEW v, NEW turn,
           Reads(f, u, turn, n), Reads(g, v, turn, m),
           NEW p \in Nat, p <= n, p <= m, \A i \in 1 .. p : u[i] = v[i]
    PROVE  f[p] = g[p]
<1> DEFINE T == {q \in Nat : q <= p /\ f[q] # g[q]}
<1>1. /\ f[0] = Begun(turn) /\ \A q \in 1 .. n : f[q] = Extracted(f[q - 1], u[q])
      /\ g[0] = Begun(turn) /\ \A q \in 1 .. m : g[q] = Extracted(g[q - 1], v[q])
  BY ReadsFacts
<1>2. 0 \notin T
  BY <1>1
<1>3. ASSUME NEW x \in T, x \in Nat \ {0}, x - 1 \in Nat, x - 1 \notin T PROVE FALSE
  <2>1. x \in 1 .. n /\ x \in 1 .. m /\ x \in 1 .. p /\ f[x - 1] = g[x - 1]
    BY <1>3
  <2> QED BY <1>1, <1>3, <2>1
<1>4. T = {}
  <2> HIDE DEF T
  <2>1. T \subseteq Nat
    BY DEF T
  <2> QED BY <1>2, <1>3, <2>1, FirstFailure
<1> QED BY <1>4

\* What extract_events finds is what any reading to the end has found.
LEMMA ExtractIsRead ==
    ASSUME NEW S, NEW u \in Seq(S), NEW turn
    PROVE  \E f : Reads(f, u, turn, Len(u)) /\ Extract(u, turn) = f[Len(u)]
<1> DEFINE P(f) == f = [n \in 0 .. Len(u) |-> IF n = 0 THEN [events |-> <<>>, turn |-> turn]
                                              ELSE Extracted(f[n - 1], u[n])]
           f == CHOOSE g : P(g)
<1>1. \E g : P(g)
  <2> DEFINE n == Len(u)
  <2>3. n \in Nat
    OBVIOUS
  <2> HIDE DEF n
  <2>1. PICK g : Reads(g, u, turn, n)
    BY <2>3, ReadsExist
  <2>2. P(g)
    BY <2>1 DEF Reads, Begun, n
  <2> HIDE DEF P
  <2> QED BY <2>2
<1>2. P(f)
  <2> HIDE DEF P
  <2> QED BY <1>1
<1>3. Extract(u, turn) = f[Len(u)]
  BY DEF Extract
<1>4. Reads(f, u, turn, Len(u))
  BY <1>2 DEF Reads, Begun
<1> QED
  BY <1>3, <1>4

\* One entry more is read by one step more.
LEMMA ExtractSteps ==
    ASSUME NEW S, NEW u \in Seq(S), NEW v \in Seq(S), NEW turn, Len(v) = Len(u) + 1,
           \A i \in 1 .. Len(u) : v[i] = u[i]
    PROVE  Extract(v, turn) = Extracted(Extract(u, turn), v[Len(v)])
<1>1. Len(u) \in Nat /\ Len(v) \in Nat
  OBVIOUS
<1>2. PICK f : Reads(f, u, turn, Len(u)) /\ Extract(u, turn) = f[Len(u)]
  BY ExtractIsRead
<1>3. PICK g : Reads(g, v, turn, Len(v)) /\ Extract(v, turn) = g[Len(v)]
  BY ExtractIsRead
<1>4. f[Len(u)] = g[Len(u)]
  BY <1>1, <1>2, <1>3, ReadsAgree
<1>5. g[Len(v)] = Extracted(g[Len(v) - 1], v[Len(v)])
  BY <1>1, <1>3, ReadsFacts
<1>6. Len(v) - 1 = Len(u)
  BY <1>1
<1> QED
  BY <1>2, <1>3, <1>4, <1>5, <1>6

LEMMA ExtractNothing ==
    ASSUME NEW S, NEW u \in Seq(S), Len(u) = 0, NEW turn
    PROVE  Extract(u, turn) = Begun(turn)
<1>1. PICK f : Reads(f, u, turn, 0) /\ Extract(u, turn) = f[0]
  BY ExtractIsRead
<1> QED
  BY <1>1, ReadsFacts

\* What is read, entry by entry.
Sofar(u, n, turn) == Extract(SubSeq(u, 1, n), turn)

LEMMA Prefix ==
    ASSUME NEW S, NEW u \in Seq(S), NEW n \in Nat, n <= Len(u)
    PROVE  /\ SubSeq(u, 1, n) \in Seq(S) /\ Len(SubSeq(u, 1, n)) = n
           /\ \A i \in 1 .. n : SubSeq(u, 1, n)[i] = u[i]
OBVIOUS

LEMMA SofarFacts ==
    ASSUME NEW S, NEW u \in Seq(S), NEW turn
    PROVE  /\ Sofar(u, 0, turn) = Begun(turn)
           /\ \A n \in 1 .. Len(u) : Sofar(u, n, turn) = Extracted(Sofar(u, n - 1, turn), u[n])
           /\ Sofar(u, Len(u), turn) = Extract(u, turn)
<1>1. Sofar(u, 0, turn) = Begun(turn)
  <2>1. SubSeq(u, 1, 0) \in Seq(S) /\ Len(SubSeq(u, 1, 0)) = 0
    BY Prefix
  <2> QED BY <2>1, ExtractNothing DEF Sofar
<1>2. ASSUME NEW n \in 1 .. Len(u)
      PROVE  Sofar(u, n, turn) = Extracted(Sofar(u, n - 1, turn), u[n])
  <2> DEFINE a == SubSeq(u, 1, n - 1)
             b == SubSeq(u, 1, n)
  <2>1. n \in Nat /\ n - 1 \in Nat /\ n <= Len(u) /\ n - 1 <= Len(u)
    OBVIOUS
  <2>2. a \in Seq(S) /\ Len(a) = n - 1 /\ \A i \in 1 .. n - 1 : a[i] = u[i]
    BY <2>1, Prefix
  <2>3. b \in Seq(S) /\ Len(b) = n /\ \A i \in 1 .. n : b[i] = u[i]
    BY <2>1, Prefix
  <2> HIDE DEF a, b
  <2>4. Len(b) = Len(a) + 1 /\ \A i \in 1 .. Len(a) : b[i] = a[i]
    BY <2>1, <2>2, <2>3
  <2>5. Extract(b, turn) = Extracted(Extract(a, turn), b[Len(b)])
    BY <2>2, <2>3, <2>4, ExtractSteps
  <2>6. b[Len(b)] = u[n]
    BY <2>1, <2>3
  <2> QED BY <2>5, <2>6 DEF Sofar, a, b
<1>3. SubSeq(u, 1, Len(u)) = u
  OBVIOUS
<1> QED
  BY <1>1, <1>2, <1>3 DEF Sofar

\* The events of the transcript.
Seen == {Event("skill", "skill", t) : t \in Nat} \union
        {Event("tool", k, t) : k \in CheckIns \union Recording, t \in Nat}

LEMMA ExtractedFacts ==
    ASSUME NEW x, NEW k
    PROVE  /\ Extracted(x, k).events = x.events \o Leaves(k, x.turn)
           /\ Extracted(x, k).turn = IF k \in User THEN x.turn + 1 ELSE x.turn
           /\ Extracted(x, k) = [events |-> Extracted(x, k).events, turn |-> Extracted(x, k).turn]
BY DEF Extracted

LEMMA LeavesFacts ==
    ASSUME NEW k, NEW turn \in Nat
    PROVE  Leaves(k, turn) \in Seq(Seen)
<1>1. CASE k = "skill"
  <2>1. turn + 1 \in Nat
    OBVIOUS
  <2>2. Event("skill", "skill", turn + 1) \in Seen
    BY <2>1 DEF Seen
  <2>3. Leaves(k, turn) = <<Event("skill", "skill", turn + 1)>>
    BY <1>1 DEF Leaves, CheckIns, Recording
  <2> QED BY <2>2, <2>3
<1>2. CASE k \in CheckIns \union Recording
  <2>1. k # "skill"
    BY <1>2 DEF CheckIns, Recording
  <2>2. Event("tool", k, turn) \in Seen /\ Leaves(k, turn) = <<Event("tool", k, turn)>>
    BY <1>2, <2>1 DEF Leaves, Seen
  <2> QED BY <2>2
<1>3. CASE k # "skill" /\ k \notin CheckIns \union Recording
  BY <1>3 DEF Leaves
<1> QED BY <1>1, <1>2, <1>3

LEMMA SofarType ==
    ASSUME NEW S, NEW u \in Seq(S), NEW turn \in Nat, NEW n \in Nat, n <= Len(u)
    PROVE  /\ Sofar(u, n, turn).events \in Seq(Seen) /\ Sofar(u, n, turn).turn \in Nat
           /\ Sofar(u, n, turn) = [events |-> Sofar(u, n, turn).events, turn |-> Sofar(u, n, turn).turn]
<1> DEFINE Good(m) == /\ Sofar(u, m, turn).events \in Seq(Seen) /\ Sofar(u, m, turn).turn \in Nat
                      /\ Sofar(u, m, turn) = [events |-> Sofar(u, m, turn).events, turn |-> Sofar(u, m, turn).turn]
           T == {m \in Nat : m <= Len(u) /\ ~Good(m)}
<1>1. Good(0)
  <2>1. Sofar(u, 0, turn) = [events |-> <<>>, turn |-> turn]
    BY SofarFacts DEF Begun
  <2> DEFINE x == Sofar(u, 0, turn)
  <2>2. x = [events |-> <<>>, turn |-> turn]
    BY <2>1
  <2> HIDE DEF x
  <2>3. <<>> \in Seq(Seen)
    OBVIOUS
  <2>4. x.events = <<>> /\ x.turn = turn
    BY <2>2
  <2>5. x = [events |-> x.events, turn |-> x.turn]
    BY <2>2, <2>4
  <2> QED BY <2>3, <2>4, <2>5 DEF x
<1>2. ASSUME NEW x \in T, x \in Nat \ {0}, x - 1 \in Nat, x - 1 \notin T PROVE FALSE
  <2> DEFINE before == Sofar(u, x - 1, turn)
  <2>1. Good(x - 1) /\ x \in 1 .. Len(u)
    BY <1>2
  <2>2. before.events \in Seq(Seen) /\ before.turn \in Nat
    BY <2>1
  <2>3. Sofar(u, x, turn) = Extracted(before, u[x])
    BY <2>1, SofarFacts
  <2> HIDE DEF before
  <2>4. Leaves(u[x], before.turn) \in Seq(Seen)
    BY <2>2, LeavesFacts
  <2>5. before.events \o Leaves(u[x], before.turn) \in Seq(Seen)
    BY <2>2, <2>4
  <2>6. Good(x)
    <3> DEFINE now == Extracted(before, u[x])
    <3>1. /\ now.events = before.events \o Leaves(u[x], before.turn)
          /\ now.turn = IF u[x] \in User THEN before.turn + 1 ELSE before.turn
          /\ now = [events |-> now.events, turn |-> now.turn]
      BY ExtractedFacts
    <3> HIDE DEF now
    <3>2. now.events \in Seq(Seen) /\ now.turn \in Nat
      BY <2>2, <2>5, <3>1
    <3>3. Sofar(u, x, turn) = now
      BY <2>3 DEF now
    <3> QED BY <3>1, <3>2, <3>3
  <2> QED BY <1>2, <2>6
<1>3. T = {}
  <2> HIDE DEF Good
  <2>1. T \subseteq Nat /\ 0 \notin T
    BY <1>1
  <2> HIDE DEF T
  <2> QED BY <1>2, <2>1, FirstFailure
<1> HIDE DEF Good
<1>4. Good(n)
  BY <1>3
<1> QED BY <1>4 DEF Good

LEMMA ExtractType ==
    ASSUME NEW S, NEW u \in Seq(S), NEW turn \in Nat
    PROVE  /\ Extract(u, turn).events \in Seq(Seen) /\ Extract(u, turn).turn \in Nat
           /\ Extract(u, turn) = [events |-> Extract(u, turn).events, turn |-> Extract(u, turn).turn]
<1>1. Len(u) \in Nat
  OBVIOUS
<1> QED BY <1>1, SofarFacts, SofarType

\* Sequences may be joined in any order.
Joined(a, b) == a \o b

LEMMA JoinedInAnyOrder ==
    ASSUME NEW S, NEW a \in Seq(S), NEW b \in Seq(S), NEW c \in Seq(S)
    PROVE  Joined(Joined(a, b), c) = Joined(a, Joined(b, c))
<1> DEFINE l == (a \o b) \o c
           r == a \o (b \o c)
           n == Len(a) + Len(b) + Len(c)
<1>1. /\ a \o b \in Seq(S) /\ Len(a \o b) = Len(a) + Len(b)
      /\ b \o c \in Seq(S) /\ Len(b \o c) = Len(b) + Len(c)
      /\ Len(a) \in Nat /\ Len(b) \in Nat /\ Len(c) \in Nat
  OBVIOUS
<1>2. l \in Seq(S) /\ Len(l) = n /\ r \in Seq(S) /\ Len(r) = n
  BY <1>1
<1>3. ASSUME NEW i \in 1 .. n PROVE l[i] = r[i]
  <2>1. CASE i \in 1 .. Len(a)
    BY <1>1, <2>1
  <2>2. CASE i - Len(a) \in 1 .. Len(b)
    BY <1>1, <2>2
  <2>3. CASE i - (Len(a) + Len(b)) \in 1 .. Len(c)
    BY <1>1, <2>3
  <2> QED BY <1>1, <2>1, <2>2, <2>3
<1> HIDE DEF l, r
<1>4. l = [i \in 1 .. n |-> l[i]] /\ r = [i \in 1 .. n |-> r[i]]
  BY <1>2
<1>5. l = r
  BY <1>3, <1>4
<1> QED
  BY <1>5 DEF l, r, Joined

\* What is read in two goes is what is read in one.
LEMMA ExtractTwice ==
    ASSUME NEW S, NEW u \in Seq(S), NEW v \in Seq(S), NEW turn \in Nat
    PROVE  LET one == Extract(u, turn)
               two == Extract(v, one.turn)
           IN  Extract(u \o v, turn) = [events |-> one.events \o two.events, turn |-> two.turn]
<1> DEFINE one == Extract(u, turn)
           w == u \o v
           Good(n) == Sofar(w, Len(u) + n, turn)
                        = [events |-> one.events \o Sofar(v, n, one.turn).events,
                           turn |-> Sofar(v, n, one.turn).turn]
           T == {n \in Nat : n <= Len(v) /\ ~Good(n)}
<1>1. /\ one.events \in Seq(Seen) /\ one.turn \in Nat
      /\ one = [events |-> one.events, turn |-> one.turn]
  BY ExtractType
<1>2. /\ w \in Seq(S) /\ Len(w) = Len(u) + Len(v) /\ Len(u) \in Nat /\ Len(v) \in Nat
      /\ \A i \in 1 .. Len(v) : w[Len(u) + i] = v[i]
      /\ SubSeq(w, 1, Len(u)) = u
  <2>1. /\ w \in Seq(S) /\ Len(w) = Len(u) + Len(v) /\ Len(u) \in Nat /\ Len(v) \in Nat
        /\ \A i \in 1 .. Len(v) : w[Len(u) + i] = v[i]
        /\ \A i \in 1 .. Len(u) : w[i] = u[i]
    OBVIOUS
  <2> HIDE DEF w
  <2>2. SubSeq(w, 1, Len(u)) = u
    BY <2>1
  <2> QED BY <2>1, <2>2
<1> HIDE DEF w, one
<1>3. Good(0)
  <2>1. Sofar(v, 0, one.turn) = Begun(one.turn)
    BY SofarFacts
  <2>2. Sofar(w, Len(u), turn) = one
    BY <1>2 DEF Sofar, one
  <2>3. one.events \o <<>> = one.events
    BY <1>1
  <2> QED BY <1>1, <1>2, <2>1, <2>2, <2>3 DEF Begun
<1>4. ASSUME NEW x \in T, x \in Nat \ {0}, x - 1 \in Nat, x - 1 \notin T PROVE FALSE
  <2> DEFINE before == Sofar(v, x - 1, one.turn)
  <2>1. Good(x - 1) /\ x \in 1 .. Len(v) /\ x - 1 <= Len(v)
    BY <1>4
  <2>2. before.events \in Seq(Seen) /\ before.turn \in Nat
    BY <1>1, <1>4, <2>1, SofarType
  <2>3. Sofar(v, x, one.turn) = Extracted(before, v[x])
    BY <2>1, SofarFacts
  <2>4. Sofar(w, Len(u) + x, turn) = Extracted(Sofar(w, Len(u) + (x - 1), turn), v[x])
    <3>1. Len(u) + x \in 1 .. Len(w) /\ (Len(u) + x) - 1 = Len(u) + (x - 1) /\ w[Len(u) + x] = v[x]
      BY <1>2, <2>1
    <3> DEFINE m == Len(u) + x
    <3> HIDE DEF m
    <3>2. m \in 1 .. Len(w) /\ m - 1 = Len(u) + (x - 1) /\ w[m] = v[x]
      BY <3>1 DEF m
    <3>3. Sofar(w, m, turn) = Extracted(Sofar(w, m - 1, turn), w[m])
      BY <1>2, <3>2, SofarFacts
    <3> QED BY <3>2, <3>3 DEF m
  <2>5. Sofar(w, Len(u) + (x - 1), turn) = [events |-> one.events \o before.events, turn |-> before.turn]
    BY <2>1
  <2> HIDE DEF before
  <2>6. Leaves(v[x], before.turn) \in Seq(Seen)
    BY <2>2, LeavesFacts
  <2>7. (one.events \o before.events) \o Leaves(v[x], before.turn)
          = one.events \o (before.events \o Leaves(v[x], before.turn))
    <3> DEFINE a == one.events
               b == before.events
               c == Leaves(v[x], before.turn)
    <3>1. a \in Seq(Seen) /\ b \in Seq(Seen) /\ c \in Seq(Seen)
      BY <1>1, <2>2, <2>6
    <3> HIDE DEF a, b, c
    <3>2. Joined(Joined(a, b), c) = Joined(a, Joined(b, c))
      BY <3>1, JoinedInAnyOrder
    <3> QED BY <3>2 DEF a, b, c, Joined
  <2>8. Extracted([events |-> one.events \o before.events, turn |-> before.turn], v[x])
          = [events |-> (one.events \o before.events) \o Leaves(v[x], before.turn),
             turn |-> Extracted(before, v[x]).turn]
    BY DEF Extracted
  <2>9. Good(x)
    BY <2>3, <2>4, <2>5, <2>7, <2>8, ExtractedFacts
  <2> QED BY <1>4, <2>9
<1>5. T = {}
  <2> HIDE DEF Good
  <2>1. T \subseteq Nat /\ 0 \notin T
    BY <1>3
  <2> HIDE DEF T
  <2> QED BY <1>4, <2>1, FirstFailure
<1>6. Good(Len(v))
  <2> HIDE DEF Good
  <2> QED BY <1>2, <1>5
<1>7. Sofar(w, Len(w), turn) = Extract(w, turn) /\ Sofar(v, Len(v), one.turn) = Extract(v, one.turn)
  BY <1>2, SofarFacts
<1> QED
  BY <1>2, <1>6, <1>7 DEF w, one

\* The hook's events do not tell what the sanitizer has replaced.
LEMMA ExtractAlike ==
    ASSUME NEW S, NEW u \in Seq(S), NEW v \in Seq(S), NEW turn, Len(u) = Len(v),
           \A i \in 1 .. Len(u) : u[i] = v[i] \/ (u[i] \in {"raw", "clean"} /\ v[i] \in {"raw", "clean"})
    PROVE  Extract(u, turn) = Extract(v, turn)
<1> DEFINE T == {n \in Nat : n <= Len(u) /\ Sofar(u, n, turn) # Sofar(v, n, turn)}
<1>1. 0 \notin T
  BY SofarFacts
<1>2. ASSUME NEW x \in T, x \in Nat \ {0}, x - 1 \in Nat, x - 1 \notin T PROVE FALSE
  <2>1. x \in 1 .. Len(u) /\ x \in 1 .. Len(v) /\ Sofar(u, x - 1, turn) = Sofar(v, x - 1, turn)
    BY <1>2
  <2>2. /\ Sofar(u, x, turn) = Extracted(Sofar(u, x - 1, turn), u[x])
        /\ Sofar(v, x, turn) = Extracted(Sofar(v, x - 1, turn), v[x])
    BY <2>1, SofarFacts
  <2>3. \A y : Extracted(y, u[x]) = Extracted(y, v[x])
    <3>1. u[x] = v[x] \/ (u[x] \in {"raw", "clean"} /\ v[x] \in {"raw", "clean"})
      BY <2>1
    <3>2. \A k \in {"raw", "clean"} : k # "skill" /\ k \notin User /\ k \notin CheckIns \cup Recording
      BY DEF User, CheckIns, Recording
    <3>3. \A k \in {"raw", "clean"} : \A y : Leaves(k, y.turn) = <<>>
      BY <3>2 DEF Leaves
    <3>4. \A k \in {"raw", "clean"} : \A y : Extracted(y, k) = [events |-> y.events \o <<>>, turn |-> y.turn]
      BY <3>2, <3>3 DEF Extracted
    <3> QED BY <3>1, <3>4
  <2> QED BY <1>2, <2>1, <2>2, <2>3
<1>3. T = {}
  <2>1. T \subseteq Nat
    OBVIOUS
  <2> HIDE DEF T
  <2> QED BY <1>1, <1>2, <2>1, FirstFailure
<1>4. Len(u) \in Nat /\ Sofar(u, Len(u), turn) = Sofar(v, Len(u), turn)
  BY <1>3
<1> QED
  BY <1>4, SofarFacts

--------------------------------------------------------------------------------
\* How often a name is among events.
LEMMA CountType ==
    ASSUME NEW S, NEW s \in Seq(S), NEW name
    PROVE  Count(s, name) \in Nat /\ IsFiniteSet({i \in DOMAIN s : s[i].name = name})
<1>1. {i \in DOMAIN s : s[i].name = name} \subseteq 1 .. Len(s) /\ Len(s) \in Nat
  OBVIOUS
<1>2. IsFiniteSet(1 .. Len(s))
  BY FS_Interval
<1> QED
  BY <1>1, <1>2, FS_Subset, FS_CardinalityType DEF Count

LEMMA CountJoined ==
    ASSUME NEW S, NEW s \in Seq(S), NEW t \in Seq(S), NEW name
    PROVE  Count(s \o t, name) = Count(s, name) + Count(t, name)
<1> DEFINE w == s \o t
           n == Len(s)
           A == {i \in DOMAIN s : s[i].name = name}
           B == {i \in DOMAIN t : t[i].name = name}
           C == {i \in DOMAIN w : w[i].name = name}
           D == {n + i : i \in B}
           f == [i \in B |-> n + i]
<1>1. /\ n \in Nat /\ Len(t) \in Nat /\ DOMAIN s = 1 .. n /\ DOMAIN t = 1 .. Len(t)
      /\ DOMAIN w = 1 .. n + Len(t)
      /\ \A i \in 1 .. n : w[i] = s[i]
      /\ \A i \in 1 .. Len(t) : w[n + i] = t[i]
  OBVIOUS
<1> HIDE DEF w, n
<1>2. B \subseteq Nat /\ IsFiniteSet(A) /\ IsFiniteSet(B)
  <2>1. IsFiniteSet(A)
    BY CountType
  <2>2. IsFiniteSet(B)
    BY CountType
  <2>3. B \subseteq Nat
    BY <1>1
  <2> QED BY <2>1, <2>2, <2>3
<1>3. f \in Bijection(B, D)
  <2>1. f \in [B -> D]
    OBVIOUS
  <2>2. \A i, j \in B : f[i] = f[j] => i = j
    BY <1>1, <1>2
  <2>3. \A d \in D : \E i \in B : f[i] = d
    OBVIOUS
  <2> HIDE DEF f, B, D
  <2> QED BY <2>1, <2>2, <2>3 DEF Bijection, Injection, Surjection, IsInjective
<1>4. IsFiniteSet(D) /\ Cardinality(D) = Cardinality(B)
  <2> HIDE DEF f, B, D
  <2> QED BY <1>2, <1>3, FS_Bijection DEF ExistsBijection
<1>5. A \intersect D = {}
  BY <1>1
<1>6. C = A \union D
  <2>1. ASSUME NEW i \in C PROVE i \in A \union D
    <3>1. CASE i \in 1 .. n
      BY <1>1, <2>1, <3>1
    <3>2. CASE i \notin 1 .. n
      <4>1. i - n \in 1 .. Len(t) /\ n + (i - n) = i
        BY <1>1, <2>1, <3>2
      <4>2. t[i - n].name = name
        BY <1>1, <2>1, <4>1
      <4> QED BY <1>1, <4>1, <4>2
    <3> QED BY <3>1, <3>2
  <2>2. A \subseteq C /\ D \subseteq C
    BY <1>1
  <2> QED BY <2>1, <2>2
<1>7. Cardinality(A) \in Nat /\ Cardinality(B) \in Nat
  BY <1>2, FS_CardinalityType
<1>8. Cardinality(C) = Cardinality(A) + Cardinality(B)
  <2>1. Cardinality(A \intersect D) = 0
    BY <1>5, FS_EmptySet
  <2> HIDE DEF A, B, C, D
  <2>2. Cardinality(A \union D) = Cardinality(A) + Cardinality(D) - Cardinality(A \intersect D)
    BY <1>2, <1>4, FS_Union
  <2> QED BY <1>4, <1>6, <1>7, <2>1, <2>2
<1> QED
  BY <1>8 DEF Count, w

\* What is there once is counted.
LEMMA CountOfNone ==
    ASSUME NEW S, NEW s \in Seq(S), NEW name
    PROVE  Count(s, name) = 0 <=> \A i \in DOMAIN s : s[i].name # name
<1> DEFINE A == {i \in DOMAIN s : s[i].name = name}
<1>1. IsFiniteSet(A)
  BY CountType
<1>2. Cardinality(A) = 0 <=> A = {}
  BY <1>1, FS_EmptySet
<1> QED
  BY <1>2 DEF Count

\* The names of the events do not depend on the turn the hook believes to be in.
LEMMA CountByName ==
    ASSUME NEW S, NEW u \in Seq(S), NEW t1 \in Nat, NEW t2 \in Nat, NEW name
    PROVE  Count(Extract(u, t1).events, name) = Count(Extract(u, t2).events, name)
<1> DEFINE T == {n \in Nat : n <= Len(u) /\ Count(Sofar(u, n, t1).events, name) # Count(Sofar(u, n, t2).events, name)}
<1>1. 0 \notin T
  BY SofarFacts DEF Begun
<1>2. ASSUME NEW x \in T, x \in Nat \ {0}, x - 1 \in Nat, x - 1 \notin T PROVE FALSE
  <2> DEFINE a == Sofar(u, x - 1, t1)
             b == Sofar(u, x - 1, t2)
  <2>1. x \in 1 .. Len(u) /\ x - 1 <= Len(u) /\ Count(a.events, name) = Count(b.events, name)
    BY <1>2
  <2>2. /\ a.events \in Seq(Seen) /\ a.turn \in Nat
        /\ b.events \in Seq(Seen) /\ b.turn \in Nat
    BY <1>2, <2>1, SofarType
  <2>3. Sofar(u, x, t1) = Extracted(a, u[x]) /\ Sofar(u, x, t2) = Extracted(b, u[x])
    BY <2>1, SofarFacts
  <2> HIDE DEF a, b
  <2>4. Leaves(u[x], a.turn) \in Seq(Seen) /\ Leaves(u[x], b.turn) \in Seq(Seen)
    BY <2>2, LeavesFacts
  <2>5. Count(Leaves(u[x], a.turn), name) = Count(Leaves(u[x], b.turn), name)
    <3> DEFINE p == Leaves(u[x], a.turn)
               q == Leaves(u[x], b.turn)
    <3>1. DOMAIN p = DOMAIN q /\ \A i \in DOMAIN p : p[i].name = q[i].name
      BY DEF Leaves, Event
    <3> HIDE DEF p, q
    <3>2. {i \in DOMAIN p : p[i].name = name} = {i \in DOMAIN q : q[i].name = name}
      BY <3>1
    <3> QED BY <3>2 DEF Count, p, q
  <2>6. /\ Count(Extracted(a, u[x]).events, name) = Count(a.events, name) + Count(Leaves(u[x], a.turn), name)
        /\ Count(Extracted(b, u[x]).events, name) = Count(b.events, name) + Count(Leaves(u[x], b.turn), name)
    <3>1. Extracted(a, u[x]).events = a.events \o Leaves(u[x], a.turn)
      BY ExtractedFacts
    <3>2. Extracted(b, u[x]).events = b.events \o Leaves(u[x], b.turn)
      BY ExtractedFacts
    <3>3. Count(a.events \o Leaves(u[x], a.turn), name) = Count(a.events, name) + Count(Leaves(u[x], a.turn), name)
      BY <2>2, <2>4, CountJoined
    <3>4. Count(b.events \o Leaves(u[x], b.turn), name) = Count(b.events, name) + Count(Leaves(u[x], b.turn), name)
      BY <2>2, <2>4, CountJoined
    <3> QED BY <3>1, <3>2, <3>3, <3>4
  <2>7. Count(Sofar(u, x, t1).events, name) = Count(Sofar(u, x, t2).events, name)
    BY <2>1, <2>3, <2>5, <2>6
  <2> QED BY <1>2, <2>7
<1>3. T = {}
  <2>1. T \subseteq Nat
    OBVIOUS
  <2> HIDE DEF T
  <2> QED BY <1>1, <1>2, <2>1, FirstFailure
<1>4. Len(u) \in Nat /\ Count(Sofar(u, Len(u), t1).events, name) = Count(Sofar(u, Len(u), t2).events, name)
  BY <1>3
<1> QED
  BY <1>4, SofarFacts

\* What has no event of a name has no entry of it.
LEMMA EntriesAreCounted ==
    ASSUME NEW S, NEW u \in Seq(S), NEW i \in 1 .. Len(u), u[i] \in CheckIns \union Recording
    PROVE  Count(Extract(u, 0).events, u[i]) # 0
<1> DEFINE k == u[i]
           T == {n \in Nat : n + i <= Len(u) /\ Count(Sofar(u, n + i, 0).events, k) = 0}
<1>1. ASSUME NEW n \in 1 .. Len(u)
      PROVE  /\ Count(Sofar(u, n, 0).events, k) \in Nat /\ Count(Sofar(u, n - 1, 0).events, k) \in Nat
             /\ Count(Sofar(u, n - 1, 0).events, k) <= Count(Sofar(u, n, 0).events, k)
             /\ n = i => Count(Sofar(u, n, 0).events, k) # 0
  <2> DEFINE before == Sofar(u, n - 1, 0)
  <2>1. Sofar(u, n, 0) = Extracted(before, u[n])
    BY SofarFacts
  <2>2. before.events \in Seq(Seen) /\ before.turn \in Nat
    <3>1. n - 1 \in Nat /\ n - 1 <= Len(u) /\ 0 \in Nat
      OBVIOUS
    <3> QED BY <3>1, SofarType
  <2> HIDE DEF before
  <2>3. Leaves(u[n], before.turn) \in Seq(Seen)
    BY <2>2, LeavesFacts
  <2>4. Count(Sofar(u, n, 0).events, k) = Count(before.events, k) + Count(Leaves(u[n], before.turn), k)
    <3>1. Extracted(before, u[n]).events = before.events \o Leaves(u[n], before.turn)
      BY ExtractedFacts
    <3>2. Count(before.events \o Leaves(u[n], before.turn), k)
            = Count(before.events, k) + Count(Leaves(u[n], before.turn), k)
      BY <2>2, <2>3, CountJoined
    <3> QED BY <2>1, <3>1, <3>2
  <2>5. Count(before.events, k) \in Nat /\ Count(Leaves(u[n], before.turn), k) \in Nat
    BY <2>2, <2>3, CountType
  <2>6. n = i => Count(Leaves(u[n], before.turn), k) # 0
    <3> SUFFICES ASSUME n = i PROVE Count(Leaves(u[n], before.turn), k) # 0
      OBVIOUS
    <3> DEFINE l == Leaves(u[n], before.turn)
    <3>1. u[n] = k /\ k \in CheckIns \union Recording /\ k # "skill"
      BY DEF CheckIns, Recording
    <3>2. l = <<Event("tool", k, before.turn)>>
      BY <3>1 DEF Leaves
    <3> HIDE DEF l
    <3>3. 1 \in DOMAIN l /\ l[1].name = k
      BY <3>2 DEF Event
    <3> QED BY <2>3, <3>3, CountOfNone DEF l
  <2> QED BY <2>4, <2>5, <2>6 DEF before
<1>2. 0 \notin T
  BY <1>1
<1>3. ASSUME NEW x \in T, x \in Nat \ {0}, x - 1 \in Nat, x - 1 \notin T PROVE FALSE
  <2> DEFINE m == x + i
  <2>1. m \in 1 .. Len(u) /\ m - 1 = (x - 1) + i /\ (x - 1) + i <= Len(u)
    BY <1>3
  <2>2. Count(Sofar(u, (x - 1) + i, 0).events, k) # 0
    BY <1>3, <2>1
  <2> HIDE DEF m
  <2>3. Count(Sofar(u, m, 0).events, k) # 0
    BY <1>1, <2>1, <2>2
  <2> QED BY <1>3, <2>3 DEF m
<1>4. T = {}
  <2>1. T \subseteq Nat
    OBVIOUS
  <2> HIDE DEF T
  <2> QED BY <1>2, <1>3, <2>1, FirstFailure
<1> DEFINE d == Len(u) - i
<1>5. d \in Nat /\ d + i = Len(u)
  OBVIOUS
<1> HIDE DEF d
<1>6. d + i <= Len(u)
  BY <1>5
<1>7. Count(Sofar(u, d + i, 0).events, k) # 0
  BY <1>4, <1>5, <1>6
<1> QED
  BY <1>5, <1>7, SofarFacts

--------------------------------------------------------------------------------
\* What the Stop hook has read up to an offset, as one reading would.
Heard(n) == Extract(SubSeq(talk, 1, n), 0)

Entries == Kinds \union {"other", "raw", "clean"}
Fields == {"events", "nudges", "offset", "turn", "blocks", "activity", "sanOffset", "fails"}
NudgeSet == [name : {"record", "follow", "sparse"}, used : BOOLEAN]
Waiting == {i \in DOMAIN kept.nudges : ~kept.nudges[i].used /\ kept.nudges[i].name = "record"}

FilesInv ==
    /\ talk \in Seq(Entries)
    /\ kept = [f \in Fields |-> kept[f]]
    /\ kept.events \in Seq(Seen)
    /\ kept.nudges \in Seq(NudgeSet)
    /\ kept.offset \in Nat /\ kept.turn \in Nat /\ kept.offset <= Len(talk)
    /\ kills \in Nat

\* Between its reads and its writes the Stop hook is alone with the transcript.
StopInv ==
    /\ phase = "append" =>
          /\ hook.to = Len(talk)
          /\ hook.new = Extract(SubSeq(talk, kept.offset + 1, Len(talk)), kept.turn).events
          /\ hook.turn = Extract(SubSeq(talk, kept.offset + 1, Len(talk)), kept.turn).turn
    /\ phase = "offset" => hook.to = Len(talk) /\ hook.turn \in Nat
    /\ phase \in {"turn", "judge"} => kept.offset = Len(talk) /\ hook.turn \in Nat

\* Nothing is forgotten, and without a kill nothing is there twice.
CountsInv ==
    /\ \A k \in CheckIns \union Recording : Count(Heard(kept.offset).events, k) <= Count(kept.events, k)
    /\ phase = "offset" =>
          \A k \in CheckIns \union Recording : Count(Heard(Len(talk)).events, k) <= Count(kept.events, k)

ExactInv ==
    kills = 0 =>
        /\ phase \in {"idle", "busy", "start", "append"} =>
              kept.events = Heard(kept.offset).events /\ kept.turn = Heard(kept.offset).turn
        /\ phase = "offset" =>
              kept.events = Heard(Len(talk)).events /\ hook.turn = Heard(Len(talk)).turn
        /\ phase \in {"turn", "judge"} =>
              kept.events = Heard(kept.offset).events /\ hook.turn = Heard(kept.offset).turn
        /\ phase = "judge" => kept.turn = hook.turn

\* A reminder that waits is about the last turns, and is the newest.
WaitingInv ==
    /\ kills = 0 =>
          \A i \in Waiting :
              /\ phase \in {"idle", "start"} /\ i = Len(kept.nudges)
              /\ phase = "idle" => /\ kept.offset = Len(talk)
                                   /\ ~Happened(kept.events, Recording, kept.turn - Interval)
    /\ phase = "start" /\ ~clear => kept.nudges = <<>>

SanFields == {"at", "read", "from", "fails", "late", "failed"}
SanInv ==
    /\ san = [f \in SanFields |-> san[f]]
    /\ san.at # "checked" => san.late = 0
    /\ san.at \in {"scanned", "checked"} =>
          phase = "start" /\ san.read \in Seq(Entries) /\ kept.offset <= Len(san.read)
    /\ san.at = "checked" =>
          /\ san.late \in Nat /\ Len(talk) = Len(san.read) + san.late
          /\ \A i \in 1 .. Len(san.read) : talk[i] = san.read[i]

HookInv == FilesInv /\ StopInv /\ CountsInv /\ ExactInv /\ WaitingInv /\ SanInv

LEMMA HookInitial ==
    HookInit => HookInv
<1> SUFFICES ASSUME HookInit PROVE HookInv
  OBVIOUS
<1>1. /\ talk = <<>> /\ phase = "idle" /\ kills = 0 /\ san.at = "off"
      /\ kept = Fresh
  BY DEF HookInit, NoSan
<1>2. /\ kept.events = <<>> /\ kept.nudges = <<>> /\ kept.offset = 0 /\ kept.turn = 0
      /\ kept = [f \in Fields |-> kept[f]]
  BY <1>1 DEF Fresh, Fields
<1>3. Heard(0) = Begun(0)
  <2>1. <<>> \in Seq(Entries) /\ SubSeq(talk, 1, 0) \in Seq(Entries) /\ Len(SubSeq(talk, 1, 0)) = 0
    BY <1>1
  <2> QED BY <2>1, ExtractNothing DEF Heard
<1>4. FilesInv /\ StopInv /\ SanInv
  BY <1>1, <1>2 DEF FilesInv, StopInv, SanInv, HookInit, NoSan, SanFields
<1>5. CountsInv
  <2>1. Heard(0).events = <<>>
    BY <1>3 DEF Begun
  <2>2. \A k : Count(<<>>, k) \in Nat
    <3>1. <<>> \in Seq(Seen)
      OBVIOUS
    <3> QED BY <3>1, CountType
  <2> QED BY <1>1, <1>2, <2>1, <2>2 DEF CountsInv
<1>6. ExactInv
  BY <1>1, <1>2, <1>3 DEF ExactInv, Begun
<1>7. WaitingInv
  BY <1>1, <1>2 DEF WaitingInv, Waiting
<1> QED
  BY <1>4, <1>5, <1>6, <1>7 DEF HookInv

\* Up to an offset the same is heard as long as nothing but what the sanitizer
\* replaces has changed there.
LEMMA HeardAlike ==
    ASSUME talk \in Seq(Entries), talk' \in Seq(Entries), NEW n \in Nat, n <= Len(talk), n <= Len(talk'),
           \A i \in 1 .. n : \/ talk[i] = talk'[i]
                             \/ talk[i] \in {"raw", "clean"} /\ talk'[i] \in {"raw", "clean"}
    PROVE  Extract(SubSeq(talk', 1, n), 0) = Heard(n)
<1> DEFINE u == SubSeq(talk, 1, n)
           v == SubSeq(talk', 1, n)
<1>1. u \in Seq(Entries) /\ Len(u) = n /\ \A i \in 1 .. n : u[i] = talk[i]
  BY Prefix
<1>2. v \in Seq(Entries) /\ Len(v) = n /\ \A i \in 1 .. n : v[i] = talk'[i]
  BY Prefix
<1> HIDE DEF u, v
<1>3. Extract(u, 0) = Extract(v, 0)
  BY <1>1, <1>2, ExtractAlike
<1> QED
  BY <1>3 DEF u, v, Heard

LEMMA HeardType ==
    ASSUME FilesInv, NEW n \in Nat, n <= Len(talk)
    PROVE  Heard(n).events \in Seq(Seen) /\ Heard(n).turn \in Nat
<1>1. SubSeq(talk, 1, n) \in Seq(Entries)
  BY Prefix DEF FilesInv
<1> QED
  BY <1>1, ExtractType DEF Heard

\* Reading on from the offset hears all.
LEMMA HeardOn ==
    ASSUME FilesInv, NEW turn \in Nat
    PROVE  LET new == Extract(SubSeq(talk, kept.offset + 1, Len(talk)), turn)
               rest == Extract(SubSeq(talk, kept.offset + 1, Len(talk)), Heard(kept.offset).turn)
           IN  /\ new.events \in Seq(Seen) /\ new.turn \in Nat
               /\ Heard(Len(talk)).events = Heard(kept.offset).events \o rest.events
               /\ Heard(Len(talk)).turn = rest.turn
               /\ \A k : /\ Count(Heard(Len(talk)).events, k) = Count(Heard(kept.offset).events, k) + Count(new.events, k)
                         /\ Count(Heard(kept.offset).events, k) \in Nat /\ Count(new.events, k) \in Nat
<1> DEFINE u == SubSeq(talk, 1, kept.offset)
           v == SubSeq(talk, kept.offset + 1, Len(talk))
           start == Heard(kept.offset).turn
<1>1. talk \in Seq(Entries) /\ kept.offset \in Nat /\ kept.offset <= Len(talk) /\ Len(talk) \in Nat
  BY DEF FilesInv
<1>2. u \in Seq(Entries) /\ v \in Seq(Entries)
  BY <1>1
<1>3. u \o v = SubSeq(talk, 1, Len(talk))
  <2>1. Len(u) = kept.offset /\ \A i \in 1 .. kept.offset : u[i] = talk[i]
    BY <1>1, Prefix
  <2>2. Len(v) = Len(talk) - kept.offset /\ \A i \in 1 .. Len(v) : v[i] = talk[kept.offset + i]
    BY <1>1
  <2>3. SubSeq(talk, 1, Len(talk)) = talk
    BY <1>1
  <2> HIDE DEF u, v
  <2> DEFINE w == u \o v
  <2>4. w \in Seq(Entries) /\ Len(w) = Len(u) + Len(v)
    BY <1>2
  <2>5. \A i \in 1 .. Len(u) : w[i] = u[i]
    BY <1>2
  <2>6. \A i \in 1 .. Len(v) : w[Len(u) + i] = v[i]
    BY <1>2
  <2> HIDE DEF w
  <2>7. ASSUME NEW i \in 1 .. Len(talk) PROVE w[i] = talk[i]
    <3>1. CASE i \in 1 .. kept.offset
      BY <2>1, <2>5, <3>1
    <3>2. CASE i \notin 1 .. kept.offset
      <4>1. i - kept.offset \in 1 .. Len(v) /\ kept.offset + (i - kept.offset) = i
        BY <1>1, <2>2, <3>2
      <4> QED BY <2>1, <2>2, <2>6, <4>1
    <3> QED BY <3>1, <3>2
  <2>8. Len(w) = Len(talk)
    BY <1>1, <2>1, <2>2, <2>4
  <2>9. w = talk
    BY <1>1, <2>4, <2>7, <2>8
  <2> QED BY <2>3, <2>9 DEF w
<1>4. start \in Nat /\ Heard(kept.offset) = Extract(u, 0) /\ Heard(kept.offset).events \in Seq(Seen)
  BY <1>1, HeardType DEF Heard
<1> HIDE DEF u, v, start
<1>5. Heard(Len(talk)) = [events |-> Heard(kept.offset).events \o Extract(v, start).events,
                          turn |-> Extract(v, start).turn]
  <2>1. Extract(u \o v, 0) = [events |-> Extract(u, 0).events \o Extract(v, Extract(u, 0).turn).events,
                              turn |-> Extract(v, Extract(u, 0).turn).turn]
    BY <1>2, ExtractTwice
  <2>2. Heard(Len(talk)) = Extract(u \o v, 0)
    BY <1>3 DEF Heard
  <2>3. Extract(u, 0).turn = start
    BY <1>4 DEF start
  <2> QED BY <1>4, <2>1, <2>2, <2>3
<1>6. /\ Extract(v, turn).events \in Seq(Seen) /\ Extract(v, turn).turn \in Nat
      /\ Extract(v, start).events \in Seq(Seen)
  BY <1>2, <1>4, ExtractType
<1>7. ASSUME NEW k
      PROVE  /\ Count(Heard(Len(talk)).events, k) = Count(Heard(kept.offset).events, k) + Count(Extract(v, turn).events, k)
             /\ Count(Heard(kept.offset).events, k) \in Nat /\ Count(Extract(v, turn).events, k) \in Nat
  <2>1. Count(Extract(v, turn).events, k) = Count(Extract(v, start).events, k)
    BY <1>2, <1>4, CountByName
  <2>2. Count(Heard(kept.offset).events \o Extract(v, start).events, k)
          = Count(Heard(kept.offset).events, k) + Count(Extract(v, start).events, k)
    BY <1>4, <1>6, CountJoined
  <2>3. Count(Heard(kept.offset).events, k) \in Nat /\ Count(Extract(v, turn).events, k) \in Nat
    BY <1>4, <1>6, CountType
  <2> QED BY <1>5, <2>1, <2>2, <2>3
<1> DEFINE new == Extract(v, turn)
           rest == Extract(v, start)
           all == Heard(Len(talk))
           old == Heard(kept.offset)
<1>8. new.events \in Seq(Seen) /\ new.turn \in Nat
  BY <1>6
<1>9. all.events = old.events \o rest.events /\ all.turn = rest.turn
  <2> DEFINE joined == old.events \o rest.events
  <2>1. all = [events |-> joined, turn |-> rest.turn]
    BY <1>5
  <2> HIDE DEF all, joined, rest
  <2>2. all.events = joined /\ all.turn = rest.turn
    BY <2>1
  <2> QED BY <2>2 DEF joined
<1>10. \A k : /\ Count(all.events, k) = Count(old.events, k) + Count(new.events, k)
              /\ Count(old.events, k) \in Nat /\ Count(new.events, k) \in Nat
  BY <1>7
<1> HIDE DEF all, old, new, rest
<1> QED
  BY <1>8, <1>9, <1>10 DEF v, start, all, old, new, rest

--------------------------------------------------------------------------------
\* What writing one of the files changes.
LEMMA KeepFacts ==
    ASSUME FilesInv, NEW f \in Fields, NEW v, Keep(f, v)
    PROVE  /\ kept' = [g \in Fields |-> kept'[g]]
           /\ kept'[f] = v
           /\ \A g \in Fields \ {f} : kept'[g] = kept[g]
<1>1. kept = [g \in Fields |-> kept[g]] /\ kept' = [kept EXCEPT ![f] = v]
  BY DEF FilesInv, Keep
<1>2. DOMAIN kept = Fields
  BY <1>1
<1>3. kept' = [g \in Fields |-> IF g = f THEN v ELSE kept[g]]
  BY <1>1, <1>2
<1> QED
  BY <1>3

\* The files that the invariant is about are as they were.
Untouched == \A g \in {"events", "offset", "turn"} : kept'[g] = kept[g]

\* Nothing but nudges, files that the invariant is not about, the step or the
\* sanitizer has changed, and the Stop hook has written all or was not there.
LEMMA NothingHeard ==
    ASSUME HookInv, talk' = talk, kills' = kills, Untouched, kept' = [g \in Fields |-> kept'[g]],
           kept'.nudges \in Seq(NudgeSet),
           phase \in {"idle", "busy", "start", "judge"}, phase' \in {"idle", "busy", "start"}
    PROVE  FilesInv' /\ StopInv' /\ CountsInv' /\ ExactInv'
<1>1. kept'.events = kept.events /\ kept'.offset = kept.offset /\ kept'.turn = kept.turn
  BY DEF Untouched
<1>2. FilesInv'
  BY <1>1 DEF HookInv, FilesInv
<1>3. StopInv'
  BY DEF StopInv
<1>4. CountsInv'
  BY <1>1 DEF HookInv, CountsInv, Heard
<1>5. ExactInv'
  BY <1>1 DEF HookInv, ExactInv, Heard
<1> QED
  BY <1>2, <1>3, <1>4, <1>5

\* Something was appended to the transcript while the Stop hook was away.
LEMMA MoreIsSaid ==
    ASSUME HookInv, NEW k \in Entries, talk' = Append(talk, k),
           kills' = kills \/ (kills' = kills + 1), kept'.events = kept.events,
           kept'.nudges \in Seq(NudgeSet),
           kept'.offset = kept.offset, kept'.turn = kept.turn, kept' = [g \in Fields |-> kept'[g]],
           phase \in {"idle", "busy", "start"}, phase' \in {"idle", "busy", "start"}
    PROVE  FilesInv' /\ StopInv' /\ CountsInv' /\ ExactInv'
<1>1. talk \in Seq(Entries) /\ kept.offset \in Nat /\ kept.offset <= Len(talk) /\ kills \in Nat
  BY DEF HookInv, FilesInv
<1>2. talk' \in Seq(Entries) /\ Len(talk') = Len(talk) + 1 /\ \A i \in 1 .. Len(talk) : talk'[i] = talk[i]
  BY <1>1
<1>3. FilesInv'
  BY <1>1, <1>2 DEF HookInv, FilesInv
<1>4. Extract(SubSeq(talk', 1, kept.offset), 0) = Heard(kept.offset)
  BY <1>1, <1>2, HeardAlike
<1>5. StopInv'
  BY DEF StopInv
<1>6. CountsInv'
  BY <1>4 DEF HookInv, CountsInv, Heard
<1>7. ExactInv'
  <2>1. kills' = 0 => kills = 0
    BY <1>1
  <2> QED BY <1>4, <2>1 DEF HookInv, ExactInv, Heard
<1> QED
  BY <1>3, <1>5, <1>6, <1>7

\* The last of the nudges that wait.
LEMMA ShownFacts ==
    ASSUME FilesInv, Unused # {}
    PROVE  Shown \in Unused /\ \A j \in Unused : j <= Shown
<1>1. /\ Len(kept.nudges) \in Nat /\ DOMAIN kept.nudges = 1 .. Len(kept.nudges)
  BY DEF FilesInv
<1> DEFINE n == Len(kept.nudges)
           T == {n - i : i \in Unused}
<1>2. Unused \subseteq 1 .. n
  BY <1>1 DEF Unused
<1>3. T \subseteq Nat /\ T # {}
  <2>1. \A i \in 1 .. n : n - i \in Nat
    BY <1>1
  <2> QED BY <1>2, <2>1
<1>4. PICK t \in T : \A s \in T : t <= s
  <2> HIDE DEF T
  <2> QED BY <1>3, LeastNumber
<1>5. PICK i \in Unused : t = n - i
  BY <1>4
<1>6. \A j \in Unused : n - i <= n - j
  BY <1>4, <1>5
<1>7. \A j \in Unused : j <= i
  BY <1>1, <1>2, <1>6
<1> QED
  BY <1>5, <1>7 DEF Shown

--------------------------------------------------------------------------------
LEMMA StopBeginStep ==
    ASSUME HookInv, StopBegin
    PROVE  HookInv'
<1>1. phase = "busy" /\ UNCHANGED <<talk, kills, san, clear, starts>>
  BY DEF StopBegin, Quiet
<1>2. CASE kept.blocks > 0
  <2>1. Keep("blocks", 0) /\ phase' = "idle"
    BY <1>2 DEF StopBegin
  <2>2. /\ Untouched /\ kept' = [g \in Fields |-> kept'[g]]
        /\ kept'.nudges = kept.nudges /\ kept.nudges \in Seq(NudgeSet)
    BY <2>1, KeepFacts DEF HookInv, FilesInv, Untouched, Fields
  <2>3. FilesInv' /\ StopInv' /\ CountsInv' /\ ExactInv'
    BY <1>1, <2>1, <2>2, NothingHeard
  <2>4. WaitingInv'
    BY <1>1, <2>1, <2>2 DEF HookInv, WaitingInv, Waiting, Untouched
  <2>5. SanInv'
    BY <1>1, <2>1, <2>2 DEF HookInv, SanInv
  <2> QED BY <2>3, <2>4, <2>5 DEF HookInv
<1>3. CASE ~(kept.blocks > 0)
  <2> DEFINE found == Extract(SubSeq(talk, kept.offset + 1, Len(talk)), kept.turn)
  <2>1. ~(kept.offset > Len(talk)) /\ kept.turn \in Nat
    BY DEF HookInv, FilesInv
  <2>2. /\ hook' = [new |-> found.events, to |-> Len(talk), turn |-> found.turn]
        /\ kept' = kept /\ phase' = "append"
    BY <1>3, <2>1 DEF StopBegin
  <2>3. hook'.new = found.events /\ hook'.to = Len(talk) /\ hook'.turn = found.turn
    BY <2>2
  <2> HIDE DEF found
  <2>4. FilesInv'
    BY <1>1, <2>2 DEF HookInv, FilesInv
  <2>5. StopInv'
    BY <1>1, <2>2, <2>3 DEF StopInv, found
  <2>6. CountsInv' /\ ExactInv'
    BY <1>1, <2>2 DEF HookInv, CountsInv, ExactInv, Heard
  <2>7. WaitingInv' /\ SanInv'
    BY <1>1, <2>2 DEF HookInv, WaitingInv, SanInv, Waiting
  <2> QED BY <2>4, <2>5, <2>6, <2>7 DEF HookInv
<1> QED
  BY <1>2, <1>3

LEMMA StopAppendStep ==
    ASSUME HookInv, StopAppend
    PROVE  HookInv'
<1> DEFINE new == Extract(SubSeq(talk, kept.offset + 1, Len(talk)), kept.turn)
           rest == Extract(SubSeq(talk, kept.offset + 1, Len(talk)), Heard(kept.offset).turn)
<1>1. /\ phase = "append" /\ phase' = "offset" /\ Keep("events", kept.events \o hook.new)
      /\ UNCHANGED <<talk, hook, kills, san, clear, starts>>
  BY DEF StopAppend, Quiet
<1>2. hook.to = Len(talk) /\ hook.new = new.events /\ hook.turn = new.turn
  BY <1>1 DEF HookInv, StopInv
<1>3. FilesInv /\ kept.turn \in Nat /\ kept.events \in Seq(Seen) /\ talk \in Seq(Entries)
  BY DEF HookInv, FilesInv
<1>4. /\ new.events \in Seq(Seen) /\ new.turn \in Nat
      /\ Heard(Len(talk)).events = Heard(kept.offset).events \o rest.events
      /\ Heard(Len(talk)).turn = rest.turn
      /\ \A k : /\ Count(Heard(Len(talk)).events, k) = Count(Heard(kept.offset).events, k) + Count(new.events, k)
                /\ Count(Heard(kept.offset).events, k) \in Nat /\ Count(new.events, k) \in Nat
  BY <1>3, HeardOn
<1>5. kills = 0 => kept.events = Heard(kept.offset).events /\ rest = new
  BY <1>1 DEF HookInv, ExactInv
<1> HIDE DEF new, rest
<1>6. /\ kept'.events = kept.events \o new.events
      /\ kept'.nudges = kept.nudges /\ kept'.offset = kept.offset /\ kept'.turn = kept.turn
      /\ kept' = [g \in Fields |-> kept'[g]]
  BY <1>1, <1>2, <1>3, KeepFacts DEF Fields
<1>7. kept.events \o new.events \in Seq(Seen)
  BY <1>3, <1>4
<1>8. FilesInv'
  BY <1>1, <1>6, <1>7 DEF HookInv, FilesInv
<1>9. StopInv'
  BY <1>1, <1>2, <1>4 DEF StopInv
<1>10. \A k : /\ Count(kept.events \o new.events, k) = Count(kept.events, k) + Count(new.events, k)
              /\ Count(kept.events, k) \in Nat
  <2>1. \A k : Count(kept.events \o new.events, k) = Count(kept.events, k) + Count(new.events, k)
    BY <1>3, <1>4, CountJoined
  <2>2. \A k : Count(kept.events, k) \in Nat
    BY <1>3, CountType
  <2> QED BY <2>1, <2>2
<1>11. CountsInv'
  <2> SUFFICES ASSUME NEW k \in CheckIns \union Recording
               PROVE  /\ Count(Heard(kept.offset).events, k) <= Count(kept.events \o new.events, k)
                      /\ Count(Heard(Len(talk)).events, k) <= Count(kept.events \o new.events, k)
    BY <1>1, <1>6 DEF CountsInv, Heard
  <2>1. Count(Heard(kept.offset).events, k) <= Count(kept.events, k)
    BY DEF HookInv, CountsInv
  <2> QED BY <1>4, <1>10, <2>1
<1>12. ExactInv'
  BY <1>1, <1>2, <1>4, <1>5, <1>6 DEF ExactInv, Heard
<1>13. WaitingInv' /\ SanInv'
  BY <1>1, <1>6 DEF HookInv, WaitingInv, SanInv, Waiting
<1> QED
  BY <1>8, <1>9, <1>11, <1>12, <1>13 DEF HookInv

LEMMA StopOffsetStep ==
    ASSUME HookInv, StopOffset
    PROVE  HookInv'
<1>1. /\ phase = "offset" /\ phase' = "turn" /\ Keep("offset", hook.to)
      /\ UNCHANGED <<talk, hook, kills, san, clear, starts>>
  BY DEF StopOffset, Quiet
<1>2. hook.to = Len(talk) /\ hook.turn \in Nat /\ FilesInv /\ Len(talk) \in Nat
  BY <1>1 DEF HookInv, StopInv, FilesInv
<1>3. /\ kept'.offset = Len(talk)
      /\ kept'.events = kept.events /\ kept'.nudges = kept.nudges /\ kept'.turn = kept.turn
      /\ kept' = [g \in Fields |-> kept'[g]]
  BY <1>1, <1>2, KeepFacts DEF Fields
<1>4. FilesInv'
  BY <1>1, <1>2, <1>3 DEF FilesInv
<1>5. StopInv'
  BY <1>1, <1>2, <1>3 DEF StopInv
<1>6. CountsInv' /\ ExactInv'
  BY <1>1, <1>2, <1>3 DEF HookInv, CountsInv, ExactInv, Heard
<1>7. WaitingInv'
  BY <1>1, <1>3 DEF HookInv, WaitingInv, Waiting
<1>8. SanInv'
  BY <1>1 DEF HookInv, SanInv
<1> QED
  BY <1>4, <1>5, <1>6, <1>7, <1>8 DEF HookInv

LEMMA StopTurnStep ==
    ASSUME HookInv, StopTurn
    PROVE  HookInv'
<1>1. /\ phase = "turn" /\ phase' = "judge" /\ Keep("turn", hook.turn)
      /\ UNCHANGED <<talk, hook, kills, san, clear, starts>>
  BY DEF StopTurn, Quiet
<1>2. kept.offset = Len(talk) /\ hook.turn \in Nat /\ FilesInv
  BY <1>1 DEF HookInv, StopInv
<1>3. /\ kept'.turn = hook.turn
      /\ kept'.events = kept.events /\ kept'.nudges = kept.nudges /\ kept'.offset = kept.offset
      /\ kept' = [g \in Fields |-> kept'[g]]
  BY <1>1, <1>2, KeepFacts DEF Fields
<1>4. FilesInv'
  BY <1>1, <1>2, <1>3 DEF FilesInv
<1>5. StopInv'
  BY <1>1, <1>2, <1>3 DEF StopInv
<1>6. CountsInv' /\ ExactInv'
  BY <1>1, <1>2, <1>3 DEF HookInv, CountsInv, ExactInv, Heard
<1>7. WaitingInv'
  BY <1>1, <1>3 DEF HookInv, WaitingInv, Waiting
<1>8. SanInv'
  BY <1>1 DEF HookInv, SanInv
<1> QED
  BY <1>4, <1>5, <1>6, <1>7, <1>8 DEF HookInv

\* A reminder that a record is missing is the only nudge of its turn, and true.
LEMMA NudgesFacts ==
    ASSUME HooksAssumption, NEW events \in Seq(Seen), NEW turn \in Nat, NEW sparse \in BOOLEAN
    PROVE  /\ Nudges(events, turn, sparse) \in Seq(NudgeSet)
           /\ (\E i \in DOMAIN Nudges(events, turn, sparse) : Nudges(events, turn, sparse)[i].name = "record")
                 => Len(Nudges(events, turn, sparse)) = 1 /\ ~Happened(events, Recording, turn - Interval)
<1> DEFINE now == {i \in DOMAIN events : events[i].turn = turn /\ events[i].e = "tool"}
           decided == \E i \in now : events[i].name = "decide"
           alone == \A i \in now : events[i].name = "decide"
           missing == turn > 0 /\ turn % Interval = 0 /\ ~Happened(events, Recording, turn - Interval)
           a == IF missing THEN <<Nudge("record")>> ELSE <<>>
           b == IF decided /\ alone THEN <<Nudge("follow")>> ELSE <<>>
           c == IF decided /\ sparse THEN <<Nudge("sparse")>> ELSE <<>>
           all == a \o b \o c
<1>1. Nudges(events, turn, sparse) = all
  BY DEF Nudges
<1>2. Interval \in Nat \ {0}
  BY DEF HooksAssumption
<1>3. decided => Happened(events, Recording, turn - Interval)
  <2> SUFFICES ASSUME decided PROVE Happened(events, Recording, turn - Interval)
    OBVIOUS
  <2>1. PICK i \in DOMAIN events : events[i].turn = turn /\ events[i].e = "tool" /\ events[i].name = "decide"
    OBVIOUS
  <2>2. turn > turn - Interval
    BY <1>2
  <2> QED BY <2>1, <2>2 DEF Happened, Recording
<1>4. /\ Nudge("record") \in NudgeSet /\ Nudge("record").name = "record"
      /\ Nudge("follow") \in NudgeSet /\ Nudge("follow").name = "follow"
      /\ Nudge("sparse") \in NudgeSet /\ Nudge("sparse").name = "sparse"
  BY DEF Nudge, NudgeSet
<1>5. missing => ~decided /\ ~Happened(events, Recording, turn - Interval)
  BY <1>3
<1> HIDE DEF missing, decided, alone
<1>6. CASE missing
  <2>1. a = <<Nudge("record")>> /\ b = <<>> /\ c = <<>>
    BY <1>5, <1>6
  <2>2. all = <<Nudge("record")>>
    <3> DEFINE x == <<Nudge("record")>>
    <3>1. x \in Seq(NudgeSet)
      BY <1>4
    <3> HIDE DEF x
    <3>2. x \o <<>> = x
      BY <3>1
    <3>3. a = x /\ b = <<>> /\ c = <<>>
      BY <2>1 DEF x
    <3> HIDE DEF a, b, c
    <3>4. a \o b = x
      BY <3>2, <3>3
    <3> QED BY <3>2, <3>3, <3>4 DEF x
  <2> HIDE DEF all
  <2>3. all \in Seq(NudgeSet) /\ Len(all) = 1
    BY <1>4, <2>2
  <2> QED BY <1>1, <1>5, <1>6, <2>3
<1>7. CASE ~missing
  <2>1. a = <<>>
    BY <1>7
  <2> DEFINE Quietly == {Nudge("follow"), Nudge("sparse")}
  <2>2. b \in Seq(Quietly) /\ c \in Seq(Quietly) /\ a \in Seq(Quietly)
    <3>1. <<>> \in Seq(Quietly) /\ <<Nudge("follow")>> \in Seq(Quietly) /\ <<Nudge("sparse")>> \in Seq(Quietly)
      OBVIOUS
    <3> HIDE DEF Quietly
    <3> QED BY <2>1, <3>1
  <2> HIDE DEF a, b, c, Quietly
  <2>3. all \in Seq(Quietly)
    BY <2>2
  <2> HIDE DEF all
  <2>4. all \in Seq(NudgeSet) /\ \A i \in DOMAIN all : all[i].name # "record"
    BY <1>4, <2>3 DEF Quietly
  <2> QED BY <1>1, <2>4
<1> QED
  BY <1>6, <1>7

LEMMA StopJudgeStep ==
    ASSUME HooksAssumption, HookInv, StopJudge
    PROVE  HookInv'
<1>1. phase = "judge" /\ hook' = NoHook /\ UNCHANGED <<talk, kills, san, clear, starts>>
  BY DEF StopJudge, Quiet
<1>2. /\ kept.offset = Len(talk) /\ hook.turn \in Nat /\ FilesInv
      /\ kept.events \in Seq(Seen) /\ kept.nudges \in Seq(NudgeSet) /\ kept = [f \in Fields |-> kept[f]]
  BY <1>1 DEF HookInv, StopInv, FilesInv
<1>3. kills = 0 => kept.turn = hook.turn /\ \A i \in Waiting : FALSE
  BY <1>1 DEF HookInv, ExactInv, WaitingInv
<1>4. ASSUME NEW v, NEW p \in {"idle", "busy"}, Keep("blocks", v), phase' = p PROVE HookInv'
  <2>1. Untouched /\ kept'.nudges = kept.nudges /\ kept' = [g \in Fields |-> kept'[g]]
    BY <1>2, <1>4, KeepFacts DEF Untouched, Fields
  <2>2. FilesInv' /\ StopInv' /\ CountsInv' /\ ExactInv'
    BY <1>1, <1>2, <1>4, <2>1, NothingHeard
  <2>3. WaitingInv'
    BY <1>1, <1>3, <1>4, <2>1 DEF WaitingInv, Waiting
  <2>4. SanInv'
    BY <1>1 DEF HookInv, SanInv
  <2> QED BY <2>2, <2>3, <2>4 DEF HookInv
<1>5. ASSUME NEW n \in Seq(NudgeSet), Approve(n),
             kills = 0 => ((\E i \in DOMAIN n : n[i].name = "record")
                              => Len(n) = 1 /\ ~Happened(kept.events, Recording, kept.turn - Interval))
      PROVE  HookInv'
  <2>1. kept' = [kept EXCEPT !.blocks = 0, !.activity = CheckedIn, !.nudges = @ \o n] /\ phase' = "idle"
    BY <1>5 DEF Approve
  <2>2. kept' = [g \in Fields |-> IF g = "blocks" THEN 0 ELSE IF g = "activity" THEN CheckedIn
                                  ELSE IF g = "nudges" THEN kept.nudges \o n ELSE kept[g]]
    BY <1>2, <2>1 DEF Fields
  <2>3. kept.nudges \o n \in Seq(NudgeSet)
    BY <1>2
  <2>4. Untouched /\ kept'.nudges = kept.nudges \o n /\ kept' = [g \in Fields |-> kept'[g]]
    BY <2>2 DEF Untouched, Fields
  <2>5. FilesInv' /\ StopInv' /\ CountsInv' /\ ExactInv'
    BY <1>1, <2>1, <2>3, <2>4, NothingHeard
  <2>6. WaitingInv'
    <3> SUFFICES ASSUME kills = 0, NEW i \in Waiting'
                 PROVE  /\ i = Len(kept'.nudges) /\ kept'.offset = Len(talk)
                        /\ ~Happened(kept'.events, Recording, kept'.turn - Interval)
      BY <1>1, <2>1 DEF WaitingInv
    <3> DEFINE w == kept.nudges \o n
               l == Len(kept.nudges)
    <3>1. /\ l \in Nat /\ Len(n) \in Nat /\ DOMAIN w = 1 .. l + Len(n)
          /\ \A j \in 1 .. l : w[j] = kept.nudges[j]
          /\ \A j \in 1 .. Len(n) : w[l + j] = n[j]
          /\ DOMAIN kept.nudges = 1 .. l /\ DOMAIN n = 1 .. Len(n) /\ Len(w) = l + Len(n)
      BY <1>2
    <3> HIDE DEF w
    <3>2. i \in DOMAIN w /\ w[i].name = "record" /\ ~w[i].used
      BY <2>4 DEF Waiting, w
    <3>3. ~(i \in 1 .. l)
      <4>1. i \in 1 .. l => i \in Waiting
        BY <3>1, <3>2 DEF Waiting
      <4> QED BY <1>3, <4>1
    <3> HIDE DEF l
    <3>4. i - l \in 1 .. Len(n) /\ n[i - l].name = "record" /\ i = l + (i - l)
      <4>1. i - l \in 1 .. Len(n) /\ l + (i - l) = i
        BY <3>1, <3>2, <3>3
      <4>2. w[l + (i - l)] = n[i - l]
        BY <3>1, <4>1
      <4> QED BY <3>2, <4>1, <4>2
    <3>5. Len(n) = 1 /\ ~Happened(kept.events, Recording, kept.turn - Interval)
      BY <1>5, <3>1, <3>4
    <3>6. i = Len(w)
      BY <3>1, <3>4, <3>5
    <3> QED BY <1>2, <2>4, <3>5, <3>6 DEF Untouched, w
  <2>7. SanInv'
    BY <1>1 DEF HookInv, SanInv
  <2> QED BY <2>5, <2>6, <2>7 DEF HookInv
<1>6. CASE InSkillSpan(kept.events, hook.turn)
  BY <1>4, <1>6 DEF StopJudge
<1> DEFINE mustCheckIn == ~Happened(kept.events, CheckIns, -1) /\ CheckedIn # "managed"
<1>7. CASE ~InSkillSpan(kept.events, hook.turn) /\ mustCheckIn /\ hook.turn = Defer
  <2>1. Keep("blocks", kept.blocks + 1) /\ phase' = "busy"
    BY <1>7 DEF StopJudge
  <2> QED BY <1>4, <2>1
<1>8. CASE ~InSkillSpan(kept.events, hook.turn) /\ ~(mustCheckIn /\ hook.turn = Defer)
  <2>1. CASE CheckedIn = "managed"
    <3>1. Approve(<<>>)
      BY <1>8, <2>1 DEF StopJudge
    <3>2. <<>> \in Seq(NudgeSet) /\ DOMAIN <<>> = {}
      OBVIOUS
    <3> QED BY <1>5, <3>1, <3>2
  <2>2. CASE CheckedIn # "managed"
    <3>1. PICK sparse \in BOOLEAN : Approve(Nudges(kept.events, hook.turn, sparse))
      BY <1>8, <2>2 DEF StopJudge
    <3> DEFINE n == Nudges(kept.events, hook.turn, sparse)
    <3>2. /\ n \in Seq(NudgeSet)
          /\ (\E i \in DOMAIN n : n[i].name = "record")
                => Len(n) = 1 /\ ~Happened(kept.events, Recording, hook.turn - Interval)
      BY <1>2, NudgesFacts
    <3> HIDE DEF n
    <3> QED BY <1>3, <1>5, <3>1, <3>2 DEF n
  <2> QED BY <2>1, <2>2
<1> QED
  BY <1>6, <1>7, <1>8

LEMMA KillStep ==
    ASSUME HookInv, Kill
    PROVE  HookInv'
<1>1. /\ phase \in {"append", "offset", "turn", "judge"} /\ phase' = "idle"
      /\ kills' = kills + 1 /\ UNCHANGED <<talk, kept, san, clear, starts>>
  BY DEF Kill, Quiet
<1>2. kills' \in Nat /\ kills' # 0
  BY <1>1 DEF HookInv, FilesInv
<1>3. FilesInv' /\ StopInv'
  BY <1>1, <1>2 DEF HookInv, FilesInv, StopInv
<1>4. CountsInv' /\ ExactInv'
  BY <1>1, <1>2 DEF HookInv, CountsInv, ExactInv, Heard
<1>5. WaitingInv' /\ SanInv'
  BY <1>1, <1>2 DEF HookInv, WaitingInv, SanInv
<1> QED
  BY <1>3, <1>4, <1>5 DEF HookInv

LEMMA InterruptStep ==
    ASSUME HookInv, Interrupt
    PROVE  HookInv'
<1>1. phase = "busy" /\ phase' = "idle" /\ UNCHANGED <<talk, kept, hook, kills, san, clear, starts>>
  BY DEF Interrupt, Quiet
<1>2. FilesInv' /\ StopInv' /\ CountsInv' /\ ExactInv'
  BY <1>1 DEF HookInv, FilesInv, StopInv, CountsInv, ExactInv, Heard
<1>3. WaitingInv' /\ SanInv'
  BY <1>1 DEF HookInv, WaitingInv, SanInv, Waiting
<1> QED
  BY <1>2, <1>3 DEF HookInv

LEMMA PromptStep ==
    ASSUME HookInv, NEW k \in Kinds, Prompt(k)
    PROVE  HookInv'
<1>1. /\ phase = "idle" /\ phase' = "busy" /\ talk' = Append(talk, k) /\ k \in Entries
      /\ UNCHANGED <<hook, san, clear, starts>>
  BY DEF Prompt, Quiet, Entries
<1>2. /\ FilesInv /\ kills \in Nat /\ kept.nudges \in Seq(NudgeSet)
      /\ kept = [f \in Fields |-> kept[f]]
  BY DEF HookInv, FilesInv
<1>3. SanInv'
  BY <1>1 DEF HookInv, SanInv
<1>4. CASE kept' = kept /\ (kills' = kills + 1 \/ (kills' = kills /\ Unused = {}))
  <2>1. FilesInv' /\ StopInv' /\ CountsInv' /\ ExactInv'
    BY <1>1, <1>2, <1>4, MoreIsSaid
  <2>2. WaitingInv'
    <3>1. kills' = 0 => Unused = {}
      BY <1>2, <1>4
    <3>2. Unused = {} => Waiting = {}
      BY DEF Unused, Waiting
    <3> QED BY <1>1, <1>4, <3>1, <3>2 DEF WaitingInv, Waiting
  <2> QED BY <1>3, <2>1, <2>2 DEF HookInv
<1>5. CASE kills' = kills /\ Unused # {} /\ Keep("nudges", Used)
  <2>1. Shown \in Unused /\ \A j \in Unused : j <= Shown
    BY <1>2, <1>5, ShownFacts
  <2>2. /\ kept'.nudges = Used
        /\ kept'.events = kept.events /\ kept'.offset = kept.offset /\ kept'.turn = kept.turn
        /\ kept' = [g \in Fields |-> kept'[g]]
    BY <1>2, <1>5, KeepFacts DEF Fields
  <2> DEFINE n == Len(kept.nudges)
  <2>3. n \in Nat /\ DOMAIN kept.nudges = 1 .. n /\ Shown \in 1 .. n
    BY <1>2, <2>1 DEF Unused
  <2>4. Used = [i \in 1 .. n |-> IF i = Shown THEN [kept.nudges[i] EXCEPT !.used = TRUE] ELSE kept.nudges[i]]
    BY <1>2, <2>3 DEF Used
  <2>5. \A i \in 1 .. n : kept.nudges[i] \in NudgeSet
    BY <1>2
  <2> HIDE DEF n
  <2>6. \A i \in 1 .. n : [kept.nudges[i] EXCEPT !.used = TRUE] \in NudgeSet /\ [kept.nudges[i] EXCEPT !.used = TRUE].used
    BY <2>5 DEF NudgeSet
  <2>7. Used \in [1 .. n -> NudgeSet] /\ DOMAIN Used = 1 .. n /\ Used[Shown].used
    BY <2>3, <2>4, <2>5, <2>6
  <2>8. Used \in Seq(NudgeSet)
    BY <2>3, <2>7
  <2>9. FilesInv' /\ StopInv' /\ CountsInv' /\ ExactInv'
    BY <1>1, <1>5, <2>2, <2>8, MoreIsSaid
  <2>10. WaitingInv'
    <3> SUFFICES ASSUME kills = 0, NEW i \in Waiting' PROVE FALSE
      BY <1>1, <1>5 DEF WaitingInv
    <3>1. i \in 1 .. n /\ ~Used[i].used /\ Used[i].name = "record"
      BY <2>2, <2>7 DEF Waiting
    <3>2. i # Shown /\ Used[i] = kept.nudges[i]
      BY <2>4, <2>7, <3>1
    <3>3. i \in Unused /\ i \in Waiting
      BY <2>3, <3>1, <3>2 DEF Unused, Waiting
    <3>4. i = n
      BY <3>3 DEF HookInv, WaitingInv, n
    <3>5. i <= Shown
      BY <2>1, <3>3
    <3> QED BY <2>3, <3>2, <3>4, <3>5
  <2> QED BY <1>3, <2>9, <2>10 DEF HookInv
<1> QED
  BY <1>4, <1>5 DEF Prompt

LEMMA WorkStep ==
    ASSUME HookInv, NEW k \in Kinds, Work(k)
    PROVE  HookInv'
<1>1. /\ phase = "busy" /\ phase' = "busy" /\ talk' = Append(talk, k) /\ k \in Entries
      /\ UNCHANGED <<kept, hook, kills, san, clear, starts>>
  BY DEF Work, Quiet, Entries
<1>2. kept.nudges \in Seq(NudgeSet) /\ kept = [f \in Fields |-> kept[f]]
  BY DEF HookInv, FilesInv
<1>3. FilesInv' /\ StopInv' /\ CountsInv' /\ ExactInv'
  BY <1>1, <1>2, MoreIsSaid
<1>4. WaitingInv' /\ SanInv'
  BY <1>1 DEF HookInv, WaitingInv, SanInv, Waiting
<1> QED
  BY <1>3, <1>4 DEF HookInv

--------------------------------------------------------------------------------
LEMMA AppendMeanwhileStep ==
    ASSUME HookInv, AppendMeanwhile
    PROVE  HookInv'
<1>1. /\ phase = "start" /\ phase' = "start" /\ talk' = Append(talk, "other") /\ "other" \in Entries
      /\ UNCHANGED <<kept, hook, kills, clear, starts>>
      /\ san' = IF san.at = "checked" THEN [san EXCEPT !.late = @ + 1] ELSE san
  BY DEF AppendMeanwhile, Entries
<1>2. /\ kept.nudges \in Seq(NudgeSet) /\ kept = [f \in Fields |-> kept[f]]
      /\ talk \in Seq(Entries) /\ kept.offset \in Nat
  BY DEF HookInv, FilesInv
<1>3. FilesInv' /\ StopInv' /\ CountsInv' /\ ExactInv'
  BY <1>1, <1>2, MoreIsSaid
<1>4. WaitingInv'
  BY <1>1 DEF HookInv, WaitingInv, Waiting
<1>5. Len(talk') = Len(talk) + 1 /\ \A i \in 1 .. Len(talk) : talk'[i] = talk[i]
  BY <1>1, <1>2
<1>6. SanInv'
  <2>1. CASE san.at = "checked"
    <3>1. /\ san.late \in Nat /\ Len(talk) = Len(san.read) + san.late /\ san.read \in Seq(Entries)
          /\ kept.offset <= Len(san.read)
          /\ \A i \in 1 .. Len(san.read) : talk[i] = san.read[i]
          /\ san = [f \in SanFields |-> san[f]]
      BY <2>1 DEF HookInv, SanInv
    <3>2. san' = [f \in SanFields |-> IF f = "late" THEN san.late + 1 ELSE san[f]]
      BY <1>1, <2>1, <3>1 DEF SanFields
    <3>3. /\ san'.at = "checked" /\ san'.read = san.read /\ san'.late = san.late + 1
          /\ san' = [f \in SanFields |-> san'[f]]
      BY <2>1, <3>2 DEF SanFields
    <3>4. Len(talk) \in Nat /\ Len(san.read) \in Nat /\ Len(san.read) <= Len(talk)
      BY <1>2, <3>1
    <3>5. \A i \in 1 .. Len(san.read) : talk'[i] = san.read[i]
      <4> SUFFICES ASSUME NEW i \in 1 .. Len(san.read) PROVE talk'[i] = san.read[i]
        OBVIOUS
      <4>1. i \in 1 .. Len(talk)
        BY <3>4
      <4> QED BY <4>1, <1>5, <3>1
    <3>6. san'.late \in Nat /\ Len(talk') = Len(san'.read) + san'.late
      BY <1>5, <3>1, <3>3, <3>4
    <3>7. phase' = "start" /\ san'.read \in Seq(Entries) /\ kept'.offset <= Len(san'.read)
      BY <1>1, <3>1, <3>3
    <3> QED BY <3>3, <3>5, <3>6, <3>7 DEF SanInv
  <2>2. CASE san.at # "checked"
    BY <1>1, <2>2 DEF HookInv, SanInv
  <2> QED BY <2>1, <2>2
<1> QED
  BY <1>3, <1>4, <1>6 DEF HookInv

LEMMA StartStep ==
    ASSUME HookInv, Start
    PROVE  HookInv'
<1>1. /\ phase = "idle" /\ phase' = "start" /\ clear' = TRUE /\ san' = [san EXCEPT !.at = "begin"]
      /\ UNCHANGED <<talk, kept, hook, kills>>
  BY DEF Start
<1>2. FilesInv' /\ StopInv' /\ CountsInv' /\ ExactInv'
  BY <1>1 DEF HookInv, FilesInv, StopInv, CountsInv, ExactInv, Heard
<1>3. WaitingInv'
  BY <1>1 DEF HookInv, WaitingInv, Waiting
<1>4. SanInv'
  <2>1. san = [f \in SanFields |-> san[f]] /\ san.at # "checked" /\ san.late = 0
    BY <1>1 DEF HookInv, SanInv
  <2>2. san' = [f \in SanFields |-> IF f = "at" THEN "begin" ELSE san[f]]
    BY <1>1, <2>1 DEF SanFields
  <2>3. san'.at = "begin" /\ san'.late = 0 /\ san' = [f \in SanFields |-> san'[f]]
    BY <2>1, <2>2 DEF SanFields
  <2> QED BY <2>3 DEF SanInv
<1> QED
  BY <1>2, <1>3, <1>4 DEF HookInv

LEMMA ClearStep ==
    ASSUME HookInv, Clear
    PROVE  HookInv'
<1>1. /\ phase = "start" /\ phase' = "start" /\ clear' = FALSE /\ kept' = Fresh
      /\ UNCHANGED <<talk, hook, san, starts, kills>>
  BY DEF Clear
<1>2. /\ kept'.events = <<>> /\ kept'.nudges = <<>> /\ kept'.offset = 0 /\ kept'.turn = 0
      /\ kept' = [f \in Fields |-> kept'[f]]
  BY <1>1 DEF Fresh, Fields
<1>3. talk \in Seq(Entries) /\ kills \in Nat /\ Len(talk) \in Nat
  BY DEF HookInv, FilesInv
<1>4. Heard(0) = [events |-> <<>>, turn |-> 0]
  <2>1. SubSeq(talk, 1, 0) \in Seq(Entries) /\ Len(SubSeq(talk, 1, 0)) = 0
    BY <1>3, Prefix
  <2> QED BY <2>1, ExtractNothing DEF Heard, Begun
<1>5. FilesInv'
  <2>1. <<>> \in Seq(Seen) /\ <<>> \in Seq(NudgeSet)
    OBVIOUS
  <2> QED BY <1>1, <1>2, <1>3, <2>1 DEF FilesInv
<1>6. StopInv'
  BY <1>1 DEF StopInv
<1>7. CountsInv'
  <2>1. \A k : Count(<<>>, k) \in Nat
    <3>1. <<>> \in Seq(Seen)
      OBVIOUS
    <3> QED BY <3>1, CountType
  <2>2. Heard(0).events = <<>>
    BY <1>4
  <2> QED BY <1>1, <1>2, <2>1, <2>2 DEF CountsInv, Heard
<1>8. ExactInv'
  <2>1. Heard(0).events = <<>> /\ Heard(0).turn = 0
    BY <1>4
  <2> QED BY <1>1, <1>2, <2>1 DEF ExactInv, Heard
<1>9. WaitingInv'
  BY <1>1, <1>2 DEF WaitingInv, Waiting
<1>10. SanInv'
  <2>1. san.at \in {"scanned", "checked"} => Len(san.read) \in Nat
    BY DEF HookInv, SanInv
  <2>2. san.at \in {"scanned", "checked"} => kept'.offset <= Len(san.read)
    BY <1>2, <2>1
  <2>3. SanInv
    BY DEF HookInv
  <2> QED BY <1>1, <2>2, <2>3 DEF SanInv
<1> QED
  BY <1>5, <1>6, <1>7, <1>8, <1>9, <1>10 DEF HookInv

LEMMA SanBeginStep ==
    ASSUME HookInv, SanBegin
    PROVE  HookInv'
<1>1. /\ phase = "start" /\ san.at = "begin" /\ UNCHANGED <<talk, kept, phase, hook, clear, starts, kills>>
      /\ \/ san' = [san EXCEPT !.at = "done"]
         \/ \E from : san' = [san EXCEPT !.at = "scanned", !.read = talk, !.fails = kept.fails, !.from = from]
  BY DEF SanBegin
<1>2. /\ san = [f \in SanFields |-> san[f]] /\ san.late = 0
      /\ talk \in Seq(Entries) /\ kept.offset <= Len(talk)
  BY <1>1 DEF HookInv, SanInv, FilesInv
<1>3. FilesInv' /\ StopInv' /\ CountsInv' /\ ExactInv' /\ WaitingInv'
  BY <1>1 DEF HookInv, FilesInv, StopInv, CountsInv, ExactInv, Heard, WaitingInv, Waiting
<1>4. CASE san' = [san EXCEPT !.at = "done"]
  <2>1. san' = [f \in SanFields |-> IF f = "at" THEN "done" ELSE san[f]]
    BY <1>2, <1>4 DEF SanFields
  <2> QED BY <1>2, <1>3, <2>1 DEF HookInv, SanInv, SanFields
<1>5. ASSUME NEW from, san' = [san EXCEPT !.at = "scanned", !.read = talk, !.fails = kept.fails, !.from = from]
      PROVE  HookInv'
  <2>1. san' = [f \in SanFields |-> IF f = "at" THEN "scanned" ELSE IF f = "read" THEN talk
                                    ELSE IF f = "fails" THEN kept.fails ELSE IF f = "from" THEN from ELSE san[f]]
    BY <1>2, <1>5 DEF SanFields
  <2>2. /\ san'.at = "scanned" /\ san'.read = talk /\ san'.late = 0
        /\ san' = [f \in SanFields |-> san'[f]]
    BY <1>2, <2>1 DEF SanFields
  <2> QED BY <1>1, <1>2, <1>3, <2>2 DEF HookInv, SanInv
<1> QED
  BY <1>1, <1>4, <1>5

LEMMA NoSanFacts ==
    /\ NoSan = [f \in SanFields |-> NoSan[f]] /\ DOMAIN NoSan = SanFields /\ NoSan.late = 0
BY DEF NoSan, SanFields

\* When the sanitizer is done, only its own two files have changed.
LEMMA DoneFacts ==
    ASSUME FilesInv, Succeed \/ Fail
    PROVE  /\ Untouched /\ kept'.nudges = kept.nudges /\ kept' = [g \in Fields |-> kept'[g]]
           /\ san'.at = "done" /\ san'.late = 0 /\ san' = [f \in SanFields |-> san'[f]]
<1>1. kept = [g \in Fields |-> kept[g]]
  BY DEF FilesInv
<1>2. CASE Succeed
  <2>1. kept' = [g \in Fields |-> IF g = "fails" THEN 0 ELSE IF g = "sanOffset" THEN Len(san.read) ELSE kept[g]]
    BY <1>1, <1>2 DEF Succeed, Fields
  <2>2. san' = [f \in SanFields |-> IF f = "at" THEN "done" ELSE NoSan[f]]
    BY <1>2, NoSanFacts DEF Succeed, SanFields
  <2> QED BY <2>1, <2>2, NoSanFacts DEF Untouched, Fields, SanFields
<1>3. CASE Fail
  <2>1. Untouched /\ kept'.nudges = kept.nudges /\ kept' = [g \in Fields |-> kept'[g]]
    BY <1>3, KeepFacts DEF Fail, Untouched, Fields
  <2>2. san' = [f \in SanFields |-> IF f = "at" THEN "done" ELSE IF f = "failed" THEN san.failed + 1 ELSE NoSan[f]]
    BY <1>3, NoSanFacts DEF Fail, SanFields
  <2> QED BY <2>1, <2>2, NoSanFacts DEF SanFields
<1> QED
  BY <1>2, <1>3

LEMMA SanCheckStep ==
    ASSUME HookInv, SanCheck
    PROVE  HookInv'
<1>1. /\ phase = "start" /\ san.at = "scanned" /\ UNCHANGED <<talk, phase, hook, clear, starts, kills>>
      /\ \/ Succeed
         \/ Fail
         \/ talk = san.read /\ san' = [san EXCEPT !.at = "checked"] /\ kept' = kept
  BY DEF SanCheck
<1>2. /\ san = [f \in SanFields |-> san[f]] /\ san.late = 0 /\ FilesInv
      /\ kept.nudges \in Seq(NudgeSet) /\ san.read \in Seq(Entries) /\ kept.offset <= Len(san.read)
  BY <1>1 DEF HookInv, SanInv, FilesInv
<1>3. CASE Succeed \/ Fail
  <2>1. /\ Untouched /\ kept'.nudges = kept.nudges /\ kept' = [g \in Fields |-> kept'[g]]
        /\ san'.at = "done" /\ san'.late = 0 /\ san' = [f \in SanFields |-> san'[f]]
    BY <1>2, <1>3, DoneFacts
  <2>2. FilesInv' /\ StopInv' /\ CountsInv' /\ ExactInv'
    BY <1>1, <1>2, <2>1, NothingHeard
  <2>3. WaitingInv' /\ SanInv'
    BY <1>1, <2>1 DEF HookInv, WaitingInv, Waiting, SanInv
  <2> QED BY <2>2, <2>3 DEF HookInv
<1>4. CASE talk = san.read /\ san' = [san EXCEPT !.at = "checked"] /\ kept' = kept
  <2>1. san' = [f \in SanFields |-> IF f = "at" THEN "checked" ELSE san[f]]
    BY <1>2, <1>4 DEF SanFields
  <2>2. san'.at = "checked" /\ san'.read = talk /\ san'.late = 0 /\ san' = [f \in SanFields |-> san'[f]]
    BY <1>2, <1>4, <2>1 DEF SanFields
  <2>3. FilesInv' /\ StopInv' /\ CountsInv' /\ ExactInv' /\ WaitingInv'
    BY <1>1, <1>4 DEF HookInv, FilesInv, StopInv, CountsInv, ExactInv, Heard, WaitingInv, Waiting
  <2>4. SanInv'
    BY <1>1, <1>2, <1>4, <2>2 DEF SanInv
  <2> QED BY <2>3, <2>4 DEF HookInv
<1> QED
  BY <1>1, <1>3, <1>4

LEMMA SanReplaceStep ==
    ASSUME HookInv, SanReplace
    PROVE  HookInv'
<1>1. /\ phase = "start" /\ san.at = "checked" /\ UNCHANGED <<phase, hook, clear, starts, kills>>
      /\ talk' = Sanitized(san.read, san.from) /\ Succeed
  BY DEF SanReplace
<1>2. /\ FilesInv /\ kills \in Nat
      /\ kept.nudges \in Seq(NudgeSet) /\ san.read \in Seq(Entries) /\ kept.offset <= Len(san.read)
      /\ kept.offset \in Nat /\ talk \in Seq(Entries) /\ kept.offset <= Len(talk)
      /\ \A i \in 1 .. Len(san.read) : talk[i] = san.read[i]
      /\ Len(talk) >= Len(san.read)
  <2>1. FilesInv /\ kills \in Nat /\ talk \in Seq(Entries) /\ kept.offset \in Nat
        /\ kept.nudges \in Seq(NudgeSet) /\ kept.offset <= Len(talk)
    BY DEF HookInv, FilesInv
  <2>2. san.read \in Seq(Entries) /\ kept.offset <= Len(san.read)
        /\ san.late \in Nat /\ Len(talk) = Len(san.read) + san.late
        /\ \A i \in 1 .. Len(san.read) : talk[i] = san.read[i]
    BY <1>1 DEF HookInv, SanInv
  <2>3. Len(talk) >= Len(san.read)
    BY <2>2
  <2> QED BY <2>1, <2>2, <2>3
<1>3. /\ Untouched /\ kept'.nudges = kept.nudges /\ kept' = [g \in Fields |-> kept'[g]]
      /\ san'.at = "done" /\ san'.late = 0 /\ san' = [f \in SanFields |-> san'[f]]
  BY <1>1, <1>2, DoneFacts
<1>4. /\ talk' \in Seq(Entries) /\ Len(talk') = Len(san.read)
      /\ \A i \in 1 .. Len(san.read) :
            \/ talk'[i] = san.read[i]
            \/ talk'[i] \in {"raw", "clean"} /\ san.read[i] \in {"raw", "clean"}
  <2> DEFINE n == Len(san.read)
  <2>1. n \in Nat /\ DOMAIN san.read = 1 .. n /\ \A i \in 1 .. n : san.read[i] \in Entries
    BY <1>2
  <2> HIDE DEF n
  <2>2. talk' = [i \in 1 .. n |-> IF i > san.from /\ san.read[i] = "raw" THEN "clean" ELSE san.read[i]]
    BY <1>1, <2>1 DEF Sanitized
  <2>3. talk' \in [1 .. n -> Entries]
    BY <2>1, <2>2 DEF Entries
  <2>4. talk' \in Seq(Entries) /\ Len(talk') = n
    BY <2>1, <2>3
  <2>5. \A i \in 1 .. n : \/ talk'[i] = san.read[i]
                          \/ talk'[i] \in {"raw", "clean"} /\ san.read[i] \in {"raw", "clean"}
    BY <2>2
  <2> QED BY <2>4, <2>5 DEF n
<1>5. Extract(SubSeq(talk', 1, kept.offset), 0) = Heard(kept.offset)
  <2>1. \A i \in 1 .. kept.offset : i \in 1 .. Len(san.read)
    BY <1>2
  <2>2. \A i \in 1 .. kept.offset : \/ talk[i] = talk'[i]
                                    \/ talk[i] \in {"raw", "clean"} /\ talk'[i] \in {"raw", "clean"}
    BY <1>2, <1>4, <2>1
  <2>3. kept.offset <= Len(talk')
    BY <1>2, <1>4
  <2> QED BY <1>2, <1>4, <2>2, <2>3, HeardAlike
<1>6. kept'.events = kept.events /\ kept'.offset = kept.offset /\ kept'.turn = kept.turn
  BY <1>3 DEF Untouched
<1>7. FilesInv'
  BY <1>1, <1>2, <1>3, <1>4, <1>6 DEF FilesInv
<1>8. StopInv'
  BY <1>1 DEF StopInv
<1>9. CountsInv' /\ ExactInv'
  BY <1>1, <1>5, <1>6 DEF HookInv, CountsInv, ExactInv, Heard
<1>10. WaitingInv' /\ SanInv'
  BY <1>1, <1>3, <1>6 DEF HookInv, WaitingInv, Waiting, SanInv
<1> QED
  BY <1>7, <1>8, <1>9, <1>10 DEF HookInv

LEMMA StartedStep ==
    ASSUME HookInv, Started
    PROVE  HookInv'
<1>1. /\ phase = "start" /\ ~clear /\ san.at = "done" /\ phase' = "idle"
      /\ UNCHANGED <<talk, kept, hook, san, clear, starts, kills>>
  BY DEF Started
<1>2. FilesInv' /\ StopInv' /\ CountsInv' /\ ExactInv'
  BY <1>1 DEF HookInv, FilesInv, StopInv, CountsInv, ExactInv, Heard
<1>3. Waiting = {}
  BY <1>1 DEF HookInv, WaitingInv, Waiting
<1>4. WaitingInv' /\ SanInv'
  BY <1>1, <1>3 DEF HookInv, WaitingInv, Waiting, SanInv
<1> QED
  BY <1>2, <1>4 DEF HookInv

LEMMA HookStep ==
    ASSUME HooksAssumption, HookInv, [HookNext]_hookVars
    PROVE  HookInv'
<1>1. CASE UNCHANGED hookVars
  <2>1. UNCHANGED <<talk, kept, phase, hook, san, clear, starts, kills>>
    BY <1>1 DEF hookVars
  <2> QED BY <2>1 DEF HookInv, FilesInv, StopInv, CountsInv, ExactInv, Heard, WaitingInv, Waiting, SanInv
<1>2. CASE StopBegin
  BY <1>2, StopBeginStep
<1>3. CASE StopAppend
  BY <1>3, StopAppendStep
<1>4. CASE StopOffset
  BY <1>4, StopOffsetStep
<1>5. CASE StopTurn
  BY <1>5, StopTurnStep
<1>6. CASE StopJudge
  BY <1>6, StopJudgeStep
<1>7. CASE Kill
  BY <1>7, KillStep
<1>8. CASE Interrupt
  BY <1>8, InterruptStep
<1>9. ASSUME NEW k \in Kinds, Prompt(k) PROVE HookInv'
  BY <1>9, PromptStep
<1>10. ASSUME NEW k \in Kinds, Work(k) PROVE HookInv'
  BY <1>10, WorkStep
<1>11. CASE AppendMeanwhile
  BY <1>11, AppendMeanwhileStep
<1>12. CASE Start
  BY <1>12, StartStep
<1>13. CASE Clear
  BY <1>13, ClearStep
<1>14. CASE SanBegin
  BY <1>14, SanBeginStep
<1>15. CASE SanCheck
  BY <1>15, SanCheckStep
<1>16. CASE SanReplace
  BY <1>16, SanReplaceStep
<1>17. CASE Started
  BY <1>17, StartedStep
<1> QED
  BY <1>1, <1>2, <1>3, <1>4, <1>5, <1>6, <1>7, <1>8, <1>9, <1>10, <1>11, <1>12, <1>13, <1>14,
     <1>15, <1>16, <1>17 DEF HookNext

LEMMA KeptByInv ==
    ASSUME HookInv
    PROVE  EventsKept
<1>1. kept.offset \in Nat /\ Len(talk) \in Nat /\ kept.offset <= Len(talk)
  BY DEF HookInv, FilesInv
<1> DEFINE m == IF kept.offset < Len(talk) THEN kept.offset ELSE Len(talk)
<1>2. m = kept.offset
  BY <1>1
<1> HIDE DEF m
<1>3. EventsKept <=> /\ \A k \in CheckIns \cup Recording :
                            Count(Heard(m).events, k) <= Count(kept.events, k)
                     /\ kills = 0 /\ phase \in {"idle", "busy"} =>
                            kept.events = Heard(m).events /\ kept.turn = Heard(m).turn
  BY DEF EventsKept, Heard, m
<1> QED
  BY <1>2, <1>3 DEF HookInv, CountsInv, ExactInv

\* For any limits, bounds and entries, whichever of its writes kills the Stop hook
\* and however the sanitizer rewrites the transcript: every check-in and recording
\* that was read is among the events, and while nothing was killed the events and
\* the turn are those of the transcript (hooks/stop_hook.py, main).
THEOREM EventsAlwaysKept ==
    ASSUME HooksAssumption
    PROVE  HookSpec => []EventsKept
<1>1. HookInit => HookInv
  BY HookInitial
<1>2. HookInv /\ [HookNext]_hookVars => HookInv'
  BY HookStep
<1>3. HookInv => EventsKept
  BY KeptByInv
<1> QED
  BY <1>1, <1>2, <1>3, PTL DEF HookSpec

--------------------------------------------------------------------------------
\* A check-in that was read is an event of a tool: the block is not for a session
\* that has checked in.
LEMMA BlockIsTrue ==
    ASSUME HookInv, [HookNext]_hookVars, phase = "judge", phase' = "busy"
    PROVE  \A i \in 1 .. kept.offset : talk[i] \notin CheckIns
<1>1. StopJudge
  BY DEF HookNext, hookVars, StopBegin, StopAppend, StopOffset, StopTurn, Kill, Interrupt, Prompt, Work,
         AppendMeanwhile, Start, Clear, SanBegin, SanCheck, SanReplace, Started
<1>2. ~Happened(kept.events, CheckIns, -1)
  BY <1>1 DEF StopJudge, Approve
<1>3. kept.events \in Seq(Seen) /\ talk \in Seq(Entries) /\ kept.offset \in Nat /\ kept.offset <= Len(talk)
  BY DEF HookInv, FilesInv
<1>4. ASSUME NEW i \in 1 .. kept.offset, talk[i] \in CheckIns PROVE FALSE
  <2> DEFINE k == talk[i]
             u == SubSeq(talk, 1, kept.offset)
  <2>1. u \in Seq(Entries) /\ Len(u) = kept.offset /\ u[i] = k
    BY <1>3, Prefix
  <2>2. Count(Heard(kept.offset).events, k) # 0
    <3> HIDE DEF u
    <3>1. u[i] \in CheckIns \union Recording /\ i \in 1 .. Len(u)
      BY <1>4, <2>1
    <3>2. Count(Extract(u, 0).events, u[i]) # 0
      BY <2>1, <3>1, EntriesAreCounted
    <3> QED BY <2>1, <3>2 DEF Heard, u
  <2>3. Count(Heard(kept.offset).events, k) <= Count(kept.events, k)
    BY <1>4 DEF HookInv, CountsInv
  <2>4. Count(Heard(kept.offset).events, k) \in Nat /\ Count(kept.events, k) \in Nat
    <3>1. Heard(kept.offset).events \in Seq(Seen)
      BY <1>3, HeardType DEF HookInv
    <3> QED BY <1>3, <3>1, CountType
  <2>5. PICK j \in DOMAIN kept.events : kept.events[j].name = k
    <3>1. Count(kept.events, k) # 0
      BY <2>2, <2>3, <2>4
    <3> QED BY <1>3, <3>1, CountOfNone
  <2>6. kept.events[j] \in Seen
    BY <1>3
  <2>7. kept.events[j].e = "tool" /\ kept.events[j].turn > -1
    <3>1. k # "skill"
      BY <1>4 DEF CheckIns
    <3> QED BY <2>5, <2>6, <3>1 DEF Seen, Event
  <2> QED BY <1>2, <1>4, <2>5, <2>7 DEF Happened
<1> QED
  BY <1>4

\* The reminder that a prompt hook shows is the one that waits: nothing was said or
\* done since the Stop hook left it.
LEMMA ReminderIsTrue ==
    ASSUME HookInv, NEW k, Prompt(k), kills' = 0, Unused # {}, kept.nudges[Shown].name = "record"
    PROVE  ~Happened(Extract(talk, 0).events, Recording, Extract(talk, 0).turn - Interval)
<1>1. FilesInv /\ kills \in Nat /\ talk \in Seq(Entries)
  BY DEF HookInv, FilesInv
<1>2. phase = "idle" /\ kills = 0
  BY <1>1 DEF Prompt
<1>3. Shown \in Waiting
  <2>1. Shown \in Unused
    BY <1>1, ShownFacts
  <2> QED BY <2>1 DEF Waiting, Unused
<1>4. kept.offset = Len(talk) /\ ~Happened(kept.events, Recording, kept.turn - Interval)
  BY <1>2, <1>3 DEF HookInv, WaitingInv
<1>5. kept.events = Heard(kept.offset).events /\ kept.turn = Heard(kept.offset).turn
  BY <1>2 DEF HookInv, ExactInv
<1>6. SubSeq(talk, 1, Len(talk)) = talk
  BY <1>1
<1>7. Heard(Len(talk)) = Extract(talk, 0)
  BY <1>6 DEF Heard
<1> QED
  BY <1>4, <1>5, <1>7

LEMMA LateOnly ==
    ASSUME HookInv, [HookNext]_hookVars, Len(talk') < Len(talk)
    PROVE  Len(talk) - Len(talk') <= san.late
<1>1. talk \in Seq(Entries)
  BY DEF HookInv, FilesInv
<1>2. talk' = talk \/ (\E k : talk' = Append(talk, k)) \/ SanReplace
  BY DEF HookNext, hookVars, StopBegin, StopAppend, StopOffset, StopTurn, StopJudge, Kill, Interrupt,
         Prompt, Work, AppendMeanwhile, Start, Clear, SanBegin, SanCheck, Started
<1>3. ASSUME NEW k, talk' = Append(talk, k) PROVE Len(talk') = Len(talk) + 1
  <2>1. talk \in Seq(Entries \union {k}) /\ k \in Entries \union {k}
    BY <1>1
  <2> QED BY <1>3, <2>1
<1>4. SanReplace
  BY <1>1, <1>2, <1>3
<1>5. /\ san.read \in Seq(Entries) /\ san.late \in Nat /\ Len(talk) = Len(san.read) + san.late
      /\ talk' = Sanitized(san.read, san.from)
  BY <1>4 DEF SanReplace, HookInv, SanInv
<1>6. Len(talk') = Len(san.read)
  <2> DEFINE n == Len(san.read)
  <2>1. n \in Nat /\ DOMAIN san.read = 1 .. n
    BY <1>5
  <2> HIDE DEF n
  <2>2. talk' \in [1 .. n -> {"clean"} \union Range(san.read)]
    BY <1>5, <2>1 DEF Sanitized, Range
  <2>3. Len(talk') = n
    BY <2>1, <2>2
  <2> QED BY <2>3 DEF n
<1> QED
  BY <1>5, <1>6

\* For any limits, bounds and entries: a session that has checked in is not told
\* to, a reminder of a missing record is true when the user's next message brings
\* it, and the sanitizer loses at most what came after it looked
\* (hooks/stop_hook.py, main; hooks/sanitize_backfill_hook.py, _rewrite).
THEOREM HooksAlwaysTrue ==
    ASSUME HooksAssumption
    PROVE  HookSpec => HooksAreTrue
<1>1. HookInit => HookInv
  BY HookInitial
<1>2. HookInv /\ [HookNext]_hookVars => HookInv'
  BY HookStep
<1>3. HookInv /\ [HookNext]_hookVars => RemindersAreTrue
  BY BlockIsTrue, ReminderIsTrue DEF RemindersAreTrue
<1>4. HookInv /\ [HookNext]_hookVars => TranscriptKept
  BY LateOnly DEF TranscriptKept
<1> QED
  BY <1>1, <1>2, <1>3, <1>4, PTL DEF HookSpec, HooksAreTrue
=============================================================================
