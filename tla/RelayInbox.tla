----------------------------- MODULE RelayInbox -----------------------------
(***************************************************************************)
(* The per-session inbox of the relay (src/src/services/relay/inbox.py):   *)
(* one JSONL file and one cursor file, a writer (the intake thread, through*)
(* append) and any number of concurrent drains (relay_receive calls),      *)
(* excluded from each other by an flock on the inbox file.                 *)
(*                                                                         *)
(* A byte offset is modelled by the number of lines that start before it:  *)
(* a drain passes over a record exactly when its line starts before the    *)
(* offset. (That a left-over offset points exactly at the end of a torn    *)
(* line is left out.) A line is a record number, or one of the two kinds   *)
(* of line drain does not deliver.                                         *)
(***************************************************************************)
EXTENDS Integers, Sequences, FiniteSets, Functions

CONSTANTS
    Drainers,   \* concurrent relay_receive(peek=False) calls
    Limits,     \* the limits they pass
    MaxMsgs,    \* bound: records the intake receives
    MaxFaults,  \* bound: crashes, and appends that fail with their line written
    Faults      \* subset of FaultKinds that may happen

FaultKinds == {"crash", "fail"}   \* the process dies; an append raises OSError

ASSUME InboxAssumption ==
    /\ "writer" \notin Drainers
    /\ "free" \notin Drainers
    /\ Limits \subseteq Nat \ {0}
    /\ MaxMsgs \in Nat /\ MaxFaults \in Nat
    /\ Faults \subseteq FaultKinds

Msgs == 1..MaxMsgs
Torn == 0        \* the unterminated tail a cut-short write leaves
Bad == -1        \* a terminated line that is not JSON
Lines == Msgs \union {Torn, Bad}

VARIABLES
    file,       \* the lines of the inbox file
    cursor,     \* the offset in the cursor file (0: absent), in lines of the file
    stale,      \* the cursor file is of before the last truncation
    lock,       \* who holds the flock
    wpc,        \* where the writer is in append
    next,       \* the record the intake appends next
    dpc,        \* where each drain is
    dto,        \* its new_offset
    dbuf,       \* the lines it has read
    faults,     \* crashes and failed appends so far (only for the bound)
    appended,   \* history: records whose append returned (and may be acked)
    returned,   \* history: records handed to the session
    redelivered, \* history: records handed to the session more than once
    lost        \* history: records a death took from a drain, a torn line
                \* swallowed, or a stale cursor made a drain pass over

storeVars == <<file, cursor, stale>>
writerVars == <<wpc, next, appended>>
drainVars == <<dpc, dto, dbuf, returned, redelivered>>
vars == <<storeVars, lock, writerVars, drainVars, faults, lost>>

-----------------------------------------------------------------------------
IsRecord(l) == l \in Msgs

HasTornTail(f) == f # <<>> /\ f[Len(f)] = Torn

\* f.write of one whole line: it is glued to an unterminated tail.
WriteLine(f, m) ==
    IF HasTornTail(f) THEN [f EXCEPT ![Len(f)] = Bad] ELSE Append(f, m)

\* f.write cut short before the newline.
WriteTorn(f) == IF HasTornTail(f) THEN f ELSE Append(f, Torn)

\* An offset beyond the end of the file restarts from the head.
EffectiveOffset == IF cursor > Len(file) THEN 0 ELSE cursor

\* The file becomes f, a line or a part of one longer. A left-over offset beyond the
\* end may now be inside the file, all lines of which start before it then.
Grow(f) ==
    /\ file' = f
    /\ IF stale /\ cursor > Len(file)
       THEN cursor' \in {Len(f), Len(f) + 1}
       ELSE cursor' = cursor
    /\ stale' = stale

\* The loop of drain may stop before line k+1: no torn line was passed, and
\* each line was read while fewer than lim records had been collected.
CanRead(f, off, lim, k) ==
    \A j \in (off + 1)..k :
        /\ f[j] # Torn
        /\ Cardinality({i \in (off + 1)..(j - 1) : IsRecord(f[i])}) < lim

\* new_offset: the loop reads on for as long as it can.
StopsAt(f, off, lim, k) ==
    CanRead(f, off, lim, k) /\ (k < Len(f) => ~CanRead(f, off, lim, k + 1))

\* The records drain parses out of the lines it read.
RecordsIn(s) == {l \in Range(s) : IsRecord(l)}

\* Everything up to the end of the file was read (new_offset >= size).
AllRead(d) == dto[d] >= Len(file) /\ ~HasTornTail(file)

\* The records that start before a left-over offset.
PassedOver == IF stale THEN RecordsIn(SubSeq(file, 1, EffectiveOffset)) ELSE {}

\* The records a drain has taken out of the file and not handed over yet.
Hand(d) == IF dpc[d] \in {"truncated", "drained"} THEN RecordsIn(dbuf[d]) ELSE {}
InHand == UNION {Hand(d) : d \in Drainers}

\* What drain writes to the cursor file when lines are left (mutant: one past).
NewCursor_PastEnd(d) == dto[d] + 1
NewCursor_NotAdvanced(d) == cursor
NewCursor(d) == dto[d]

\* count_unread: complete, parseable lines from the cursor on.
CountUnread_FromHead ==
    Cardinality({i \in 1..Len(file) : IsRecord(file[i])})
CountUnread ==
    Cardinality({i \in (EffectiveOffset + 1)..Len(file) : IsRecord(file[i])})

-----------------------------------------------------------------------------
Init ==
    /\ file = <<>>
    /\ cursor = 0 /\ stale = FALSE
    /\ lock = "free"
    /\ wpc = "idle" /\ next = 1 /\ appended = {}
    /\ dpc = [d \in Drainers |-> "idle"]
    /\ dto = [d \in Drainers |-> 0]
    /\ dbuf = [d \in Drainers |-> <<>>]
    /\ returned = {} /\ redelivered = {} /\ lost = {}
    /\ faults = 0

\* append: open and flock(LOCK_EX).
WriterLock ==
    /\ wpc = "idle" /\ next \in Msgs
    /\ lock = "free"
    /\ lock' = "writer"
    /\ wpc' = "locked"
    /\ UNCHANGED <<storeVars, next, appended, drainVars, faults, lost>>

\* append: write, flush, fsync.
WriterWrite ==
    /\ wpc = "locked"
    /\ Grow(WriteLine(file, next))
    /\ lost' = IF HasTornTail(file) THEN lost \union {next} ELSE lost
    /\ wpc' = "written"
    /\ UNCHANGED <<lock, next, appended, drainVars, faults>>

\* append: unlock and return to dispatch_frame, which may now ack the record.
WriterReturn ==
    /\ wpc = "written"
    /\ lock' = "free"
    /\ wpc' = "idle"
    /\ appended' = appended \union {next}
    /\ next' = next + 1
    /\ UNCHANGED <<storeVars, drainVars, faults, lost>>

\* append raises OSError and unlocks: the write was cut short (a full disk), or all of
\* it was written and fsync fails. The record comes again, or not.
WriterFails ==
    /\ "fail" \in Faults
    /\ wpc = "locked"
    /\ \/ Grow(WriteTorn(file)) /\ faults' = faults
       \/ faults < MaxFaults /\ Grow(WriteLine(file, next)) /\ faults' = faults + 1
    /\ lock' = "free"
    /\ wpc' = "idle"
    /\ next' \in {next, next + 1}
    /\ UNCHANGED <<appended, drainVars, lost>>

-----------------------------------------------------------------------------
\* drain: open and flock(LOCK_EX).
DrainLock(d) ==
    /\ dpc[d] = "idle"
    /\ lock = "free"
    /\ lock' = d
    /\ dpc' = [dpc EXCEPT ![d] = "locked"]
    /\ UNCHANGED <<storeVars, writerVars, dto, dbuf, returned, redelivered, faults, lost>>

\* drain: read_cursor, seek, and the loop of readlines.
DrainRead(d) ==
    /\ dpc[d] = "locked"
    /\ \E limit \in Limits, end \in EffectiveOffset..Len(file) :
        /\ StopsAt(file, EffectiveOffset, limit, end)
        /\ dto' = [dto EXCEPT ![d] = end]
        /\ dbuf' = [dbuf EXCEPT ![d] = SubSeq(file, EffectiveOffset + 1, end)]
    /\ dpc' = [dpc EXCEPT ![d] = "read"]
    /\ UNCHANGED <<storeVars, lock, writerVars, returned, redelivered, faults, lost>>

Truncate(d) ==
    /\ dpc[d] = "read"
    /\ file' = <<>> /\ stale' = FALSE
    /\ lost' = lost \union PassedOver
    /\ dpc' = [dpc EXCEPT ![d] = "truncated"]
    /\ UNCHANGED <<cursor, lock, writerVars, dto, dbuf, returned, redelivered, faults>>

\* (mutant: the file is truncated although lines are left)
DrainTruncate_Unread(d) == Truncate(d)
\* drain: everything was read, so the file is truncated before the cursor is reset.
DrainTruncate(d) == AllRead(d) /\ Truncate(d)

\* drain: _write_cursor (an atomic rename), and the unlock: who looks at the cursor
\* waits for the lock.
DrainCursor(d) ==
    /\ \/ /\ dpc[d] = "truncated"
          /\ cursor' = 0
       \/ /\ dpc[d] = "read"
          /\ ~AllRead(d)
          /\ cursor' = NewCursor(d)
    /\ stale' = FALSE
    /\ lost' = lost \union PassedOver
    /\ lock' = "free"
    /\ dpc' = [dpc EXCEPT ![d] = "drained"]
    /\ UNCHANGED <<file, writerVars, dto, dbuf, returned, redelivered, faults>>

\* drain: return the records.
DrainReturn(d) ==
    /\ dpc[d] = "drained"
    /\ dpc' = [dpc EXCEPT ![d] = "idle"]
    /\ returned' = returned \union Hand(d)
    /\ redelivered' = redelivered \union (returned \intersect Hand(d))
    /\ dto' = [dto EXCEPT ![d] = 0] /\ dbuf' = [dbuf EXCEPT ![d] = <<>>]
    /\ UNCHANGED <<storeVars, lock, writerVars, faults, lost>>

-----------------------------------------------------------------------------
\* The process dies: every flock is released, every call in progress is gone, and with
\* them the records in hand. Between the truncation and the reset of the cursor it
\* leaves the cursor of a file that is no more.
Crash ==
    /\ "crash" \in Faults
    /\ lock # "free" \/ InHand # {}
    /\ faults < MaxFaults
    /\ faults' = faults + 1
    /\ stale' = (stale \/ (cursor # 0 /\ \E d \in Drainers : dpc[d] = "truncated"))
    /\ lost' = lost \union InHand
    /\ lock' = "free"
    /\ wpc' = "idle"
    /\ dpc' = [d \in Drainers |-> "idle"]
    /\ dto' = [d \in Drainers |-> 0] /\ dbuf' = [d \in Drainers |-> <<>>]
    /\ UNCHANGED <<file, cursor, next, appended, returned, redelivered>>

Writer == WriterLock \/ WriterWrite \/ WriterReturn \/ WriterFails
Drain(d) == DrainLock(d) \/ DrainRead(d) \/ DrainTruncate(d) \/ DrainCursor(d) \/ DrainReturn(d)

Next == Writer \/ (\E d \in Drainers : Drain(d)) \/ Crash

Spec == Init /\ [][Next]_vars

\* A client that keeps calling relay_receive, and an flock that is granted in turn.
Fairness ==
    /\ WF_vars(WriterWrite) /\ WF_vars(WriterReturn) /\ SF_vars(WriterLock)
    /\ \A d \in Drainers :
        /\ SF_vars(DrainLock(d))
        /\ WF_vars(DrainRead(d) \/ DrainTruncate(d) \/ DrainCursor(d) \/ DrainReturn(d))

FairSpec == Spec /\ Fairness

-----------------------------------------------------------------------------
(* Properties *)

TypeOK ==
    /\ file \in Seq(Lines)
    /\ cursor \in Nat /\ stale \in BOOLEAN
    /\ lock \in Drainers \union {"free", "writer"}
    /\ wpc \in {"idle", "locked", "written"}
    /\ next \in 1..(MaxMsgs + 1)
    /\ dpc \in [Drainers -> {"idle", "locked", "read", "truncated", "drained"}]
    /\ dto \in [Drainers -> Nat]
    /\ dbuf \in [Drainers -> Seq(Lines)]
    /\ appended \subseteq Msgs
    /\ returned \subseteq Msgs
    /\ redelivered \subseteq returned
    /\ lost \subseteq Msgs
    /\ faults \in Nat

\* Where a record whose append returned is: the session has it, a drain is about to
\* hand it over, or it is ahead of the offset the next drain starts from. Else it is
\* among those a death took from a drain that had moved the cursor, a torn line
\* swallowed, or an offset left over from before a truncation passes over: no other
\* death, failed write or overlap of drains makes the inbox skip a record.
NothingSkipped ==
    \A m \in appended :
        \/ m \in returned \union lost \union InHand
        \/ \E i \in 1..Len(file) : file[i] = m /\ (i > EffectiveOffset \/ stale)


\* Without a death, and without an append that fails although its line was written,
\* at-least-once is exactly-once, also when writes are cut short.
ExactlyOnce == faults = 0 => redelivered = {}

\* count_unread counts what an unlimited drain would return, torn tails and
\* broken lines included in the comparison.
CountMatchesDrain ==
    lock = "free" =>
        \E end \in EffectiveOffset..Len(file) :
            /\ StopsAt(file, EffectiveOffset, Len(file) + 1, end)
            /\ CountUnread = Cardinality({i \in (EffectiveOffset + 1)..end : IsRecord(file[i])})

\* Unless the process died or an append failed with its line written, every record is
\* handed out once; and what the session is told is unread is what a drain returns,
\* torn tails, broken lines and left-over offsets included.
DrainsAreExact == ExactlyOnce /\ CountMatchesDrain

\* The records among the lines of f after an offset, each at its line.
RecordsAfter(f, off) == {<<i, f[i]>> : i \in {j \in (off + 1)..Len(f) : IsRecord(f[j])}}

\* The records that wait, in their order in the file.
QueueOfInbox == RecordsAfter(file, EffectiveOffset)

\* File, cursor and flock together implement the abstract queue: drains and the writer
\* may interleave, fail and die, and yet records leave the queue at its head only and
\* into one client's hands; what is lost is what a client that died had in its hands,
\* the record put after a torn one, and what waits when an offset that was left over
\* takes effect.
Queue == INSTANCE InboxQueue
    WITH Records <- Msgs, Clients <- Drainers,
         queue <- QueueOfInbox, hand <- [d \in Drainers |-> Hand(d)], taken <- returned,
         damaged <- HasTornTail(file), doubtful <- stale /\ cursor > Len(file)
ImplementsQueue == Queue!Spec

\* A client that keeps draining gets every record that made it to the queue, or a
\* death or an offset it left over took it.
EveryRecordReturned ==
    \A m \in Msgs : (\E p \in QueueOfInbox : p[2] = m) ~> (m \in returned \union lost)
=============================================================================
