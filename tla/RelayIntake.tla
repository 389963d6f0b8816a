---------------------------- MODULE RelayIntake ----------------------------
(***************************************************************************)
(* The intake thread of the relay (src/src/services/relay/intake.py): one  *)
(* SSE connection that multiplexes the subscription lanes and the stream   *)
(* lanes of the server identity, the dispatch of each frame to the inboxes *)
(* of the sessions that declared it, and the cumulative acknowledgements   *)
(* that let the relay forget what was stored.                              *)
(*                                                                         *)
(* Around it: the sessions that subscribe and leave (service.py,           *)
(* teardown.py), and the relay itself (external), which keeps a record     *)
(* until it is acknowledged and redelivers the rest on every connection.   *)
(***************************************************************************)
EXTENDS Integers, Sequences, FiniteSets, Functions

CONSTANTS
    Sessions,    \* MCP sessions
    Subs,        \* subscription ids: one lane each
    Streams,     \* stream ids: one lane each
    Owner,       \* the session that declares a subscription
    Rooms,       \* the streams whose room:<name> label a subscription carries
    Movers,      \* bound: subscriptions that come and go; the others are declared
                 \* before the server starts, and stay
    MaxPub,      \* bound: records published
    MaxFaults,   \* bound: faults
    Faults       \* subset of FaultKinds that may happen

FaultKinds == {"crash", "drop", "refused", "ack_lost", "ack_failed", "append", "skip"}

ASSUME IntakeAssumption ==
    /\ Subs \intersect Streams = {}
    /\ Owner \in [Subs -> Sessions]
    /\ Rooms \in [Subs -> SUBSET Streams]
    /\ Movers \subseteq Subs
    /\ MaxPub \in Nat /\ MaxFaults \in Nat
    /\ Faults \subseteq FaultKinds

Lanes == Subs \union Streams

VARIABLES
    pub,      \* relay: the lane of each publish_id, in order
    acked,    \* relay: per lane, everything up to here may be forgotten
    sent,     \* relay: per lane, everything up to here was sent on this connection
    sub,      \* per subscription, how far its life has gone
    reconf,   \* the reconfigure_event
    pc,       \* where the intake thread is
    ids,      \* the subscription ids of the connection
    frame,    \* publish_id being dispatched
    todo,     \* sessions whose inbox it has still to be appended to
    failed,   \* an append of this frame failed
    pending,  \* AckTracker: per lane, the publish_id to acknowledge (0: none)
    flushing, \* lanes flush has still to send
    stored,   \* per session, its inbox file
    owed,     \* history: the sessions each record was published to, but for those
              \* that have ceased to declare its lane since
    faults,   \* faults so far (only for the bound)
    lossy     \* history: an append failed or a frame was skipped

relayVars == <<pub, acked, sent, owed>>
frameVars == <<frame, todo, failed>>
ackVars == <<pending, flushing>>
faultVars == <<faults, lossy>>
vars == <<relayVars, sub, reconf, pc, ids, frameVars, ackVars, stored, faultVars>>

-----------------------------------------------------------------------------
(* Declarations, as load_all reads them *)

Live == {l \in Subs : sub[l] \in {"posted", "saved", "notified"}}
Declared == {l \in Subs : sub[l] \in {"saved", "notified", "deleted", "lapsed"}}

\* lease_active, as the connection is made: the lease of what is declared has not
\* run out (the teardown drops a subscription long before that).
Active == {l \in Declared : sub[l] # "lapsed"}

\* resolve_sub_owner and resolve_stream_targets, of the declarations of D.
TargetsIn(D, l) ==
    IF l \in Subs THEN {Owner[k] : k \in {l} \intersect D}
    ELSE {Owner[k] : k \in {j \in D : l \in Rooms[j]}}

Targets(l) == TargetsIn(Declared, l)

\* What the relay may send next on a lane.
Deliverable(l) == {i \in 1..Len(pub) : pub[i] = l /\ i > sent[l]}

NextOf(l) == CHOOSE i \in Deliverable(l) : \A j \in Deliverable(l) : i <= j

\* mark_sub and mark_stream keep the largest publish_id.
Mark(l, i) == [pending EXCEPT ![l] = IF i > @ THEN i ELSE @]

Pending == {l \in Lanes : pending[l] > 0}

Fault(kind) ==
    /\ kind \in Faults
    /\ faults < MaxFaults
    /\ faults' = faults + 1
    /\ lossy' = (lossy \/ kind \in {"append", "skip"})

-----------------------------------------------------------------------------
Init ==
    /\ pub = <<>> /\ owed = <<>>
    /\ acked = [l \in Lanes |-> 0]
    /\ sent = [l \in Lanes |-> 0]
    /\ sub = [l \in Subs |-> IF l \in Movers THEN "none" ELSE "notified"]
    /\ reconf = FALSE
    /\ pc = "top"
    /\ ids = {}
    /\ frame = 0 /\ todo = {} /\ failed = FALSE
    /\ pending = [l \in Lanes |-> 0]
    /\ flushing = {}
    /\ stored = [s \in Sessions |-> <<>>]
    /\ faults = 0 /\ lossy = FALSE

-----------------------------------------------------------------------------
(* The relay and the sessions *)

\* A record goes to the sessions that declare the lane now.
Publish(l) ==
    /\ Len(pub) < MaxPub
    /\ l \in Streams \union Live
    /\ pub' = Append(pub, l)
    /\ owed' = Append(owed, IF l \in Subs THEN {Owner[l]} ELSE Targets(l))
    /\ UNCHANGED <<acked, sent, sub, reconf, pc, ids, frameVars, ackVars, stored, faultVars>>

\* relay_subscribe: the relay creates the subscription, then the declaration is
\* saved, then the intake is notified. teardown: the relay drops it, then the
\* declaration is deleted (and nobody is notified). A lease that nobody renewed
\* runs out at the relay and in the declaration, until the lease loop replaces
\* the entry by a new one (which is another subscription that comes).
NextStages == [none |-> {"posted"}, posted |-> {"saved"}, saved |-> {"notified"},
               notified |-> {"deleted", "lapsed"}, deleted |-> {"gone"},
               lapsed |-> {"gone"}, gone |-> {}]

SubscriptionStep(l) ==
    /\ l \in Movers
    /\ \E stage \in NextStages[sub[l]] :
        /\ sub' = [sub EXCEPT ![l] = stage]
        /\ owed' = IF stage # "gone" THEN owed
                   ELSE [i \in DOMAIN owed |->
                           owed[i] \ (Targets(pub[i]) \ TargetsIn(Declared \ {l}, pub[i]))]
        /\ reconf' = (reconf \/ stage = "notified")
    /\ UNCHANGED <<pub, acked, sent, pc, ids, frameVars, ackVars, stored, faultVars>>

-----------------------------------------------------------------------------
(* run: the connection *)

\* load_all and _snapshot_subscription_ids.
Scan ==
    /\ pc = "top"
    /\ ids' = Active
    /\ pc' = IF Active = {} THEN "wait" ELSE "connect"
    /\ UNCHANGED <<relayVars, sub, reconf, frameVars, ackVars, stored, faultVars>>

\* Nothing is declared: wait, and forget a reconfiguration that came meanwhile.
Rescan ==
    /\ pc = "wait"
    /\ reconf' = FALSE
    /\ pc' = "top"
    /\ UNCHANGED <<relayVars, sub, ids, frameVars, ackVars, stored, faultVars>>

\* open_sse: the relay starts again from what was acknowledged.
Connect_Clears ==
    /\ pc = "connect"
    /\ ids \subseteq Live
    /\ pc' = "stream"
    /\ sent' = acked
    /\ reconf' = FALSE
    /\ UNCHANGED <<pub, acked, owed, sub, ids, frameVars, ackVars, stored, faultVars>>
Connect ==
    /\ pc = "connect"
    /\ ids \subseteq Live
    /\ pc' = "stream"
    /\ sent' = acked
    /\ UNCHANGED <<pub, acked, owed, sub, reconf, ids, frameVars, ackVars, stored, faultVars>>

\* One dead id refuses the whole connection: backoff and scan again.
ConnectFails ==
    /\ pc = "connect"
    /\ \/ ~(ids \subseteq Live) /\ UNCHANGED faultVars
       \/ Fault("refused")
    /\ pc' = "top"
    /\ UNCHANGED <<relayVars, sub, reconf, ids, frameVars, ackVars, stored>>

\* The connection ends, or is silent for too long: TransientError, backoff.
Drop ==
    /\ pc = "stream"
    /\ Fault("drop")
    /\ pc' = "top"
    /\ UNCHANGED <<relayVars, sub, reconf, ids, frameVars, ackVars, stored>>

-----------------------------------------------------------------------------
(* _consume: one SSE frame *)

\* Any frame, a keepalive comment at the latest, makes the thread see the event:
\* it drops the frame and reconnects.
Reconfigure_DropsFrame ==
    /\ pc = "stream" /\ reconf
    /\ reconf' = FALSE
    /\ \E l \in Lanes : Deliverable(l) # {} /\ sent' = [sent EXCEPT ![l] = NextOf(l)]
    /\ UNCHANGED <<pub, acked, owed, sub, pc, ids, frameVars, ackVars, stored, faultVars>>
Reconfigure ==
    /\ pc = "stream" /\ reconf
    /\ reconf' = FALSE
    /\ pc' = "top"
    /\ UNCHANGED <<relayVars, sub, ids, frameVars, ackVars, stored, faultVars>>

\* A keepalive comment: acknowledgements not yet sent are retried.
Comment_NoFlush ==
    /\ pc = "stream" /\ ~reconf
    /\ pc' = "flush"
    /\ UNCHANGED <<relayVars, sub, reconf, ids, frameVars, ackVars, stored, faultVars>>
Comment ==
    /\ pc = "stream" /\ ~reconf
    /\ flushing' = Pending
    /\ pc' = "flush"
    /\ UNCHANGED <<relayVars, sub, reconf, ids, frameVars, pending, stored, faultVars>>

\* A frame on lane l: the declarations are read and its targets resolved. A
\* stream frame nobody wants is swept (acknowledged); a subscription frame
\* nobody wants is left to be redelivered.
Receive(l) ==
    /\ pc = "stream" /\ ~reconf
    /\ l \in Streams \union (ids \intersect Live)
    /\ Deliverable(l) # {}
    /\ frame' = NextOf(l)
    /\ sent' = [sent EXCEPT ![l] = NextOf(l)]
    /\ todo' = Targets(l)
    /\ failed' = FALSE
    /\ IF Targets(l) = {}
       THEN /\ pending' = IF l \in Streams THEN Mark(l, NextOf(l)) ELSE pending
            /\ flushing' = {k \in Lanes : pending'[k] > 0}
            /\ pc' = "flush"
       ELSE /\ pc' = "dispatch"
            /\ UNCHANGED ackVars
    /\ UNCHANGED <<pub, acked, owed, sub, reconf, ids, stored, faultVars>>

\* A frame too long, or that does not parse, is skipped.
Skip(l) ==
    /\ pc = "stream" /\ ~reconf
    /\ Deliverable(l) # {}
    /\ l \in Streams \union (ids \intersect Live)
    /\ Fault("skip")
    /\ sent' = [sent EXCEPT ![l] = NextOf(l)]
    /\ UNCHANGED <<pub, acked, owed, sub, reconf, pc, ids, frameVars, ackVars, stored>>

\* After the last target, the frame is marked if every append succeeded.
AfterAppend_First(rest, ok) ==
    /\ pending' = IF ok THEN Mark(pub[frame], frame) ELSE pending
    /\ flushing' = {k \in Lanes : pending'[k] > 0}
    /\ pc' = "flush"
AfterAppend_Anyway(rest, ok) ==
    IF rest # {} THEN UNCHANGED <<pc, ackVars>>
    ELSE /\ pending' = Mark(pub[frame], frame)
         /\ flushing' = {k \in Lanes : pending'[k] > 0}
         /\ pc' = "flush"
AfterAppend_NoFlush(rest, ok) ==
    IF rest # {} THEN UNCHANGED <<pc, ackVars>>
    ELSE /\ pending' = IF ok THEN Mark(pub[frame], frame) ELSE pending
         /\ UNCHANGED flushing
         /\ pc' = "stream"
AfterAppend(rest, ok) ==
    IF rest # {} THEN UNCHANGED <<pc, ackVars>>
    ELSE /\ pending' = IF ok THEN Mark(pub[frame], frame) ELSE pending
         /\ flushing' = {k \in Lanes : pending'[k] > 0}
         /\ pc' = "flush"

\* inbox_append to one session.
AppendTo(s) ==
    /\ pc = "dispatch" /\ s \in todo
    /\ stored' = [stored EXCEPT ![s] = Append(@, frame)]
    /\ todo' = todo \ {s}
    /\ AfterAppend(todo \ {s}, ~failed)
    /\ UNCHANGED <<relayVars, sub, reconf, ids, frame, failed, faultVars>>

\* inbox_append raises OSError: the other sessions are still served.
AppendFails(s) ==
    /\ pc = "dispatch" /\ s \in todo
    /\ Fault("append")
    /\ todo' = todo \ {s}
    /\ failed' = TRUE
    /\ AfterAppend(todo \ {s}, FALSE)
    /\ UNCHANGED <<relayVars, sub, reconf, ids, frame, stored>>

-----------------------------------------------------------------------------
(* flush: one cumulative acknowledgement at a time *)

AckTo(l) == [acked EXCEPT ![l] = IF pending[l] > @ THEN pending[l] ELSE @]

Ack(l) ==
    /\ pc = "flush" /\ l \in flushing
    /\ l \in Streams \union Live
    /\ acked' = AckTo(l)
    /\ pending' = [pending EXCEPT ![l] = 0]
    /\ flushing' = flushing \ {l}
    /\ UNCHANGED <<pub, sent, owed, sub, reconf, pc, ids, frameVars, stored, faultVars>>

\* The request, or the answer to it, is lost, or the subscription is gone: the
\* value is kept for the next flush.
AckFails(l) ==
    /\ pc = "flush" /\ l \in flushing
    /\ \/ l \notin Streams \union Live /\ UNCHANGED <<acked, faultVars>>
       \/ Fault("ack_failed") /\ UNCHANGED acked
       \/ Fault("ack_lost") /\ acked' = AckTo(l)
    /\ flushing' = flushing \ {l}
    /\ UNCHANGED <<pub, sent, owed, sub, reconf, pc, ids, frameVars, pending, stored>>

FlushDone ==
    /\ pc = "flush" /\ flushing = {}
    /\ pc' = "stream"
    /\ UNCHANGED <<relayVars, sub, reconf, ids, frameVars, ackVars, stored, faultVars>>

-----------------------------------------------------------------------------
\* The server dies and restarts: the tracker and the event are gone, the inbox
\* files and the declarations are not.
Crash ==
    /\ Fault("crash")
    /\ pc' = "top"
    /\ reconf' = FALSE
    /\ ids' = {}
    /\ frame' = 0 /\ todo' = {} /\ failed' = FALSE
    /\ pending' = [l \in Lanes |-> 0] /\ flushing' = {}
    /\ UNCHANGED <<relayVars, sub, stored>>

Flush == (\E l \in Lanes : Ack(l) \/ AckFails(l)) \/ FlushDone
Dispatch == \E s \in Sessions : AppendTo(s) \/ AppendFails(s)
Run == Scan \/ Rescan \/ Connect \/ ConnectFails \/ Reconfigure \/ Dispatch \/ Flush

Next ==
    \/ Run \/ Drop \/ Comment \/ Crash
    \/ \E l \in Lanes : Publish(l) \/ Receive(l) \/ Skip(l)
    \/ \E l \in Subs : SubscriptionStep(l)

Spec == Init /\ [][Next]_vars

\* The thread runs, the relay sends keepalives, and of the frames it has it sends
\* one or another in spite of them. A session that started to subscribe or to
\* leave finishes, but need not do either.
Fairness ==
    /\ WF_vars(Run)
    /\ WF_vars(Comment)
    /\ SF_vars(\E l \in Lanes : Receive(l))
    /\ \A l \in Movers : WF_vars(sub[l] \in {"posted", "saved", "deleted", "lapsed"} /\ SubscriptionStep(l))

FairSpec == Spec /\ Fairness

-----------------------------------------------------------------------------
(* Properties *)

TypeOK ==
    /\ pub \in Seq(Lanes) /\ Len(pub) <= MaxPub
    /\ owed \in Seq(SUBSET Sessions) /\ Len(owed) = Len(pub)
    /\ acked \in [Lanes -> 0..MaxPub]
    /\ sent \in [Lanes -> 0..MaxPub]
    /\ sub \in [Subs -> {"none", "posted", "saved", "notified", "deleted", "lapsed", "gone"}]
    /\ reconf \in BOOLEAN
    /\ pc \in {"top", "wait", "connect", "stream", "dispatch", "flush"}
    /\ ids \subseteq Subs
    /\ frame \in 0..MaxPub /\ todo \subseteq Sessions /\ failed \in BOOLEAN
    /\ pending \in [Lanes -> 0..MaxPub]
    /\ flushing \subseteq Lanes
    /\ stored \in [Sessions -> Seq(1..MaxPub)]
    /\ faults \in 0..MaxFaults /\ lossy \in BOOLEAN

\* Record i was published to session s, which has declared its lane ever since
\* (a session that subscribes is sent what was published before it saved that).
StillOwed(i, s) == i <= Len(pub) /\ s \in owed[i] /\ s \in Targets(pub[i])

Stored(i, s) == i \in Range(stored[s])

\* At-least-once: what an acknowledgement lets the relay forget is in the inbox
\* of every session it was published to (append, then fsync, then ack).
AckMeansStored ==
    \A i \in 1..Len(pub) : acked[pub[i]] >= i =>
        \A s \in Sessions : StillOwed(i, s) => Stored(i, s)

\* It holds until an append fails or a frame is skipped, whatever else goes
\* wrong: acknowledgements kept over crashes, drops, reconnections and leaving
\* sessions never run ahead of the files.
AckedIsStored == ~lossy => AckMeansStored

\* The first copies of one lane's records reach an inbox in publish order,
\* whatever is redelivered in between, unless a record was passed over (records
\* it was published to; what was published before it subscribed may follow later).
FirstSeen(s, i) == CHOOSE k \in DOMAIN stored[s] :
    stored[s][k] = i /\ \A h \in 1..(k - 1) : stored[s][h] # i
LaneOrder ==
    ~lossy => \A s \in Sessions : \A i, j \in Range(stored[s]) :
        (pub[i] = pub[j] /\ i < j /\ s \in owed[i]) => FirstSeen(s, i) < FirstSeen(s, j)

\* A record is stored again only after a fault made the relay send it again.
Copies(s, i) == Cardinality({k \in DOMAIN stored[s] : stored[s][k] = i})
RepeatsNeedFault ==
    \A s \in Sessions : \A i \in 1..Len(pub) : Copies(s, i) <= 1 + faults

\* Even when an append fails, the record an acknowledgement names is stored:
\* the failing record itself is never the one acknowledged.
AckPointStored ==
    \A l \in Lanes : \A i \in {acked[l], pending[l]} \ {0} :
        \A s \in Sessions : StillOwed(i, s) => Stored(i, s)

\* Every record that can be is in the end acknowledged, records on a stream that
\* nobody declares included, as long as some subscription keeps the connection and
\* nothing was passed over.
EveryRecordAcked ==
    \A i \in 1..MaxPub :
        (i <= Len(pub)) ~>
            (/\ i <= Len(pub)
             /\ \/ acked[pub[i]] >= i
                \/ lossy
                \/ pub[i] \in Subs \ Declared
                \/ Declared \intersect Live = {})

\* A subscription declared while the intake is busy with another connection is
\* in the end part of a connection: the reconfiguration is never missed.
EverySubscriptionConnected ==
    \A l \in Subs :
        (sub[l] = "notified") ~> ((l \in ids /\ pc \in {"stream", "dispatch", "flush"})
                                   \/ sub[l] # "notified")

\* What is acknowledged, at whatever point, is stored, until something is lost.
AcksAreSafe == AckedIsStored /\ AckPointStored

\* What is stored is stored in order, and again only after a fault.
StoredInOrder == LaneOrder /\ RepeatsNeedFault

\* The intake neither leaves a record unacknowledged nor a subscription aside.
IntakeProgresses == EveryRecordAcked /\ EverySubscriptionConnected
=============================================================================
