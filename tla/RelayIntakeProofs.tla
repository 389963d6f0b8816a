------------------------- MODULE RelayIntakeProofs -------------------------
(***************************************************************************)
(* Proofs about the intake for any number of sessions, subscriptions,      *)
(* streams, records and faults: type correctness, that what is             *)
(* acknowledged is stored, that the records of a lane are first stored in  *)
(* the order of their publication, and that every further copy of a record *)
(* stands for a fault.                                                     *)
(***************************************************************************)
EXTENDS RelayIntake, TLAPS, FiniteSetTheorems, WellFoundedInduction

LaneStages == {"none", "posted", "saved", "notified", "deleted", "lapsed", "gone"}

\* The next step of a subscription takes it out of the declarations.
Leaving == {"deleted", "lapsed"}

Connected == pc \in {"stream", "dispatch", "flush"}

\* TypeOK is not inductive alone: the frame being dispatched is a record.
TypeInv == TypeOK /\ (pc = "dispatch" => frame \in 1..Len(pub))

\* Every non-empty set of natural numbers has a least element.
LEMMA LeastOf ==
    ASSUME NEW T, T \subseteq Nat, T # {}
    PROVE  \E x \in T : \A y \in T : x <= y
<1> DEFINE R == OpToRel(<, Nat)
<1>1. IsWellFoundedOn(R, Nat)
  BY NatLessThanWellFounded
<1>2. \E x \in T : \A y \in T : ~(<<y, x>> \in R)
  <2> HIDE DEF R
  <2> QED BY <1>1, WFMin
<1>3. \A x, y \in T : <<y, x>> \notin R => x <= y
  BY DEF OpToRel
<1> QED BY <1>2, <1>3

LEMMA SeqOfFunction ==
    ASSUME NEW S, NEW n \in Nat, NEW f \in [1..n -> S]
    PROVE  f \in Seq(S) /\ Len(f) = n
OBVIOUS

LEMMA SeqElements ==
    ASSUME NEW S, NEW q \in Seq(S)
    PROVE  \A k \in DOMAIN q : q[k] \in S
OBVIOUS

\* The relay sends the oldest record of the lane that it has not sent.
LEMMA NextOfFacts ==
    ASSUME TypeOK, NEW l \in Lanes, Deliverable(l) # {}
    PROVE  /\ NextOf(l) \in 1..Len(pub)
           /\ NextOf(l) <= MaxPub
           /\ pub[NextOf(l)] = l
           /\ NextOf(l) > sent[l]
           /\ \A i \in 1..Len(pub) : pub[i] = l /\ i < NextOf(l) => i <= sent[l]
<1>1. Deliverable(l) \subseteq Nat
  BY DEF TypeOK, Deliverable
<1>2. \E x \in Deliverable(l) : \A y \in Deliverable(l) : x <= y
  BY <1>1, LeastOf
<1>3. /\ NextOf(l) \in Deliverable(l)
      /\ \A y \in Deliverable(l) : NextOf(l) <= y
  BY <1>2 DEF NextOf
<1>4. NextOf(l) \in 1..Len(pub) /\ pub[NextOf(l)] = l /\ NextOf(l) > sent[l]
  BY <1>3 DEF Deliverable
<1>5. NextOf(l) <= MaxPub
  BY <1>4, IntakeAssumption DEF TypeOK
<1>6. ASSUME NEW i \in 1..Len(pub), pub[i] = l, i < NextOf(l)
      PROVE  i <= sent[l]
  <2>1. i \notin Deliverable(l)
    BY <1>3, <1>4, <1>6
  <2> QED BY <2>1, <1>6 DEF Deliverable, TypeOK
<1> QED BY <1>4, <1>5, <1>6

LEMMA TargetsType ==
    ASSUME NEW D \in SUBSET Subs, NEW l
    PROVE  TargetsIn(D, l) \subseteq Sessions
BY IntakeAssumption DEF TargetsIn

LEMMA MarkType ==
    ASSUME TypeOK, NEW l \in Lanes, NEW i \in 0..MaxPub
    PROVE  Mark(l, i) \in [Lanes -> 0..MaxPub]
BY DEF Mark, TypeOK

\* An acknowledgement, sent or not, answered or not.
LEMMA AckFacts ==
    ASSUME TypeOK, NEW l \in Lanes, Ack(l) \/ AckFails(l)
    PROVE  /\ pc = "flush" /\ pc' = "flush" /\ l \in flushing /\ flushing' = flushing \ {l}
           /\ UNCHANGED <<pub, sent, owed, sub, reconf, ids, frame, todo, failed, stored>>
           /\ acked' \in [Lanes -> 0..MaxPub] /\ pending' \in [Lanes -> 0..MaxPub]
           /\ \A k \in Lanes \ {l} : acked'[k] = acked[k] /\ pending'[k] = pending[k]
           /\ acked'[l] \in {acked[l], pending[l]} /\ acked'[l] >= acked[l]
           /\ pending'[l] \in {0, pending[l]}
           /\ Ack(l) => acked'[l] >= pending[l]
<1>1. /\ acked[l] \in 0..MaxPub /\ pending[l] \in 0..MaxPub
      /\ acked \in [Lanes -> 0..MaxPub] /\ pending \in [Lanes -> 0..MaxPub]
  BY DEF TypeOK
<1> DEFINE a == AckTo(l)
<1>2. /\ a \in [Lanes -> 0..MaxPub]
      /\ a[l] \in {acked[l], pending[l]} /\ a[l] >= acked[l] /\ a[l] >= pending[l]
      /\ \A k \in Lanes \ {l} : a[k] = acked[k]
  BY <1>1 DEF AckTo
<1> HIDE DEF a
<1>3. \/ Ack(l) /\ acked' = a
      \/ ~Ack(l) /\ AckFails(l) /\ acked' \in {acked, a}
  BY DEF Ack, AckFails, a
<1>4. \/ pending' = [pending EXCEPT ![l] = 0]
      \/ pending' = pending
  BY DEF Ack, AckFails
<1>5. /\ pc = "flush" /\ pc' = "flush" /\ l \in flushing /\ flushing' = flushing \ {l}
      /\ UNCHANGED <<pub, sent, owed, sub, reconf, ids, frame, todo, failed, stored>>
  BY DEF Ack, AckFails, frameVars
<1>6. /\ acked' \in [Lanes -> 0..MaxPub] /\ acked'[l] \in {acked[l], pending[l]}
      /\ acked'[l] >= acked[l]
      /\ Ack(l) => acked'[l] >= pending[l]
      /\ \A k \in Lanes \ {l} : acked'[k] = acked[k]
  BY <1>1, <1>2, <1>3
<1>7. /\ pending' \in [Lanes -> 0..MaxPub] /\ pending'[l] \in {0, pending[l]}
      /\ \A k \in Lanes \ {l} : pending'[k] = pending[k]
  BY <1>1, <1>4, IntakeAssumption
<1> QED BY <1>5, <1>6, <1>7

\* What a step of a subscription does.
LEMMA StageStep ==
    ASSUME TypeOK, NEW l \in Subs, SubscriptionStep(l)
    PROVE  /\ sub[l] \in LaneStages \ {"gone"}
           /\ sub' \in [Subs -> LaneStages]
           /\ \A k \in Subs \ {l} : sub'[k] = sub[k]
           /\ sub[l] = "none" => sub'[l] = "posted"
           /\ sub[l] = "posted" => sub'[l] = "saved"
           /\ sub[l] = "saved" => sub'[l] = "notified"
           /\ sub[l] = "notified" => sub'[l] \in Leaving
           /\ sub[l] \in Leaving => sub'[l] = "gone"
           /\ sub[l] \notin Leaving => owed' = owed
           /\ sub[l] \in Leaving =>
                 owed' = [i \in DOMAIN owed |->
                            owed[i] \ (Targets(pub[i]) \ TargetsIn(Declared \ {l}, pub[i]))]
           /\ reconf' \in BOOLEAN
<1>1. sub[l] \in LaneStages /\ sub \in [Subs -> LaneStages]
  BY DEF TypeOK, LaneStages
<1>2. PICK stage \in NextStages[sub[l]] :
        /\ sub' = [sub EXCEPT ![l] = stage]
        /\ owed' = IF stage # "gone" THEN owed
                   ELSE [i \in DOMAIN owed |->
                           owed[i] \ (Targets(pub[i]) \ TargetsIn(Declared \ {l}, pub[i]))]
        /\ reconf' = (reconf \/ stage = "notified")
  BY DEF SubscriptionStep
<1>3. /\ sub[l] # "gone" /\ stage \in LaneStages
      /\ sub[l] = "none" => stage = "posted"
      /\ sub[l] = "posted" => stage = "saved"
      /\ sub[l] = "saved" => stage = "notified"
      /\ sub[l] = "notified" => stage \in Leaving
      /\ sub[l] \in Leaving => stage = "gone"
      /\ sub[l] \notin Leaving => stage # "gone"
  BY <1>1, <1>2 DEF NextStages, LaneStages, Leaving
<1>4. sub'[l] = stage /\ sub' \in [Subs -> LaneStages] /\ \A k \in Subs \ {l} : sub'[k] = sub[k]
  BY <1>1, <1>2, <1>3
<1>5. reconf' \in BOOLEAN
  BY <1>2 DEF TypeOK
<1> QED BY <1>1, <1>2, <1>3, <1>4, <1>5

-----------------------------------------------------------------------------
(* Type correctness *)

LEMMA NoMarks == [l \in Lanes |-> 0] \in [Lanes -> 0..MaxPub]
BY IntakeAssumption

LEMMA InitType == Init => TypeInv
<1> SUFFICES ASSUME Init PROVE TypeInv
  OBVIOUS
<1>1. pub = <<>> /\ owed = <<>> /\ pc = "top" /\ ids = {} /\ todo = {} /\ flushing = {}
  BY DEF Init
<1>2. acked \in [Lanes -> 0..MaxPub] /\ sent \in [Lanes -> 0..MaxPub] /\ pending \in [Lanes -> 0..MaxPub]
  BY NoMarks DEF Init
<1>3. sub \in [Subs -> {"none", "posted", "saved", "notified", "deleted", "lapsed", "gone"}]
  BY DEF Init
<1>4. stored \in [Sessions -> Seq(1..MaxPub)]
  BY DEF Init
<1>5. frame \in 0..MaxPub /\ faults \in 0..MaxFaults /\ Len(pub) <= MaxPub
  BY <1>1, IntakeAssumption DEF Init
<1>6. reconf \in BOOLEAN /\ failed \in BOOLEAN /\ lossy \in BOOLEAN
  BY DEF Init
<1> QED BY <1>1, <1>2, <1>3, <1>4, <1>5, <1>6 DEF TypeInv, TypeOK

\* After an append, whatever it did.
LEMMA AfterAppendType ==
    ASSUME TypeInv, pc = "dispatch", NEW rest, NEW ok, AfterAppend(rest, ok)
    PROVE  /\ pc' \in {"dispatch", "flush"}
           /\ pending' \in [Lanes -> 0..MaxPub]
           /\ flushing' \subseteq Lanes
<1>1. pub[frame] \in Lanes /\ frame \in 0..MaxPub
  BY DEF TypeInv, TypeOK
<1>2. Mark(pub[frame], frame) \in [Lanes -> 0..MaxPub]
  BY <1>1, MarkType DEF TypeInv
<1> QED BY <1>2 DEF AfterAppend, TypeInv, TypeOK, ackVars

LEMMA NextType == TypeInv /\ [Next]_vars => TypeInv'
<1> SUFFICES ASSUME TypeInv, [Next]_vars PROVE TypeInv'
  OBVIOUS
<1> USE IntakeAssumption
<1>t. TypeOK /\ (pc = "dispatch" => frame \in 1..Len(pub))
  BY DEF TypeInv
<1>1. ASSUME NEW l \in Lanes, Publish(l) PROVE TypeInv'
  <2>1. Targets(l) \subseteq Sessions
    BY TargetsType DEF Targets, Declared
  <2>2. IF l \in Subs THEN {Owner[l]} \subseteq Sessions ELSE Targets(l) \subseteq Sessions
    BY <2>1
  <2>3. /\ pub' \in Seq(Lanes) /\ Len(pub') = Len(pub) + 1 /\ Len(pub') <= MaxPub
        /\ owed' \in Seq(SUBSET Sessions) /\ Len(owed') = Len(pub')
    BY <1>1, <1>t, <2>2 DEF Publish, TypeOK
  <2>4. UNCHANGED <<acked, sent, sub, reconf, pc, ids, frame, todo, failed, pending, flushing,
                    stored, faults, lossy>>
    BY <1>1 DEF Publish, frameVars, ackVars, faultVars
  <2>5. pc' = "dispatch" => frame' \in 1..Len(pub')
    BY <1>t, <2>3, <2>4 DEF TypeOK
  <2>6. TypeOK'
    BY <1>t, <2>3, <2>4 DEF TypeOK
  <2> QED BY <2>5, <2>6 DEF TypeInv
<1>2. ASSUME NEW l \in Subs, SubscriptionStep(l) PROVE TypeInv'
  <2>2. sub' \in [Subs -> LaneStages] /\ reconf' \in BOOLEAN
    BY <1>2, <1>t, StageStep
  <2>3. owed' \in Seq(SUBSET Sessions) /\ Len(owed') = Len(owed)
    <3>1. CASE sub[l] \in Leaving
      <4>1. owed' = [i \in DOMAIN owed |->
                       owed[i] \ (Targets(pub[i]) \ TargetsIn(Declared \ {l}, pub[i]))]
        BY <1>2, <1>t, <3>1, StageStep
      <4>2. DOMAIN owed = 1..Len(owed) /\ \A i \in DOMAIN owed : owed[i] \subseteq Sessions
        BY <1>t DEF TypeOK
      <4>3. owed' \in [1..Len(owed) -> SUBSET Sessions]
        BY <4>1, <4>2
      <4>4. Len(owed) \in Nat
        BY <1>t DEF TypeOK
      <4> HIDE DEF TypeOK
      <4> QED BY <4>3, <4>4, SeqOfFunction
    <3>2. CASE sub[l] \notin Leaving
      BY <1>2, <3>2, <1>t, StageStep DEF TypeOK
    <3> QED BY <3>1, <3>2
  <2>4. UNCHANGED <<pub, acked, sent, pc, ids, frame, todo, failed, pending, flushing,
                    stored, faults, lossy>>
    BY <1>2 DEF SubscriptionStep, frameVars, ackVars, faultVars
  <2> QED BY <1>t, <2>2, <2>3, <2>4 DEF TypeInv, TypeOK, LaneStages
<1>3. CASE Scan \/ Rescan \/ Connect \/ Reconfigure
  <2>1. Active \subseteq Subs
    BY DEF Active, Declared
  <2> QED BY <1>3, <1>t, <2>1
        DEF Scan, Rescan, Connect, Reconfigure, TypeInv, TypeOK, relayVars, frameVars, ackVars, faultVars
<1>4. CASE ConnectFails \/ Drop
  BY <1>4, <1>t
     DEF ConnectFails, Drop, Fault, TypeInv, TypeOK, relayVars, frameVars, ackVars, faultVars
<1>5. CASE Comment \/ FlushDone
  BY <1>5, <1>t
     DEF Comment, FlushDone, Pending, TypeInv, TypeOK, relayVars, frameVars, ackVars, faultVars
<1>6. ASSUME NEW l \in Lanes, Receive(l) PROVE TypeInv'
  <2>1. NextOf(l) \in 1..Len(pub) /\ NextOf(l) <= MaxPub /\ NextOf(l) \in 0..MaxPub
    BY <1>6, <1>t, NextOfFacts DEF Receive, TypeOK
  <2>2. Mark(l, NextOf(l)) \in [Lanes -> 0..MaxPub]
    BY <2>1, <1>t, MarkType
  <2>3. Targets(l) \subseteq Sessions
    BY TargetsType DEF Targets, Declared
  <2>4. /\ pending' \in [Lanes -> 0..MaxPub] /\ flushing' \subseteq Lanes
        /\ pc' \in {"flush", "dispatch"}
    BY <1>6, <2>2, <1>t DEF Receive, TypeOK, ackVars
  <2>5. /\ sent' \in [Lanes -> 0..MaxPub] /\ frame' \in 1..Len(pub) /\ frame' \in 0..MaxPub
        /\ todo' \subseteq Sessions /\ failed' \in BOOLEAN
    BY <1>6, <2>1, <2>3, <1>t DEF Receive, TypeOK
  <2>6. UNCHANGED <<pub, acked, owed, sub, reconf, ids, stored, faults, lossy>>
    BY <1>6 DEF Receive, faultVars
  <2> QED BY <1>t, <2>4, <2>5, <2>6 DEF TypeInv, TypeOK
<1>7. ASSUME NEW l \in Lanes, Skip(l) PROVE TypeInv'
  <2>1. NextOf(l) \in 0..MaxPub
    BY <1>7, <1>t, NextOfFacts DEF Skip, TypeOK
  <2> QED BY <1>7, <1>t, <2>1
        DEF Skip, Fault, TypeInv, TypeOK, frameVars, ackVars
<1>8. ASSUME NEW s \in Sessions, AppendTo(s) PROVE TypeInv'
  <2>1. pc = "dispatch" /\ AfterAppend(todo \ {s}, ~failed)
    BY <1>8 DEF AppendTo
  <2>2. /\ pc' \in {"dispatch", "flush"} /\ pending' \in [Lanes -> 0..MaxPub]
        /\ flushing' \subseteq Lanes
    BY <2>1, AfterAppendType
  <2>3. stored' \in [Sessions -> Seq(1..MaxPub)]
    <3>1. frame \in 1..MaxPub
      BY <2>1, <1>t DEF TypeOK
    <3> QED BY <1>8, <3>1, <1>t DEF AppendTo, TypeOK
  <2>4. UNCHANGED <<pub, acked, sent, owed, sub, reconf, ids, frame, failed, faults, lossy>>
        /\ todo' \subseteq Sessions
    BY <1>8, <1>t DEF AppendTo, relayVars, faultVars, TypeOK
  <2> QED BY <1>t, <2>1, <2>2, <2>3, <2>4 DEF TypeInv, TypeOK
<1>9. ASSUME NEW s \in Sessions, AppendFails(s) PROVE TypeInv'
  <2>1. pc = "dispatch" /\ AfterAppend(todo \ {s}, FALSE)
    BY <1>9 DEF AppendFails
  <2>2. /\ pc' \in {"dispatch", "flush"} /\ pending' \in [Lanes -> 0..MaxPub]
        /\ flushing' \subseteq Lanes
    BY <2>1, AfterAppendType
  <2>3. UNCHANGED <<pub, acked, sent, owed, sub, reconf, ids, frame, stored>>
        /\ todo' \subseteq Sessions /\ failed' \in BOOLEAN
        /\ faults' \in 0..MaxFaults /\ lossy' \in BOOLEAN
    BY <1>9, <1>t DEF AppendFails, relayVars, Fault, TypeOK
  <2> QED BY <1>t, <2>1, <2>2, <2>3 DEF TypeInv, TypeOK
<1>10. ASSUME NEW l \in Lanes, Ack(l) \/ AckFails(l) PROVE TypeInv'
  <2>1. /\ pc' = "flush" /\ flushing' \subseteq flushing
        /\ UNCHANGED <<pub, sent, owed, sub, reconf, ids, frame, todo, failed, stored>>
        /\ acked' \in [Lanes -> 0..MaxPub] /\ pending' \in [Lanes -> 0..MaxPub]
    BY <1>10, <1>t, AckFacts
  <2>2. faults' \in 0..MaxFaults /\ lossy' \in BOOLEAN
    BY <1>10, <1>t DEF Ack, AckFails, Fault, faultVars, TypeOK
  <2> QED BY <1>t, <2>1, <2>2 DEF TypeInv, TypeOK
<1>11. CASE Crash
  <2>1. pending' \in [Lanes -> 0..MaxPub] /\ flushing' = {} /\ frame' = 0 /\ todo' = {}
        /\ failed' = FALSE /\ pc' = "top" /\ reconf' = FALSE /\ ids' = {}
    BY <1>11, NoMarks DEF Crash
  <2>2. UNCHANGED <<pub, acked, sent, owed, sub, stored>>
    BY <1>11 DEF Crash, relayVars
  <2>3. faults' \in 0..MaxFaults /\ lossy' \in BOOLEAN
    BY <1>11, <1>t DEF Crash, Fault, TypeOK
  <2>4. 0 \in 0..MaxPub
    OBVIOUS
  <2> QED BY <1>t, <2>1, <2>2, <2>3, <2>4 DEF TypeInv, TypeOK
<1>12. CASE UNCHANGED vars
  BY <1>12, <1>t DEF vars, TypeInv, TypeOK, relayVars, frameVars, ackVars, faultVars
<1> QED BY <1>1, <1>2, <1>3, <1>4, <1>5, <1>6, <1>7, <1>8, <1>9, <1>10, <1>11, <1>12
      DEF Next, Run, Dispatch, Flush

\* Every reachable state of the intake has the types TypeOK gives it.
THEOREM TypeCorrect == Spec => []TypeOK
<1>1. Init => TypeInv
  BY InitType
<1>2. TypeInv /\ [Next]_vars => TypeInv'
  BY NextType
<1>3. TypeInv => TypeOK
  BY DEF TypeInv
<1> QED BY <1>1, <1>2, <1>3, PTL DEF Spec

-----------------------------------------------------------------------------
(* The inductive invariant *)

\* Nothing of the lane has been on a connection.
Untouched(l) == acked[l] = 0 /\ sent[l] = 0 /\ pending[l] = 0 /\ l \notin ids

\* Every mark is the number of a record of its lane, every copy that of a record.
MarksInv ==
    /\ \A l \in Lanes : acked[l] <= Len(pub) /\ sent[l] <= Len(pub) /\ pending[l] <= Len(pub)
    /\ \A l \in Lanes : \A i \in {acked[l], pending[l]} \ {0} : pub[i] = l
    /\ \A l \in flushing : pending[l] > 0
    /\ \A s \in Sessions : \A k \in DOMAIN stored[s] : stored[s][k] <= Len(pub)
    /\ pc = "dispatch" => sent[pub[frame]] = frame

\* A subscription that is not declared yet has not been on a connection.
LaneInv == \A l \in Subs : sub[l] \in {"none", "posted"} => Untouched(l)

\* Whom a record is owed to declares its lane, or is about to.
OwedInv ==
    \A i \in 1..Len(pub) : \A s \in owed[i] :
        \/ s \in Targets(pub[i])
        \/ pub[i] \in Subs /\ sub[pub[i]] = "posted" /\ s = Owner[pub[i]]

\* The records of lane l up to n are where they are owed.
Covered(l, n) ==
    \A i \in 1..Len(pub) : pub[i] = l /\ i <= n =>
        \A s \in Sessions : StillOwed(i, s) => Stored(i, s)

AckInv == ~lossy => \A l \in Lanes : Covered(l, acked[l]) /\ Covered(l, pending[l])

\* What was sent on this connection is stored but for the frame in dispatch.
SentInv ==
    ~lossy /\ Connected =>
        \A i \in 1..Len(pub) : i <= sent[pub[i]] =>
            \A s \in Sessions : StillOwed(i, s) =>
                Stored(i, s) \/ (pc = "dispatch" /\ i = frame /\ s \in todo)

\* The frame in dispatch, as long as its appends succeed.
FrameInv ==
    pc = "dispatch" /\ ~failed =>
        \A s \in Sessions : StillOwed(frame, s) => Stored(frame, s) \/ s \in todo

IInv ==
    TypeInv /\ MarksInv /\ LaneInv /\ OwedInv /\ AckInv /\ SentInv /\ FrameInv /\ AckPointStored

\* Before a record is stored, the older ones of its lane are, where they are owed.
OrderInv ==
    ~lossy => \A s \in Sessions : \A k \in DOMAIN stored[s] :
        \A i \in 1..(stored[s][k] - 1) :
            pub[i] = pub[stored[s][k]] /\ s \in owed[i] =>
                \E h \in 1..(k - 1) : stored[s][h] = i

\* Record i will not be stored by s again unless there is another fault.
Settled(i, s) ==
    \/ acked[pub[i]] >= i /\ (Connected => sent[pub[i]] >= i)
    \/ pub[i] \in Subs /\ sub[pub[i]] \in {"deleted", "lapsed", "gone"}
    \/ pc = "dispatch" /\ frame = i /\ ~failed /\ s \notin todo
    \/ pc = "flush" /\ pub[i] \in flushing /\ pending[pub[i]] >= i /\ sent[pub[i]] >= i

\* Every copy but one of a record stands for a fault; every copy does as long as
\* another may follow, and that of an append that failed is counted in advance.
CopiesInv ==
    \A s \in Sessions : \A i \in 1..Len(pub) :
        /\ Copies(s, i) <= faults + 1
        /\ Copies(s, i) <= faults \/ Settled(i, s)
        /\ pc = "dispatch" /\ i = frame /\ s \in todo =>
               Copies(s, i) + (IF failed THEN 1 ELSE 0) <= faults

-----------------------------------------------------------------------------
(* What the steps leave of what is owed, stored and marked *)

LEMMA TargetsMonotone ==
    ASSUME NEW D, NEW E, D \subseteq E, NEW l
    PROVE  TargetsIn(D, l) \subseteq TargetsIn(E, l)
BY DEF TargetsIn

\* Declarations change at two of the steps of a subscription.
LEMMA DeclaredStep ==
    ASSUME TypeOK, NEW l \in Subs, SubscriptionStep(l)
    PROVE  /\ sub[l] = "posted" => l \notin Declared /\ Declared' = Declared \union {l}
           /\ sub[l] \in Leaving => Declared' = Declared \ {l}
           /\ sub[l] \notin {"posted"} \union Leaving => Declared' = Declared
           /\ \A k \in Subs \ {l} : sub'[k] = sub[k]
           /\ sub'[l] # "none" /\ (sub'[l] = "posted" => sub[l] = "none")
<1> QED BY StageStep DEF Declared, LaneStages, Leaving, TypeOK

\* A step of a subscription adds nothing to what is owed, but on its own lane
\* when it is saved, and takes from it only sessions that leave.
LEMMA OwedStep ==
    ASSUME TypeOK, OwedInv, NEW l \in Subs, SubscriptionStep(l)
    PROVE  /\ pub' = pub /\ Len(owed') = Len(owed)
           /\ OwedInv'
           /\ \A i \in 1..Len(pub) : owed'[i] \subseteq owed[i]
           /\ \A i \in 1..Len(pub), s \in Sessions :
                StillOwed(i, s)' => StillOwed(i, s) \/ (pub[i] = l /\ sub[l] = "posted")
<1> DEFINE T(i) == TargetsIn(Declared, pub[i])
           U(i) == TargetsIn(Declared', pub[i])
<1>1. pub' = pub
  BY DEF SubscriptionStep
<1>2. /\ DOMAIN owed = 1..Len(pub) /\ owed \in Seq(SUBSET Sessions)
      /\ \A i \in 1..Len(pub) : pub[i] \in Lanes
  BY DEF TypeOK
<1>3. \A i : Targets(pub[i])' = U(i) /\ Targets(pub[i]) = T(i)
  BY <1>1 DEF Targets, TargetsIn
<1>4. /\ Len(owed') = Len(owed)
      /\ \A i \in 1..Len(pub) :
           owed'[i] = IF sub[l] \in Leaving THEN owed[i] \ (T(i) \ U(i)) ELSE owed[i]
  <2>1. CASE sub[l] \in Leaving
    <3>1. owed' = [i \in DOMAIN owed |->
                     owed[i] \ (Targets(pub[i]) \ TargetsIn(Declared \ {l}, pub[i]))]
      BY <2>1, StageStep
    <3>2. owed' = [i \in 1..Len(pub) |-> owed[i] \ (T(i) \ U(i))]
      BY <2>1, <3>1, <1>2, <1>3, DeclaredStep
    <3>3. Len(owed) = Len(pub) /\ Len(pub) \in Nat
      BY DEF TypeOK
    <3>4. \A i \in 1..Len(pub) : owed[i] \subseteq Sessions
      BY <1>2
    <3>5. owed' \in [1..Len(pub) -> SUBSET Sessions]
      BY <3>2, <3>4
    <3>6. Len(owed') = Len(owed)
      BY <3>3, <3>5, SeqOfFunction
    <3> QED BY <2>1, <3>2, <3>6
  <2>2. CASE sub[l] \notin Leaving
    BY <2>2, StageStep
  <2> QED BY <2>1, <2>2
<1>5. \A i \in 1..Len(pub) : owed'[i] \subseteq owed[i]
  BY <1>4
<1>6. ASSUME NEW i \in 1..Len(pub)
      PROVE  IF sub[l] \in Leaving THEN U(i) \subseteq T(i) ELSE T(i) \subseteq U(i)
  BY DeclaredStep, TargetsMonotone
<1>7. ASSUME NEW i \in 1..Len(pub), NEW s \in owed'[i]
      PROVE  \/ s \in U(i)
             \/ pub[i] \in Subs /\ sub'[pub[i]] = "posted" /\ s = Owner[pub[i]]
  <2>1. s \in owed[i] /\ pub[i] \in Lanes
    BY <1>2, <1>5, <1>7
  <2>2. CASE s \in T(i)
    BY <1>4, <1>6, <1>7, <2>2
  <2>3. CASE pub[i] \in Subs /\ sub[pub[i]] = "posted" /\ s = Owner[pub[i]]
    <3>1. CASE pub[i] = l
      BY <2>3, <3>1, DeclaredStep DEF TargetsIn
    <3>2. CASE pub[i] # l
      BY <2>3, <3>2, DeclaredStep
    <3> QED BY <3>1, <3>2
  <2> QED BY <1>3, <2>1, <2>2, <2>3 DEF OwedInv
<1>8. OwedInv'
  BY <1>1, <1>3, <1>7 DEF OwedInv
<1>9. ASSUME NEW i \in 1..Len(pub), NEW s \in Sessions, StillOwed(i, s)'
      PROVE  StillOwed(i, s) \/ (pub[i] = l /\ sub[l] = "posted")
  <2>1. s \in owed[i] /\ s \in U(i)
    BY <1>1, <1>3, <1>5, <1>9 DEF StillOwed
  <2>2. CASE s \in T(i)
    BY <1>3, <2>1, <2>2 DEF StillOwed
  <2>3. CASE pub[i] \in Subs /\ sub[pub[i]] = "posted" /\ s \notin T(i)
    <3>1. pub[i] \in Declared' /\ pub[i] \notin Declared
      BY <2>1, <2>3 DEF TargetsIn, Declared
    <3> QED BY <3>1, DeclaredStep, <2>3
  <2> QED BY <1>3, <2>1, <2>2, <2>3 DEF OwedInv
<1> QED BY <1>1, <1>4, <1>5, <1>8, <1>9

\* What a mark is afterwards: the larger of the two.
LEMMA MarkFacts ==
    ASSUME TypeOK, NEW l \in Lanes, NEW i \in 1..MaxPub
    PROVE  /\ Mark(l, i)[l] = (IF i > pending[l] THEN i ELSE pending[l])
           /\ \A k \in Lanes \ {l} : Mark(l, i)[k] = pending[k]
BY DEF Mark, TypeOK

\* The four ways an append or a frame without targets leaves the marks.
LEMMA AfterAppendFacts ==
    ASSUME TypeInv, pc = "dispatch", NEW rest, NEW ok \in BOOLEAN, AfterAppend(rest, ok)
    PROVE  /\ rest # {} => pc' = "dispatch" /\ UNCHANGED <<pending, flushing>>
           /\ rest = {} => /\ pc' = "flush"
                           /\ flushing' = {k \in Lanes : pending'[k] > 0}
           /\ \A k \in Lanes : pending'[k] # pending[k] =>
                rest = {} /\ ok /\ k = pub[frame] /\ pending'[k] = frame
           /\ rest = {} /\ ok => pending'[pub[frame]] >= frame
<1>1. pub[frame] \in Lanes /\ frame \in 1..MaxPub
  BY DEF TypeInv, TypeOK
<1>2. /\ Mark(pub[frame], frame)[pub[frame]] =
             (IF frame > pending[pub[frame]] THEN frame ELSE pending[pub[frame]])
      /\ \A k \in Lanes \ {pub[frame]} : Mark(pub[frame], frame)[k] = pending[k]
  BY <1>1, MarkFacts DEF TypeInv
<1>3. pending[pub[frame]] \in Nat
  BY <1>1 DEF TypeInv, TypeOK
<1>4. CASE rest # {}
  BY <1>4 DEF AfterAppend, ackVars
<1>5. CASE rest = {} /\ ~ok
  BY <1>5 DEF AfterAppend
<1>6. CASE rest = {} /\ ok
  BY <1>1, <1>2, <1>3, <1>6 DEF AfterAppend
<1> QED BY <1>4, <1>5, <1>6

LEMMA ReceiveFacts ==
    ASSUME TypeInv, NEW l \in Lanes, Receive(l)
    PROVE  /\ pc = "stream" /\ Deliverable(l) # {} /\ frame' = NextOf(l)
           /\ sent' = [sent EXCEPT ![l] = NextOf(l)]
           /\ todo' = Targets(l) /\ failed' = FALSE
           /\ l \in Subs => l \in ids \intersect Live
           /\ UNCHANGED <<pub, acked, owed, sub, reconf, ids, stored, faults, lossy>>
           /\ Targets(l) # {} => pc' = "dispatch" /\ UNCHANGED <<pending, flushing>>
           /\ Targets(l) = {} => /\ pc' = "flush"
                                 /\ flushing' = {k \in Lanes : pending'[k] > 0}
           /\ \A k \in Lanes : pending'[k] # pending[k] =>
                Targets(l) = {} /\ k = l /\ pending'[k] = NextOf(l)
<1>1. NextOf(l) \in 1..MaxPub
  BY NextOfFacts DEF Receive, TypeInv
<1>2. \A k \in Lanes : Mark(l, NextOf(l))[k] # pending[k] =>
          k = l /\ Mark(l, NextOf(l))[k] = NextOf(l)
  BY <1>1, MarkFacts DEF TypeInv
<1>3. l \in Subs => l \in ids \intersect Live
  BY IntakeAssumption DEF Receive
<1>4. CASE Targets(l) = {}
  BY <1>2, <1>3, <1>4 DEF Receive, faultVars
<1>5. CASE Targets(l) # {}
  BY <1>3, <1>5 DEF Receive, faultVars, ackVars
<1> QED BY <1>4, <1>5

LEMMA MarksStep == IInv /\ [Next]_vars => MarksInv'
<1> SUFFICES ASSUME IInv, [Next]_vars PROVE MarksInv'
  OBVIOUS
<1> USE IntakeAssumption
<1>t. /\ TypeInv /\ TypeOK /\ MarksInv
      /\ pc = "dispatch" => frame \in 1..Len(pub)
  BY DEF IInv, TypeInv
<1>n. /\ Len(pub) \in Nat /\ \A i \in 1..Len(pub) : pub[i] \in Lanes
      /\ \A l \in Lanes : acked[l] \in Nat /\ sent[l] \in Nat /\ pending[l] \in Nat
      /\ \A s \in Sessions : \A k \in DOMAIN stored[s] : stored[s][k] \in Nat
      /\ flushing \subseteq Lanes
  BY <1>t DEF TypeOK
<1>1. ASSUME NEW l \in Lanes, Publish(l) PROVE MarksInv'
  <2>1. /\ Len(pub') = Len(pub) + 1
        /\ \A i \in 1..Len(pub) : pub'[i] = pub[i]
    BY <1>1, <1>t DEF Publish, TypeOK
  <2>2. UNCHANGED <<acked, sent, pc, frame, pending, flushing, stored>>
    BY <1>1 DEF Publish, frameVars, ackVars
  <2>3. \A k \in Lanes : acked[k] <= Len(pub) /\ sent[k] <= Len(pub) /\ pending[k] <= Len(pub)
    BY <1>t DEF MarksInv
  <2>4. \A k \in Lanes : \A i \in {acked[k], pending[k]} \ {0} : pub'[i] = k
    BY <1>t, <1>n, <2>1, <2>3 DEF MarksInv
  <2>5. \A s \in Sessions : \A k \in DOMAIN stored[s] : stored[s][k] <= Len(pub')
    BY <1>t, <1>n, <2>1 DEF MarksInv
  <2>6. \A k \in Lanes : acked[k] <= Len(pub') /\ sent[k] <= Len(pub') /\ pending[k] <= Len(pub')
    BY <1>n, <2>1, <2>3
  <2>7. pc = "dispatch" => sent[pub'[frame]] = frame
    BY <1>t, <2>1 DEF MarksInv
  <2>8. \A k \in flushing : pending[k] > 0
    BY <1>t DEF MarksInv
  <2> QED BY <2>2, <2>4, <2>5, <2>6, <2>7, <2>8 DEF MarksInv
<1>2. ASSUME NEW l \in Subs, SubscriptionStep(l) PROVE MarksInv'
  BY <1>2, <1>t DEF SubscriptionStep, MarksInv, frameVars, ackVars
<1>3. CASE Scan \/ Rescan \/ Connect \/ Reconfigure \/ ConnectFails \/ Drop
  BY <1>3, <1>t DEF Scan, Rescan, Connect, Reconfigure, ConnectFails, Drop, MarksInv,
                    relayVars, frameVars, ackVars
<1>4. CASE Comment \/ FlushDone
  BY <1>4, <1>t DEF Comment, FlushDone, Pending, MarksInv, relayVars, frameVars, ackVars
<1>5. ASSUME NEW l \in Lanes, Receive(l) PROVE MarksInv'
  <2> DEFINE i == NextOf(l)
  <2>1. i \in 1..Len(pub) /\ pub[i] = l
    BY <1>5, <1>t, NextOfFacts, ReceiveFacts
  <2> HIDE DEF i
  <2>2. /\ frame' = i /\ UNCHANGED <<pub, acked, stored>>
        /\ sent' = [sent EXCEPT ![l] = i]
        /\ \A k \in Lanes : pending'[k] # pending[k] => k = l /\ pending'[k] = i
        /\ \/ flushing' = flushing /\ pending' = pending
           \/ flushing' = {k \in Lanes : pending'[k] > 0}
    BY <1>5, <1>t, ReceiveFacts DEF i
  <2>3. sent'[l] = i /\ \A k \in Lanes \ {l} : sent'[k] = sent[k]
    BY <2>2, <1>t DEF TypeOK
  <2> QED BY <1>t, <1>n, <2>1, <2>2, <2>3 DEF MarksInv
<1>6. ASSUME NEW l \in Lanes, Skip(l) PROVE MarksInv'
  <2>1. NextOf(l) \in 1..Len(pub)
    BY <1>6, <1>t, NextOfFacts DEF Skip
  <2> QED BY <1>6, <1>t, <1>n, <2>1 DEF Skip, MarksInv, frameVars, ackVars, TypeOK
<1>7. ASSUME NEW s \in Sessions, AppendTo(s) PROVE MarksInv'
  <2>1. /\ pc = "dispatch" /\ AfterAppend(todo \ {s}, ~failed) /\ (~failed) \in BOOLEAN
        /\ UNCHANGED <<pub, acked, sent, frame>>
        /\ stored' = [stored EXCEPT ![s] = Append(@, frame)]
    BY <1>7, <1>t DEF AppendTo, relayVars, TypeOK
  <2>2. /\ \A k \in Lanes : pending'[k] # pending[k] => k = pub[frame] /\ pending'[k] = frame
        /\ \/ flushing' = flushing /\ pending' = pending
           \/ flushing' = {k \in Lanes : pending'[k] > 0}
    BY <2>1, <1>t, AfterAppendFacts
  <2>3. \A x \in Sessions : \A k \in DOMAIN stored'[x] : stored'[x][k] <= Len(pub)
    <3>1. \A x \in Sessions : stored[x] \in Seq(1..MaxPub)
      BY <1>t DEF TypeOK
    <3>2. frame \in 1..Len(pub) /\ frame \in 1..MaxPub
      BY <1>t, <2>1 DEF TypeOK
    <3>3. \A x \in Sessions : \A k \in DOMAIN stored[x] : stored[x][k] <= Len(pub)
      BY <1>t DEF MarksInv
    <3>4. /\ stored'[s] = Append(stored[s], frame)
          /\ \A x \in Sessions \ {s} : stored'[x] = stored[x]
      BY <2>1, <1>t DEF TypeOK
    <3>5. \A k \in DOMAIN stored'[s] : stored'[s][k] <= Len(pub)
      BY <3>1, <3>2, <3>3, <3>4
    <3> QED BY <3>3, <3>4, <3>5
  <2> QED BY <1>t, <1>n, <2>1, <2>2, <2>3 DEF MarksInv
<1>8. ASSUME NEW s \in Sessions, AppendFails(s) PROVE MarksInv'
  <2>1. /\ pc = "dispatch" /\ AfterAppend(todo \ {s}, FALSE)
        /\ UNCHANGED <<pub, acked, sent, frame, stored>>
    BY <1>8 DEF AppendFails, relayVars
  <2>2. /\ \A k \in Lanes : pending'[k] = pending[k]
        /\ flushing' = flushing \/ flushing' = {k \in Lanes : pending'[k] > 0}
    BY <2>1, <1>t, AfterAppendFacts
  <2> QED BY <1>t, <1>n, <2>1, <2>2 DEF MarksInv
<1>9. ASSUME NEW l \in Lanes, Ack(l) \/ AckFails(l) PROVE MarksInv'
  <2>1. /\ pc = "flush" /\ l \in flushing /\ flushing' = flushing \ {l}
        /\ UNCHANGED <<pub, sent, frame, pc, stored>>
        /\ \A k \in Lanes \ {l} : acked'[k] = acked[k] /\ pending'[k] = pending[k]
        /\ acked'[l] \in {acked[l], pending[l]} /\ pending'[l] \in {0, pending[l]}
    BY <1>9, <1>t, AckFacts
  <2>2. \A k \in Lanes : acked'[k] <= Len(pub) /\ sent'[k] <= Len(pub) /\ pending'[k] <= Len(pub)
    BY <1>t, <1>n, <2>1 DEF MarksInv
  <2>3. \A k \in Lanes : {acked'[k], pending'[k]} \ {0} \subseteq {acked[k], pending[k]} \ {0}
    BY <2>1
  <2>4. \A k \in flushing' : pending'[k] > 0
    BY <1>t, <1>n, <2>1 DEF MarksInv
  <2> QED BY <1>t, <2>1, <2>2, <2>3, <2>4 DEF MarksInv
<1>10. CASE Crash
  BY <1>10, <1>t, <1>n DEF Crash, relayVars, MarksInv
<1>11. CASE UNCHANGED vars
  BY <1>11, <1>t DEF vars, relayVars, frameVars, ackVars, MarksInv
<1> QED BY <1>1, <1>2, <1>3, <1>4, <1>5, <1>6, <1>7, <1>8, <1>9, <1>10, <1>11
      DEF Next, Run, Dispatch, Flush

LEMMA LaneStep == IInv /\ [Next]_vars => LaneInv'
<1> SUFFICES ASSUME IInv, [Next]_vars PROVE LaneInv'
  OBVIOUS
<1>t. TypeInv /\ TypeOK /\ MarksInv /\ LaneInv /\ \A l \in Lanes : pending[l] \in Nat
  <2>1. TypeInv /\ MarksInv /\ LaneInv
    BY DEF IInv
  <2> QED BY <2>1 DEF TypeInv, TypeOK
<1>l. Subs \subseteq Lanes
  BY DEF Lanes
<1>1. ASSUME NEW l \in Subs, SubscriptionStep(l) PROVE LaneInv'
  <2>1. UNCHANGED <<acked, sent, pending, ids>>
    BY <1>1 DEF SubscriptionStep, ackVars
  <2> QED BY <1>1, <2>1, <1>t, DeclaredStep DEF LaneInv, Untouched
<1>2. CASE Scan
  BY <1>2, <1>t DEF Scan, LaneInv, Untouched, Active, Declared, relayVars, ackVars
<1>3. ASSUME NEW l \in Lanes, Receive(l) PROVE LaneInv'
  <2>1. /\ UNCHANGED <<sub, acked, ids>>
        /\ \A k \in Lanes \ {l} : sent'[k] = sent[k] /\ pending'[k] = pending[k]
        /\ l \in Subs => l \in ids
    BY <1>3, <1>t, ReceiveFacts DEF TypeOK
  <2> QED BY <2>1, <1>t, <1>l DEF LaneInv, Untouched
<1>4. ASSUME NEW l \in Lanes, Skip(l) PROVE LaneInv'
  <2>1. /\ UNCHANGED <<sub, acked, ids, pending>>
        /\ \A k \in Lanes \ {l} : sent'[k] = sent[k]
        /\ l \in Subs => l \in ids
    BY <1>4, <1>t, IntakeAssumption DEF Skip, ackVars, TypeOK
  <2> QED BY <2>1, <1>t, <1>l DEF LaneInv, Untouched
<1>5. ASSUME NEW s \in Sessions, AppendTo(s) \/ AppendFails(s) PROVE LaneInv'
  <2>1. /\ pc = "dispatch" /\ frame \in 1..Len(pub) /\ sent[pub[frame]] = frame
        /\ UNCHANGED <<sub, acked, ids, sent>>
        /\ \E ok \in BOOLEAN : AfterAppend(todo \ {s}, ok)
    BY <1>5, <1>t DEF AppendTo, AppendFails, relayVars, TypeInv, TypeOK, MarksInv
  <2>2. \A k \in Lanes : pending'[k] # pending[k] => k = pub[frame]
    BY <2>1, <1>t, AfterAppendFacts
  <2> QED BY <2>1, <2>2, <1>t, <1>l DEF LaneInv, Untouched
<1>6. ASSUME NEW l \in Lanes, Ack(l) \/ AckFails(l) PROVE LaneInv'
  <2>1. /\ l \in flushing /\ UNCHANGED <<sent, ids, sub>>
        /\ \A k \in Lanes \ {l} : acked'[k] = acked[k] /\ pending'[k] = pending[k]
    BY <1>6, <1>t, AckFacts
  <2>2. pending[l] > 0
    BY <2>1, <1>t DEF MarksInv
  <2> QED BY <2>1, <2>2, <1>t, <1>l DEF LaneInv, Untouched
<1>7. CASE Connect
  BY <1>7, <1>t, <1>l DEF Connect, LaneInv, Untouched, ackVars
<1>8. CASE Crash
  BY <1>8, <1>t, <1>l DEF Crash, LaneInv, Untouched, relayVars
<1>9. CASE Rescan \/ ConnectFails \/ Drop \/ Reconfigure \/ Comment \/ FlushDone \/ UNCHANGED vars
  BY <1>9, <1>t DEF Rescan, ConnectFails, Drop, Reconfigure, Comment, FlushDone, vars,
                    LaneInv, Untouched, relayVars, ackVars
<1>10. ASSUME NEW l \in Lanes, Publish(l) PROVE LaneInv'
  BY <1>10, <1>t DEF Publish, LaneInv, Untouched, ackVars
<1> QED BY <1>1, <1>2, <1>3, <1>4, <1>5, <1>6, <1>7, <1>8, <1>9, <1>10
      DEF Next, Run, Dispatch, Flush

-----------------------------------------------------------------------------
(* What is acknowledged is stored *)

SafeInv == AckInv /\ SentInv /\ FrameInv /\ AckPointStored

LEMMA SameOwed ==
    ASSUME UNCHANGED <<pub, owed, sub>>
    PROVE  \A i, s : StillOwed(i, s)' <=> StillOwed(i, s)
BY DEF StillOwed, Targets, Declared, TargetsIn

LEMMA SameStored ==
    ASSUME UNCHANGED stored
    PROVE  \A i, s : Stored(i, s)' <=> Stored(i, s)
BY DEF Stored

\* Steps that store nothing and owe nothing, between which no frame is dispatched.
LEMMA SafeElsewhere ==
    ASSUME IInv, UNCHANGED <<pub, owed, sub, stored, acked, lossy>>,
           \A l \in Lanes : pending'[l] \in {0, pending[l]},
           \/ pc' \notin {"stream", "dispatch", "flush"}
           \/ pc \in {"stream", "flush"} /\ pc' \in {"stream", "flush"} /\ sent' = sent
           \/ pc' = "stream" /\ sent' = acked
    PROVE  SafeInv'
<1>1. \A i, s : (StillOwed(i, s)' <=> StillOwed(i, s)) /\ (Stored(i, s)' <=> Stored(i, s))
  BY SameOwed, SameStored
<1>t. /\ \A i \in 1..Len(pub) : pub[i] \in Lanes /\ i > 0
      /\ \A l \in Lanes : pending[l] \in Nat /\ acked[l] \in Nat
      /\ AckInv /\ SentInv /\ AckPointStored
  BY DEF IInv, TypeInv, TypeOK
<1>2. AckInv'
  BY <1>1, <1>t DEF AckInv, Covered
<1>3. SentInv'
  BY <1>1, <1>t DEF SentInv, AckInv, Covered, Connected
<1>4. FrameInv'
  BY DEF FrameInv
<1>5. AckPointStored'
  BY <1>1, <1>t DEF AckPointStored
<1> QED BY <1>2, <1>3, <1>4, <1>5 DEF SafeInv

LEMMA SafePublish ==
    ASSUME IInv, NEW l \in Lanes, Publish(l)
    PROVE  SafeInv'
<1>1. /\ Len(pub') = Len(pub) + 1 /\ Len(pub) \in Nat
      /\ \A i \in 1..Len(pub) : pub'[i] = pub[i] /\ owed'[i] = owed[i] /\ pub[i] \in Lanes
      /\ pub'[Len(pub) + 1] \in Lanes
      /\ UNCHANGED <<acked, sent, sub, pc, frame, todo, failed, pending, stored, lossy>>
      /\ \A k \in Lanes : acked[k] \in Nat /\ sent[k] \in Nat /\ pending[k] \in Nat
      /\ pc = "dispatch" => frame \in 1..Len(pub)
  BY DEF IInv, TypeInv, TypeOK, Publish, frameVars, ackVars, faultVars
<1>2. \A i \in 1..Len(pub), s \in Sessions :
        (StillOwed(i, s)' <=> StillOwed(i, s)) /\ (Stored(i, s)' <=> Stored(i, s))
  BY <1>1 DEF StillOwed, Stored, Targets, Declared, TargetsIn
<1>3. \A k \in Lanes : acked[k] <= Len(pub) /\ sent[k] <= Len(pub) /\ pending[k] <= Len(pub)
  BY DEF IInv, MarksInv
<1>t. AckInv /\ SentInv /\ FrameInv /\ AckPointStored
  BY DEF IInv
<1>4. \A i \in 1..Len(pub') : i \in 1..Len(pub) \/ i = Len(pub) + 1
  BY <1>1
<1>5. AckInv'
  <2>1. ASSUME NEW k \in Lanes, NEW n \in {acked[k], pending[k]}, Covered(k, n) PROVE Covered(k, n)'
    <3>1. n \in Nat /\ n <= Len(pub)
      BY <1>1, <1>3
    <3>2. \A i \in 1..Len(pub') : i <= n => i \in 1..Len(pub)
      BY <1>1, <3>1
    <3> QED BY <1>1, <1>2, <2>1, <3>2 DEF Covered
  <2> QED BY <1>1, <2>1, <1>t DEF AckInv
<1>6. SentInv'
  BY <1>1, <1>2, <1>3, <1>4, <1>t DEF SentInv, Connected
<1>7. FrameInv'
  BY <1>1, <1>2, <1>t DEF FrameInv
<1>8. AckPointStored'
  BY <1>1, <1>2, <1>3, <1>t DEF AckPointStored
<1> QED BY <1>5, <1>6, <1>7, <1>8 DEF SafeInv

LEMMA SafeSubscription ==
    ASSUME IInv, NEW l \in Subs, SubscriptionStep(l)
    PROVE  SafeInv'
<1>1. /\ UNCHANGED <<pub, acked, sent, pc, frame, todo, failed, pending, stored, lossy>>
      /\ \A i \in 1..Len(pub) : pub[i] \in Lanes /\ i > 0
      /\ \A k \in Lanes : acked[k] \in Nat /\ sent[k] \in Nat /\ pending[k] \in Nat
      /\ pc = "dispatch" => frame \in 1..Len(pub)
      /\ l \in Lanes
  BY DEF IInv, TypeInv, TypeOK, SubscriptionStep, frameVars, ackVars, faultVars, Lanes
<1>2. /\ \A i, s : Stored(i, s)' <=> Stored(i, s)
      /\ \A i \in 1..Len(pub), s \in Sessions :
           StillOwed(i, s)' => StillOwed(i, s) \/ (pub[i] = l /\ sub[l] = "posted")
  BY <1>1, SameStored, OwedStep DEF IInv, TypeInv
<1>3. sub[l] = "posted" => acked[l] = 0 /\ sent[l] = 0 /\ pending[l] = 0
  BY DEF IInv, LaneInv, Untouched
<1>t. AckInv /\ SentInv /\ FrameInv /\ AckPointStored /\ MarksInv
  BY DEF IInv
<1>4. AckInv'
  BY <1>1, <1>2, <1>3, <1>t DEF AckInv, Covered
<1>5. SentInv'
  BY <1>1, <1>2, <1>3, <1>t DEF SentInv, Connected
<1>6. FrameInv'
  <2>1. pc = "dispatch" => sent[pub[frame]] = frame /\ frame > 0
    BY <1>1, <1>t DEF MarksInv
  <2> QED BY <1>1, <1>2, <1>3, <1>t, <2>1 DEF FrameInv
<1>7. AckPointStored'
  <2> SUFFICES ASSUME NEW k \in Lanes, NEW i \in {acked[k], pending[k]} \ {0}, NEW s \in Sessions,
                      StillOwed(i, s)'
               PROVE  Stored(i, s)
    BY <1>1, <1>2 DEF AckPointStored
  <2>1. i \in 1..Len(pub) /\ pub[i] = k
    BY <1>1, <1>t DEF MarksInv
  <2>2. StillOwed(i, s)
    BY <1>2, <1>3, <2>1
  <2> QED BY <2>2, <1>t DEF AckPointStored
<1> QED BY <1>4, <1>5, <1>6, <1>7 DEF SafeInv

LEMMA SafeReceive ==
    ASSUME IInv, NEW l \in Lanes, Receive(l)
    PROVE  SafeInv'
<1> DEFINE n == NextOf(l)
<1>1. /\ n \in 1..Len(pub) /\ n > 0 /\ pub[n] = l
      /\ \A i \in 1..Len(pub) : pub[i] = l /\ i < n => i <= sent[l]
  <2>1. Deliverable(l) # {} /\ TypeOK
    BY DEF Receive, IInv, TypeInv
  <2> QED BY <2>1, NextOfFacts
<1>2. /\ pc = "stream" /\ frame' = n /\ sent' = [sent EXCEPT ![l] = n]
      /\ todo' = Targets(l)
      /\ UNCHANGED <<pub, acked, owed, sub, stored, lossy>>
      /\ Targets(l) # {} => pc' = "dispatch" /\ pending' = pending
      /\ Targets(l) = {} => pc' = "flush"
      /\ \A k \in Lanes : pending'[k] # pending[k] => Targets(l) = {} /\ k = l /\ pending'[k] = n
  BY ReceiveFacts DEF IInv
<1> HIDE DEF n
<1>3. sent'[l] = n /\ \A k \in Lanes \ {l} : sent'[k] = sent[k]
  BY <1>2 DEF IInv, TypeInv, TypeOK
<1>4. \A i, s : (StillOwed(i, s)' <=> StillOwed(i, s)) /\ (Stored(i, s)' <=> Stored(i, s))
  BY <1>2, SameOwed, SameStored
<1>5. \A s : StillOwed(n, s) => s \in Targets(l)
  BY <1>1 DEF StillOwed
<1>t. /\ AckInv /\ SentInv /\ AckPointStored
      /\ \A i \in 1..Len(pub) : pub[i] \in Lanes /\ i \in Nat
  BY DEF IInv, TypeInv, TypeOK
<1>6. ~lossy => \A i \in 1..Len(pub) : i <= n /\ pub[i] = l =>
                   \A s \in Sessions : StillOwed(i, s) => Stored(i, s) \/ (i = n /\ s \in Targets(l))
  BY <1>1, <1>2, <1>5, <1>t DEF SentInv, Connected
<1>7. AckInv'
  BY <1>2, <1>4, <1>6, <1>t DEF AckInv, Covered
<1>8. SentInv'
  BY <1>2, <1>3, <1>4, <1>6, <1>t DEF SentInv, Connected
<1>9. FrameInv'
  BY <1>2, <1>4, <1>5 DEF FrameInv
<1>10. AckPointStored'
  BY <1>2, <1>4, <1>5, <1>t DEF AckPointStored
<1> QED BY <1>7, <1>8, <1>9, <1>10 DEF SafeInv

\* One more copy, in one inbox.
LEMMA AppendStores ==
    ASSUME TypeOK, NEW s \in Sessions, NEW i, stored' = [stored EXCEPT ![s] = Append(@, i)]
    PROVE  /\ \A j : \A x \in Sessions : Stored(j, x) => Stored(j, x)'
           /\ Stored(i, s)'
<1>1. /\ stored[s] \in Seq(1..MaxPub) /\ stored'[s] = Append(stored[s], i)
      /\ \A x \in Sessions \ {s} : stored'[x] = stored[x]
  BY DEF TypeOK
<1>2. /\ Len(stored[s]) \in Nat /\ DOMAIN stored[s] = 1..Len(stored[s])
      /\ DOMAIN stored'[s] = 1..(Len(stored[s]) + 1)
      /\ \A k \in DOMAIN stored[s] : stored'[s][k] = stored[s][k]
      /\ stored'[s][Len(stored[s]) + 1] = i
  BY <1>1
<1>3. \A j : Stored(j, s) => Stored(j, s)'
  BY <1>2 DEF Stored, Range
<1>4. Stored(i, s)'
  BY <1>2 DEF Stored, Range
<1> QED BY <1>1, <1>3, <1>4 DEF Stored

LEMMA SafeAppendTo ==
    ASSUME IInv, NEW s \in Sessions, AppendTo(s)
    PROVE  SafeInv'
<1>t. /\ AckInv /\ SentInv /\ FrameInv /\ AckPointStored /\ TypeOK /\ TypeInv
      /\ \A i \in 1..Len(pub) : pub[i] \in Lanes
      /\ \A k \in Lanes : acked[k] \in Nat /\ sent[k] \in Nat /\ pending[k] \in Nat
  BY DEF IInv, TypeInv, TypeOK
<1>1. /\ pc = "dispatch" /\ s \in todo /\ AfterAppend(todo \ {s}, ~failed) /\ (~failed) \in BOOLEAN
      /\ UNCHANGED <<pub, acked, sent, owed, sub, frame, failed, lossy>>
      /\ stored' = [stored EXCEPT ![s] = Append(@, frame)] /\ todo' = todo \ {s}
  BY <1>t DEF AppendTo, relayVars, TypeOK, faultVars
<1>2. frame \in 1..Len(pub) /\ pub[frame] \in Lanes /\ sent[pub[frame]] = frame
  BY <1>1 DEF IInv, TypeInv, MarksInv, TypeOK
<1>3. /\ \A i, x : StillOwed(i, x)' <=> StillOwed(i, x)
      /\ \A i : \A x \in Sessions : Stored(i, x) => Stored(i, x)'
      /\ Stored(frame, s)'
  BY <1>1, <1>t, SameOwed, AppendStores
<1>4. /\ todo' # {} => pc' = "dispatch"
      /\ todo' = {} => pc' = "flush"
      /\ \A k \in Lanes : pending'[k] # pending[k] =>
           todo' = {} /\ ~failed /\ k = pub[frame] /\ pending'[k] = frame
  BY <1>1, <1>t, AfterAppendFacts
<1>5. SentInv'
  BY <1>1, <1>3, <1>4, <1>t DEF SentInv, Connected
<1>6. FrameInv'
  BY <1>1, <1>3, <1>t DEF FrameInv
<1>7. AckInv'
  <2>1. ~lossy /\ todo' = {} => Covered(pub[frame], frame)'
    BY <1>1, <1>2, <1>4, <1>5 DEF SentInv, Connected, Covered
  <2>2. ASSUME ~lossy, NEW k \in Lanes PROVE Covered(k, acked[k])'
    BY <1>1, <1>3, <1>t, <2>2 DEF AckInv, Covered
  <2>3. ASSUME ~lossy, NEW k \in Lanes PROVE Covered(k, pending[k])'
    <3>1. CASE pending'[k] = pending[k]
      BY <1>1, <1>3, <1>t, <2>3, <3>1 DEF AckInv, Covered
    <3>2. CASE pending'[k] # pending[k]
      BY <1>1, <1>4, <2>1, <2>3, <3>2 DEF Covered
    <3> QED BY <3>1, <3>2
  <2> QED BY <1>1, <2>2, <2>3 DEF AckInv
<1>8. AckPointStored'
  <2>1. todo' = {} /\ ~failed => \A x \in Sessions : StillOwed(frame, x)' => Stored(frame, x)'
    BY <1>1, <1>3, <1>t DEF FrameInv
  <2> QED BY <1>1, <1>3, <1>4, <1>t, <2>1 DEF AckPointStored
<1> QED BY <1>5, <1>6, <1>7, <1>8 DEF SafeInv

\* An append that failed, or a frame that was skipped: no mark moves.
LEMMA SafeLoss ==
    ASSUME IInv, lossy', UNCHANGED <<pub, acked, owed, sub, stored>>,
           \A k \in Lanes : pending'[k] = pending[k],
           pc' = "dispatch" => failed'
    PROVE  SafeInv'
<1>1. \A i, s : (StillOwed(i, s)' <=> StillOwed(i, s)) /\ (Stored(i, s)' <=> Stored(i, s))
  BY SameOwed, SameStored
<1> QED BY <1>1 DEF SafeInv, IInv, AckInv, SentInv, FrameInv, AckPointStored

LEMMA SafeAck ==
    ASSUME IInv, NEW l \in Lanes, Ack(l) \/ AckFails(l)
    PROVE  SafeInv'
<1>t. /\ AckInv /\ SentInv /\ AckPointStored
      /\ \A i \in 1..Len(pub) : pub[i] \in Lanes /\ i > 0
      /\ \A k \in Lanes : acked[k] \in Nat /\ pending[k] \in Nat
  BY DEF IInv, TypeInv, TypeOK
<1>1. /\ pc = "flush" /\ pc' = "flush" /\ UNCHANGED <<pub, sent, owed, sub, stored, lossy>>
      /\ \A k \in Lanes \ {l} : acked'[k] = acked[k] /\ pending'[k] = pending[k]
      /\ acked'[l] \in {acked[l], pending[l]} /\ pending'[l] \in {0, pending[l]}
  <2>1. TypeOK /\ lossy' = lossy
    BY DEF IInv, TypeInv, TypeOK, Ack, AckFails, Fault, faultVars
  <2> QED BY <2>1, AckFacts
<1>2. \A i, s : (StillOwed(i, s)' <=> StillOwed(i, s)) /\ (Stored(i, s)' <=> Stored(i, s))
  BY <1>1, SameOwed, SameStored
<1>3. AckInv'
  BY <1>1, <1>2, <1>t DEF AckInv, Covered
<1>4. SentInv'
  BY <1>1, <1>2, <1>t DEF SentInv, Connected
<1>5. FrameInv'
  BY <1>1 DEF FrameInv
<1>6. AckPointStored'
  BY <1>1, <1>2, <1>t DEF AckPointStored
<1> QED BY <1>3, <1>4, <1>5, <1>6 DEF SafeInv

LEMMA SafeStep == IInv /\ [Next]_vars => SafeInv'
<1> SUFFICES ASSUME IInv, [Next]_vars PROVE SafeInv'
  OBVIOUS
<1>1. ASSUME NEW l \in Lanes, Publish(l) \/ Receive(l) \/ Ack(l) \/ AckFails(l) PROVE SafeInv'
  BY <1>1, SafePublish, SafeReceive, SafeAck
<1>2. ASSUME NEW l \in Subs, SubscriptionStep(l) PROVE SafeInv'
  BY <1>2, SafeSubscription
<1>3. ASSUME NEW s \in Sessions, AppendTo(s) PROVE SafeInv'
  BY <1>3, SafeAppendTo
<1>4. ASSUME NEW s \in Sessions, AppendFails(s) PROVE SafeInv'
  <2>1. /\ pc = "dispatch" /\ AfterAppend(todo \ {s}, FALSE) /\ lossy' /\ failed'
        /\ UNCHANGED <<pub, acked, owed, sub, stored>>
    BY <1>4 DEF AppendFails, relayVars, Fault
  <2>2. \A k \in Lanes : pending'[k] = pending[k]
    BY <2>1, AfterAppendFacts DEF IInv
  <2> QED BY <2>1, <2>2, SafeLoss
<1>5. ASSUME NEW l \in Lanes, Skip(l) PROVE SafeInv'
  <2>1. /\ pc' = "stream" /\ lossy' /\ UNCHANGED <<pub, acked, owed, sub, stored, pending>>
    BY <1>5 DEF Skip, Fault, ackVars
  <2> QED BY <2>1, SafeLoss
<1>6. CASE Scan \/ Rescan \/ Connect \/ Reconfigure \/ Comment \/ FlushDone
  <2>1. /\ UNCHANGED <<pub, owed, sub, stored, acked, lossy, pending>>
        /\ \/ pc' \notin {"stream", "dispatch", "flush"}
           \/ pc \in {"stream", "flush"} /\ pc' \in {"stream", "flush"} /\ sent' = sent
           \/ pc' = "stream" /\ sent' = acked
    BY <1>6 DEF Scan, Rescan, Connect, Reconfigure, Comment, FlushDone, relayVars, ackVars, faultVars
  <2> QED BY <2>1, SafeElsewhere
<1>7. CASE ConnectFails \/ Drop
  <2>1. /\ UNCHANGED <<pub, owed, sub, stored, acked, pending>> /\ pc' = "top"
    BY <1>7 DEF ConnectFails, Drop, relayVars, ackVars
  <2>2. lossy' = lossy
    BY <1>7 DEF ConnectFails, Drop, Fault, faultVars, IInv, TypeInv, TypeOK
  <2> QED BY <2>1, <2>2, SafeElsewhere
<1>8. CASE Crash
  <2>1. /\ UNCHANGED <<pub, owed, sub, stored, acked>> /\ pc' = "top"
        /\ \A l \in Lanes : pending'[l] = 0
    BY <1>8 DEF Crash, relayVars
  <2>2. lossy' = lossy
    BY <1>8 DEF Crash, Fault, IInv, TypeInv, TypeOK
  <2> QED BY <2>1, <2>2, SafeElsewhere
<1>9. CASE UNCHANGED vars
  <2>1. /\ UNCHANGED <<pub, owed, sub, stored, acked, pending, sent, pc, frame, todo, failed, lossy>>
    BY <1>9 DEF vars, relayVars, frameVars, ackVars, faultVars
  <2>2. \A i, s : (StillOwed(i, s)' <=> StillOwed(i, s)) /\ (Stored(i, s)' <=> Stored(i, s))
    BY <2>1, SameOwed, SameStored
  <2> QED BY <2>1, <2>2
        DEF SafeInv, IInv, AckInv, Covered, SentInv, Connected, FrameInv, AckPointStored
<1> QED BY <1>1, <1>2, <1>3, <1>4, <1>5, <1>6, <1>7, <1>8, <1>9
      DEF Next, Run, Dispatch, Flush

LEMMA OwedInvStep == IInv /\ [Next]_vars => OwedInv'
<1> SUFFICES ASSUME IInv, [Next]_vars PROVE OwedInv'
  OBVIOUS
<1>t. TypeOK /\ OwedInv
  BY DEF IInv, TypeInv
<1>1. ASSUME NEW l \in Lanes, Publish(l) PROVE OwedInv'
  <2>1. /\ Len(pub') = Len(pub) + 1 /\ sub' = sub /\ Len(pub) \in Nat
        /\ \A i \in 1..Len(pub) : pub'[i] = pub[i] /\ owed'[i] = owed[i]
        /\ pub'[Len(pub) + 1] = l
        /\ owed'[Len(pub) + 1] = IF l \in Subs THEN {Owner[l]} ELSE Targets(l)
        /\ l \in Subs => l \in Live
    <3>1. /\ pub' = Append(pub, l) /\ sub' = sub
          /\ owed' = Append(owed, IF l \in Subs THEN {Owner[l]} ELSE Targets(l))
      BY <1>1 DEF Publish
    <3>2. l \in Subs => l \in Live
      BY <1>1, IntakeAssumption DEF Publish
    <3>3. pub \in Seq(Lanes) /\ owed \in Seq(SUBSET Sessions) /\ Len(owed) = Len(pub)
      BY <1>t DEF TypeOK
    <3> QED BY <3>1, <3>2, <3>3
  <2>2. \A k : Targets(k)' = Targets(k)
    BY <2>1 DEF Targets, Declared, TargetsIn
  <2>3. l \in Subs => sub[l] = "posted" \/ Owner[l] \in Targets(l)
    BY <2>1 DEF Live, Targets, TargetsIn, Declared
  <2>4. \A i \in 1..Len(pub') : i \in 1..Len(pub) \/ i = Len(pub) + 1
    BY <2>1
  <2>5. \A i \in 1..Len(pub') : Targets(pub[i])' = Targets(pub'[i])
    BY <2>1 DEF Targets, TargetsIn, Declared
  <2>6. ASSUME NEW i \in 1..Len(pub'), NEW s \in owed'[i]
        PROVE  \/ s \in Targets(pub'[i])
               \/ pub'[i] \in Subs /\ sub'[pub'[i]] = "posted" /\ s = Owner[pub'[i]]
    <3>1. CASE i \in 1..Len(pub)
      BY <2>1, <2>6, <3>1, <1>t DEF OwedInv
    <3>2. CASE i = Len(pub) + 1
      BY <2>1, <2>3, <2>6, <3>2
    <3> QED BY <2>4, <3>1, <3>2
  <2> QED BY <2>5, <2>6 DEF OwedInv
<1>2. ASSUME NEW l \in Subs, SubscriptionStep(l) PROVE OwedInv'
  BY <1>2, <1>t, OwedStep
<1>3. CASE UNCHANGED <<pub, owed, sub>>
  BY <1>3, <1>t DEF OwedInv, Targets, Declared, TargetsIn
<1>4. (\/ Run \/ Drop \/ Comment \/ Crash \/ UNCHANGED vars \/ \E l \in Lanes : Receive(l) \/ Skip(l))
        => UNCHANGED <<pub, owed, sub>>
  BY DEF Run, Drop, Comment, Crash, vars, Receive, Skip, Scan, Rescan, Connect, ConnectFails, Reconfigure,
         Dispatch, AppendTo, AppendFails, Flush, Ack, AckFails, FlushDone, relayVars
<1> QED BY <1>1, <1>2, <1>3, <1>4 DEF Next

LEMMA InitInv == Init => IInv
<1> SUFFICES ASSUME Init PROVE IInv
  OBVIOUS
<1>1. TypeInv
  BY InitType
<1>2. /\ pub = <<>> /\ Len(pub) = 0 /\ pc = "top" /\ flushing = {} /\ ids = {}
      /\ \A l \in Lanes : acked[l] = 0 /\ sent[l] = 0 /\ pending[l] = 0
      /\ \A s \in Sessions : stored[s] = <<>>
  BY DEF Init
<1>3. \A s \in Sessions : DOMAIN stored[s] = {}
  BY <1>2
<1>4. MarksInv
  BY <1>2, <1>3 DEF MarksInv
<1>5. LaneInv
  BY <1>2 DEF LaneInv, Untouched, Lanes
<1>6. 1..Len(pub) = {}
  BY <1>2
<1>7. OwedInv /\ AckInv /\ SentInv /\ FrameInv /\ AckPointStored
  BY <1>2, <1>6 DEF OwedInv, AckInv, Covered, SentInv, FrameInv, AckPointStored
<1> QED BY <1>1, <1>4, <1>5, <1>7 DEF IInv

LEMMA NextInv == IInv /\ [Next]_vars => IInv'
BY NextType, MarksStep, LaneStep, OwedInvStep, SafeStep DEF IInv, SafeInv

LEMMA IntakeInv == Spec => []IInv
<1>1. Init => IInv
  BY InitInv
<1>2. IInv /\ [Next]_vars => IInv'
  BY NextInv
<1> QED BY <1>1, <1>2, PTL DEF Spec

\* Whatever fails, for any number of sessions, subscriptions and records: what an
\* acknowledgement lets the relay forget is stored where it was published to, until
\* something is lost, and the record it names is, even then.
THEOREM AcksAlwaysSafe == Spec => []AcksAreSafe
<1>1. IInv => AcksAreSafe
  <2> SUFFICES ASSUME IInv PROVE AcksAreSafe
    OBVIOUS
  <2>1. \A i \in 1..Len(pub) : pub[i] \in Lanes
    BY DEF IInv, TypeInv, TypeOK
  <2>2. AckedIsStored
    BY <2>1 DEF IInv, AckInv, Covered, AckedIsStored, AckMeansStored
  <2>3. AckPointStored
    BY DEF IInv
  <2> QED BY <2>2, <2>3 DEF AcksAreSafe
<1> QED BY <1>1, IntakeInv, PTL

-----------------------------------------------------------------------------
(* What is stored is stored in order *)

\* The steps between which no inbox changes.
LEMMA OrderElsewhere ==
    ASSUME IInv, OrderInv, stored' = stored, ~lossy' => ~lossy, Len(pub') >= Len(pub),
           \A i \in 1..Len(pub) : pub'[i] = pub[i] /\ owed'[i] \subseteq owed[i]
    PROVE  OrderInv'
<1> SUFFICES ASSUME ~lossy, NEW s \in Sessions, NEW k \in DOMAIN stored[s],
                    NEW i \in 1..(stored[s][k] - 1),
                    pub'[i] = pub'[stored[s][k]], s \in owed'[i]
             PROVE  \E h \in 1..(k - 1) : stored[s][h] = i
  BY DEF OrderInv
<1>1. stored[s] \in Seq(1..MaxPub)
  BY DEF IInv, TypeInv, TypeOK
<1>2. stored[s][k] \in 1..Len(pub)
  <2>1. stored[s][k] \in 1..MaxPub
    BY <1>1, SeqElements
  <2>2. stored[s][k] <= Len(pub)
    BY DEF IInv, MarksInv
  <2> QED BY <2>1, <2>2 DEF IInv, TypeInv, TypeOK
<1>3. i \in 1..Len(pub)
  BY <1>2 DEF IInv, TypeInv, TypeOK
<1> QED BY <1>2, <1>3 DEF OrderInv

LEMMA OrderAppend ==
    ASSUME IInv, OrderInv, NEW s \in Sessions, AppendTo(s)
    PROVE  OrderInv'
<1>1. /\ pc = "dispatch" /\ UNCHANGED <<pub, owed, lossy>>
      /\ stored' = [stored EXCEPT ![s] = Append(@, frame)]
  BY DEF AppendTo, relayVars, faultVars
<1>2. frame \in 1..Len(pub) /\ sent[pub[frame]] = frame
  BY <1>1 DEF IInv, TypeInv, MarksInv
<1>3. /\ stored[s] \in Seq(1..MaxPub) /\ stored'[s] = Append(stored[s], frame)
      /\ \A x \in Sessions \ {s} : stored'[x] = stored[x]
  BY <1>1 DEF IInv, TypeInv, TypeOK
<1>4. /\ Len(stored[s]) \in Nat /\ DOMAIN stored[s] = 1..Len(stored[s])
      /\ DOMAIN stored'[s] = 1..(Len(stored[s]) + 1)
      /\ \A h \in 1..Len(stored[s]) : stored'[s][h] = stored[s][h]
      /\ stored'[s][Len(stored[s]) + 1] = frame
  BY <1>3
<1>5. ASSUME ~lossy, NEW i \in 1..(frame - 1), pub[i] = pub[frame], s \in owed[i]
      PROVE  \E h \in 1..Len(stored[s]) : stored[s][h] = i
  <2>1. i \in 1..Len(pub) /\ i <= sent[pub[i]] /\ i # frame
    BY <1>2, <1>5 DEF IInv, TypeInv, TypeOK
  <2>2. ~(pub[i] \in Subs /\ sub[pub[i]] = "posted")
    BY <2>1 DEF IInv, LaneInv, Untouched
  <2>3. StillOwed(i, s)
    <3>1. s \in Targets(pub[i])
      BY <1>5, <2>1, <2>2 DEF IInv, OwedInv
    <3> QED BY <1>5, <2>1, <3>1 DEF StillOwed
  <2>4. Stored(i, s)
    BY <1>1, <1>5, <2>1, <2>3 DEF IInv, SentInv, Connected
  <2> QED BY <1>4, <2>4 DEF Stored, Range
<1>6. ASSUME ~lossy, NEW k \in DOMAIN stored'[s], NEW i \in 1..(stored'[s][k] - 1),
             pub[i] = pub[stored'[s][k]], s \in owed[i]
      PROVE  \E h \in 1..(k - 1) : stored'[s][h] = i
  <2>1. CASE k \in 1..Len(stored[s])
    <3>1. \E h \in 1..(k - 1) : stored[s][h] = i
      BY <1>4, <1>6, <2>1 DEF OrderInv
    <3>2. \A h \in 1..(k - 1) : stored'[s][h] = stored[s][h]
      BY <1>4, <2>1
    <3> QED BY <3>1, <3>2
  <2>2. CASE k = Len(stored[s]) + 1
    BY <1>4, <1>5, <1>6, <2>2
  <2> QED BY <1>4, <2>1, <2>2
<1>7. ASSUME ~lossy, NEW x \in Sessions \ {s}, NEW k \in DOMAIN stored'[x],
             NEW i \in 1..(stored'[x][k] - 1), pub[i] = pub[stored'[x][k]], x \in owed[i]
      PROVE  \E h \in 1..(k - 1) : stored'[x][h] = i
  BY <1>3, <1>7 DEF OrderInv
<1> QED BY <1>1, <1>6, <1>7 DEF OrderInv

LEMMA OrderStep == IInv /\ OrderInv /\ [Next]_vars => OrderInv'
<1> SUFFICES ASSUME IInv, OrderInv, [Next]_vars PROVE OrderInv'
  OBVIOUS
<1>t. TypeOK /\ OwedInv /\ Len(pub) \in Nat
  BY DEF IInv, TypeInv, TypeOK
<1>1. ASSUME NEW s \in Sessions, AppendTo(s) PROVE OrderInv'
  BY <1>1, OrderAppend
<1>2. ASSUME NEW l \in Lanes, Publish(l) PROVE OrderInv'
  <2>1. /\ Len(pub') = Len(pub) + 1 /\ UNCHANGED <<stored, lossy>>
        /\ \A i \in 1..Len(pub) : pub'[i] = pub[i] /\ owed'[i] = owed[i]
    BY <1>2, <1>t DEF Publish, TypeOK, faultVars
  <2> QED BY <2>1, <1>t, OrderElsewhere
<1>3. ASSUME NEW l \in Subs, SubscriptionStep(l) PROVE OrderInv'
  <2>1. UNCHANGED <<pub, stored, lossy>>
    BY <1>3 DEF SubscriptionStep, faultVars
  <2> QED BY <1>3, <2>1, <1>t, OwedStep, OrderElsewhere
<1>4. ASSUME UNCHANGED <<pub, owed, stored>>, ~lossy' => ~lossy PROVE OrderInv'
  BY <1>4, <1>t, OrderElsewhere
<1>5. ASSUME NEW l \in Lanes, Receive(l) \/ Skip(l) \/ Ack(l) \/ AckFails(l) PROVE OrderInv'
  BY <1>4, <1>5 DEF Receive, Skip, Ack, AckFails, Fault, frameVars, faultVars
<1>6. ASSUME NEW s \in Sessions, AppendFails(s) PROVE OrderInv'
  BY <1>4, <1>6 DEF AppendFails, Fault, relayVars
<1>7. CASE Scan \/ Rescan \/ Connect \/ ConnectFails \/ Reconfigure \/ FlushDone \/ Drop \/ Comment
            \/ Crash \/ UNCHANGED vars
  <2>1. UNCHANGED <<pub, owed, stored>>
    BY <1>7 DEF Scan, Rescan, Connect, ConnectFails, Reconfigure, FlushDone, Drop, Comment, Crash,
                vars, relayVars
  <2>2. ~lossy' => ~lossy
    BY <1>7 DEF Scan, Rescan, Connect, ConnectFails, Reconfigure, FlushDone, Drop, Comment, Crash,
                vars, Fault, faultVars
  <2> QED BY <1>4, <2>1, <2>2
<1> QED BY <1>1, <1>2, <1>3, <1>5, <1>6, <1>7 DEF Next, Run, Dispatch, Flush

\* Where a record is seen first in an inbox that has it.
LEMMA FirstSeenFacts ==
    ASSUME TypeOK, NEW s \in Sessions, NEW i \in Range(stored[s])
    PROVE  /\ FirstSeen(s, i) \in DOMAIN stored[s] /\ FirstSeen(s, i) \in Nat
           /\ stored[s][FirstSeen(s, i)] = i
           /\ \A h \in 1..(FirstSeen(s, i) - 1) : stored[s][h] # i
<1> DEFINE T == {k \in DOMAIN stored[s] : stored[s][k] = i}
<1>1. stored[s] \in Seq(1..MaxPub) /\ DOMAIN stored[s] = 1..Len(stored[s]) /\ Len(stored[s]) \in Nat
  BY DEF TypeOK
<1>2. T # {} /\ T \subseteq Nat
  BY <1>1 DEF Range
<1>3. PICK k \in T : \A y \in T : k <= y
  <2> HIDE DEF T
  <2> QED BY <1>2, LeastOf
<1>4. \A h \in 1..(k - 1) : stored[s][h] # i
  BY <1>1, <1>3
<1>5. \E x \in DOMAIN stored[s] : stored[s][x] = i /\ \A h \in 1..(x - 1) : stored[s][h] # i
  BY <1>3, <1>4
<1>6. /\ FirstSeen(s, i) \in DOMAIN stored[s] /\ stored[s][FirstSeen(s, i)] = i
      /\ \A h \in 1..(FirstSeen(s, i) - 1) : stored[s][h] # i
  BY <1>5 DEF FirstSeen
<1> QED BY <1>1, <1>6

LEMMA OrderedIsLaneOrder == TypeOK /\ OrderInv => LaneOrder
<1> SUFFICES ASSUME TypeOK, OrderInv, ~lossy, NEW s \in Sessions,
                    NEW i \in Range(stored[s]), NEW j \in Range(stored[s]),
                    pub[i] = pub[j], i < j, s \in owed[i]
             PROVE  FirstSeen(s, i) < FirstSeen(s, j)
  BY DEF LaneOrder
<1>1. stored[s] \in Seq(1..MaxPub)
  BY DEF TypeOK
<1>2. i \in 1..MaxPub /\ j \in 1..MaxPub
  <2>1. \A k \in DOMAIN stored[s] : stored[s][k] \in 1..MaxPub
    BY <1>1, SeqElements
  <2> QED BY <2>1 DEF Range
<1>3. PICK h \in 1..(FirstSeen(s, j) - 1) : stored[s][h] = i
  <2>1. FirstSeen(s, j) \in DOMAIN stored[s] /\ stored[s][FirstSeen(s, j)] = j
    BY FirstSeenFacts
  <2>2. i \in 1..(j - 1)
    BY <1>2
  <2> QED BY <2>1, <2>2 DEF OrderInv
<1>4. FirstSeen(s, i) <= h
  BY <1>3, FirstSeenFacts
<1> QED BY <1>3, <1>4, FirstSeenFacts

-----------------------------------------------------------------------------
(* Every further copy stands for a fault *)

LEMMA CopiesNat ==
    ASSUME TypeOK, NEW s \in Sessions, NEW i
    PROVE  Copies(s, i) \in Nat /\ IsFiniteSet({k \in DOMAIN stored[s] : stored[s][k] = i})
<1>1. stored[s] \in Seq(1..MaxPub) /\ DOMAIN stored[s] = 1..Len(stored[s]) /\ Len(stored[s]) \in Nat
  BY DEF TypeOK
<1>2. IsFiniteSet(DOMAIN stored[s])
  BY <1>1, FS_Interval
<1>3. IsFiniteSet({k \in DOMAIN stored[s] : stored[s][k] = i})
  BY <1>2, FS_Subset
<1> QED BY <1>3, FS_CardinalityType DEF Copies

\* An append adds one copy of its record.
LEMMA CountAppend ==
    ASSUME NEW S, NEW q \in Seq(S), NEW f, NEW r, r = Append(q, f),
           IsFiniteSet({k \in DOMAIN q : q[k] = f})
    PROVE  /\ Cardinality({k \in DOMAIN r : r[k] = f}) = Cardinality({k \in DOMAIN q : q[k] = f}) + 1
           /\ \A i : i # f => {k \in DOMAIN r : r[k] = i} = {k \in DOMAIN q : q[k] = i}
<1>1. /\ Len(q) \in Nat /\ DOMAIN q = 1..Len(q) /\ DOMAIN r = 1..(Len(q) + 1)
      /\ \A h \in 1..Len(q) : r[h] = q[h]
      /\ r[Len(q) + 1] = f
  OBVIOUS
<1> DEFINE T == {k \in DOMAIN q : q[k] = f}
           n == Len(q) + 1
<1>2. {k \in DOMAIN r : r[k] = f} = T \union {n}
  BY <1>1
<1>3. n \notin T
  BY <1>1
<1>4. Cardinality(T \union {n}) = Cardinality(T) + 1
  BY <1>3, FS_AddElement
<1>5. ASSUME NEW i, i # f PROVE {k \in DOMAIN r : r[k] = i} = {k \in DOMAIN q : q[k] = i}
  BY <1>1, <1>5
<1> QED BY <1>2, <1>4, <1>5

LEMMA SameCopies ==
    ASSUME stored' = stored
    PROVE  \A s, i : Copies(s, i)' = Copies(s, i)
BY DEF Copies

\* A step at which something fails, and nothing is stored: every record may have
\* one copy more.
LEMMA CopiesFault ==
    ASSUME IInv, CopiesInv, stored' = stored, pub' = pub, faults' = faults + 1,
           pc' = "dispatch" => pc = "dispatch" /\ frame' = frame /\ todo' \subseteq todo
    PROVE  CopiesInv'
<1>0. TypeOK /\ faults \in Nat
  BY IntakeAssumption DEF IInv, TypeInv, TypeOK
<1> SUFFICES ASSUME NEW s \in Sessions, NEW i \in 1..Len(pub)
             PROVE  /\ Copies(s, i) <= faults + 1
                    /\ pc' = "dispatch" /\ i = frame' /\ s \in todo' =>
                           Copies(s, i) + (IF failed' THEN 1 ELSE 0) <= faults + 1
  <2>1. \A s, i : Copies(s, i)' = Copies(s, i)
    BY SameCopies
  <2>2. faults \in Nat /\ \A s \in Sessions : \A i : Copies(s, i) \in Nat
    BY <1>0, CopiesNat
  <2> QED BY <2>1, <2>2 DEF CopiesInv
<1>1. Copies(s, i) \in Nat /\ faults \in Nat
  BY <1>0, CopiesNat
<1>2. /\ Copies(s, i) <= faults + 1
      /\ pc = "dispatch" /\ i = frame /\ s \in todo =>
             Copies(s, i) + (IF failed THEN 1 ELSE 0) <= faults
  BY DEF CopiesInv
<1>3. pc' = "dispatch" /\ i = frame' /\ s \in todo' => Copies(s, i) <= faults
  BY <1>1, <1>2
<1> QED BY <1>1, <1>2, <1>3

\* A step at which nothing fails, nothing is stored and no append begins: what is
\* settled has to stay so.
LEMMA CopiesQuiet ==
    ASSUME IInv, CopiesInv, stored' = stored, pub' = pub, faults' = faults,
           pc' = "dispatch" => pc = "dispatch" /\ UNCHANGED <<frame, todo, failed>>,
           \A s \in Sessions : \A i \in 1..Len(pub) : Settled(i, s) => Settled(i, s)'
    PROVE  CopiesInv'
<1>1. \A s, i : Copies(s, i)' = Copies(s, i)
  BY SameCopies
<1> QED BY <1>1 DEF CopiesInv


LEMMA CopiesReceive ==
    ASSUME IInv, CopiesInv, NEW l \in Lanes, Receive(l)
    PROVE  CopiesInv'
<1> DEFINE n == NextOf(l)
<1>t. TypeInv /\ TypeOK /\ Deliverable(l) # {}
  BY DEF IInv, TypeInv, Receive
<1>1. n \in 1..Len(pub) /\ pub[n] = l /\ n > sent[l]
  BY <1>t, NextOfFacts
<1>2. /\ pc = "stream" /\ frame' = n /\ sent' = [sent EXCEPT ![l] = n] /\ failed' = FALSE
      /\ l \in Subs => l \in Live
      /\ UNCHANGED <<pub, acked, sub, stored, faults>>
      /\ pc' \in {"dispatch", "flush"}
  BY <1>t, ReceiveFacts DEF Receive
<1> HIDE DEF n
<1>3. sent'[l] = n /\ \A k \in Lanes \ {l} : sent'[k] = sent[k]
  BY <1>2, <1>t DEF TypeOK
<1>4. \A s, i : Copies(s, i)' = Copies(s, i)
  BY <1>2, SameCopies
<1>5. \A i \in 1..Len(pub) : pub[i] \in Lanes /\ sent[pub[i]] \in Nat /\ i \in Nat
  BY <1>t DEF TypeOK
<1>6. ASSUME NEW s \in Sessions, NEW i \in 1..Len(pub), Settled(i, s) PROVE Settled(i, s)'
  <2>1. CASE acked[pub[i]] >= i /\ sent[pub[i]] >= i
    <3>1. sent'[pub[i]] >= i
      BY <1>1, <1>3, <1>5, <2>1
    <3> QED BY <1>2, <2>1, <3>1 DEF Settled, Connected
  <2>2. CASE pub[i] \in Subs /\ sub[pub[i]] \in {"deleted", "lapsed", "gone"}
    BY <1>2, <2>2 DEF Settled
  <2> QED BY <1>2, <1>6, <2>1, <2>2 DEF Settled, Connected
<1>7. \A s \in Sessions : Copies(s, n) <= faults
  <2> SUFFICES ASSUME NEW s \in Sessions PROVE ~Settled(n, s)
    BY <1>1 DEF CopiesInv
  <2>1. ~(sent[l] >= n)
    BY <1>1, <1>5
  <2> QED BY <1>1, <1>2, <2>1 DEF Settled, Connected, Live
<1>8. \A s \in Sessions : \A i : Copies(s, i) \in Nat
  BY <1>t, CopiesNat
<1> QED BY <1>2, <1>4, <1>6, <1>7, <1>8 DEF CopiesInv

LEMMA CopiesAppendTo ==
    ASSUME IInv, CopiesInv, NEW s \in Sessions, AppendTo(s)
    PROVE  CopiesInv'
<1>t. TypeInv /\ TypeOK
  BY DEF IInv, TypeInv
<1>1. /\ pc = "dispatch" /\ s \in todo /\ AfterAppend(todo \ {s}, ~failed) /\ (~failed) \in BOOLEAN
      /\ UNCHANGED <<pub, acked, sent, sub, frame, failed, faults>> /\ failed \in BOOLEAN
      /\ stored' = [stored EXCEPT ![s] = Append(@, frame)] /\ todo' = todo \ {s}
  BY <1>t DEF AppendTo, relayVars, TypeOK, faultVars
<1>0. PICK f : f = frame
  OBVIOUS
<1>2. /\ frame \in 1..Len(pub) /\ pub[frame] \in Lanes /\ sent[pub[frame]] = frame /\ frame > 0
      /\ faults \in Nat
  BY <1>1, <1>t, IntakeAssumption DEF IInv, TypeInv, MarksInv, TypeOK
<1>3. /\ Copies(s, f)' = Copies(s, f) + 1
      /\ \A x \in Sessions : \A i : x # s \/ i # f => Copies(x, i)' = Copies(x, i)
      /\ \A x \in Sessions : \A i : Copies(x, i) \in Nat
  <2>1. \A x \in Sessions : \A i : Copies(x, i) \in Nat
    BY <1>t, CopiesNat
  <2>2. /\ stored[s] \in Seq(1..MaxPub) /\ stored'[s] = Append(stored[s], f)
        /\ \A x \in Sessions \ {s} : stored'[x] = stored[x]
    BY <1>0, <1>1, <1>t DEF TypeOK
  <2>3. IsFiniteSet({k \in DOMAIN stored[s] : stored[s][k] = f})
    BY <1>t, CopiesNat
  <2>4. /\ Copies(s, f)' = Copies(s, f) + 1
        /\ \A i : i # f => Copies(s, i)' = Copies(s, i)
    <3>1. PICK q, r : q = stored[s] /\ r = stored'[s]
      OBVIOUS
    <3>2. \A i : /\ Copies(s, i) = Cardinality({k \in DOMAIN q : q[k] = i})
                /\ Copies(s, i)' = Cardinality({k \in DOMAIN r : r[k] = i})
      BY <3>1 DEF Copies
    <3>3. /\ q \in Seq(1..MaxPub) /\ r = Append(q, f)
          /\ IsFiniteSet({k \in DOMAIN q : q[k] = f})
      BY <2>2, <2>3, <3>1
    <3>4. /\ Cardinality({k \in DOMAIN r : r[k] = f}) = Cardinality({k \in DOMAIN q : q[k] = f}) + 1
          /\ \A i : i # f => {k \in DOMAIN r : r[k] = i} = {k \in DOMAIN q : q[k] = i}
      BY <3>3, CountAppend
    <3> QED BY <3>2, <3>4
  <2>5. \A x \in Sessions \ {s} : \A i : Copies(x, i)' = Copies(x, i)
    BY <2>2 DEF Copies
  <2> QED BY <2>1, <2>4, <2>5
<1>4. /\ todo' # {} => pc' = "dispatch"
      /\ todo' = {} => pc' = "flush"
      /\ todo' = {} /\ ~failed => pending'[pub[frame]] >= frame /\ pub[frame] \in flushing'
  <2>1. /\ todo' # {} => pc' = "dispatch"
        /\ todo' = {} => pc' = "flush" /\ flushing' = {k \in Lanes : pending'[k] > 0}
        /\ todo' = {} /\ ~failed => pending'[pub[frame]] >= frame
    BY <1>1, <1>t, AfterAppendFacts
  <2>2. pending'[pub[frame]] >= frame => pending'[pub[frame]] > 0
    <3>1. TypeOK'
      BY <1>t, NextType DEF Next, Run, Dispatch, TypeInv
    <3> QED BY <1>1, <1>2, <3>1 DEF TypeOK
  <2> QED BY <1>2, <2>1, <2>2
<1>5. ASSUME NEW x \in Sessions, ~failed, x \notin todo' PROVE Settled(f, x)'
  <2>1. CASE todo' # {}
    BY <1>0, <1>1, <1>4, <1>5, <2>1 DEF Settled
  <2>2. CASE todo' = {}
    BY <1>0, <1>1, <1>2, <1>4, <1>5, <2>2 DEF Settled
  <2> QED BY <2>1, <2>2
<1>6. ASSUME NEW x \in Sessions, NEW i \in 1..Len(pub), Settled(i, x), x # s \/ i # f
      PROVE  Settled(i, x)'
  <2>1. CASE acked[pub[i]] >= i /\ sent[pub[i]] >= i
    BY <1>1, <2>1 DEF Settled
  <2>2. CASE pub[i] \in Subs /\ sub[pub[i]] \in {"deleted", "lapsed", "gone"}
    BY <1>1, <2>2 DEF Settled
  <2>3. CASE frame = i /\ ~failed /\ x \notin todo
    BY <1>0, <1>1, <1>5, <2>3
  <2> QED BY <1>1, <1>6, <2>1, <2>2, <2>3 DEF Settled, Connected
<1>7. ASSUME NEW x \in Sessions, NEW i \in 1..Len(pub), x # s \/ i # f
      PROVE  /\ Copies(x, i)' <= faults + 1
             /\ Copies(x, i)' <= faults \/ Settled(i, x)'
             /\ i = f /\ x \in todo' => Copies(x, i)' + (IF failed THEN 1 ELSE 0) <= faults
  BY <1>0, <1>1, <1>3, <1>6, <1>7 DEF CopiesInv
<1>8. Copies(s, f) + (IF failed THEN 1 ELSE 0) <= faults
  BY <1>0, <1>1, <1>2 DEF CopiesInv
<1>9. /\ Copies(s, f)' <= faults + 1
      /\ Copies(s, f)' <= faults \/ Settled(f, s)'
  <2>1. CASE failed
    BY <1>2, <1>3, <1>8, <2>1
  <2>2. CASE ~failed
    BY <1>1, <1>2, <1>3, <1>5, <1>8, <2>2
  <2> QED BY <2>1, <2>2
<1> QED BY <1>0, <1>1, <1>7, <1>9 DEF CopiesInv

LEMMA CopiesPublish ==
    ASSUME IInv, CopiesInv, NEW l \in Lanes, Publish(l)
    PROVE  CopiesInv'
<1>1. /\ Len(pub') = Len(pub) + 1 /\ Len(pub) \in Nat
      /\ \A i \in 1..Len(pub) : pub'[i] = pub[i]
      /\ UNCHANGED <<acked, sent, sub, pc, frame, todo, failed, pending, flushing, stored, faults>>
      /\ pc = "dispatch" => frame \in 1..Len(pub)
  BY DEF IInv, TypeInv, TypeOK, Publish, frameVars, ackVars, faultVars
<1>2. \A s, i : Copies(s, i)' = Copies(s, i)
  BY <1>1, SameCopies
<1>3. \A i \in 1..Len(pub), s \in Sessions : Settled(i, s) => Settled(i, s)'
  BY <1>1 DEF Settled, Connected
<1>4. \A s \in Sessions : Copies(s, Len(pub) + 1) = 0
  <2> SUFFICES ASSUME NEW s \in Sessions PROVE Copies(s, Len(pub) + 1) = 0
    OBVIOUS
  <2>1. {k \in DOMAIN stored[s] : stored[s][k] = Len(pub) + 1} = {}
    BY <1>1 DEF IInv, MarksInv
  <2> QED BY <2>1, FS_EmptySet DEF Copies
<1>5. faults \in Nat
  BY IntakeAssumption DEF IInv, TypeInv, TypeOK
<1>6. \A i \in 1..Len(pub') : i \in 1..Len(pub) \/ i = Len(pub) + 1
  BY <1>1
<1>7. ASSUME NEW s \in Sessions, NEW i \in 1..Len(pub')
      PROVE  /\ Copies(s, i) <= faults + 1
             /\ Copies(s, i) <= faults \/ Settled(i, s)'
             /\ pc = "dispatch" /\ i = frame /\ s \in todo =>
                    Copies(s, i) + (IF failed THEN 1 ELSE 0) <= faults
  <2>1. CASE i \in 1..Len(pub)
    BY <1>3, <2>1 DEF CopiesInv
  <2>2. CASE i = Len(pub) + 1
    BY <1>1, <1>4, <1>5, <2>2
  <2> QED BY <1>6, <2>1, <2>2
<1> QED BY <1>1, <1>2, <1>7 DEF CopiesInv

\* An acknowledgement that succeeds, or fails because the subscription is gone.
LEMMA SettledFlush ==
    ASSUME IInv, NEW l \in Lanes, Ack(l) \/ AckFails(l), faults' = faults,
           NEW s \in Sessions, NEW i \in 1..Len(pub), Settled(i, s)
    PROVE  Settled(i, s)'
<1>t. /\ TypeOK /\ pub[i] \in Lanes /\ i > 0 /\ faults \in Nat
      /\ \A k \in Lanes : acked[k] \in Nat /\ pending[k] \in Nat
  <2>1. TypeOK /\ i > 0
    BY DEF IInv, TypeInv
  <2>2. pub[i] \in Lanes
    BY <2>1 DEF TypeOK
  <2>3. /\ faults \in Nat
        /\ \A k \in Lanes : acked[k] \in Nat /\ pending[k] \in Nat
    BY <2>1, IntakeAssumption DEF TypeOK
  <2> QED BY <2>1, <2>2, <2>3
<1>1. /\ pc = "flush" /\ pc' = "flush" /\ l \in flushing /\ flushing' = flushing \ {l}
      /\ UNCHANGED <<pub, sent, sub>>
      /\ \A k \in Lanes \ {l} : acked'[k] = acked[k] /\ pending'[k] = pending[k]
  BY <1>t, AckFacts
<1>2. acked'[l] >= acked[l] /\ acked'[l] \in Nat
  BY <1>t, AckFacts
<1>3. acked'[l] >= pending[l] \/ (l \in Subs /\ sub[l] \in {"deleted", "lapsed", "gone"})
  <2>1. CASE Ack(l)
    BY <1>t, <2>1, AckFacts
  <2>2. CASE AckFails(l)
    <3>1. l \notin Streams \union Live
      BY <1>t, <2>2 DEF AckFails, Fault
    <3>2. l \in Subs /\ sub[l] \notin {"posted", "saved", "notified"}
      BY <3>1 DEF Lanes, Live
    <3>3. pending[l] > 0
      BY <1>1 DEF IInv, MarksInv
    <3>4. sub[l] # "none"
      BY <1>t, <3>2, <3>3 DEF IInv, LaneInv, Untouched
    <3> QED BY <1>t, <3>2, <3>4 DEF TypeOK
  <2> QED BY <2>1, <2>2
<1>4. CASE acked[pub[i]] >= i /\ sent[pub[i]] >= i
  <2>1. acked'[pub[i]] >= acked[pub[i]] /\ acked'[pub[i]] \in Nat
    BY <1>t, <1>1, <1>2
  <2> QED BY <1>t, <1>1, <1>4, <2>1 DEF Settled
<1>5. CASE pub[i] \in Subs /\ sub[pub[i]] \in {"deleted", "lapsed", "gone"}
  BY <1>1, <1>5 DEF Settled
<1>6. CASE pub[i] \in flushing /\ pending[pub[i]] >= i /\ sent[pub[i]] >= i
  <2>1. CASE pub[i] = l
    <3>2. acked'[l] >= pending[l] => acked'[l] >= i
      BY <1>t, <1>2, <1>6, <2>1
    <3> QED BY <1>1, <1>3, <1>6, <2>1, <3>2 DEF Settled
  <2>2. CASE pub[i] # l
    BY <1>t, <1>1, <1>6, <2>2 DEF Settled
  <2> QED BY <2>1, <2>2
<1> QED BY <1>1, <1>4, <1>5, <1>6 DEF Settled, Connected

LEMMA CopiesStep == IInv /\ CopiesInv /\ [Next]_vars => CopiesInv'
<1> SUFFICES ASSUME IInv, CopiesInv, [Next]_vars PROVE CopiesInv'
  OBVIOUS
<1>t. TypeOK /\ faults \in Nat
  BY IntakeAssumption DEF IInv, TypeInv, TypeOK
<1>1. ASSUME NEW l \in Lanes, Publish(l) \/ Receive(l) PROVE CopiesInv'
  BY <1>1, CopiesPublish, CopiesReceive
<1>2. ASSUME NEW s \in Sessions, AppendTo(s) PROVE CopiesInv'
  BY <1>2, CopiesAppendTo
<1>3. ASSUME NEW s \in Sessions, AppendFails(s) PROVE CopiesInv'
  <2>1. /\ pc = "dispatch" /\ faults' = faults + 1 /\ frame' = frame /\ todo' \subseteq todo
        /\ UNCHANGED <<pub, stored>>
    BY <1>3 DEF AppendFails, Fault, relayVars
  <2> QED BY <2>1, CopiesFault
<1>4. ASSUME NEW l \in Lanes, Skip(l) PROVE CopiesInv'
  <2>1. pc = "stream" /\ pc' = pc /\ faults' = faults + 1 /\ UNCHANGED <<pub, stored>>
    BY <1>4 DEF Skip, Fault
  <2> QED BY <2>1, CopiesFault
<1>5. ASSUME NEW l \in Lanes, Ack(l) \/ AckFails(l) PROVE CopiesInv'
  <2>1. /\ pc = "flush" /\ pc' = "flush" /\ UNCHANGED <<pub, stored>>
        /\ faults' = faults \/ faults' = faults + 1
    BY <1>5 DEF Ack, AckFails, Fault, faultVars
  <2>2. CASE faults' = faults
    BY <1>5, <2>1, <2>2, SettledFlush, CopiesQuiet
  <2>3. CASE faults' = faults + 1
    BY <2>1, <2>3, CopiesFault
  <2> QED BY <2>1, <2>2, <2>3
<1>6. ASSUME NEW l \in Subs, SubscriptionStep(l) PROVE CopiesInv'
  <2>1. UNCHANGED <<pub, acked, sent, pc, frame, todo, failed, pending, flushing, stored, faults>>
    BY <1>6 DEF SubscriptionStep, frameVars, ackVars, faultVars
  <2>2. \A k \in Subs : sub[k] \in {"deleted", "lapsed", "gone"} => sub'[k] \in {"deleted", "lapsed", "gone"}
    BY <1>6, <1>t, StageStep DEF Leaving, LaneStages
  <2>3. \A s \in Sessions : \A i \in 1..Len(pub) : Settled(i, s) => Settled(i, s)'
    BY <2>1, <2>2 DEF Settled, Connected
  <2> QED BY <2>1, <2>3, CopiesQuiet
<1>7. CASE Drop \/ Crash
  <2>1. pc' = "top" /\ faults' = faults + 1 /\ UNCHANGED <<pub, stored>>
    BY <1>7 DEF Drop, Crash, Fault, relayVars
  <2> QED BY <2>1, CopiesFault
<1>8. CASE ConnectFails
  <2>1. /\ pc = "connect" /\ pc' = "top" /\ UNCHANGED <<pub, stored, acked, sub>>
        /\ faults' = faults \/ faults' = faults + 1
    BY <1>8 DEF ConnectFails, Fault, relayVars, faultVars
  <2>2. \A s \in Sessions : \A i \in 1..Len(pub) : Settled(i, s) => Settled(i, s)'
    BY <2>1 DEF Settled, Connected
  <2> QED BY <2>1, <2>2, CopiesFault, CopiesQuiet
<1>9. CASE Scan \/ Rescan \/ Reconfigure
  <2>1. /\ pc \in {"top", "wait", "stream"} /\ pc' \in {"top", "wait", "connect"}
        /\ UNCHANGED <<pub, stored, acked, sub, faults>>
    BY <1>9 DEF Scan, Rescan, Reconfigure, relayVars, faultVars
  <2>2. \A s \in Sessions : \A i \in 1..Len(pub) : Settled(i, s) => Settled(i, s)'
    BY <2>1 DEF Settled, Connected
  <2> QED BY <2>1, <2>2, CopiesQuiet
<1>10. CASE Connect
  <2>1. /\ pc = "connect" /\ pc' = "stream" /\ sent' = acked
        /\ UNCHANGED <<pub, stored, acked, sub, faults>>
    BY <1>10 DEF Connect, faultVars
  <2>2. \A s \in Sessions : \A i \in 1..Len(pub) : Settled(i, s) => Settled(i, s)'
    BY <2>1 DEF Settled, Connected
  <2> QED BY <2>1, <2>2, CopiesQuiet
<1>11. CASE Comment \/ FlushDone
  <2>1. /\ \/ pc = "stream" /\ pc' = "flush"
           \/ pc = "flush" /\ pc' = "stream" /\ flushing = {}
        /\ UNCHANGED <<pub, sent, stored, acked, sub, faults>>
    BY <1>11 DEF Comment, FlushDone, relayVars, faultVars
  <2>2. \A s \in Sessions : \A i \in 1..Len(pub) : Settled(i, s) => Settled(i, s)'
    BY <2>1 DEF Settled, Connected
  <2> QED BY <2>1, <2>2, CopiesQuiet
<1>12. CASE UNCHANGED vars
  <2>1. UNCHANGED <<pub, acked, sent, sub, pc, frame, todo, failed, pending, flushing, stored, faults>>
    BY <1>12 DEF vars, relayVars, frameVars, ackVars, faultVars
  <2>2. \A s \in Sessions : \A i \in 1..Len(pub) : Settled(i, s) => Settled(i, s)'
    BY <2>1 DEF Settled, Connected
  <2> QED BY <2>1, <2>2, CopiesQuiet
<1> QED BY <1>1, <1>2, <1>3, <1>4, <1>5, <1>6, <1>7, <1>8, <1>9, <1>10, <1>11, <1>12
      DEF Next, Run, Dispatch, Flush

\* Whatever fails: the first copies of the records of a lane are stored in the
\* order of their publication where they are owed, as long as nothing is lost, and
\* an inbox has at most one copy more of a record than there were faults.
THEOREM StoredAlwaysInOrder == Spec => []StoredInOrder
<1>1. Init => OrderInv /\ CopiesInv
  <2>1. Init => pub = <<>> /\ \A s \in Sessions : stored[s] = <<>>
    BY DEF Init
  <2> QED BY <2>1 DEF OrderInv, CopiesInv
<1>2. IInv /\ OrderInv /\ CopiesInv /\ [Next]_vars => OrderInv' /\ CopiesInv'
  BY OrderStep, CopiesStep
<1>3. IInv /\ OrderInv /\ CopiesInv => StoredInOrder
  <2> SUFFICES ASSUME IInv, OrderInv, CopiesInv PROVE StoredInOrder
    OBVIOUS
  <2>1. LaneOrder
    BY OrderedIsLaneOrder DEF IInv, TypeInv
  <2>2. \A s \in Sessions : \A i \in 1..Len(pub) : Copies(s, i) <= faults + 1
    BY DEF CopiesInv
  <2>3. faults \in Nat
    BY IntakeAssumption DEF IInv, TypeInv, TypeOK
  <2>4. faults + 1 = 1 + faults
    BY <2>3
  <2> QED BY <2>1, <2>2, <2>4 DEF StoredInOrder, RepeatsNeedFault
<1> QED BY <1>1, <1>2, <1>3, IntakeInv, PTL DEF Spec
=============================================================================
