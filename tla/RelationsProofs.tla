---------------------------- MODULE RelationsProofs ----------------------------
(***************************************************************************)
(* Proofs about Relations, for any callers, decisions, activities and      *)
(* other entities.                                                         *)
(*                                                                         *)
(* Pins need no more than the type invariant.  About cycles the invariant  *)
(* says that the search of a call which has passed it would still find     *)
(* nothing, unless the call was overtaken.  Then Unclosed and AddStar, for *)
(* any graph: edges from one source to targets none of which reaches the   *)
(* source lie on no cycle, and leave an acyclic graph acyclic.             *)
(*                                                                         *)
(* About verdicts: a call about to record "retracted" has its target       *)
(* retracted, unless that has been undone since.                           *)
(*                                                                         *)
(* About Tags: with one update_tag at a time, what it has read is still so *)
(* when it writes, however records are tagged meanwhile.                   *)
(*                                                                         *)
(* And about Bundles: a record is never deleted nor its number reused, so  *)
(* a key always stands for one record, and what is true of the content     *)
(* that goes with a key stays true while it lies in a file or waits in a   *)
(* call, however the instances grow meanwhile.                             *)
(***************************************************************************)
EXTENDS Relations, Tags, Bundles, TLAPS

--------------------------------------------------------------------------------
\* Edges from s to targets that do not reach s close no cycle.  A set without an
\* end in the new graph holds s and a target; what the targets reach, cut with it,
\* would be a set without an end in the old graph.
LEMMA AddStar ==
    ASSUME NEW N, NEW E, NEW s \in N, NEW T \in SUBSET N, Acyclic(N, E), s \notin T,
           \A t \in T : ~Reaches(N, E, t, s)
    PROVE  Acyclic(N, E \union ({s} \X T))
<1> DEFINE F == E \union ({s} \X T)
<1> SUFFICES ASSUME NEW S \in (SUBSET N) \ {{}}
             PROVE  \E x \in S : \A y \in S : <<x, y>> \notin F
  BY DEF Acyclic
<1>1. CASE \A t \in T : s \in S => t \notin S
  <2>1. PICK x \in S : \A y \in S : <<x, y>> \notin E
    BY DEF Acyclic
  <2>2. \A y \in S : <<x, y>> \notin {s} \X T
    BY <1>1
  <2>. QED  BY <2>1, <2>2
<1>2. CASE \E t \in T : s \in S /\ t \in S
  <2>1. PICK t \in T : t \in S
    BY <1>2
  <2>2. PICK R \in SUBSET N : t \in R /\ ClosedUnder(R, E) /\ s \notin R
    BY DEF Reaches
  <2>3. S \cap R \in (SUBSET N) \ {{}}
    BY <2>1, <2>2
  <2>4. PICK x \in S \cap R : \A y \in S \cap R : <<x, y>> \notin E
    BY <2>3 DEF Acyclic
  <2>5. ASSUME NEW y \in S, <<x, y>> \in E PROVE FALSE
    <3>1. y \in R
      BY <2>2, <2>4, <2>5 DEF ClosedUnder
    <3>. QED  BY <3>1, <2>4, <2>5
  <2>6. x # s
    BY <2>2, <2>4
  <2>7. \A y \in S : <<x, y>> \notin F
    BY <2>5, <2>6
  <2>. QED  BY <2>4, <2>7
<1>. QED  BY <1>1, <1>2

\* What does not reach s is not helped by edges that leave s.
LEMMA Unclosed ==
    ASSUME NEW N, NEW E, NEW s, NEW T, NEW t, ~Reaches(N, E, t, s)
    PROVE  ~Reaches(N, E \union ({s} \X T), t, s)
<1>1. PICK R \in SUBSET N : t \in R /\ ClosedUnder(R, E) /\ s \notin R
  BY DEF Reaches
<1>2. ClosedUnder(R, E \union ({s} \X T))
  BY <1>1 DEF ClosedUnder
<1>. QED  BY <1>1, <1>2 DEF Reaches

\* Fewer edges close no cycle and reach no further.
LEMMA FewerEdges ==
    ASSUME NEW N, NEW E, NEW F, E \subseteq F
    PROVE  /\ Acyclic(N, F) => Acyclic(N, E)
           /\ \A a, b : ~Reaches(N, F, a, b) => ~Reaches(N, E, a, b)
<1>1. Acyclic(N, F) => Acyclic(N, E)
  BY DEF Acyclic
<1>2. ASSUME NEW a, NEW b, ~Reaches(N, F, a, b) PROVE ~Reaches(N, E, a, b)
  <2>1. PICK R \in SUBSET N : a \in R /\ ClosedUnder(R, F) /\ b \notin R
    BY <1>2 DEF Reaches
  <2>2. ClosedUnder(R, E)
    BY <2>1 DEF ClosedUnder
  <2>. QED  BY <2>1, <2>2 DEF Reaches
<1>. QED  BY <1>1, <1>2

--------------------------------------------------------------------------------
\* What a call record holds, by the step it is at.
LEMMA CallFields ==
    ASSUME TypeOK, NEW c \in Callers
    PROVE  /\ call[c].pc \in {"idle", "add", "retract", "record"}
           /\ call[c].pc = "idle" <=> call[c] = Idle
           /\ call[c].pc = "add" =>
                 /\ call[c].kind \in Relation
                 /\ call[c].source \in Members(call[c].kind)
                 /\ call[c].targets \in SUBSET Members(call[c].kind)
                 /\ call[c].first \in call[c].targets
                 /\ call[c].source \notin call[c].targets
                 /\ [call[c] EXCEPT !.overtaken = TRUE] \in Call
           /\ call[c].pc \in {"retract", "record"} =>
                 /\ call[c].source \in Decisions
                 /\ call[c].target \in Decisions
                 /\ call[c].resolution \in Resolution
                 /\ [call[c] EXCEPT !.pc = "record"] \in ResolveCall
                 /\ [call[c] EXCEPT !.undone = TRUE] \in ResolveCall
<1>1. call[c] = Idle \/ (\E k \in Relation : call[c] \in AddCall(k)) \/ call[c] \in ResolveCall
  BY DEF TypeOK, Call
<1>2. CASE call[c] = Idle
  BY <1>2 DEF Idle
<1>3. CASE \E k \in Relation : call[c] \in AddCall(k)
  <2>1. PICK k \in Relation : call[c] \in AddCall(k)
    BY <1>3
  <2>2. [call[c] EXCEPT !.overtaken = TRUE] \in AddCall(k)
    BY <2>1 DEF AddCall
  <2>3. [call[c] EXCEPT !.overtaken = TRUE] \in Call
    BY <2>2 DEF Call
  <2>. QED  BY <2>1, <2>3 DEF AddCall, Idle
<1>4. CASE call[c] \in ResolveCall
  <2>1. [call[c] EXCEPT !.pc = "record"] \in ResolveCall /\ [call[c] EXCEPT !.undone = TRUE] \in ResolveCall
    BY <1>4 DEF ResolveCall
  <2>2. call[c].pc \in {"retract", "record"} /\ call[c] # Idle
    BY <1>4 DEF ResolveCall, Idle
  <2>3. call[c].source \in Decisions /\ call[c].target \in Decisions /\ call[c].resolution \in Resolution
    BY <1>4 DEF ResolveCall
  <2>. QED  BY <2>1, <2>2, <2>3
<1>. QED  BY <1>1, <1>2, <1>3, <1>4

LEMMA InitTypeOK == Init => TypeOK
  BY DEF Init, TypeOK, Relation, Call

\* Transfers rename the ends of pins among the entities.
LEMMA TransferType ==
    ASSUME TypeOK, NEW olds \in SUBSET Decisions, NEW new \in Decisions
    PROVE  TransferPins(olds, new) \subseteq Entities \X Entities
  BY DEF TransferPins, TypeOK, Entities

LEMMA ReturnAddingType ==
    ASSUME TypeOK, NEW c, NEW k, NEW new, ReturnAdding(c, k, new)
    PROVE  call' \in [Callers -> Call]
<1>1. ASSUME NEW d \in Callers PROVE call'[d] \in Call
  <2>1. CASE call'[d] = Idle
    BY <2>1 DEF Call
  <2>2. CASE call'[d] = call[d]
    BY <2>2 DEF TypeOK
  <2>3. CASE call[d].pc = "add" /\ call'[d] = [call[d] EXCEPT !.overtaken = TRUE]
    BY <2>3, CallFields
  <2>. QED  BY <2>1, <2>2, <2>3 DEF ReturnAdding
<1>. QED  BY <1>1 DEF ReturnAdding

LEMMA TypeStep == TypeOK /\ [Next]_vars => TypeOK'
<1> SUFFICES ASSUME TypeOK, [Next]_vars PROVE TypeOK'
  OBVIOUS
<1>1. ASSUME UNCHANGED vars PROVE TypeOK'
  BY <1>1 DEF vars, TypeOK
<1>2. ASSUME NEW c \in Callers, AddRelationCheck(c) PROVE TypeOK'
  <2>1. PICK k \in Kinds : \E s \in Members(k), T \in SUBSET Members(k) : \E t \in T \ {s} :
           Become(c, [pc |-> "add", kind |-> k, source |-> s, targets |-> T \ {s}, first |-> t,
                     overtaken |-> FALSE])
    BY <1>2 DEF AddRelationCheck
  <2>2. PICK r \in AddCall(k) : Become(c, r)
    BY <2>1 DEF AddCall
  <2>3. r \in Call
    BY <2>2, KindsAssumption DEF Call
  <2> HIDE DEF Call
  <2>. QED  BY <1>2, <2>2, <2>3 DEF AddRelationCheck, Become, TypeOK
<1>3. ASSUME NEW c \in Callers, AddRelationWrite(c) PROVE TypeOK'
  <2> DEFINE r == call[c]
  <2>1. /\ r.kind \in Relation /\ r.source \in Members(r.kind)
        /\ r.targets \in SUBSET Members(r.kind)
    BY <1>3, CallFields DEF AddRelationWrite
  <2>2. /\ edges' = [edges EXCEPT ![r.kind] = @ \union ({r.source} \X r.targets)]
        /\ UNCHANGED <<retracted, resolved>>
    BY <1>3 DEF AddRelationWrite
  <2>3. edges' \in [Relation -> SUBSET ((Decisions \union Activities) \X (Decisions \union Activities))]
    BY <2>1, <2>2 DEF TypeOK, Members
  <2>4. \A k \in Relation : edges'[k] \subseteq Members(k) \X Members(k)
    BY <2>1, <2>2 DEF TypeOK
  <2>5. pins' \subseteq Entities \X Entities
    <3>1. CASE r.kind = "replaces"
      <4>1. r.source \in Decisions /\ r.targets \in SUBSET Decisions
        BY <2>1, <3>1 DEF Members
      <4>2. pins' = TransferPins({t \in r.targets : <<r.source, t>> \notin edges["replaces"]}, r.source)
        BY <1>3, <3>1 DEF AddRelationWrite
      <4>. QED  BY <4>1, <4>2, TransferType
    <3>2. CASE r.kind # "replaces"
      BY <1>3, <3>2 DEF AddRelationWrite, TypeOK
    <3>. QED  BY <3>1, <3>2
  <2>6. call' \in [Callers -> Call]
    BY <1>3, ReturnAddingType DEF AddRelationWrite
  <2>. QED  BY <2>2, <2>3, <2>4, <2>5, <2>6 DEF TypeOK
<1>4. ASSUME NEW c \in Callers, AddRelationRefused(c) \/ CallFails(c) PROVE TypeOK'
  BY <1>4 DEF AddRelationRefused, CallFails, Return, Become, TypeOK, Call
<1>5. ASSUME NEW c \in Callers, RemoveRelation(c) PROVE TypeOK'
  <2>1. PICK k \in Kinds, s \in Decisions \union Activities, T \in SUBSET (Decisions \union Activities) :
           edges' = [edges EXCEPT ![k] = @ \ ({s} \X (T \ {s}))]
    BY <1>5 DEF RemoveRelation, Members
  <2>2. k \in Relation
    BY KindsAssumption
  <2>3. edges' \in [Relation -> SUBSET ((Decisions \union Activities) \X (Decisions \union Activities))]
    BY <2>1, <2>2 DEF TypeOK
  <2>4. \A j \in Relation : edges'[j] \subseteq Members(j) \X Members(j)
    BY <2>1, <2>2 DEF TypeOK
  <2>. QED  BY <1>5, <2>3, <2>4 DEF RemoveRelation, TypeOK
<1>6. ASSUME NEW c \in Callers, AddPin(c) PROVE TypeOK'
  BY <1>6 DEF AddPin, TypeOK
<1>7. ASSUME NEW c \in Callers, RemovePin(c) PROVE TypeOK'
  BY <1>7 DEF RemovePin, TypeOK
<1>8. ASSUME NEW c \in Callers, Retract(c) \/ Unretract(c) PROVE TypeOK'
  <2>1. CASE Retract(c)
    BY <2>1, RetractableAssumption DEF Retract, TypeOK
  <2>2. CASE Unretract(c)
    <3>1. PICK e \in Retractable :
             /\ retracted' = retracted \ {e} /\ UNCHANGED <<edges, pins, resolved>>
             /\ call' = [u \in Callers |-> IF call[u].pc = "record" /\ call[u].target = e
                                           THEN [call[u] EXCEPT !.undone = TRUE] ELSE call[u]]
      BY <2>2 DEF Unretract
    <3>2. ASSUME NEW d \in Callers PROVE call'[d] \in Call
      <4>1. CASE call'[d] = call[d]
        BY <4>1 DEF TypeOK
      <4>2. CASE call[d].pc = "record" /\ call'[d] = [call[d] EXCEPT !.undone = TRUE]
        <5>1. [call[d] EXCEPT !.undone = TRUE] \in ResolveCall
          BY <4>2, CallFields
        <5>. QED  BY <4>2, <5>1 DEF Call
      <4>. QED  BY <3>1, <4>1, <4>2
    <3>. QED  BY <3>1, <3>2 DEF TypeOK
  <2>. QED  BY <1>8, <2>1, <2>2
<1>9. ASSUME NEW c \in Callers, ResolveCheck(c) PROVE TypeOK'
  <2>1. PICK r \in ResolveCall : Become(c, r)
    BY <1>9, KindsAssumption, SwitchAssumption DEF ResolveCheck, ResolveArgs, ResolveCall
  <2>. QED  BY <1>9, <2>1 DEF ResolveCheck, Become, TypeOK, Call
<1>10. ASSUME NEW c \in Callers, ResolveRetract(c) PROVE TypeOK'
  <2>1. call[c].target \in Decisions /\ [call[c] EXCEPT !.pc = "record"] \in ResolveCall
    BY <1>10, CallFields DEF ResolveRetract
  <2>. QED  BY <1>10, <2>1 DEF ResolveRetract, Become, TypeOK, Call
<1>11. ASSUME NEW c \in Callers, ResolveRecord(c) PROVE TypeOK'
  <2>1. call[c].resolution \in Resolution
    BY <1>11, CallFields DEF ResolveRecord
  <2>. QED  BY <1>11, <2>1 DEF ResolveRecord, Return, Become, TypeOK, Call
<1>. QED
  BY <1>1, <1>2, <1>3, <1>4, <1>5, <1>6, <1>7, <1>8, <1>9, <1>10, <1>11 DEF Next

\* Every reachable state of the relations, the pins and the calls is well typed.
THEOREM TypeCorrect == Spec => []TypeOK
  BY InitTypeOK, TypeStep, PTL DEF Spec

--------------------------------------------------------------------------------
\* Nothing pins itself, however calls overlap: a transfer gives both ends of a pin
\* the same name only where it drops the pin.
LEMMA SelfStep == TypeOK /\ NoSelfPins /\ [Next]_vars => NoSelfPins'
<1> SUFFICES ASSUME TypeOK, NoSelfPins, [Next]_vars PROVE NoSelfPins'
  OBVIOUS
<1>1. ASSUME UNCHANGED pins PROVE NoSelfPins'
  BY <1>1 DEF NoSelfPins
<1>2. ASSUME NEW c \in Callers, AddRelationWrite(c) PROVE NoSelfPins'
  <2>1. CASE call[c].kind = "replaces"
    <3> DEFINE olds == {t \in call[c].targets : <<call[c].source, t>> \notin edges["replaces"]}
               new == call[c].source
    <3>1. pins' = TransferPins(olds, new)
      BY <1>2, <2>1 DEF AddRelationWrite
    <3>2. ASSUME NEW p \in TransferPins(olds, new) PROVE p[1] # p[2]
      <4>1. PICK q \in pins : p = << IF q[1] \in olds THEN new ELSE q[1],
                                     IF q[2] \in olds THEN new ELSE q[2] >>
        BY DEF TransferPins
      <4>2. p # <<new, new>>
        BY DEF TransferPins
      <4>3. q[1] # q[2]
        BY DEF NoSelfPins
      <4>. QED  BY <4>1, <4>2, <4>3
    <3>. QED  BY <3>1, <3>2 DEF NoSelfPins
  <2>2. CASE call[c].kind # "replaces"
    BY <1>1, <1>2, <2>2 DEF AddRelationWrite
  <2>. QED  BY <2>1, <2>2
<1>3. ASSUME NEW c \in Callers, AddPin(c) PROVE NoSelfPins'
  BY <1>3 DEF AddPin, NoSelfPins
<1>4. ASSUME NEW c \in Callers, RemovePin(c) PROVE NoSelfPins'
  BY <1>4 DEF RemovePin, NoSelfPins
<1>5. ASSUME UNCHANGED vars PROVE NoSelfPins'
  BY <1>1, <1>5 DEF vars
<1>. QED
  BY <1>1, <1>2, <1>3, <1>4, <1>5 DEF Next, AddRelationCheck, AddRelationRefused, RemoveRelation,
     Retract, Unretract, ResolveCheck, ResolveRetract, ResolveRecord, CallFails

\* No sequence of pins and supersedings, of any number of overlapping calls, makes
\* an entity pin itself.
THEOREM NothingPinsItself == Spec => []NoSelfPins
<1>1. Init => NoSelfPins
  BY DEF Init, NoSelfPins
<1>. QED  BY <1>1, SelfStep, TypeCorrect, PTL DEF Spec

--------------------------------------------------------------------------------
\* Every step but a remove_pin hands the pins that vanish to the heirs of their ends.
LEMMA KeptStep == TypeOK /\ [Next]_vars => [KeepsPins]_vars
<1> SUFFICES ASSUME TypeOK, Next PROVE KeepsPins
  OBVIOUS
<1>1. ASSUME pins \subseteq pins' PROVE KeepsPins
  BY <1>1 DEF KeepsPins
<1>2. ASSUME NEW c \in Callers, AddRelationWrite(c), call[c].kind = "replaces" PROVE KeepsPins
  <2> DEFINE olds == {t \in call[c].targets : <<call[c].source, t>> \notin edges["replaces"]}
             new == call[c].source
             now(x) == IF x \in olds THEN new ELSE x
  <2>1. /\ new \in Decisions
        /\ pins' = TransferPins(olds, new)
        /\ edges' = [edges EXCEPT !["replaces"] = @ \union ({new} \X call[c].targets)]
    BY <1>2, CallFields DEF AddRelationWrite, Members
  <2>2. ASSUME NEW x \in Entities PROVE now(x) \in Entities /\ Heir(x, now(x))
    <3>1. now(x) \in Entities
      BY <2>1 DEF Entities
    <3>2. CASE x \in olds
      <4>1. <<new, x>> \in edges'["replaces"]
        BY <2>1, <3>2 DEF TypeOK, Relation
      <4>. QED  BY <3>1, <3>2, <4>1 DEF Heir
    <3>. QED  BY <3>1, <3>2 DEF Heir
  <2>3. ASSUME NEW p \in pins
        PROVE  now(p[1]) = now(p[2]) \/ <<now(p[1]), now(p[2])>> \in pins'
    BY <2>1 DEF TransferPins
  <2>4. \A p \in pins : p[1] \in Entities /\ p[2] \in Entities
    BY DEF TypeOK
  <2>. QED  BY <2>2, <2>3, <2>4 DEF KeepsPins
<1>3. ASSUME NEW c \in Callers, AddRelationWrite(c), call[c].kind # "replaces" PROVE KeepsPins
  BY <1>1, <1>3 DEF AddRelationWrite
<1>4. ASSUME NEW c \in Callers, AddPin(c) PROVE KeepsPins
  BY <1>1, <1>4 DEF AddPin
<1>5. ASSUME NEW c \in Callers, RemovePin(c) PROVE KeepsPins
  BY <1>5 DEF RemovePin, KeepsPins
<1>. QED
  BY <1>1, <1>2, <1>3, <1>4, <1>5 DEF Next, AddRelationCheck, AddRelationRefused, RemoveRelation,
     Retract, Unretract, ResolveCheck, ResolveRetract, ResolveRecord, CallFails

\* A superseding loses no pin but those between decisions that become one.
THEOREM PinsOnlyMove == Spec => PinsAreKept
<1>. QED  BY KeptStep, TypeCorrect, PTL DEF Spec, PinsAreKept

--------------------------------------------------------------------------------
\* A call that has searched and was not overtaken would still find nothing.
SearchHolds ==
    \A c \in Callers : call[c].pc = "add" =>
       \/ call[c].overtaken
       \/ ~Reaches(Members(call[c].kind), Graph(call[c].kind), call[c].first, call[c].source)

CycleInv == TypeOK /\ SearchHolds

\* Calls that are as they were, not adding, or overtaken, while no edge is stored.
LEMMA NoNewEdge ==
    ASSUME SearchHolds, \A k \in Relation : edges'[k] \subseteq edges[k],
           \A d \in Callers : call'[d] = call[d] \/ call'[d].pc # "add" \/ call'[d].overtaken
    PROVE  SearchHolds'
<1>1. \A k : Graph(k)' \subseteq Graph(k)
  BY DEF Graph, Relation
<1> SUFFICES ASSUME NEW d \in Callers, call'[d] = call[d], call[d].pc = "add", ~call[d].overtaken
             PROVE  ~Reaches(Members(call[d].kind), Graph(call[d].kind)', call[d].first, call[d].source)
  BY DEF SearchHolds, Graph, Members, Reaches, ClosedUnder
<1>. QED  BY <1>1, FewerEdges DEF SearchHolds

\* What a write makes of the graphs.
LEMMA WriteGraphs ==
    ASSUME TypeOK, NEW c \in Callers, AddRelationWrite(c)
    PROVE  \A k \in Relation :
              Graph(k)' = IF SameGraph(k, call[c].kind)
                          THEN Graph(call[c].kind) \union ({call[c].source} \X call[c].targets)
                          ELSE Graph(k)
<1>1. call[c].kind \in Relation
  BY CallFields DEF AddRelationWrite
<1>2. edges' = [edges EXCEPT ![call[c].kind] = @ \union ({call[c].source} \X call[c].targets)]
  BY DEF AddRelationWrite
<1>. QED  BY <1>1, <1>2 DEF TypeOK, Relation, Graph, SameGraph

LEMMA CycleStep == CycleInv /\ [Next]_vars => CycleInv'
<1> SUFFICES ASSUME CycleInv, [Next]_vars PROVE SearchHolds'
  BY TypeStep DEF CycleInv
<1>0. TypeOK /\ SearchHolds
  BY DEF CycleInv
<1>1. ASSUME UNCHANGED edges,
             \A d \in Callers : call'[d] = call[d] \/ call'[d].pc # "add" \/ call'[d].overtaken
      PROVE  SearchHolds'
  BY <1>0, <1>1, NoNewEdge
<1>2. ASSUME NEW c \in Callers, AddRelationCheck(c) PROVE SearchHolds'
  <2>1. PICK k, s, T, t :
           /\ ~Reaches(Members(k), Graph(k), t, s)
           /\ Become(c, [pc |-> "add", kind |-> k, source |-> s, targets |-> T \ {s}, first |-> t,
                         overtaken |-> FALSE])
    BY <1>2 DEF AddRelationCheck
  <2>2. /\ call'[c].kind = k /\ call'[c].source = s /\ call'[c].first = t
        /\ \A d \in Callers : d # c => call'[d] = call[d]
    BY <1>0, <2>1 DEF Become, TypeOK
  <2>3. UNCHANGED edges
    BY <1>2 DEF AddRelationCheck
  <2> SUFFICES ASSUME NEW d \in Callers, call'[d].pc = "add"
               PROVE  \/ call'[d].overtaken
                      \/ (~Reaches(Members(call[d].kind), Graph(call[d].kind), call[d].first, call[d].source))'
    BY DEF SearchHolds
  <2>4. CASE d = c
    BY <2>1, <2>2, <2>3, <2>4 DEF Graph, Members, Reaches, ClosedUnder
  <2>5. CASE d # c
    BY <1>0, <2>2, <2>3, <2>5 DEF SearchHolds, Graph, Members, Reaches, ClosedUnder
  <2>. QED  BY <2>4, <2>5
<1>3. ASSUME NEW c \in Callers, AddRelationWrite(c) PROVE SearchHolds'
  <2> DEFINE r == call[c]
             new == {r.source} \X r.targets
  <2>1. ReturnAdding(c, r.kind, new)
    BY <1>3 DEF AddRelationWrite
  <2> SUFFICES ASSUME NEW d \in Callers, call'[d].pc = "add", ~call'[d].overtaken
               PROVE  (~Reaches(Members(call[d].kind), Graph(call[d].kind), call[d].first, call[d].source))'
    BY DEF SearchHolds
  <2>2. call'[d] # Idle
    BY DEF Idle
  <2>3. call'[d] = call[d]
    <3>1. CASE call[d].pc = "add" /\ call'[d] = [call[d] EXCEPT !.overtaken = TRUE]
      BY <1>0, <3>1, CallFields, TypeStep DEF TypeOK, Call, AddCall, ResolveCall, Idle
    <3>. QED  BY <2>1, <2>2, <3>1 DEF ReturnAdding
  <2>4. call[d].kind \in Relation
    BY <1>0, <2>3, CallFields
  <2>5. SameGraph(call[d].kind, r.kind) => new \subseteq Graph(r.kind)
    <3>1. CASE SameGraph(call[d].kind, r.kind) /\ ~(new \subseteq Graph(r.kind))
      <4>1. call'[d] = [call[d] EXCEPT !.overtaken = TRUE]
        BY <2>1, <2>2, <2>3, <3>1 DEF ReturnAdding
      <4>. QED  BY <1>0, <2>3, <4>1, CallFields DEF TypeOK, Call, AddCall, ResolveCall, Idle
    <3>. QED  BY <3>1
  <2>6. Graph(call[d].kind)' = Graph(call[d].kind)
    <3>1. CASE SameGraph(call[d].kind, r.kind)
      <4>1. Graph(call[d].kind) = Graph(r.kind)
        BY <3>1 DEF Graph, SameGraph
      <4>2. Graph(r.kind) \union new = Graph(r.kind)
        BY <2>5, <3>1
      <4>3. \A k \in Relation : SameGraph(k, r.kind) => Graph(k)' = Graph(r.kind) \union new
        BY <1>0, <1>3, WriteGraphs
      <4>. QED  BY <2>3, <2>4, <3>1, <4>1, <4>2, <4>3 DEF Graph
    <3>2. CASE ~SameGraph(call[d].kind, r.kind)
      <4>1. \A k \in Relation : ~SameGraph(k, r.kind) => Graph(k)' = Graph(k)
        BY <1>0, <1>3, WriteGraphs
      <4>. QED  BY <2>3, <2>4, <3>2, <4>1 DEF Graph
    <3>. QED  BY <3>1, <3>2
  <2>. QED  BY <1>0, <2>3, <2>6 DEF SearchHolds, Members, Reaches, ClosedUnder
<1>4. ASSUME NEW c \in Callers, AddRelationRefused(c) \/ ResolveRecord(c) \/ CallFails(c) PROVE SearchHolds'
  <2>1. UNCHANGED edges /\ \A d \in Callers : call'[d] = call[d] \/ call'[d] = Idle
    BY <1>0, <1>4 DEF AddRelationRefused, ResolveRecord, CallFails, Return, Become, TypeOK
  <2>. QED  BY <1>1, <2>1 DEF Idle
<1>5. ASSUME NEW c \in Callers, RemoveRelation(c) PROVE SearchHolds'
  <2>1. PICK k \in Kinds : \E s \in Members(k), T \in SUBSET Members(k) :
           edges' = [edges EXCEPT ![k] = @ \ ({s} \X (T \ {s}))]
    BY <1>5 DEF RemoveRelation
  <2>2. \A j \in Relation : edges'[j] \subseteq edges[j]
    BY <1>0, <2>1 DEF TypeOK
  <2>3. UNCHANGED call
    BY <1>5 DEF RemoveRelation
  <2>. QED  BY <1>0, <2>2, <2>3, NoNewEdge
<1>6. ASSUME NEW c \in Callers, AddPin(c) \/ RemovePin(c) \/ Retract(c) PROVE SearchHolds'
  BY <1>1, <1>6 DEF AddPin, RemovePin, Retract
<1>7. ASSUME NEW c \in Callers, Unretract(c) PROVE SearchHolds'
  <2>1. \A d \in Callers : \/ call'[d] = call[d]
                           \/ call[d].pc = "record" /\ call'[d] = [call[d] EXCEPT !.undone = TRUE]
    BY <1>7 DEF Unretract
  <2>2. \A d \in Callers : call'[d] = call[d] \/ call'[d].pc # "add"
    BY <1>0, <2>1, CallFields DEF ResolveCall
  <2>. QED  BY <1>1, <1>7, <2>2 DEF Unretract
<1>8. ASSUME NEW c \in Callers, ResolveCheck(c) \/ ResolveRetract(c) PROVE SearchHolds'
  <2>1. CASE ResolveCheck(c)
    <3>1. PICK r \in ResolveCall : Become(c, r)
      BY <2>1, KindsAssumption, SwitchAssumption DEF ResolveCheck, ResolveArgs, ResolveCall
    <3>2. \A d \in Callers : call'[d] = call[d] \/ call'[d].pc # "add"
      BY <1>0, <3>1 DEF Become, TypeOK, ResolveCall
    <3>. QED  BY <1>1, <2>1, <3>2 DEF ResolveCheck
  <2>2. CASE ResolveRetract(c)
    <3>1. \A d \in Callers : call'[d] = call[d] \/ call'[d].pc # "add"
      BY <1>0, <2>2, CallFields DEF ResolveRetract, Become, TypeOK, ResolveCall
    <3>. QED  BY <1>1, <2>2, <3>1 DEF ResolveRetract
  <2>. QED  BY <1>8, <2>1, <2>2
<1>9. CASE UNCHANGED vars
  BY <1>1, <1>9 DEF vars
<1>. QED
  BY <1>2, <1>3, <1>4, <1>5, <1>6, <1>7, <1>8, <1>9 DEF Next

LEMMA InitCycleInv == Init => CycleInv
  BY InitTypeOK DEF Init, CycleInv, SearchHolds, Idle

\* The targets of a call that is about to write do not reach its source, but for the
\* first one when the call was overtaken.
LEMMA TargetsApart ==
    ASSUME CycleInv, NEW c \in Callers, AddRelationWrite(c), NEW t \in call[c].targets,
           t = call[c].first => ~call[c].overtaken
    PROVE  LET G == Graph(call[c].kind)
               s == call[c].source
           IN  /\ ~Reaches(Members(call[c].kind), G, t, s)
               /\ ~Reaches(Members(call[c].kind), G \union ({s} \X call[c].targets), t, s)
<1> DEFINE r == call[c]
           N == Members(r.kind)
           G == Graph(r.kind)
           H == G \union {<<r.source, r.first>>}
<1>1. CASE t = r.first
  <2>1. ~Reaches(N, G, t, r.source)
    BY <1>1 DEF CycleInv, SearchHolds, AddRelationWrite
  <2>. QED  BY <2>1, Unclosed
<1>2. CASE t # r.first
  <2>1. ~Reaches(N, H, t, r.source)
    BY <1>2 DEF AddRelationWrite, ClosesCycle
  <2>2. ~Reaches(N, G, t, r.source)
    <3>1. G \subseteq H
      OBVIOUS
    <3>. QED  BY <2>1, <3>1, FewerEdges
  <2>. QED  BY <2>2, Unclosed
<1>. QED  BY <1>1, <1>2

\* Only a write adds edges.
LEMMA OnlyWritesAdd ==
    ASSUME TypeOK, Next, NEW k \in Relation, NEW e \in Graph(k)' \ Graph(k)
    PROVE  \E c \in Callers : AddRelationWrite(c) /\ SameGraph(k, call[c].kind)
                              /\ e \in {call[c].source} \X call[c].targets
<1>1. ~UNCHANGED edges
  BY DEF Graph
<1>2. ASSUME NEW c \in Callers, RemoveRelation(c) PROVE FALSE
  <2>1. PICK l \in Kinds : \E s \in Members(l), T \in SUBSET Members(l) :
           edges' = [edges EXCEPT ![l] = @ \ ({s} \X (T \ {s}))]
    BY <1>2 DEF RemoveRelation
  <2>2. \A j \in Relation : edges'[j] \subseteq edges[j]
    BY <2>1 DEF TypeOK
  <2>. QED  BY <2>2 DEF Graph, Relation
<1>3. PICK c \in Callers : AddRelationWrite(c)
  BY <1>1, <1>2 DEF Next, AddRelationCheck, AddRelationRefused, AddPin, RemovePin,
     Retract, Unretract, ResolveCheck, ResolveRetract, ResolveRecord, CallFails
<1>4. \A j \in Relation :
         Graph(j)' = IF SameGraph(j, call[c].kind)
                     THEN Graph(call[c].kind) \union ({call[c].source} \X call[c].targets)
                     ELSE Graph(j)
  BY <1>3, WriteGraphs
<1>5. SameGraph(k, call[c].kind)
  BY <1>4
<1>6. Graph(k) = Graph(call[c].kind)
  BY <1>5 DEF Graph, SameGraph
<1>. QED  BY <1>3, <1>4, <1>5, <1>6

\* For any number of overlapping and failing calls over any graphs, the ones that have
\* a cycle included: an edge that is stored closes none, unless its call was overtaken
\* between its search and its write and it is the edge to the first target.
THEOREM CyclesNeedARace == Spec => OnlyRacesCloseCycles
<1>1. ASSUME CycleInv, Next, NEW k \in Relation, NEW e \in Graph(k)' \ Graph(k), ClosesAfter(k, e)
      PROVE  \E c \in Callers : /\ call[c].pc = "add" /\ call[c].overtaken
                                /\ e = <<call[c].source, call[c].first>>
  <2>0. TypeOK
    BY <1>1 DEF CycleInv
  <2>1. PICK c \in Callers : /\ AddRelationWrite(c) /\ SameGraph(k, call[c].kind)
                             /\ e \in {call[c].source} \X call[c].targets
    BY <1>1, <2>0, OnlyWritesAdd
  <2> DEFINE F == Graph(call[c].kind) \union ({call[c].source} \X call[c].targets)
  <2>2. Graph(k)' = F /\ Members(k) = Members(call[c].kind)
    BY <2>0, <2>1, WriteGraphs DEF SameGraph, Members
  <2>3. PICK t \in call[c].targets : e = <<call[c].source, t>>
    BY <2>1
  <2>4. Reaches(Members(call[c].kind), F, t, call[c].source)
    BY <1>1, <2>2, <2>3 DEF ClosesAfter
  <2>5. t = call[c].first /\ call[c].overtaken
    BY <1>1, <2>1, <2>4, TargetsApart
  <2>. QED  BY <2>1, <2>3, <2>5 DEF AddRelationWrite
<1>2. CycleInv /\ [Next]_vars =>
         [\A k \in Relation : \A e \in Graph(k)' \ Graph(k) : ClosesAfter(k, e) =>
             \E c \in Callers : /\ call[c].pc = "add" /\ call[c].overtaken
                                /\ e = <<call[c].source, call[c].first>>]_vars
  BY <1>1
<1>. QED  BY <1>2, InitCycleInv, CycleStep, PTL DEF Spec, OnlyRacesCloseCycles

\* Hence the graphs are free of cycles until a call that was overtaken writes.
THEOREM AcyclicUntilARace ==
    Spec => [][NoCycles /\ ~NoCycles' =>
                  \E c \in Callers : call[c].pc = "add" /\ call[c].overtaken /\ AddRelationWrite(c)]_vars
<1>1. ASSUME CycleInv, Next, NoCycles, ~NoCycles'
      PROVE  \E c \in Callers : call[c].pc = "add" /\ call[c].overtaken /\ AddRelationWrite(c)
  <2>0. TypeOK
    BY <1>1 DEF CycleInv
  <2>1. PICK k \in Relation : ~Acyclic(Members(k), Graph(k)')
    BY <1>1 DEF NoCycles, Acyclic, Members
  <2>2. PICK e \in Graph(k)' : e \notin Graph(k)
    <3>1. Acyclic(Members(k), Graph(k))
      BY <1>1 DEF NoCycles
    <3>. QED  BY <2>1, <3>1 DEF Acyclic
  <2>3. PICK c \in Callers : AddRelationWrite(c) /\ SameGraph(k, call[c].kind)
    BY <1>1, <2>0, <2>2, OnlyWritesAdd
  <2> DEFINE r == call[c]
             N == Members(r.kind)
             G == Graph(r.kind)
  <2>4. /\ r.kind \in Relation /\ r.source \in N /\ r.targets \in SUBSET N /\ r.source \notin r.targets
        /\ r.pc = "add"
    BY <2>0, <2>3, CallFields DEF AddRelationWrite
  <2>5. Graph(k)' = G \union ({r.source} \X r.targets) /\ Members(k) = N
    BY <2>0, <2>3, WriteGraphs DEF SameGraph, Members
  <2>6. ASSUME ~r.overtaken PROVE FALSE
    <3>1. \A t \in r.targets : ~Reaches(N, G, t, r.source)
      BY <1>1, <2>3, <2>6, TargetsApart
    <3>2. Acyclic(N, G)
      BY <1>1, <2>4 DEF NoCycles
    <3>. QED  BY <2>1, <2>4, <2>5, <3>1, <3>2, AddStar
  <2>. QED  BY <2>3, <2>4, <2>6
<1>2. CycleInv /\ [Next]_vars =>
         [NoCycles /\ ~NoCycles' =>
             \E c \in Callers : call[c].pc = "add" /\ call[c].overtaken /\ AddRelationWrite(c)]_vars
  BY <1>1
<1>. QED  BY <1>2, InitCycleInv, CycleStep, PTL DEF Spec

--------------------------------------------------------------------------------
\* A call that is to record "retracted" has retracted its target, and nobody has undone
\* it, or the call is marked.
RetractedFirst ==
    \A c \in Callers : call[c].pc = "record" /\ call[c].resolution = "retracted" =>
       call[c].target \in retracted \/ call[c].undone

VerdictInv == TypeOK /\ RetractedFirst

LEMMA VerdictStep == VerdictInv /\ [Next]_vars => VerdictInv'
<1> SUFFICES ASSUME VerdictInv, [Next]_vars PROVE RetractedFirst'
  BY TypeStep DEF VerdictInv
<1>0. TypeOK /\ RetractedFirst
  BY DEF VerdictInv
<1>1. ASSUME retracted \subseteq retracted',
             \A d \in Callers : call'[d] = call[d] \/ call'[d].pc # "record"
      PROVE  RetractedFirst'
  BY <1>0, <1>1 DEF RetractedFirst
<1>2. ASSUME NEW c \in Callers, AddRelationCheck(c) PROVE RetractedFirst'
  <2>1. PICK r : Become(c, r) /\ r.pc = "add"
    BY <1>2 DEF AddRelationCheck
  <2>2. \A d \in Callers : call'[d] = call[d] \/ call'[d].pc # "record"
    BY <1>0, <2>1 DEF Become, TypeOK
  <2>. QED  BY <1>1, <1>2, <2>2 DEF AddRelationCheck
<1>3. ASSUME NEW c \in Callers, AddRelationWrite(c) PROVE RetractedFirst'
  <2>1. \A d \in Callers : \/ call'[d] \in {Idle, call[d]}
                           \/ call[d].pc = "add" /\ call'[d] = [call[d] EXCEPT !.overtaken = TRUE]
    BY <1>3 DEF AddRelationWrite, ReturnAdding
  <2>2. ASSUME NEW d \in Callers, call[d].pc = "add" PROVE [call[d] EXCEPT !.overtaken = TRUE].pc # "record"
    BY <1>0, <2>2 DEF TypeOK, Call, AddCall, ResolveCall, Idle
  <2>3. ASSUME NEW d \in Callers PROVE call'[d] = call[d] \/ call'[d].pc # "record"
    <3>1. CASE call'[d] = Idle
      BY <3>1 DEF Idle
    <3>2. CASE call[d].pc = "add" /\ call'[d] = [call[d] EXCEPT !.overtaken = TRUE]
      BY <2>2, <3>2
    <3>. QED  BY <2>1, <3>1, <3>2
  <2>. QED  BY <1>1, <1>3, <2>3 DEF AddRelationWrite
<1>4. ASSUME NEW c \in Callers, AddRelationRefused(c) \/ ResolveRecord(c) \/ CallFails(c) PROVE RetractedFirst'
  <2>1. UNCHANGED retracted /\ \A d \in Callers : call'[d] = call[d] \/ call'[d] = Idle
    BY <1>0, <1>4 DEF AddRelationRefused, ResolveRecord, CallFails, Return, Become, TypeOK
  <2>. QED  BY <1>1, <2>1 DEF Idle
<1>5. ASSUME NEW c \in Callers, RemoveRelation(c) \/ AddPin(c) \/ RemovePin(c) \/ Retract(c)
      PROVE  RetractedFirst'
  BY <1>1, <1>5 DEF RemoveRelation, AddPin, RemovePin, Retract
<1>6. ASSUME NEW c \in Callers, Unretract(c) PROVE RetractedFirst'
  <2>1. PICK e \in Retractable :
           /\ retracted' = retracted \ {e}
           /\ call' = [u \in Callers |-> IF call[u].pc = "record" /\ call[u].target = e
                                         THEN [call[u] EXCEPT !.undone = TRUE] ELSE call[u]]
    BY <1>6 DEF Unretract
  <2>2. ASSUME NEW d \in Callers, call'[d].pc = "record", call'[d].resolution = "retracted"
        PROVE  call'[d].target \in retracted' \/ call'[d].undone
    <3>1. CASE call[d].pc = "record" /\ call[d].target = e
      <4>1. call'[d] = [call[d] EXCEPT !.undone = TRUE]
        BY <2>1, <3>1
      <4>2. call[d] \in ResolveCall
        BY <1>0, <3>1 DEF TypeOK, Call, AddCall, Idle
      <4>. QED  BY <4>1, <4>2 DEF ResolveCall
    <3>2. CASE ~(call[d].pc = "record" /\ call[d].target = e)
      BY <1>0, <2>1, <2>2, <3>2 DEF RetractedFirst
    <3>. QED  BY <3>1, <3>2
  <2>. QED  BY <2>2 DEF RetractedFirst
<1>7. ASSUME NEW c \in Callers, ResolveCheck(c) PROVE RetractedFirst'
  <2>1. PICK s \in Decisions, t \in Decisions, r \in Resolutions, dang \in Dangling :
           Become(c, ResolveArgs(s, t, r, dang))
    BY <1>7 DEF ResolveCheck
  <2>2. /\ call'[c] = ResolveArgs(s, t, r, dang) /\ UNCHANGED retracted
        /\ \A d \in Callers : d # c => call'[d] = call[d]
    BY <1>0, <1>7, <2>1 DEF ResolveCheck, Become, TypeOK
  <2>3. call'[c].pc = "record" => call'[c].resolution # "retracted"
    BY <2>2 DEF ResolveArgs
  <2>. QED  BY <1>0, <2>2, <2>3 DEF RetractedFirst
<1>8. ASSUME NEW c \in Callers, ResolveRetract(c) PROVE RetractedFirst'
  <2>1. call[c] \in ResolveCall
    BY <1>0, <1>8 DEF ResolveRetract, TypeOK, Call, AddCall, Idle
  <2>2. /\ retracted' = retracted \union {call[c].target}
        /\ call'[c] = [call[c] EXCEPT !.pc = "record"]
        /\ \A d \in Callers : d # c => call'[d] = call[d]
    BY <1>0, <1>8 DEF ResolveRetract, Become, TypeOK
  <2>3. call'[c].target \in retracted'
    BY <2>1, <2>2 DEF ResolveCall
  <2>. QED  BY <1>0, <2>2, <2>3 DEF RetractedFirst
<1>9. CASE UNCHANGED vars
  BY <1>1, <1>9 DEF vars
<1>. QED
  BY <1>2, <1>3, <1>4, <1>5, <1>6, <1>7, <1>8, <1>9 DEF Next

\* However resolutions of an edge, retractions and their undoing overlap, whatever they
\* name and wherever they fail: the first verdict of an edge stands, and "retracted" is
\* recorded of nothing but a decision that is retracted, or was until it was undone.
THEOREM VerdictsAlwaysTrue == Spec => VerdictsAreTrue
<1> DEFINE A == \A e \in Decisions \X Decisions : resolved'[e] # resolved[e] =>
          /\ resolved[e] = "none"
          /\ resolved'[e] = "retracted" =>
                \/ e[2] \in retracted
                \/ \E c \in Callers : call[c].pc = "record" /\ call[c].target = e[2] /\ call[c].undone
<1>1. ASSUME VerdictInv, Next PROVE A
  <2> SUFFICES ASSUME NEW e \in Decisions \X Decisions, resolved'[e] # resolved[e]
               PROVE  /\ resolved[e] = "none"
                      /\ resolved'[e] = "retracted" =>
                            \/ e[2] \in retracted
                            \/ \E c \in Callers : call[c].pc = "record" /\ call[c].target = e[2] /\ call[c].undone
    OBVIOUS
  <2>0. TypeOK /\ RetractedFirst
    BY <1>1 DEF VerdictInv
  <2>1. PICK c \in Callers : ResolveRecord(c)
    BY <1>1 DEF Next, AddRelationCheck, AddRelationWrite, AddRelationRefused, RemoveRelation, AddPin,
       RemovePin, Retract, Unretract, ResolveCheck, ResolveRetract, CallFails
  <2>2. call[c].pc = "record"
    BY <2>1 DEF ResolveRecord
  <2>3. /\ e = <<call[c].source, call[c].target>> /\ resolved[e] = "none"
        /\ resolved'[e] = call[c].resolution
    BY <2>0, <2>1 DEF ResolveRecord, TypeOK
  <2>4. resolved'[e] = "retracted" => call[c].target \in retracted \/ call[c].undone
    BY <2>0, <2>2, <2>3 DEF RetractedFirst
  <2>. QED  BY <2>2, <2>3, <2>4
<1>2. VerdictInv /\ [Next]_vars => [A]_vars
  BY <1>1
<1>3. Init => VerdictInv
  BY InitTypeOK DEF Init, VerdictInv, RetractedFirst, Idle
<1>. QED  BY <1>2, <1>3, VerdictStep, PTL DEF Spec, VerdictsAreTrue

--------------------------------------------------------------------------------
(***************************************************************************)
(* Tags                                                                    *)
(***************************************************************************)

\* A row that is there, and that no call makes disappear.
TagRow == [name : Names, canon : TagIds \union {Nothing}, archived : BOOLEAN]

TagTypeOK ==
    /\ tags \in [TagIds -> TagRow \union {NoTag}]
    /\ links \in [Ents \union TagAsks -> SUBSET TagIds]
    /\ given \in [Ents -> SUBSET Here]
    /\ freed \subseteq TagIds
    /\ \A t \in Here : tags[t].canon \in Here \union {Nothing}

\* What an update_tag under way has read: rows that stay, and for an alias or an
\* archived tag that nothing depends on it.
StillSo(c) ==
    LET p == pend[c] IN
    /\ p.tag \in Here
    /\ p.op = "rename" => p.to \in Names
    /\ p.op = "archive" => p.to \in BOOLEAN /\ (p.to => Dependents(p.tag) = {})
    /\ p.op = "alias" =>
         /\ p.to \in Here \ {p.tag} /\ tags[p.to].canon = Nothing /\ ~tags[p.to].archived
         /\ Dependents(p.tag) = {}

PendInv ==
    /\ \A c \in Taggers : pend[c].op \in {"none", "link", "rename", "archive", "unalias", "alias"}
    /\ \A c \in Taggers : pend[c].op = "link" => pend[c].tag \in TagIds /\ pend[c].ask \in TagAsks
    /\ \A c \in Taggers : Updating(c) => StillSo(c)
    /\ \A c, d \in Taggers : Updating(c) /\ Updating(d) => c = d
    /\ pend = [c \in Taggers |-> pend[c]]

TagInv == TagTypeOK /\ PendInv /\ TagsLead

LEMMA RowsAreRows == \A r \in TagRow : r # NoTag
BY DEF TagRow, NoTag

LEMMA HereFacts == TagTypeOK => Here \subseteq TagIds /\ \A t \in TagIds : t \in Here <=> tags[t] \in TagRow
BY RowsAreRows DEF TagTypeOK, Here

LEMMA InitTags == TagInit => TagInv
BY DEF TagInit, TagInv, TagTypeOK, PendInv, TagsLead, AliasesEndAtOnce, FoundByItsTags, Here, NoPend, Updating

\* A tag of a name comes to be, an alias of nothing.
LEMMA NewRow ==
    ASSUME TagTypeOK, NEW t \in TagIds, IsNext(t), NEW n \in Names,
           tags' = [tags EXCEPT ![t] = Row(n)]
    PROVE  /\ tags' \in [TagIds -> TagRow \union {NoTag}]
           /\ Here' = Here \union {t} /\ t \notin Here
           /\ tags'[t].canon = Nothing /\ \A u \in Here : tags'[u] = tags[u]
           /\ \A u \in Here' : tags'[u].canon \in Here' \union {Nothing}
           /\ \A u \in Here : Effective(u)' = Effective(u)
           /\ Effective(t)' = t
<1>1. Row(n) \in TagRow
  BY DEF Row, TagRow
<1>2. tags' \in [TagIds -> TagRow \union {NoTag}] /\ tags'[t] = Row(n) /\ \A u \in TagIds \ {t} : tags'[u] = tags[u]
  BY <1>1 DEF TagTypeOK
<1>3. Row(n) # NoTag /\ t \notin Here
  BY <1>1, RowsAreRows DEF IsNext
<1>4. Here' = Here \union {t}
  BY <1>2, <1>3 DEF Here
<1>5. tags'[t].canon = Nothing
  BY <1>2 DEF Row
<1>6. \A u \in Here : tags'[u] = tags[u]
  BY <1>2, <1>3 DEF Here
<1>7. \A u \in Here' : tags'[u].canon \in Here' \union {Nothing}
  BY <1>4, <1>5, <1>6 DEF TagTypeOK
<1> QED BY <1>2, <1>3, <1>4, <1>5, <1>6, <1>7 DEF Effective

\* A new row changes nothing of what stands.
LEMMA NewRowKeeps ==
    ASSUME TagInv, NEW t \in TagIds, IsNext(t), NEW n \in Names,
           tags' = [tags EXCEPT ![t] = Row(n)]
    PROVE  /\ AliasesEndAtOnce'
           /\ \A c \in Taggers : pend'[c] = pend[c] /\ Updating(c) => StillSo(c)'
<1> USE DEF TagInv
<1>1. /\ Here' = Here \union {t} /\ t \notin Here
      /\ tags'[t].canon = Nothing /\ \A u \in Here : tags'[u] = tags[u]
  BY NewRow
<1>2. \A u \in Here : tags[u].canon # Nothing => tags[u].canon \in Here
  BY DEF TagTypeOK
<1>3. AliasesEndAtOnce'
  BY <1>1, <1>2 DEF TagsLead, AliasesEndAtOnce, Nothing
<1>4. ASSUME NEW c \in Taggers, pend'[c] = pend[c], Updating(c) PROVE StillSo(c)'
  <2>1. StillSo(c)
    BY <1>4 DEF PendInv
  <2>2. \A u \in Here : t \notin {u} /\ Dependents(u)' = Dependents(u)
    <3>1. \A u \in Here : u # Nothing
      BY TagsAssumption, HereFacts DEF Nothing
    <3> QED BY <1>1, <3>1 DEF Dependents
  <2> QED BY <1>1, <1>4, <2>1, <2>2 DEF StillSo
<1> QED BY <1>3, <1>4

\* What does not touch the rows keeps what an update has read.
LEMMA RowsKeep ==
    ASSUME PendInv, UNCHANGED tags, NEW c \in Taggers, pend'[c] = pend[c], Updating(c)
    PROVE  StillSo(c)'
BY DEF PendInv, StillSo, Here, Dependents

LEMMA TagStep ==
    ASSUME TagInv, NEW e \in Ents, NEW n \in Names, Tag(e, n)
    PROVE  TagInv'
<1> USE DEF TagInv
<1>1. PICK t \in TagIds :
         /\ Inserted(n, t)
         /\ tags' = [tags EXCEPT ![t] = IF Named(n) = {} THEN Row(n) ELSE @]
         /\ links' = [links EXCEPT ![e] = @ \union {IF Named(n) = {} THEN t ELSE Effective(t)}]
         /\ given' = [given EXCEPT ![e] = @ \union {t}]
  BY DEF Tag
<1>2. UNCHANGED <<freed, pend>>
  BY DEF Tag
<1>3. CASE Named(n) = {}
  <2>1. IsNext(t) /\ tags' = [tags EXCEPT ![t] = Row(n)]
    BY <1>1, <1>3 DEF Inserted
  <2>2. /\ tags' \in [TagIds -> TagRow \union {NoTag}]
        /\ Here' = Here \union {t} /\ t \notin Here
        /\ \A u \in Here' : tags'[u].canon \in Here' \union {Nothing}
        /\ \A u \in Here : Effective(u)' = Effective(u)
        /\ Effective(t)' = t
    BY <2>1, NewRow
  <2>3. /\ \A x \in Ents \ {e} : links'[x] = links[x] /\ given'[x] = given[x]
        /\ links'[e] = links[e] \union {t} /\ given'[e] = given[e] \union {t}
        /\ links' \in [Ents \union TagAsks -> SUBSET TagIds]
        /\ given' \in [Ents -> SUBSET Here']
    BY <1>1, <1>3, <2>2 DEF TagTypeOK
  <2>4. TagTypeOK'
    BY <1>2, <2>2, <2>3 DEF TagTypeOK
  <2>5. FoundByItsTags'
    BY <1>2, <2>2, <2>3 DEF TagsLead, FoundByItsTags, TagTypeOK
  <2>6. PendInv'
    BY <1>2, <2>1, NewRowKeeps DEF PendInv, Updating
  <2> QED BY <2>1, <2>4, <2>5, <2>6, NewRowKeeps DEF TagsLead
<1>4. CASE Named(n) # {}
  <2>1. tags' = tags /\ t \in Here
    BY <1>1, <1>4 DEF Inserted, Named, TagTypeOK
  <2>2. Effective(t) \in TagIds
    BY <2>1, HereFacts DEF Effective, TagRow, Nothing, TagTypeOK
  <2>3. /\ \A x \in Ents \ {e} : links'[x] = links[x] /\ given'[x] = given[x]
        /\ links'[e] = links[e] \union {Effective(t)} /\ given'[e] = given[e] \union {t}
        /\ links' \in [Ents \union TagAsks -> SUBSET TagIds]
        /\ given' \in [Ents -> SUBSET Here]
    BY <1>1, <1>4, <2>1, <2>2 DEF TagTypeOK
  <2>4. Here' = Here /\ \A u \in TagIds : Effective(u)' = Effective(u)
    BY <2>1 DEF Here, Effective
  <2>5. TagTypeOK'
    BY <1>2, <2>1, <2>3, <2>4 DEF TagTypeOK
  <2>6. TagsLead'
    BY <1>2, <2>1, <2>3, <2>4 DEF TagsLead, AliasesEndAtOnce, FoundByItsTags
  <2>7. PendInv'
    BY <1>2, <2>1, RowsKeep DEF PendInv, Updating
  <2> QED BY <2>5, <2>6, <2>7
<1> QED BY <1>3, <1>4

LEMMA ResolveStep ==
    ASSUME TagInv, NEW c \in Taggers, NEW a \in TagAsks, NEW n \in Names, ResolveTags(c, a, n)
    PROVE  TagInv'
<1> USE DEF TagInv
<1>1. PICK t \in TagIds, u \in TagIds :
         /\ pend[c] = NoPend /\ UNCHANGED <<links, given, freed>>
         /\ pend' = [pend EXCEPT ![c] = [op |-> "link", ask |-> a, tag |-> u]]
         /\ \/ tags' = tags
            \/ IsNext(t) /\ tags' = [tags EXCEPT ![t] = Row(n)]
  <2>1. Here \subseteq TagIds /\ \A t \in Here : Effective(t) \in TagIds
    BY HereFacts DEF Effective, TagTypeOK
  <2>2. PICK t \in TagIds :
           \/ t \in Here /\ pend' = [pend EXCEPT ![c] = [op |-> "link", ask |-> a, tag |-> Effective(t)]] /\ tags' = tags
           \/ t \in Here /\ pend' = [pend EXCEPT ![c] = [op |-> "link", ask |-> a, tag |-> t]] /\ tags' = tags
           \/ /\ IsNext(t) /\ tags' = [tags EXCEPT ![t] = Row(n)]
              /\ pend' = [pend EXCEPT ![c] = [op |-> "link", ask |-> a, tag |-> t]]
    BY DEF ResolveTags, Named
  <2>3. pend[c] = NoPend /\ UNCHANGED <<links, given, freed>>
    BY DEF ResolveTags
  <2> QED BY <2>1, <2>2, <2>3
<1>2. /\ pend'[c].op = "link" /\ pend'[c].ask \in TagAsks /\ pend'[c].tag \in TagIds
      /\ \A d \in Taggers \ {c} : pend'[d] = pend[d]
      /\ pend' = [d \in Taggers |-> pend'[d]]
  BY <1>1 DEF PendInv
<1>3. \A d \in Taggers : Updating(d)' => pend'[d] = pend[d] /\ Updating(d)
  BY <1>2 DEF Updating
<1>4. CASE tags' = tags
  <2>1. TagTypeOK' /\ TagsLead'
    BY <1>1, <1>4 DEF TagTypeOK, TagsLead, AliasesEndAtOnce, FoundByItsTags, Here, Effective
  <2>2. PendInv'
    BY <1>2, <1>3, <1>4, RowsKeep DEF PendInv
  <2> QED BY <2>1, <2>2
<1>5. CASE IsNext(t) /\ tags' = [tags EXCEPT ![t] = Row(n)]
  <2>1. /\ tags' \in [TagIds -> TagRow \union {NoTag}]
        /\ Here' = Here \union {t} /\ t \notin Here
        /\ \A x \in Here' : tags'[x].canon \in Here' \union {Nothing}
        /\ \A x \in Here : Effective(x)' = Effective(x)
    BY <1>5, NewRow
  <2>2. TagTypeOK'
    BY <1>1, <2>1 DEF TagTypeOK
  <2>4. FoundByItsTags'
    BY <1>1, <2>1 DEF TagTypeOK, TagsLead, FoundByItsTags
  <2>3. PendInv'
    BY <1>2, <1>3, <1>5, NewRowKeeps DEF PendInv
  <2> QED BY <1>5, <2>2, <2>3, <2>4, NewRowKeeps DEF TagsLead
<1> QED BY <1>1, <1>4, <1>5

LEMMA LinkStep ==
    ASSUME TagInv, NEW c \in Taggers, LinkAsk(c)
    PROVE  TagInv'
<1> USE DEF TagInv
<1>1. /\ UNCHANGED <<tags, given, freed>>
      /\ links' \in [Ents \union TagAsks -> SUBSET TagIds]
      /\ \A e \in Ents : links[e] \subseteq links'[e]
      /\ pend'[c] = NoPend /\ \A d \in Taggers \ {c} : pend'[d] = pend[d]
      /\ pend' = [d \in Taggers |-> pend'[d]]
  BY DEF LinkAsk, PendInv, TagTypeOK
<1>2. TagTypeOK' /\ TagsLead'
  BY <1>1 DEF TagTypeOK, TagsLead, AliasesEndAtOnce, FoundByItsTags, Here, Effective
<1>3. PendInv'
  BY <1>1, RowsKeep DEF PendInv, Updating, NoPend
<1> QED BY <1>2, <1>3

\* What a call of update_tag reads stands when it begins.
LEMMA BeginStep ==
    ASSUME TagInv, ~TagsOverlap, NEW c \in Taggers, NEW t \in TagIds, NEW r, Begin(c, t, r),
           r.op \in {"rename", "archive", "unalias", "alias"}, r.tag = t,
           r.op = "rename" => r.to \in Names,
           r.op = "archive" => r.to \in BOOLEAN /\ (r.to => Dependents(t) = {}),
           r.op = "alias" =>
             /\ r.to \in Here \ {t} /\ tags[r.to].canon = Nothing /\ ~tags[r.to].archived
             /\ Dependents(t) = {}
    PROVE  TagInv'
<1> USE DEF TagInv
<1>1. /\ UNCHANGED <<tags, links, given, freed>> /\ t \in Here
      /\ pend'[c] = r /\ \A d \in Taggers \ {c} : pend'[d] = pend[d]
      /\ pend' = [d \in Taggers |-> pend'[d]]
      /\ \A d \in Taggers : ~Updating(d)
  BY DEF Begin, PendInv
<1>2. TagTypeOK' /\ TagsLead'
  BY <1>1 DEF TagTypeOK, TagsLead, AliasesEndAtOnce, FoundByItsTags, Here, Effective
<1>3. \A d \in Taggers : Updating(d)' => d = c
  BY <1>1 DEF Updating
<1>4. StillSo(c)'
  BY <1>1 DEF StillSo, Here, Dependents
<1>5. PendInv'
  BY <1>1, <1>3, <1>4 DEF PendInv, Updating
<1> QED BY <1>2, <1>5

LEMMA ReadStep ==
    ASSUME TagInv, ~TagsOverlap, NEW c \in Taggers, NEW t \in TagIds,
           \/ \E n \in Names : RenameRead(c, t, n)
           \/ ArchiveRead(c, t) \/ UnarchiveRead(c, t) \/ UnaliasRead(c, t)
           \/ \E u \in TagIds : AliasRead(c, t, u)
    PROVE  TagInv'
<1>1. ASSUME NEW n \in Names, RenameRead(c, t, n) PROVE TagInv'
  BY <1>1, BeginStep, Zenon DEF RenameRead
<1>2. CASE ArchiveRead(c, t)
  BY <1>2, BeginStep DEF ArchiveRead
<1>3. CASE UnarchiveRead(c, t)
  BY <1>3, BeginStep DEF UnarchiveRead
<1>4. CASE UnaliasRead(c, t)
  BY <1>4, BeginStep DEF UnaliasRead
<1>5. ASSUME NEW u \in TagIds, AliasRead(c, t, u) PROVE TagInv'
  BY <1>5, BeginStep DEF AliasRead
<1> QED BY <1>1, <1>2, <1>3, <1>4, <1>5

\* An update that is alone changes one row, and stays the last to hold it.
LEMMA WriteStep ==
    ASSUME TagInv, NEW c \in Taggers, UpdateTag(c)
    PROVE  TagInv'
<1> USE DEF TagInv
<1> DEFINE t == pend[c].tag
           u == pend[c].to
<1>1. /\ Updating(c) /\ StillSo(c) /\ t \in Here /\ t \in TagIds /\ tags[t] \in TagRow
      /\ given' = given
  BY HereFacts DEF UpdateTag, RenameWrite, ArchiveWrite, UnaliasWrite, AliasWrite, Updating, PendInv, StillSo
<1>2. /\ pend'[c] = NoPend /\ \A d \in Taggers \ {c} : pend'[d] = pend[d]
      /\ pend' = [d \in Taggers |-> pend'[d]]
  BY DEF UpdateTag, PendInv
<1>3. PendInv'
  BY <1>1, <1>2 DEF PendInv, Updating, NoPend
<1>4. Here \subseteq TagIds /\ \A s \in Here : tags[s].canon \in Here \union {Nothing}
  BY HereFacts DEF TagTypeOK
<1>5. ASSUME tags' \in [TagIds -> TagRow \union {NoTag}], tags'[t] \in TagRow,
             \A s \in TagIds \ {t} : tags'[s] = tags[s],
             tags'[t].canon \in Here \union {Nothing}
      PROVE  /\ Here' = Here /\ given' \in [Ents -> SUBSET Here']
             /\ \A s \in Here' : tags'[s].canon \in Here' \union {Nothing}
             /\ \A s \in TagIds \ {t} : Effective(s)' = Effective(s)
  <2>1. Here' = Here
    BY <1>1, <1>5, RowsAreRows DEF Here
  <2> QED BY <1>1, <1>4, <1>5, <2>1 DEF Effective, TagTypeOK
<1>6. CASE RenameWrite(c)
  <2>1. u \in Names
    BY <1>1, <1>6 DEF RenameWrite, StillSo
  <2>2. /\ tags' \in [TagIds -> TagRow \union {NoTag}] /\ tags'[t] \in TagRow
        /\ \A s \in TagIds \ {t} : tags'[s] = tags[s]
        /\ tags'[t].canon = tags[t].canon /\ tags'[t].archived = tags[t].archived
        /\ UNCHANGED <<links, freed>>
    BY <1>1, <1>6, <2>1 DEF RenameWrite, TagTypeOK, TagRow
  <2>3. TagTypeOK'
    BY <1>1, <1>4, <1>5, <2>2 DEF TagTypeOK
  <2>4. \A s \in TagIds : tags'[s].canon = tags[s].canon /\ tags'[s].archived = tags[s].archived
    BY <2>2
  <2>5. AliasesEndAtOnce'
    BY <1>1, <1>4, <1>5, <2>2, <2>4 DEF TagsLead, AliasesEndAtOnce, Here
  <2>6. FoundByItsTags'
    BY <1>1, <2>2, <2>4 DEF TagsLead, FoundByItsTags, Effective
  <2> QED BY <1>3, <2>3, <2>5, <2>6 DEF TagsLead
<1>7. CASE ArchiveWrite(c)
  <2>1. u \in BOOLEAN /\ (u => Dependents(t) = {})
    BY <1>1, <1>7 DEF ArchiveWrite, StillSo
  <2>2. /\ tags' \in [TagIds -> TagRow \union {NoTag}] /\ tags'[t] \in TagRow
        /\ \A s \in TagIds \ {t} : tags'[s] = tags[s]
        /\ tags'[t].canon = tags[t].canon /\ tags'[t].archived = u
        /\ UNCHANGED <<links, freed>>
    BY <1>1, <1>7, <2>1 DEF ArchiveWrite, TagTypeOK, TagRow
  <2>3. TagTypeOK'
    BY <1>1, <1>4, <1>5, <2>2 DEF TagTypeOK
  <2>4. \A s \in TagIds : tags'[s].canon = tags[s].canon
    BY <2>2
  <2>5. AliasesEndAtOnce'
    BY <1>1, <1>4, <1>5, <2>1, <2>2, <2>4 DEF TagsLead, AliasesEndAtOnce, Here, Dependents
  <2>6. FoundByItsTags'
    BY <1>1, <2>2, <2>4 DEF TagsLead, FoundByItsTags, Effective
  <2> QED BY <1>3, <2>3, <2>5, <2>6 DEF TagsLead
<1>8. CASE UnaliasWrite(c)
  <2>1. /\ tags' \in [TagIds -> TagRow \union {NoTag}] /\ tags'[t] \in TagRow
        /\ \A s \in TagIds \ {t} : tags'[s] = tags[s]
        /\ tags'[t].canon = Nothing /\ tags'[t].archived = tags[t].archived
        /\ links' = links
        /\ freed' = IF tags[t].canon = Nothing THEN freed ELSE freed \union {t}
    BY <1>1, <1>8 DEF UnaliasWrite, TagTypeOK, TagRow
  <2>2. TagTypeOK'
    BY <1>1, <1>4, <1>5, <2>1 DEF TagTypeOK
  <2>3. AliasesEndAtOnce'
    BY <1>1, <1>4, <1>5, <2>1 DEF TagsLead, AliasesEndAtOnce
  <2>4. FoundByItsTags'
    BY <1>1, <1>5, <2>1 DEF TagsLead, FoundByItsTags, Effective
  <2> QED BY <1>3, <2>2, <2>3, <2>4 DEF TagsLead
<1>9. CASE AliasWrite(c)
  <2>1. /\ u \in Here \ {t} /\ tags[u].canon = Nothing /\ ~tags[u].archived /\ Dependents(t) = {}
        /\ u \in TagIds
    BY <1>1, <1>9, HereFacts DEF AliasWrite, StillSo
  <2>2. /\ tags' \in [TagIds -> TagRow \union {NoTag}] /\ tags'[t] \in TagRow
        /\ \A s \in TagIds \ {t} : tags'[s] = tags[s]
        /\ tags'[t].canon = u
        /\ freed' = IF tags[t].canon = Nothing THEN freed ELSE freed \union {t}
        /\ links' = [e \in Ents \union TagAsks |-> IF e \in Ents THEN Relinked(links[e], t, u) ELSE links[e]]
    BY <1>1, <1>9, <2>1 DEF AliasWrite, TagTypeOK, TagRow
  <2>3. links' \in [Ents \union TagAsks -> SUBSET TagIds]
    BY <2>1, <2>2 DEF TagTypeOK, Relinked
  <2>4. TagTypeOK'
    BY <1>1, <1>5, <2>1, <2>2, <2>3 DEF TagTypeOK
  <2>5. AliasesEndAtOnce'
    BY <1>1, <1>4, <1>5, <2>1, <2>2 DEF TagsLead, AliasesEndAtOnce, Dependents
  <2>6. u # Nothing
    BY <2>1, TagsAssumption DEF Nothing
  <2>7. FoundByItsTags'
    <3>1. SUFFICES ASSUME NEW e \in Ents, NEW s \in TagIds, s \in given[e] \ freed'
                   PROVE  Effective(s)' \in links'[e]
      BY <1>1 DEF FoundByItsTags
    <3>2. s \in Here /\ Effective(s) \in links[e] /\ links'[e] = Relinked(links[e], t, u)
      BY <2>2, <3>1 DEF TagsLead, FoundByItsTags, TagTypeOK
    <3>3. CASE s = t
      <4>1. Effective(s) = t /\ Effective(s)' = u
        BY <2>2, <2>6, <3>1, <3>3 DEF Effective
      <4> QED BY <3>2, <4>1 DEF Relinked
    <3>4. CASE s # t
      <4>1. Effective(s) # t /\ Effective(s)' = Effective(s)
        BY <1>5, <2>1, <2>2, <3>2, <3>4 DEF Effective, Dependents
      <4> QED BY <3>2, <4>1 DEF Relinked
    <3> QED BY <3>3, <3>4
  <2> QED BY <1>3, <2>4, <2>5, <2>7 DEF TagsLead
<1> QED BY <1>6, <1>7, <1>8, <1>9 DEF UpdateTag

LEMMA TagsNext ==
    ASSUME TagInv, ~TagsOverlap, [TagNext]_tagVars
    PROVE  TagInv'
<1>1. CASE TagNext
  BY <1>1, TagStep, ResolveStep, LinkStep, ReadStep, WriteStep DEF TagNext
<1>2. CASE UNCHANGED tagVars
  BY <1>2 DEF tagVars, TagInv, TagTypeOK, PendInv, StillSo, Updating, TagsLead, AliasesEndAtOnce,
              FoundByItsTags, Here, Effective, Dependents
<1> QED BY <1>1, <1>2

\* With one update_tag at a time, whatever records are tagged and asks linked
\* meanwhile, an alias leads in one step to a tag that can be found, and what was
\* given a tag is found by it (tag_service.py, update_tag, ensure_tag_ids).
THEOREM TagsAlwaysLead ==
    ASSUME ~TagsOverlap
    PROVE  TagSpec => []TagsLead
<1>1. TagInv => TagsLead
  BY DEF TagInv
<1>2. TagInv /\ [TagNext]_tagVars => TagInv'
  BY TagsNext
<1> QED BY InitTags, <1>1, <1>2, PTL DEF TagSpec

--------------------------------------------------------------------------------
\* Bundles.

\* A key is an instance and an id there; what it stands for is the record of that id,
\* which is never another one.
Hows == {"edge", "cite"}
Keys == Instances \X Nat
Places == BundleNames \X {1, 2}
Contents == [kind : RecordKinds, text : Keys, refs : SUBSET (Keys \X Hows)]
Rows ==
    [kind : RecordKinds, text : Keys, refs : SUBSET (Nat \X Hows), what : Keys,
     origin : Keys \union {NoKey}, hash : Contents \union {NoKey}]
Entries == [key : Keys, what : Keys, content : Contents]
Arrivals == [key : Keys, hash : Contents, what : Keys, content : Contents]
Dirs == [made : BOOLEAN, files : SUBSET Entries, manifest : SUBSET (Keys \X Contents), whole : BOOLEAN]
Exports == [op : {"export", "written"}, dir : Places, entries : SUBSET Entries]
Reports == [op : {"reported"}, inst : Instances, dir : Places, loaded : SUBSET Arrivals, dangling : SUBSET Keys]
Imports == [op : {"import"}, inst : Instances, known : SUBSET Keys, foretold : BOOLEAN,
            create : SUBSET Arrivals, update : SUBSET Arrivals]
BundleCalls == {AtEase} \union Exports \union Reports \union Imports

BundleTypeOK ==
    /\ lib \in [Instances -> Seq(Rows)]
    /\ disk \in [Places -> Dirs]
    /\ proc \in [Workers -> BundleCalls]
    /\ single \in BOOLEAN

\* In a library L and with the references M.
StandsFor(L, key) == key \in Keys /\ key[2] \in DOMAIN L[key[1]]
What(L, key) == L[key[1]][key[2]].what
KnownIn(L, i) == {L[i][n].origin : n \in DOMAIN L[i]} \ {NoKey}
Grown(L, K) ==
    \A i \in Instances : \A n \in DOMAIN L[i] :
        n \in DOMAIN K[i] /\ K[i][n].what = L[i][n].what /\ K[i][n].origin = L[i][n].origin

\* What is written of a record, or read: it is of the record its key stands for.
Good(L, M, e) ==
    /\ StandsFor(L, e.key) /\ e.what = What(L, e.key)
    /\ \A r \in e.content.refs : StandsFor(L, r[1]) /\ <<e.what, What(L, r[1]), r[2]>> \in M
OfOneKey(E) == \A x, y \in E : x.key = y.key => x = y

RowTrue(L, M, i, n) ==
    LET row == L[i][n]
    IN  /\ row.origin # NoKey =>
              StandsFor(L, row.origin) /\ row.what = What(L, row.origin) /\ row.origin[1] # i
        /\ \A r \in row.refs : r[1] \in DOMAIN L[i] /\ <<row.what, L[i][r[1]].what, r[2]>> \in M
        /\ single /\ row.origin # NoKey /\ row.text[1] # i => row.text = row.hash.text
LibInv(L, M) ==
    \A i \in Instances :
        /\ \A n \in DOMAIN L[i] : RowTrue(L, M, i, n)
        /\ \A m, n \in DOMAIN L[i] : L[i][m].origin = L[i][n].origin => m = n \/ L[i][m].origin = NoKey

DirTrue(L, M, dir) ==
    /\ \A f \in dir.files : Good(L, M, f)
    /\ OfOneKey(dir.files)
    /\ \A x, y \in dir.manifest : x[1] = y[1] => x = y
    /\ ~dir.made => dir.files = {} /\ dir.manifest = {}
    /\ single => \A m \in dir.manifest, f \in dir.files : f.key = m[1] => f.content = m[2]

\* Where the references lead that a dry run of an import into i finds whole.
Found(L, i, keys) == keys \union KnownIn(L, i) \union {key \in Keys : key[1] = i}
KeysOf(E) == {e.key : e \in E}

ExportTrue(L, M, D, c) ==
    /\ \A e \in c.entries : Good(L, M, e)
    /\ OfOneKey(c.entries)
    /\ c.op = "written" => D[c.dir].made
    /\ single /\ c.op = "export" => ~D[c.dir].made
    /\ single /\ c.op = "written" => D[c.dir].files = c.entries
ReportTrue(L, c) ==
    c.dangling = {} =>
        \A e \in c.loaded : \A r \in e.content.refs : r[1] \in Found(L, c.inst, KeysOf(c.loaded))
ImportTrue(L, M, c) ==
    /\ \A e \in c.create \union c.update : Good(L, M, e) /\ (single => e.hash = e.content)
    /\ OfOneKey(c.create)
    /\ \A e \in c.create : e.key[1] # c.inst
    /\ c.known \subseteq KnownIn(L, c.inst)
    /\ c.foretold =>
          \A e \in c.create \union c.update : \A r \in e.content.refs :
             r[1] \in KeysOf(c.create) \union c.known \union {key \in Keys : key[1] = c.inst}

CallTrue(L, M, D, c) ==
    /\ c.op \in {"export", "written"} => ExportTrue(L, M, D, c)
    /\ c.op = "reported" => ReportTrue(L, c)
    /\ c.op = "import" => ImportTrue(L, M, c)

BundleInv ==
    /\ BundleTypeOK
    /\ LibInv(lib, made)
    /\ \A d \in Places : DirTrue(lib, made, disk[d])
    /\ \A w \in Workers : CallTrue(lib, made, disk, proc[w])
    /\ single => \A v, w \in Workers : Exporting(v) /\ Exporting(w) => v = w

LEMMA KeyFacts ==
    /\ NoKey \notin Keys
    /\ \A i \in Instances, n \in Nat : <<i, n>> \in Keys
    /\ \A key \in Keys : key = <<key[1], key[2]>> /\ key[1] \in Instances /\ key[2] \in Nat
<1>1. NoKey \notin Keys
  BY DEF NoKey, Keys
<1>2. \A i \in Instances, n \in Nat : <<i, n>> \in Keys
  BY DEF Keys
<1>3. \A key \in Keys : key = <<key[1], key[2]>> /\ key[1] \in Instances /\ key[2] \in Nat
  BY DEF Keys
<1> QED BY <1>1, <1>2, <1>3

LEMMA RowFacts ==
    ASSUME NEW L \in [Instances -> Seq(Rows)], NEW i \in Instances, NEW n \in DOMAIN L[i]
    PROVE  /\ L[i] \in Seq(Rows) /\ L[i][n] \in Rows /\ n \in Nat
           /\ L[i][n].kind \in RecordKinds /\ L[i][n].text \in Keys /\ L[i][n].what \in Keys
           /\ L[i][n].refs \in SUBSET (Nat \X Hows)
           /\ L[i][n].origin \in Keys \union {NoKey}
           /\ L[i][n].hash \in Contents \union {NoKey}
<1>1. L[i] \in Seq(Rows)
  OBVIOUS
<1>2. n \in Nat /\ L[i][n] \in Rows
  BY <1>1
<1>3. \A row \in Rows : /\ row.kind \in RecordKinds /\ row.text \in Keys /\ row.what \in Keys
                       /\ row.refs \in SUBSET (Nat \X Hows)
                       /\ row.origin \in Keys \union {NoKey} /\ row.hash \in Contents \union {NoKey}
  BY DEF Rows
<1> QED BY <1>1, <1>2, <1>3

\* The library grows: nothing that stood for a record ceases to.
LEMMA GrownFacts ==
    ASSUME NEW L, NEW K, NEW M, NEW N, Grown(L, K), M \subseteq N
    PROVE  /\ \A key : StandsFor(L, key) => StandsFor(K, key) /\ What(K, key) = What(L, key)
           /\ \A e : Good(L, M, e) => Good(K, N, e)
           /\ \A i \in Instances : KnownIn(L, i) \subseteq KnownIn(K, i)
<1>1. ASSUME NEW key, StandsFor(L, key)
      PROVE  StandsFor(K, key) /\ What(K, key) = What(L, key)
  BY <1>1, KeyFacts DEF StandsFor, What, Grown
<1>2. ASSUME NEW e, Good(L, M, e)
      PROVE  Good(K, N, e)
  BY <1>1, <1>2 DEF Good
<1>3. \A i \in Instances : KnownIn(L, i) \subseteq KnownIn(K, i)
  BY DEF KnownIn, Grown
<1> QED BY <1>1, <1>2, <1>3

LEMMA GrownRow ==
    ASSUME NEW L, NEW K, NEW M, NEW N, Grown(L, K), M \subseteq N,
           NEW i \in Instances, NEW n \in DOMAIN L[i], RowTrue(L, M, i, n), K[i][n] = L[i][n]
    PROVE  RowTrue(K, N, i, n)
<1>1. \A r \in L[i][n].refs : r[1] \in DOMAIN K[i] /\ K[i][r[1]].what = L[i][r[1]].what
  BY DEF RowTrue, Grown
<1>2. \A key : StandsFor(L, key) => StandsFor(K, key) /\ What(K, key) = What(L, key)
  BY GrownFacts
<1> QED BY <1>1, <1>2 DEF RowTrue

LEMMA GrownElsewhere ==
    ASSUME NEW K, NEW N, Grown(lib, K), made \subseteq N, BundleTypeOK
    PROVE  /\ \A d \in Places : DirTrue(lib, made, disk[d]) => DirTrue(K, N, disk[d])
           /\ \A w \in Workers : CallTrue(lib, made, disk, proc[w]) => CallTrue(K, N, disk, proc[w])
<1>1. /\ \A e : Good(lib, made, e) => Good(K, N, e)
      /\ \A i \in Instances : KnownIn(lib, i) \subseteq KnownIn(K, i)
  BY GrownFacts
<1>2. ASSUME NEW d \in Places, DirTrue(lib, made, disk[d])
      PROVE  DirTrue(K, N, disk[d])
  BY <1>1, <1>2 DEF DirTrue
<1>3. ASSUME NEW w \in Workers, CallTrue(lib, made, disk, proc[w])
      PROVE  CallTrue(K, N, disk, proc[w])
  <2> DEFINE c == proc[w]
  <2>1. c \in BundleCalls
    BY DEF BundleTypeOK
  <2>2. c.op \in {"reported", "import"} => c.inst \in Instances
    BY <2>1 DEF BundleCalls, Exports, Reports, Imports, AtEase
  <2> HIDE DEF c
  <2>3. c.op \in {"export", "written"} => ExportTrue(K, N, disk, c)
    BY <1>1, <1>3 DEF CallTrue, ExportTrue, c
  <2>4. c.op = "reported" => ReportTrue(K, c)
    BY <1>1, <1>3, <2>2 DEF CallTrue, ReportTrue, Found, c
  <2>5. c.op = "import" => ImportTrue(K, N, c)
    BY <1>1, <1>3, <2>2 DEF CallTrue, ImportTrue, c
  <2> QED BY <2>3, <2>4, <2>5 DEF CallTrue, c
<1> QED BY <1>2, <1>3

LEMMA CallFacts ==
    ASSUME NEW c \in BundleCalls
    PROVE  /\ c.op \in {"export", "written"} => c \in Exports
           /\ c.op = "reported" => c \in Reports
           /\ c.op = "import" => c \in Imports
<1>1. /\ c \in Exports => c.op \in {"export", "written"}
      /\ c \in Reports => c.op = "reported"
      /\ c \in Imports => c.op = "import"
      /\ c = AtEase => c.op = "idle"
  BY DEF AtEase, Exports, Reports, Imports
<1> QED BY <1>1 DEF BundleCalls

\* A choice that draws no warning is exported as it is.
LEMMA WarnedAlways ==
    ASSUME NEW i \in Instances
    PROVE  WarnedBefore(i)
<1> SUFFICES ASSUME NEW S \in SUBSET Ids(i), NEW targets \in BOOLEAN, Warnings(i, S) = {}
             PROVE  UnresolvedRefs(i, Selected(i, S, targets)) = {}
  BY DEF WarnedBefore
<1>1. \A r \in RefsIn(i, S) : r[1] \in S
  BY DEF Warnings
<1>2. \A T \in SUBSET S : \A r \in RefsIn(i, T) : r \in RefsIn(i, S)
  BY DEF RefsIn
<1>3. Selected(i, S, targets) = S
  <2> DEFINE notes(T) == {n \in T : lib[i][n].kind = "note"}
             joined(T, kind) == {r[1] : r \in {r \in RefsIn(i, notes(T)) : r[2] = "edge"}}
                                   \intersect {n \in Ids(i) : lib[i][n].kind = kind}
             more == S \union (IF targets THEN joined(S, "note") ELSE {})
  <2>1. \A T \in SUBSET S : \A kind : joined(T, kind) \subseteq S
    BY <1>1, <1>2
  <2>2. more = S
    BY <2>1
  <2>3. more \union joined(more, "topic") = S
    BY <2>1, <2>2
  <2> QED BY <2>3 DEF Selected
<1> QED BY <1>1, <1>3 DEF UnresolvedRefs

LEMMA BundleInitial ==
    ASSUME BundleInit
    PROVE  BundleInv
<1>1. BundleTypeOK
  <2>1. <<>> \in Seq(Rows)
    OBVIOUS
  <2>2. NoDir \in Dirs
    BY DEF NoDir, Dirs
  <2> QED BY <2>1, <2>2 DEF BundleInit, BundleTypeOK, BundleCalls, Places
<1>2. LibInv(lib, made)
  BY DEF BundleInit, LibInv
<1>3. \A d \in Places : DirTrue(lib, made, disk[d])
  BY DEF BundleInit, Places, DirTrue, NoDir, OfOneKey
<1>4. \A w \in Workers : CallTrue(lib, made, disk, proc[w]) /\ ~Exporting(w)
  BY DEF BundleInit, CallTrue, AtEase, Exporting
<1> QED BY <1>1, <1>2, <1>3, <1>4 DEF BundleInv

\* Nothing but a growing library: what the bundles and the calls hold stays true.
LEMMA GrownKeeps ==
    ASSUME BundleInv, BundleTypeOK', Grown(lib, lib'), made \subseteq made', LibInv(lib', made'),
           disk' = disk, single' = single,
           \A w \in Workers : proc'[w] = proc[w] \/ proc'[w] = AtEase
    PROVE  BundleInv'
<1>1. /\ \A d \in Places : DirTrue(lib', made', disk[d])
      /\ \A w \in Workers : CallTrue(lib', made', disk, proc[w])
  BY GrownElsewhere DEF BundleInv
<1>2. LibInv(lib, made)'
  BY DEF LibInv, RowTrue
<1>3. \A d \in Places : DirTrue(lib, made, disk[d])'
  BY <1>1 DEF DirTrue
<1>4. ASSUME NEW w \in Workers
      PROVE  CallTrue(lib, made, disk, proc[w])'
  <2>1. CASE proc'[w] = AtEase
    BY <2>1 DEF CallTrue, AtEase
  <2>2. CASE proc'[w] = proc[w]
    BY <1>1, <2>2 DEF CallTrue, ExportTrue, ReportTrue, ImportTrue
  <2> QED BY <2>1, <2>2
<1>5. (single => \A v, w \in Workers : Exporting(v) /\ Exporting(w) => v = w)'
  <2>1. \A w \in Workers : Exporting(w)' => Exporting(w)
    BY DEF Exporting, AtEase
  <2> QED BY <2>1 DEF BundleInv
<1> QED BY <1>2, <1>3, <1>4, <1>5 DEF BundleInv

LEMMA CrashKeeps ==
    ASSUME BundleInv, NEW w \in Workers, Crash(w)
    PROVE  BundleInv'
<1>1. BundleTypeOK'
  BY DEF BundleInv, BundleTypeOK, Crash, BundleCalls
<1>2. Grown(lib, lib') /\ LibInv(lib', made')
  BY DEF Crash, Grown, BundleInv
<1> QED BY <1>1, <1>2, GrownKeeps DEF Crash, BundleInv, BundleTypeOK

LEMMA EditKeeps ==
    ASSUME BundleInv, NEW i \in Instances, NEW id \in Ids(i), Edit(i, id)
    PROVE  BundleInv'
<1> BundleTypeOK /\ LibInv(lib, made)
  BY DEF BundleInv
<1>1. PICK text \in Keys :
         /\ text[1] = i
         /\ lib' = [lib EXCEPT ![i] = [lib[i] EXCEPT ![id] = [lib[i][id] EXCEPT !.text = text]]]
  <2>1. lib[i][id].text \in Keys
    BY RowFacts DEF BundleTypeOK, Ids
  <2>2. <<i, lib[i][id].text[2] + 1>> \in Keys
    BY <2>1, KeyFacts
  <2> QED BY <2>2 DEF Edit
<1> DEFINE new == [lib[i][id] EXCEPT !.text = text]
<1>2. /\ lib[i] \in Seq(Rows) /\ lib[i][id] \in Rows /\ new \in Rows
      /\ new.text = text /\ new.kind = lib[i][id].kind /\ new.refs = lib[i][id].refs
      /\ new.what = lib[i][id].what /\ new.origin = lib[i][id].origin /\ new.hash = lib[i][id].hash
  <2>1. lib[i] \in Seq(Rows) /\ lib[i][id] \in Rows
    BY RowFacts DEF BundleTypeOK, Ids
  <2> QED BY <2>1 DEF Rows
<1> HIDE DEF new
<1>3. /\ \A j \in Instances : lib'[j] \in Seq(Rows) /\ DOMAIN lib'[j] = DOMAIN lib[j]
      /\ \A j \in Instances : \A n \in DOMAIN lib[j] : <<j, n>> # <<i, id>> => lib'[j][n] = lib[j][n]
      /\ lib'[i][id] = new
  <2>1. lib'[i] = [lib[i] EXCEPT ![id] = new] /\ \A j \in Instances \ {i} : lib'[j] = lib[j]
    BY <1>1 DEF BundleTypeOK, new
  <2>2. [lib[i] EXCEPT ![id] = new] \in Seq(Rows)
    BY <1>2 DEF Ids
  <2> QED BY <2>1, <2>2, <1>2 DEF BundleTypeOK, Ids
<1>4. Grown(lib, lib')
  BY <1>2, <1>3 DEF Grown
<1>5. BundleTypeOK'
  BY <1>1, <1>3 DEF Edit, BundleTypeOK
<1>6. LibInv(lib', made)
  <2>1. ASSUME NEW j \in Instances, NEW n \in DOMAIN lib'[j]
        PROVE  RowTrue(lib', made, j, n)
    <3>1. n \in DOMAIN lib[j] /\ RowTrue(lib, made, j, n)
      BY <1>3, <2>1 DEF LibInv
    <3>2. CASE <<j, n>> # <<i, id>>
      BY <1>3, <1>4, <3>1, <3>2, GrownRow
    <3>3. CASE j = i /\ n = id
      <4>1. \A key : StandsFor(lib, key) => StandsFor(lib', key) /\ What(lib', key) = What(lib, key)
        <5>1. made \subseteq made
          OBVIOUS
        <5> QED BY <1>4, <5>1, GrownFacts
      <4>2. /\ \A r \in lib[i][id].refs : /\ r[1] \in DOMAIN lib[i]
                                          /\ <<lib[i][id].what, lib[i][r[1]].what, r[2]>> \in made
            /\ lib[i][id].origin # NoKey =>
                  /\ StandsFor(lib, lib[i][id].origin) /\ lib[i][id].what = What(lib, lib[i][id].origin)
                  /\ lib[i][id].origin[1] # i
        BY <3>1, <3>3 DEF RowTrue
      <4>3. \A m \in DOMAIN lib[i] : m \in DOMAIN lib'[i] /\ lib'[i][m].what = lib[i][m].what
        BY <1>4 DEF Grown
      <4>4. \A r \in new.refs : r[1] \in DOMAIN lib'[i] /\ <<new.what, lib'[i][r[1]].what, r[2]>> \in made
        BY <1>2, <4>2, <4>3
      <4>5. new.origin # NoKey =>
               StandsFor(lib', new.origin) /\ new.what = What(lib', new.origin) /\ new.origin[1] # i
        BY <1>2, <4>1, <4>2
      <4> QED BY <1>1, <1>2, <1>3, <3>3, <4>4, <4>5 DEF RowTrue
    <3> QED BY <3>2, <3>3
  <2>2. \A j \in Instances : \A n \in DOMAIN lib'[j] : lib'[j][n].origin = lib[j][n].origin
    BY <1>2, <1>3
  <2> QED BY <2>1, <2>2, <1>3 DEF LibInv
<1> QED BY <1>4, <1>5, <1>6, GrownKeeps DEF Edit, BundleInv

LEMMA JoinedFacts ==
    ASSUME NEW S, NEW s \in Seq(S), NEW t \in Seq(S)
    PROVE  /\ s \o t \in Seq(S)
           /\ DOMAIN (s \o t) = 1 .. Len(s) + Len(t)
           /\ \A n \in 1 .. Len(s) + Len(t) : (s \o t)[n] = IF n <= Len(s) THEN s[n] ELSE t[n - Len(s)]
<1>1. s \o t \in Seq(S) /\ Len(s \o t) = Len(s) + Len(t)
  OBVIOUS
<1>2. \A n \in 1 .. Len(s) + Len(t) : (s \o t)[n] = IF n <= Len(s) THEN s[n] ELSE t[n - Len(s)]
  OBVIOUS
<1> QED BY <1>1, <1>2

\* A library with rows added at the end of one instance is a grown one.
Adds(L, K, i, old, new) ==
    /\ L \in [Instances -> Seq(Rows)] /\ i \in Instances /\ old \in Seq(Rows) /\ new \in Seq(Rows)
    /\ K = [L EXCEPT ![i] = old \o new]
    /\ Len(old) = Len(L[i])
    /\ \A n \in DOMAIN old : old[n].what = L[i][n].what /\ old[n].origin = L[i][n].origin
Added(L, K, i, old, new) ==
    /\ K \in [Instances -> Seq(Rows)]
    /\ Grown(L, K)
    /\ \A j \in Instances \ {i} : K[j] = L[j]
    /\ \A n \in DOMAIN L[i] : n \in DOMAIN K[i] /\ n \in DOMAIN old /\ K[i][n] = old[n]
    /\ \A n \in DOMAIN K[i] :
          n \notin DOMAIN L[i] => n - Len(L[i]) \in DOMAIN new /\ K[i][n] = new[n - Len(L[i])]
    /\ \A n \in DOMAIN new : Len(L[i]) + n \in DOMAIN K[i] /\ K[i][Len(L[i]) + n] = new[n]

LEMMA JoinedParts ==
    ASSUME NEW old \in Seq(Rows), NEW new \in Seq(Rows), NEW both, both = old \o new
    PROVE  /\ both \in Seq(Rows)
           /\ \A n \in 1 .. Len(old) : n \in DOMAIN both /\ n \in DOMAIN old /\ both[n] = old[n]
           /\ \A n \in DOMAIN both : n \notin 1 .. Len(old) => n - Len(old) \in DOMAIN new /\ both[n] = new[n - Len(old)]
           /\ \A n \in DOMAIN new : Len(old) + n \in DOMAIN both /\ both[Len(old) + n] = new[n]
<1>1. /\ both \in Seq(Rows)
      /\ DOMAIN both = 1 .. Len(old) + Len(new)
      /\ \A n \in 1 .. Len(old) + Len(new) : both[n] = IF n <= Len(old) THEN old[n] ELSE new[n - Len(old)]
  BY JoinedFacts
<1>2. Len(old) \in Nat /\ Len(new) \in Nat /\ DOMAIN old = 1 .. Len(old) /\ DOMAIN new = 1 .. Len(new)
  OBVIOUS
<1> QED BY <1>1, <1>2

LEMMA AddedFacts ==
    ASSUME NEW L, NEW K, NEW i, NEW old, NEW new, Adds(L, K, i, old, new)
    PROVE  Added(L, K, i, old, new)
<1>1. /\ L \in [Instances -> Seq(Rows)] /\ i \in Instances /\ old \in Seq(Rows) /\ new \in Seq(Rows)
      /\ Len(old) = Len(L[i]) /\ DOMAIN L[i] = 1 .. Len(L[i])
  BY DEF Adds
<1>2. PICK both : both = old \o new
  OBVIOUS
<1>3. /\ both \in Seq(Rows)
      /\ \A n \in DOMAIN L[i] : n \in DOMAIN both /\ n \in DOMAIN old /\ both[n] = old[n]
      /\ \A n \in DOMAIN both :
            n \notin DOMAIN L[i] => n - Len(L[i]) \in DOMAIN new /\ both[n] = new[n - Len(L[i])]
      /\ \A n \in DOMAIN new : Len(L[i]) + n \in DOMAIN both /\ both[Len(L[i]) + n] = new[n]
  BY <1>1, <1>2, JoinedParts
<1>4. K \in [Instances -> Seq(Rows)] /\ K[i] = both /\ \A j \in Instances \ {i} : K[j] = L[j]
  BY <1>1, <1>2, <1>3 DEF Adds
<1>5. \A n \in DOMAIN L[i] : K[i][n].what = L[i][n].what /\ K[i][n].origin = L[i][n].origin
  BY <1>1, <1>3, <1>4 DEF Adds
<1>6. Grown(L, K)
  BY <1>3, <1>4, <1>5 DEF Grown
<1> QED BY <1>3, <1>4, <1>6 DEF Added

LEMMA WriteKeeps ==
    ASSUME BundleInv, NEW i \in Instances, NEW kind \in RecordKinds, Write(i, kind)
    PROVE  BundleInv'
<1> BundleTypeOK /\ LibInv(lib, made)
  BY DEF BundleInv
<1> DEFINE id == Len(lib[i]) + 1
<1>1. PICK refs \in Referred(i) :
        /\ lib' = [lib EXCEPT ![i] = Append(lib[i], Born(i, kind, refs))]
        /\ made' = made \union {<<Born(i, kind, refs).what, lib[i][r[1]].what, r[2]>> : r \in refs}
  BY DEF Write
<1>2. /\ lib[i] \in Seq(Rows) /\ Len(lib[i]) \in Nat /\ id \in Nat /\ DOMAIN lib[i] = 1 .. Len(lib[i])
      /\ \A r \in refs : r[1] \in DOMAIN lib[i] /\ r[1] \in Nat /\ r[2] \in Hows
      /\ refs \in SUBSET (Nat \X Hows)
  BY DEF BundleTypeOK, Ids, Hows, Referred
<1> DEFINE row == Born(i, kind, refs)
<1>3. row \in Rows
  BY <1>2, KeyFacts DEF Rows, Born
<1>4. /\ row.refs = refs /\ row.what = <<i, id>> /\ row.origin = NoKey
  BY DEF Born
<1> HIDE DEF row
<1>5. lib' = [lib EXCEPT ![i] = lib[i] \o <<row>>] /\ <<row>> \in Seq(Rows) /\ Len(<<row>>) = 1
      /\ DOMAIN <<row>> = {1} /\ <<row>>[1] = row
  <2>1. Append(lib[i], row) = lib[i] \o <<row>>
    BY <1>2, <1>3
  <2>2. lib' = [lib EXCEPT ![i] = Append(lib[i], row)]
    BY <1>1 DEF BundleTypeOK, row
  <2>3. <<row>> \in Seq(Rows) /\ Len(<<row>>) = 1 /\ DOMAIN <<row>> = {1} /\ <<row>>[1] = row
    BY <1>3
  <2> QED BY <2>1, <2>2, <2>3
<1>6. /\ lib' \in [Instances -> Seq(Rows)] /\ Grown(lib, lib')
      /\ \A j \in Instances \ {i} : lib'[j] = lib[j]
      /\ \A n \in DOMAIN lib[i] : lib'[i][n] = lib[i][n]
      /\ \A n \in DOMAIN lib'[i] : n \notin DOMAIN lib[i] => lib'[i][n] = row /\ n = id
  <2>1. PICK new \in Seq(Rows) : new = <<row>>
    BY <1>5
  <2>2. Adds(lib, lib', i, lib[i], new)
    BY <1>2, <1>5, <2>1 DEF Adds, BundleTypeOK
  <2>3. Added(lib, lib', i, lib[i], new)
    BY <2>2, AddedFacts
  <2>4. \A n \in DOMAIN lib'[i] : n \in Nat
    BY <2>3 DEF Added
  <2> QED BY <1>2, <1>5, <2>1, <2>3, <2>4 DEF Added
<1>7. BundleTypeOK' /\ made \subseteq made'
  BY <1>1, <1>6 DEF BundleTypeOK, Write
<1>8. LibInv(lib', made')
  <2>1. ASSUME NEW j \in Instances, NEW n \in DOMAIN lib'[j]
        PROVE  RowTrue(lib', made', j, n)
    <3>1. CASE n \in DOMAIN lib[j]
      <4>1. lib'[j][n] = lib[j][n] /\ RowTrue(lib, made, j, n)
        BY <1>6, <3>1 DEF LibInv
      <4> QED BY <1>6, <1>7, <3>1, <4>1, GrownRow
    <3>2. CASE n \notin DOMAIN lib[j]
      <4>1. j = i /\ n = id /\ lib'[i][n] = row
        BY <1>6, <2>1, <3>2
      <4>2. ASSUME NEW r \in refs
            PROVE  r[1] \in DOMAIN lib'[i] /\ <<row.what, lib'[i][r[1]].what, r[2]>> \in made'
        <5>1. r[1] \in DOMAIN lib[i] /\ lib'[i][r[1]] = lib[i][r[1]] /\ r[1] \in DOMAIN lib'[i]
          BY <1>2, <1>6 DEF Grown
        <5>2. <<<<i, id>>, lib[i][r[1]].what, r[2]>> \in made'
          BY <1>1, <1>4 DEF row
        <5> QED BY <1>4, <5>1, <5>2
      <4> HIDE DEF id
      <4> QED BY <1>4, <4>1, <4>2 DEF RowTrue
    <3> QED BY <3>1, <3>2
  <2>2. ASSUME NEW j \in Instances, NEW m \in DOMAIN lib'[j], NEW n \in DOMAIN lib'[j],
               lib'[j][m].origin = lib'[j][n].origin, lib'[j][m].origin # NoKey
        PROVE  m = n
    <3>1. \A k \in DOMAIN lib'[j] : lib'[j][k].origin # NoKey =>
             k \in DOMAIN lib[j] /\ lib'[j][k] = lib[j][k]
      <4>1. CASE j = i
        BY <1>4, <1>6, <4>1
      <4>2. CASE j # i
        BY <1>6, <4>2
      <4> QED BY <4>1, <4>2
    <3> QED BY <2>2, <3>1 DEF LibInv
  <2> QED BY <2>1, <2>2 DEF LibInv
<1>9. disk' = disk /\ proc' = proc /\ single' = single
  BY DEF Write
<1> QED BY <1>6, <1>7, <1>8, <1>9, GrownKeeps

\* A call that reads: the libraries, the bundles and the other calls are as before.
LEMMA ReadingKeeps ==
    ASSUME BundleInv, UNCHANGED <<lib, disk, made, single>>, NEW w \in Workers, NEW c \in BundleCalls,
           c.op \notin {"export", "written"}, proc' = [proc EXCEPT ![w] = c],
           CallTrue(lib, made, disk, c)
    PROVE  BundleInv'
<1>1. /\ proc \in [Workers -> BundleCalls] /\ proc' \in [Workers -> BundleCalls]
      /\ \A v \in Workers : proc'[v] = IF v = w THEN c ELSE proc[v]
  BY DEF BundleInv, BundleTypeOK
<1>2. BundleTypeOK'
  BY <1>1 DEF BundleInv, BundleTypeOK
<1>3. LibInv(lib, made)' /\ \A d \in Places : DirTrue(lib, made, disk[d])'
  BY DEF BundleInv, LibInv, RowTrue, DirTrue
<1>4. ASSUME NEW v \in Workers
      PROVE  CallTrue(lib, made, disk, proc[v])'
  <2>1. CallTrue(lib, made, disk, proc[v])
    BY DEF BundleInv
  <2>2. CallTrue(lib, made, disk, proc'[v])
    BY <1>1, <2>1
  <2> QED BY <2>2 DEF CallTrue, ExportTrue, ReportTrue, ImportTrue
<1>5. \A v \in Workers : Exporting(v)' => Exporting(v)
  BY <1>1 DEF Exporting
<1> QED BY <1>2, <1>3, <1>4, <1>5 DEF BundleInv

\* What is read of a bundle is of the records its keys stand for, once of each.
LEMMA LoadedFacts ==
    ASSUME BundleInv, NEW d \in Places
    PROVE  /\ Loaded(d) \in SUBSET Arrivals
           /\ \A e \in Loaded(d) : Good(lib, made, e) /\ (single => e.hash = e.content)
           /\ OfOneKey(Loaded(d))
<1>1. /\ disk[d].files \in SUBSET Entries /\ disk[d].manifest \in SUBSET (Keys \X Contents)
      /\ DirTrue(lib, made, disk[d])
  <2>1. disk[d] \in Dirs
    BY DEF BundleInv, BundleTypeOK
  <2> QED BY <2>1 DEF Dirs, BundleInv
<1>2. ASSUME NEW e \in Loaded(d)
      PROVE  \E m \in disk[d].manifest, f \in disk[d].files :
                f.key = m[1] /\ e = [key |-> m[1], hash |-> m[2], what |-> f.what, content |-> f.content]
  BY <1>2 DEF Loaded
<1>3. ASSUME NEW e \in Loaded(d)
      PROVE  e \in Arrivals /\ Good(lib, made, e) /\ (single => e.hash = e.content)
  <2>1. PICK m \in disk[d].manifest, f \in disk[d].files :
           f.key = m[1] /\ e = [key |-> m[1], hash |-> m[2], what |-> f.what, content |-> f.content]
    BY <1>2
  <2>2. /\ m[1] \in Keys /\ m[2] \in Contents /\ f.what \in Keys /\ f.content \in Contents
        /\ e.key = f.key /\ e.hash = m[2] /\ e.what = f.what /\ e.content = f.content
    BY <1>1, <2>1 DEF Entries
  <2>3. e \in Arrivals
    BY <2>1, <2>2 DEF Arrivals
  <2>4. Good(lib, made, f) /\ (single => f.content = m[2])
    BY <1>1, <2>1 DEF DirTrue
  <2> QED BY <2>2, <2>3, <2>4 DEF Good
<1>4. ASSUME NEW x \in Loaded(d), NEW y \in Loaded(d), x.key = y.key
      PROVE  x = y
  <2>1. PICK m \in disk[d].manifest, f \in disk[d].files :
           f.key = m[1] /\ x = [key |-> m[1], hash |-> m[2], what |-> f.what, content |-> f.content]
    BY <1>2
  <2>2. PICK k \in disk[d].manifest, g \in disk[d].files :
           g.key = k[1] /\ y = [key |-> k[1], hash |-> k[2], what |-> g.what, content |-> g.content]
    BY <1>2
  <2>3. m[1] = k[1] /\ f.key = g.key
    BY <1>4, <2>1, <2>2
  <2>4. m = k /\ f = g
    BY <1>1, <2>1, <2>2, <2>3 DEF DirTrue, OfOneKey
  <2> QED BY <2>1, <2>2, <2>4
<1> QED BY <1>3, <1>4 DEF OfOneKey

LEMMA KnownFacts ==
    ASSUME NEW i \in Instances, BundleTypeOK
    PROVE  Known(i) = KnownIn(lib, i) /\ Known(i) \in SUBSET Keys
<1>1. Known(i) = KnownIn(lib, i)
  BY DEF Known, KnownIn, Ids
<1>2. \A n \in DOMAIN lib[i] : lib[i][n].origin \in Keys \union {NoKey}
  BY RowFacts DEF BundleTypeOK
<1> QED BY <1>1, <1>2 DEF KnownIn

LEMMA DryRunKeeps ==
    ASSUME BundleInv,
           NEW w \in Workers, NEW i \in Instances, NEW d \in Places, DryRun(w, i, d)
    PROVE  BundleInv'
<1> DEFINE c == [op |-> "reported", inst |-> i, dir |-> d, loaded |-> Loaded(d),
                 dangling |-> Missing(i, Loaded(d))]
<1>1. Loaded(d) \in SUBSET Arrivals /\ Known(i) = KnownIn(lib, i)
  BY LoadedFacts, KnownFacts DEF BundleInv
<1>2. ASSUME NEW e \in Loaded(d), NEW r \in e.content.refs
      PROVE  r[1] \in Keys
  <2>1. e \in Arrivals
    BY <1>1
  <2>2. e.content \in Contents
    BY <2>1 DEF Arrivals
  <2>3. e.content.refs \in SUBSET (Keys \X Hows)
    BY <2>2 DEF Contents
  <2> QED BY <2>3
<1>3. Missing(i, Loaded(d)) \in SUBSET Keys
  BY <1>2 DEF Missing
<1>4. c \in BundleCalls /\ c.op = "reported"
  BY <1>1, <1>3 DEF BundleCalls, Reports
<1>5. ReportTrue(lib, c)
  <2>1. c.inst = i /\ c.loaded = Loaded(d) /\ c.dangling = Missing(i, Loaded(d))
    OBVIOUS
  <2> HIDE DEF c
  <2>2. ASSUME c.dangling = {}, NEW e \in Loaded(d), NEW r \in e.content.refs
        PROVE  r[1] \in Found(lib, i, KeysOf(Loaded(d)))
    <3>1. r[1] \in {x.key : x \in Loaded(d)} \union Known(i) \union {Key(i, n) : n \in 1 .. Room[i]}
      BY <2>1, <2>2 DEF Missing
    <3>2. \A n : Key(i, n)[1] = i
      BY DEF Key
    <3> QED BY <1>1, <1>2, <2>2, <3>1, <3>2 DEF Found, KeysOf
  <2> QED BY <2>1, <2>2 DEF ReportTrue
<1> HIDE DEF c
<1>6. CallTrue(lib, made, disk, c)
  BY <1>4, <1>5 DEF CallTrue
<1>7. proc' = [proc EXCEPT ![w] = c] /\ UNCHANGED <<lib, disk, made, single>>
  BY DEF DryRun, c
<1> QED BY <1>4, <1>6, <1>7, ReadingKeeps

LEMMA ImportReadKeeps ==
    ASSUME BundleInv, NEW w \in Workers, NEW skip, NEW overwrite \in BOOLEAN, ImportRead(w, skip, overwrite)
    PROVE  BundleInv'
<1> DEFINE p == proc[w]
           i == p.inst
           d == p.dir
           todo == [e \in Loaded(d) |-> Action(Status(i, e), e.key, skip, overwrite)]
           create == {e \in Loaded(d) : todo[e] = "create"}
           update == {e \in Loaded(d) : todo[e] = "update"}
           foretold == skip = {} /\ p.loaded = Loaded(d) /\ p.dangling = {}
           c == [op |-> "import", inst |-> i, known |-> Known(i), foretold |-> foretold,
                 create |-> create, update |-> update]
<1>1. p.op = "reported" /\ i \in Instances /\ d \in Places /\ ReportTrue(lib, p)
  <2>1. p \in BundleCalls /\ p.op = "reported" /\ CallTrue(lib, made, disk, p)
    BY DEF BundleInv, BundleTypeOK, ImportRead
  <2>2. p \in Reports
    BY <2>1, CallFacts
  <2> QED BY <2>1, <2>2 DEF CallTrue, Reports
<1>2. proc' = [proc EXCEPT ![w] = c] /\ UNCHANGED <<lib, disk, made, single>>
  BY DEF ImportRead
<1> HIDE DEF p, i, d
<1>3. /\ Loaded(d) \in SUBSET Arrivals /\ OfOneKey(Loaded(d))
      /\ \A e \in Loaded(d) : Good(lib, made, e) /\ (single => e.hash = e.content)
      /\ Known(i) = KnownIn(lib, i) /\ Known(i) \in SUBSET Keys
  BY <1>1, LoadedFacts, KnownFacts DEF BundleInv
<1>4. create \subseteq Loaded(d) /\ update \subseteq Loaded(d)
  OBVIOUS
<1>5. \A e \in Loaded(d) :
         /\ e \in create => e.key \notin Known(i) /\ e.key[1] # i
         /\ skip = {} /\ e.key \notin Known(i) /\ e.key[1] # i => e \in create
  <2> SUFFICES ASSUME NEW e \in Loaded(d)
               PROVE  /\ e \in create => e.key \notin Known(i) /\ e.key[1] # i
                      /\ skip = {} /\ e.key \notin Known(i) /\ e.key[1] # i => e \in create
    OBVIOUS
  <2>1. Status(i, e) = "new" <=> e.key \notin Known(i) /\ e.key[1] # i
    BY DEF Status
  <2>2. Action(Status(i, e), e.key, skip, overwrite) = "create" <=> e.key \notin skip /\ Status(i, e) = "new"
    BY DEF Action
  <2> QED BY <2>1, <2>2
<1> HIDE DEF create, update, todo
<1>6. ImportTrue(lib, made, c)
  <2>1. /\ c.inst = i /\ c.known = Known(i) /\ c.create = create /\ c.update = update
        /\ c.foretold = foretold
    OBVIOUS
  <2>2. ASSUME foretold, NEW e \in create \union update, NEW r \in e.content.refs
        PROVE  r[1] \in KeysOf(create) \union Known(i) \union {key \in Keys : key[1] = i}
    <3>1. r[1] \in KeysOf(Loaded(d)) \union Known(i) \union {key \in Keys : key[1] = i}
      BY <1>1, <1>3, <1>4, <2>2 DEF ReportTrue, Found, i
    <3>2. CASE r[1] \in KeysOf(Loaded(d)) /\ r[1] \notin Known(i) /\ r[1][1] # i
      <4>1. PICK x \in Loaded(d) : x.key = r[1]
        BY <3>2 DEF KeysOf
      <4>2. x \in create
        BY <1>5, <2>2, <3>2, <4>1
      <4> QED BY <4>1, <4>2 DEF KeysOf
    <3>3. CASE r[1] \in KeysOf(Loaded(d)) /\ r[1][1] = i
      <4>1. PICK x \in Loaded(d) : x.key = r[1]
        BY <3>3 DEF KeysOf
      <4>2. x \in Arrivals
        BY <1>3
      <4>3. r[1] \in Keys
        BY <4>1, <4>2 DEF Arrivals
      <4> QED BY <3>3, <4>3
    <3> QED BY <3>1, <3>2, <3>3
  <2>3. OfOneKey(create)
    BY <1>3, <1>4 DEF OfOneKey
  <2> HIDE DEF c, foretold
  <2> QED BY <1>3, <1>4, <1>5, <2>1, <2>2, <2>3 DEF ImportTrue
<1>7. c \in BundleCalls /\ c.op = "import"
  BY <1>1, <1>3, <1>4 DEF BundleCalls, Imports
<1> HIDE DEF c
<1>8. CallTrue(lib, made, disk, c)
  BY <1>6, <1>7 DEF CallTrue
<1> QED BY <1>2, <1>7, <1>8, ReadingKeeps

\* What an instance keeps, with its own numbers, is of the record its key stands for.
LEMMA ContentGood ==
    ASSUME BundleInv, NEW i \in Instances, NEW id \in Ids(i)
    PROVE  Entry(i, id) \in Entries /\ Good(lib, made, Entry(i, id)) /\ Entry(i, id).key = <<i, id>>
<1> DEFINE row == lib[i][id]
           e == Entry(i, id)
<1>1. /\ id \in Nat /\ row.kind \in RecordKinds /\ row.text \in Keys /\ row.what \in Keys
      /\ row.refs \in SUBSET (Nat \X Hows) /\ id \in DOMAIN lib[i]
  BY RowFacts DEF BundleInv, BundleTypeOK, Ids
<1>2. /\ e.key = <<i, id>> /\ e.what = row.what /\ e.content.kind = row.kind /\ e.content.text = row.text
      /\ e.content.refs = {<<Key(i, r[1]), r[2]>> : r \in row.refs}
  BY DEF Entry, Content, Key
<1>3. \A r \in row.refs : r[1] \in DOMAIN lib[i] /\ <<row.what, lib[i][r[1]].what, r[2]>> \in made
  BY <1>1 DEF BundleInv, LibInv, RowTrue
<1>4. \A r \in e.content.refs : \E q \in row.refs : r = <<<<i, q[1]>>, q[2]>>
  BY <1>2 DEF Key
<1>5. e \in Entries
  <2>1. {<<Key(i, r[1]), r[2]>> : r \in row.refs} \in SUBSET (Keys \X Hows)
    BY <1>1, KeyFacts DEF Key
  <2>2. Content(i, id) \in Contents
    BY <1>1, <2>1 DEF Content, Contents
  <2> QED BY <1>1, <2>2, KeyFacts DEF Entry, Entries, Key
<1> HIDE DEF e
<1>6. \A r \in e.content.refs : StandsFor(lib, r[1]) /\ <<e.what, What(lib, r[1]), r[2]>> \in made
  <2> SUFFICES ASSUME NEW r \in e.content.refs
               PROVE  StandsFor(lib, r[1]) /\ <<e.what, What(lib, r[1]), r[2]>> \in made
    OBVIOUS
  <2>1. PICK q \in row.refs : r = <<<<i, q[1]>>, q[2]>>
    BY <1>4
  <2>2. r[1] = <<i, q[1]>> /\ r[1][1] = i /\ r[1][2] = q[1] /\ r[2] = q[2] /\ q[1] \in Nat
    BY <1>1, <2>1
  <2>3. <<i, q[1]>> \in Keys
    BY <2>2, KeyFacts
  <2> QED BY <1>2, <1>3, <2>1, <2>2, <2>3 DEF StandsFor, What
<1>7. StandsFor(lib, e.key) /\ e.what = What(lib, e.key)
  BY <1>1, <1>2, KeyFacts DEF StandsFor, What
<1> QED BY <1>2, <1>5, <1>6, <1>7 DEF Good, e

LEMMA GatherKeeps ==
    ASSUME BundleInv, NEW w \in Workers, NEW i \in Instances, NEW S \in SUBSET Ids(i),
           NEW targets \in BOOLEAN, NEW name \in BundleNames, ExportGather(w, i, S, targets, name)
    PROVE  BundleInv'
<1> DEFINE entries == {Entry(i, id) : id \in Selected(i, S, targets)}
           c == [op |-> "export", dir |-> Free(name), entries |-> entries]
<1>1. Selected(i, S, targets) \subseteq Ids(i)
  <2> DEFINE notes(T) == {n \in T : lib[i][n].kind = "note"}
             joined(T, kind) == {r[1] : r \in {r \in RefsIn(i, notes(T)) : r[2] = "edge"}}
                                   \intersect {n \in Ids(i) : lib[i][n].kind = kind}
             more == S \union (IF targets THEN joined(S, "note") ELSE {})
  <2>1. \A T, kind : joined(T, kind) \subseteq Ids(i)
    OBVIOUS
  <2>2. more \subseteq Ids(i)
    BY <2>1
  <2>3. more \union joined(more, "topic") \subseteq Ids(i)
    BY <2>1, <2>2
  <2> QED BY <2>3 DEF Selected
<1>2. Free(name) \in Places /\ ~disk[Free(name)].made
  <2>1. \E d \in {<<name, 1>>, <<name, 2>>} : ~disk[d].made /\ (d[2] = 2 => disk[<<name, 1>>].made)
    <3>1. CASE disk[<<name, 1>>].made
      <4>1. ~disk[<<name, 2>>].made
        BY <3>1 DEF ExportGather
      <4> QED BY <3>1, <4>1
    <3>2. CASE ~disk[<<name, 1>>].made
      BY <3>2
    <3> QED BY <3>1, <3>2
  <2>2. Free(name) \in {<<name, 1>>, <<name, 2>>} /\ ~disk[Free(name)].made
    BY <2>1 DEF Free
  <2> QED BY <2>2 DEF Places
<1>3. entries \in SUBSET Entries /\ \A e \in entries : Good(lib, made, e)
  BY <1>1, ContentGood
<1>4. OfOneKey(entries)
  <2> SUFFICES ASSUME NEW m \in Selected(i, S, targets), NEW n \in Selected(i, S, targets),
                      Entry(i, m).key = Entry(i, n).key
               PROVE  Entry(i, m) = Entry(i, n)
    BY DEF OfOneKey
  <2>1. <<i, m>> = <<i, n>>
    BY <1>1, ContentGood
  <2> QED BY <2>1
<1>5. /\ c.op = "export" /\ c.dir = Free(name) /\ c.entries = entries
      /\ c \in Exports
  BY <1>2, <1>3 DEF Exports
<1>6. /\ proc' = [proc EXCEPT ![w] = c] /\ UNCHANGED <<lib, disk, made, single>>
      /\ single => \A v \in Workers : ~Exporting(v)
  BY DEF ExportGather
<1> HIDE DEF c, entries
<1>7. /\ c \in BundleCalls /\ proc \in [Workers -> BundleCalls] /\ proc' \in [Workers -> BundleCalls]
      /\ \A v \in Workers : proc'[v] = IF v = w THEN c ELSE proc[v]
  BY <1>5, <1>6 DEF BundleInv, BundleTypeOK, BundleCalls
<1>8. BundleTypeOK'
  BY <1>6, <1>7 DEF BundleInv, BundleTypeOK
<1>9. LibInv(lib, made)' /\ \A d \in Places : DirTrue(lib, made, disk[d])'
  BY <1>6 DEF BundleInv, LibInv, RowTrue, DirTrue
<1>10. ASSUME NEW v \in Workers
       PROVE  CallTrue(lib, made, disk, proc[v])'
  <2>1. CallTrue(lib, made, disk, c)
    BY <1>2, <1>3, <1>4, <1>5 DEF CallTrue, ExportTrue
  <2>2. CallTrue(lib, made, disk, proc[v])
    BY DEF BundleInv
  <2>3. CallTrue(lib, made, disk, proc'[v])
    BY <1>7, <2>1, <2>2
  <2> QED BY <1>6, <2>3 DEF CallTrue, ExportTrue, ReportTrue, ImportTrue
<1>11. (single => \A u, v \in Workers : Exporting(u) /\ Exporting(v) => u = v)'
  <2>1. \A v \in Workers : v # w => (Exporting(v)' <=> Exporting(v))
    BY <1>7 DEF Exporting
  <2> QED BY <1>6, <2>1
<1> QED BY <1>8, <1>9, <1>10, <1>11 DEF BundleInv

\* A call that writes into one directory.
LEMMA WritingKeeps ==
    ASSUME BundleInv, UNCHANGED <<lib, made, single>>, NEW w \in Workers, Exporting(w), NEW c \in BundleCalls,
           NEW new \in Dirs,
           disk' = [disk EXCEPT ![proc[w].dir] = new], proc' = [proc EXCEPT ![w] = c],
           proc[w].dir \in Places,
           DirTrue(lib, made, new), disk[proc[w].dir].made => new.made,
           CallTrue(lib, made, disk', c)
    PROVE  BundleInv'
<1> DEFINE d == proc[w].dir
<1>1. /\ proc \in [Workers -> BundleCalls] /\ proc' \in [Workers -> BundleCalls]
      /\ \A v \in Workers : proc'[v] = IF v = w THEN c ELSE proc[v]
      /\ disk' \in [Places -> Dirs]
      /\ \A x \in Places : disk'[x] = IF x = d THEN new ELSE disk[x]
  BY DEF BundleInv, BundleTypeOK
<1>2. BundleTypeOK'
  BY <1>1 DEF BundleInv, BundleTypeOK
<1>3. LibInv(lib, made)'
  BY DEF BundleInv, LibInv, RowTrue
<1>4. ASSUME NEW x \in Places
      PROVE  DirTrue(lib, made, disk[x])'
  <2>1. DirTrue(lib, made, disk'[x])
    BY <1>1 DEF BundleInv
  <2> QED BY <2>1 DEF DirTrue
<1>5. ASSUME NEW v \in Workers
      PROVE  CallTrue(lib, made, disk, proc[v])'
  <2>1. CASE v = w
    <3>1. CallTrue(lib, made, disk', proc'[v])
      BY <1>1, <2>1
    <3> QED BY <3>1 DEF CallTrue, ExportTrue, ReportTrue, ImportTrue
  <2>2. CASE v # w
    <3>1. CallTrue(lib, made, disk, proc[v]) /\ proc'[v] = proc[v]
      BY <1>1, <2>2 DEF BundleInv
    <3>2. single => ~Exporting(v)
      BY <2>2 DEF BundleInv
    <3>3. ASSUME proc[v].op \in {"export", "written"}
          PROVE  ExportTrue(lib, made, disk', proc[v]) /\ ~single
      <4>1. proc[v] \in Exports
        BY <1>1, <3>3, CallFacts
      <4>2. proc[v].dir \in Places /\ ~single
        BY <3>2, <3>3, <4>1 DEF Exporting, Exports
      <4>3. disk[proc[v].dir].made => disk'[proc[v].dir].made
        BY <1>1, <4>2
      <4> QED BY <3>1, <3>3, <4>2, <4>3 DEF CallTrue, ExportTrue
    <3>4. ExportTrue(lib, made, disk', proc[v]) /\ ~single => ExportTrue(lib, made, disk, proc[v])'
      BY <3>1 DEF ExportTrue
    <3>5. (proc[v].op = "reported" => ReportTrue(lib, proc[v])) =>
             (proc[v].op = "reported" => ReportTrue(lib, proc[v]))'
      BY <3>1 DEF ReportTrue
    <3>6. (proc[v].op = "import" => ImportTrue(lib, made, proc[v])) =>
             (proc[v].op = "import" => ImportTrue(lib, made, proc[v]))'
      BY <3>1 DEF ImportTrue
    <3> QED BY <3>1, <3>3, <3>4, <3>5, <3>6 DEF CallTrue
  <2> QED BY <2>1, <2>2
<1>6. (single => \A u, v \in Workers : Exporting(u) /\ Exporting(v) => u = v)'
  <2>1. \A v \in Workers : Exporting(v)' => Exporting(v)
    BY <1>1 DEF Exporting
  <2> QED BY <2>1 DEF BundleInv
<1> QED BY <1>2, <1>3, <1>4, <1>5, <1>6 DEF BundleInv

LEMMA FilesKeep ==
    ASSUME BundleInv, NEW w \in Workers, ExportFiles(w)
    PROVE  BundleInv'
<1> DEFINE p == proc[w]
           d == p.dir
           e == p.entries
           files == {f \in disk[d].files : \A x \in e : x.key # f.key} \union e
           new == [disk[d] EXCEPT !.made = TRUE, !.files = files]
           c == [p EXCEPT !.op = "written"]
<1>1. /\ p.op = "export" /\ d \in Places /\ e \in SUBSET Entries
      /\ p \in Exports
      /\ ExportTrue(lib, made, disk, p)
  <2>1. p \in BundleCalls /\ p.op = "export" /\ CallTrue(lib, made, disk, p)
    BY DEF BundleInv, BundleTypeOK, ExportFiles
  <2>2. p \in Exports
    BY <2>1, CallFacts
  <2> QED BY <2>1, <2>2 DEF CallTrue, Exports
<1>2. disk[d] \in Dirs /\ DirTrue(lib, made, disk[d])
  BY <1>1 DEF BundleInv, BundleTypeOK
<1>3. /\ new \in Dirs /\ new.made = TRUE /\ new.files = files /\ new.manifest = disk[d].manifest
  BY <1>1, <1>2 DEF Dirs
<1>4. /\ c \in Exports
      /\ c.op = "written" /\ c.dir = d /\ c.entries = e
  BY <1>1 DEF Exports
<1>5. /\ UNCHANGED <<lib, made, single>>
      /\ disk' = [disk EXCEPT ![d] = new]
      /\ proc' = [proc EXCEPT ![w] = c]
  BY <1>1 DEF ExportFiles, BundleInv, BundleTypeOK
<1> HIDE DEF new, c
<1>6. disk'[d] = new
  BY <1>1, <1>5 DEF BundleInv, BundleTypeOK
<1>7. single => disk[d].files = {} /\ disk[d].manifest = {}
  BY <1>1, <1>2 DEF DirTrue, ExportTrue
<1>8. DirTrue(lib, made, new)
  <2>1. \A f \in files : Good(lib, made, f)
    BY <1>1, <1>2 DEF DirTrue, ExportTrue
  <2>2. OfOneKey(files)
    BY <1>1, <1>2 DEF DirTrue, ExportTrue, OfOneKey
  <2> QED BY <1>2, <1>3, <1>7, <2>1, <2>2 DEF DirTrue
<1>9. CallTrue(lib, made, disk', c)
  BY <1>1, <1>3, <1>4, <1>6, <1>7 DEF CallTrue, ExportTrue
<1>10. c \in BundleCalls /\ Exporting(w)
  BY <1>1, <1>4 DEF BundleCalls, Exporting
<1> QED BY <1>1, <1>3, <1>5, <1>8, <1>9, <1>10, WritingKeeps

LEMMA ManifestKeeps ==
    ASSUME BundleInv, NEW w \in Workers, ExportManifest(w)
    PROVE  BundleInv'
<1> DEFINE p == proc[w]
           d == p.dir
           e == p.entries
           manifest == {<<x.key, x.content>> : x \in e}
           new == [disk[d] EXCEPT !.manifest = manifest, !.whole = TRUE]
<1>1. /\ p.op = "written" /\ d \in Places /\ e \in SUBSET Entries /\ ExportTrue(lib, made, disk, p)
  <2>1. p \in BundleCalls /\ p.op = "written" /\ CallTrue(lib, made, disk, p)
    BY DEF BundleInv, BundleTypeOK, ExportManifest
  <2>2. p \in Exports
    BY <2>1, CallFacts
  <2> QED BY <2>1, <2>2 DEF CallTrue, Exports
<1>2. disk[d] \in Dirs /\ DirTrue(lib, made, disk[d])
  BY <1>1 DEF BundleInv, BundleTypeOK
<1>3. manifest \in SUBSET (Keys \X Contents)
  <2>1. \A x \in e : x.key \in Keys /\ x.content \in Contents
    BY <1>1 DEF Entries
  <2> QED BY <2>1
<1>4. /\ new \in Dirs /\ new.made = disk[d].made /\ new.files = disk[d].files /\ new.manifest = manifest
  BY <1>2, <1>3 DEF Dirs
<1>5. /\ UNCHANGED <<lib, made, single>>
      /\ disk' = [disk EXCEPT ![d] = new]
      /\ proc' = [proc EXCEPT ![w] = AtEase]
  BY <1>1 DEF ExportManifest, BundleInv, BundleTypeOK
<1>6. DirTrue(lib, made, new)
  <2>1. \A x, y \in manifest : x[1] = y[1] => x = y
    BY <1>1 DEF ExportTrue, OfOneKey
  <2>2. single => \A m \in manifest, f \in disk[d].files : f.key = m[1] => f.content = m[2]
    BY <1>1 DEF ExportTrue, OfOneKey
  <2>3. disk[d].made
    BY <1>1 DEF ExportTrue
  <2> HIDE DEF new, manifest
  <2> QED BY <1>2, <1>4, <2>1, <2>2, <2>3 DEF DirTrue
<1>7. AtEase \in BundleCalls /\ Exporting(w) /\ CallTrue(lib, made, disk', AtEase)
  BY <1>1 DEF BundleCalls, Exporting, CallTrue, AtEase
<1> HIDE DEF new
<1> QED BY <1>1, <1>4, <1>5, <1>6, <1>7, WritingKeeps

\* An order of new records has each of them once.
LEMMA OrderFacts ==
    ASSUME NEW i \in Instances, NEW new \in SUBSET Arrivals, NEW order \in Orders(i, new)
    PROVE  /\ order \in Seq(new) /\ DOMAIN order = 1 .. Len(order) /\ Len(order) \in Nat
           /\ \A n \in DOMAIN order : n \in Nat /\ order[n] \in new
           /\ \A e \in new : \E n \in DOMAIN order : order[n] = e
           /\ \A m, n \in DOMAIN order : order[m] = order[n] => m = n
<1>1. PICK k \in 0 .. Room[i] : order \in [1 .. k -> new]
  BY DEF Orders
<1>2. k \in Nat
  BY <1>1, BundlesAssumption
<1>3. order \in Seq(new) /\ DOMAIN order = 1 .. Len(order) /\ Len(order) \in Nat
  BY <1>1, <1>2
<1>4. ASSUME NEW m \in DOMAIN order, NEW n \in DOMAIN order, order[m] = order[n]
      PROVE  m = n
  <2>1. m \in Nat /\ n \in Nat
    BY <1>1, <1>2
  <2>2. ~(m < n) /\ ~(n < m)
    BY <1>4 DEF Orders
  <2> QED BY <2>1, <2>2
<1> QED BY <1>1, <1>2, <1>3, <1>4 DEF Orders

\* Where a reference leads, before the new rows are there and with them.
LEMMA ResolveFacts ==
    ASSUME BundleInv, NEW p \in Imports, ImportTrue(lib, made, p),
           NEW order \in Orders(p.inst, p.create), NEW key \in Keys, StandsFor(lib, key),
           NEW n \in Resolve(p, order, key)
    PROVE  \/ n \in DOMAIN lib[p.inst] /\ lib[p.inst][n].what = What(lib, key)
           \/ \E h \in DOMAIN order : n = Len(lib[p.inst]) + h /\ order[h].what = What(lib, key)
<1> DEFINE i == p.inst
           here == {h \in DOMAIN order : order[h].key = key}
<1>1. i \in Instances /\ p.create \in SUBSET Arrivals /\ p.known \subseteq KnownIn(lib, i)
      /\ \A e \in p.create : Good(lib, made, e)
  BY DEF Imports, ImportTrue
<1>2. CASE here # {}
  <2>1. n \in {Len(lib[i]) + (CHOOSE h \in here : TRUE)}
    BY <1>2 DEF Resolve
  <2>2. PICK h \in here : n = Len(lib[i]) + h
    BY <1>2, <2>1
  <2>3. order[h] \in p.create
    BY <1>1, OrderFacts
  <2> QED BY <1>1, <2>2, <2>3 DEF Good
<1>3. CASE here = {} /\ key \in p.known
  <2>1. n = LocalOf(i, key)
    BY <1>3 DEF Resolve
  <2>2. \E m \in Ids(i) : lib[i][m].origin = key
    BY <1>1, <1>3 DEF KnownIn, Ids
  <2>3. n \in DOMAIN lib[i] /\ lib[i][n].origin = key
    BY <2>1, <2>2 DEF LocalOf, Ids
  <2>4. RowTrue(lib, made, i, n) /\ key # NoKey
    BY <1>1, <2>3, KeyFacts DEF BundleInv, LibInv
  <2> QED BY <2>3, <2>4 DEF RowTrue
<1>4. CASE here = {} /\ key \notin p.known
  <2>1. key[1] = i /\ n = key[2]
    BY <1>4 DEF Resolve
  <2> QED BY <2>1 DEF StandsFor, What
<1> QED BY <1>2, <1>3, <1>4

\* In the library K that has the new rows, what a record takes over leads to the
\* records it led to where it came from.
LEMMA TakenFacts ==
    ASSUME BundleInv, NEW p \in Imports, ImportTrue(lib, made, p),
           NEW order \in Orders(p.inst, p.create), NEW e \in p.create \union p.update
    PROVE  /\ Taken(p, order, e) \in SUBSET (Nat \X Hows)
           /\ \A r \in Taken(p, order, e) :
                 \/ r[1] \in DOMAIN lib[p.inst] /\ <<e.what, lib[p.inst][r[1]].what, r[2]>> \in made
                 \/ \E h \in DOMAIN order :
                       r[1] = Len(lib[p.inst]) + h /\ <<e.what, order[h].what, r[2]>> \in made
<1>1. Good(lib, made, e) /\ p.inst \in Instances /\ p.create \in SUBSET Arrivals
  BY DEF ImportTrue, Imports
<1>2. e \in Arrivals
  BY DEF Imports
<1>3. e.content \in Contents
  BY <1>2 DEF Arrivals
<1>4. e.content.refs \in SUBSET (Keys \X Hows)
  BY <1>3 DEF Contents
<1>5. lib[p.inst] \in Seq(Rows) /\ Len(lib[p.inst]) \in Nat /\ \A n \in DOMAIN lib[p.inst] : n \in Nat
  BY <1>1 DEF BundleInv, BundleTypeOK
<1>6. \A h \in DOMAIN order : h \in Nat
  BY <1>1, OrderFacts
<1>7. ASSUME NEW r \in Taken(p, order, e)
      PROVE  /\ r \in Nat \X Hows
             /\ \/ r[1] \in DOMAIN lib[p.inst] /\ <<e.what, lib[p.inst][r[1]].what, r[2]>> \in made
                \/ \E h \in DOMAIN order :
                      r[1] = Len(lib[p.inst]) + h /\ <<e.what, order[h].what, r[2]>> \in made
  <2>1. PICK q \in e.content.refs : \E n \in Resolve(p, order, q[1]) : r = <<n, q[2]>>
    BY <1>7 DEF Taken
  <2>2. PICK n \in Resolve(p, order, q[1]) : r = <<n, q[2]>>
    BY <2>1
  <2>3. q[1] \in Keys /\ q[2] \in Hows /\ StandsFor(lib, q[1]) /\ <<e.what, What(lib, q[1]), q[2]>> \in made
    BY <1>1, <1>4, <2>1 DEF Good
  <2>4. \/ n \in DOMAIN lib[p.inst] /\ lib[p.inst][n].what = What(lib, q[1])
        \/ \E h \in DOMAIN order : n = Len(lib[p.inst]) + h /\ order[h].what = What(lib, q[1])
    BY <2>2, <2>3, ResolveFacts
  <2>5. n \in Nat
    BY <1>5, <1>6, <2>4
  <2> QED BY <2>2, <2>3, <2>4, <2>5
<1> QED BY <1>7

LEMMA ImportRows ==
    ASSUME BundleInv, NEW p \in Imports, ImportTrue(lib, made, p),
           NEW order \in Orders(p.inst, p.create)
    PROVE  /\ Merged(p, order) \in Seq(Rows) /\ Len(Merged(p, order)) = Len(lib[p.inst])
           /\ Arrived(p, order) \in Seq(Rows)
           /\ \A n \in DOMAIN lib[p.inst] :
                 \/ Merged(p, order)[n] = lib[p.inst][n]
                 \/ \E e \in p.update : /\ e.key = lib[p.inst][n].origin
                                        /\ Merged(p, order)[n] = Updated(p, order, lib[p.inst][n], e)
           /\ DOMAIN Arrived(p, order) = DOMAIN order
           /\ \A n \in DOMAIN order : Arrived(p, order)[n] = Created(p, order, order[n])
<1> DEFINE i == p.inst
           old == Merged(p, order)
           new == Arrived(p, order)
<1>1. /\ i \in Instances /\ p.create \in SUBSET Arrivals /\ p.update \in SUBSET Arrivals
      /\ lib[i] \in Seq(Rows) /\ DOMAIN lib[i] = 1 .. Len(lib[i]) /\ Len(lib[i]) \in Nat
  BY DEF Imports, BundleInv, BundleTypeOK
<1>2. /\ DOMAIN order = 1 .. Len(order) /\ Len(order) \in Nat
      /\ \A n \in DOMAIN order : order[n] \in p.create
  BY <1>1, OrderFacts
<1>3. \A e \in p.create \union p.update : Taken(p, order, e) \in SUBSET (Nat \X Hows)
  BY TakenFacts
<1>4. ASSUME NEW n \in DOMAIN lib[i]
      PROVE  \/ old[n] = lib[i][n]
             \/ \E e \in p.update : e.key = lib[i][n].origin /\ old[n] = Updated(p, order, lib[i][n], e)
  <2> DEFINE mine == {e \in p.update : e.key = lib[i][n].origin}
  <2>1. old[n] = IF mine = {} THEN lib[i][n] ELSE Updated(p, order, lib[i][n], CHOOSE e \in mine : TRUE)
    BY DEF Merged, Ids
  <2>2. CASE mine # {}
    <3>1. PICK e \in mine : e = CHOOSE x \in mine : TRUE
      BY <2>2
    <3> QED BY <2>1, <2>2, <3>1
  <2> QED BY <2>1, <2>2
<1>5. \A n \in DOMAIN lib[i] : old[n] \in Rows
  <2> SUFFICES ASSUME NEW n \in DOMAIN lib[i], NEW e \in p.update
               PROVE  lib[i][n] \in Rows /\ Updated(p, order, lib[i][n], e) \in Rows
    BY <1>1, <1>4
  <2>1. lib[i][n] \in Rows /\ lib[i][n].refs \in SUBSET (Nat \X Hows)
    BY <1>1, RowFacts DEF BundleInv, BundleTypeOK
  <2>2. e \in Arrivals
    BY <1>1
  <2>3. e.hash \in Contents /\ e.content \in Contents
    BY <2>2 DEF Arrivals
  <2>4. e.content.text \in Keys
    BY <2>3 DEF Contents
  <2>5. {r \in lib[i][n].refs : r[2] = "edge"} \union Taken(p, order, e) \in SUBSET (Nat \X Hows)
    BY <1>3, <2>1
  <2> QED BY <2>1, <2>3, <2>4, <2>5 DEF Updated, Rows
<1>6. \A n \in DOMAIN order : Created(p, order, order[n]) \in Rows
  <2> SUFFICES ASSUME NEW e \in p.create
               PROVE  Created(p, order, e) \in Rows
    BY <1>2
  <2>1. e \in Arrivals
    BY <1>1
  <2>2. e.key \in Keys /\ e.what \in Keys /\ e.hash \in Contents /\ e.content \in Contents
    BY <2>1 DEF Arrivals
  <2>3. e.content.kind \in RecordKinds /\ e.content.text \in Keys
    BY <2>2 DEF Contents
  <2> QED BY <1>3, <2>2, <2>3 DEF Created, Rows
<1>7. old \in Seq(Rows) /\ Len(old) = Len(lib[i])
  <2>1. old \in [1 .. Len(lib[i]) -> Rows]
    BY <1>1, <1>5 DEF Merged, Ids
  <2> QED BY <1>1, <2>1
<1>8. new \in Seq(Rows) /\ DOMAIN new = DOMAIN order
      /\ \A n \in DOMAIN order : new[n] = Created(p, order, order[n])
  <2>1. /\ DOMAIN new = DOMAIN order /\ \A n \in DOMAIN order : new[n] = Created(p, order, order[n])
        /\ new \in [1 .. Len(order) -> Rows]
    BY <1>2, <1>6 DEF Arrived
  <2> QED BY <1>2, <2>1
<1> QED BY <1>4, <1>7, <1>8

\* What a new row is, field by field.
LEMMA CreatedFields ==
    ASSUME NEW p, NEW order, NEW e
    PROVE  /\ Created(p, order, e).text = e.content.text
           /\ Created(p, order, e).hash = e.hash
           /\ Created(p, order, e).refs = Taken(p, order, e)
           /\ Created(p, order, e).what = e.what
           /\ Created(p, order, e).origin = e.key
BY DEF Created

LEMMA ImportApplyKeeps ==
    ASSUME BundleInv, NEW w \in Workers, ImportApply(w)
    PROVE  BundleInv'
<1> DEFINE p == proc[w]
           i == p.inst
<1>1. p \in Imports /\ i \in Instances /\ ImportTrue(lib, made, p)
  <2>1. p \in BundleCalls /\ p.op = "import" /\ CallTrue(lib, made, disk, p)
    BY DEF BundleInv, BundleTypeOK, ImportApply
  <2>2. p \in Imports
    BY <2>1, CallFacts DEF Imports
  <2> QED BY <2>1, <2>2 DEF CallTrue, Imports
<1>2. /\ UNCHANGED <<disk, made, single>> /\ proc' = [proc EXCEPT ![w] = AtEase]
      /\ lib \in [Instances -> Seq(Rows)] /\ LibInv(lib, made)
  BY DEF ImportApply, BundleInv, BundleTypeOK
<1>3. \A v \in Workers : proc'[v] = proc[v] \/ proc'[v] = AtEase
  BY <1>2 DEF BundleInv, BundleTypeOK
<1>4. ASSUME lib' \in [Instances -> Seq(Rows)]
      PROVE  BundleTypeOK'
  BY <1>2, <1>4 DEF BundleInv, BundleTypeOK, BundleCalls
<1>5. CASE lib' = lib
  <2>1. BundleTypeOK' /\ Grown(lib, lib') /\ LibInv(lib', made')
    BY <1>2, <1>4, <1>5 DEF Grown
  <2> QED BY <1>2, <1>3, <2>1, GrownKeeps
<1>6. CASE ~Collides(i, p.create) /\ \E order \in Orders(i, p.create) :
              lib' = [lib EXCEPT ![i] = Merged(p, order) \o Arrived(p, order)]
  <2>1. PICK order \in Orders(i, p.create) : lib' = [lib EXCEPT ![i] = Merged(p, order) \o Arrived(p, order)]
    BY <1>6
  <2> DEFINE old == Merged(p, order)
             new == Arrived(p, order)
             size == Len(lib[i])
  <2>2. /\ old \in Seq(Rows) /\ Len(old) = Len(lib[i]) /\ new \in Seq(Rows) /\ DOMAIN old = DOMAIN lib[i]
        /\ \A n \in DOMAIN lib[i] :
              \/ old[n] = lib[i][n]
              \/ \E e \in p.update : e.key = lib[i][n].origin /\ old[n] = Updated(p, order, lib[i][n], e)
        /\ DOMAIN new = DOMAIN order
        /\ \A n \in DOMAIN order : new[n] = Created(p, order, order[n])
    <3>1. old \in Seq(Rows) /\ Len(old) = Len(lib[i]) /\ lib[i] \in Seq(Rows)
      BY <1>1, <1>2, ImportRows
    <3>2. DOMAIN old = DOMAIN lib[i]
      BY <3>1
    <3> QED BY <1>1, <3>1, <3>2, ImportRows
  <2>3. /\ \A e \in p.create \union p.update :
             /\ Good(lib, made, e) /\ (single => e.hash = e.content)
             /\ \A r \in Taken(p, order, e) :
                   \/ r[1] \in DOMAIN lib[i] /\ <<e.what, lib[i][r[1]].what, r[2]>> \in made
                   \/ \E h \in DOMAIN order : r[1] = size + h /\ <<e.what, order[h].what, r[2]>> \in made
        /\ \A e \in p.create : e.key[1] # i
        /\ \A x, y \in p.create : x.key = y.key => x = y
        /\ \A n \in DOMAIN order : order[n] \in p.create
        /\ \A m, n \in DOMAIN order : order[m] = order[n] => m = n
        /\ \A e \in p.create : e.key \notin Known(i)
    <3>1. p.create \in SUBSET Arrivals
      BY <1>1 DEF Imports
    <3>2. /\ \A n \in DOMAIN order : order[n] \in p.create
          /\ \A m, n \in DOMAIN order : order[m] = order[n] => m = n
      BY <1>1, <2>1, <3>1, OrderFacts
    <3>3. \A e \in p.create \union p.update : \A r \in Taken(p, order, e) :
             \/ r[1] \in DOMAIN lib[i] /\ <<e.what, lib[i][r[1]].what, r[2]>> \in made
             \/ \E h \in DOMAIN order : r[1] = size + h /\ <<e.what, order[h].what, r[2]>> \in made
      BY <1>1, <2>1, TakenFacts
    <3> QED BY <1>1, <1>6, <3>2, <3>3 DEF ImportTrue, OfOneKey, Collides
  <2>4. ASSUME NEW n \in DOMAIN lib[i], NEW e
        PROVE  /\ Updated(p, order, lib[i][n], e).text = e.content.text
               /\ Updated(p, order, lib[i][n], e).hash = e.hash
               /\ Updated(p, order, lib[i][n], e).refs =
                     {r \in lib[i][n].refs : r[2] = "edge"} \union Taken(p, order, e)
               /\ Updated(p, order, lib[i][n], e).what = lib[i][n].what
               /\ Updated(p, order, lib[i][n], e).origin = lib[i][n].origin
    <3> HIDE DEF i, p, old, new
    <3>1. lib[i][n] \in Rows
      BY <1>1, <1>2, <2>4, RowFacts
    <3> QED BY <3>1 DEF Updated, Rows
  <2>5. Adds(lib, lib', i, old, new)
    <3>1. \A n \in DOMAIN old : old[n].what = lib[i][n].what /\ old[n].origin = lib[i][n].origin
      <4> SUFFICES ASSUME NEW n \in DOMAIN lib[i]
                   PROVE  old[n].what = lib[i][n].what /\ old[n].origin = lib[i][n].origin
        BY <2>2
      <4>1. CASE old[n] = lib[i][n]
        BY <4>1
      <4>2. ASSUME NEW e \in p.update, old[n] = Updated(p, order, lib[i][n], e)
            PROVE  old[n].what = lib[i][n].what /\ old[n].origin = lib[i][n].origin
          <5>1. /\ Updated(p, order, lib[i][n], e).what = lib[i][n].what
                /\ Updated(p, order, lib[i][n], e).origin = lib[i][n].origin
            BY <2>4
          <5> HIDE DEF i, p, old
          <5> QED BY <4>2, <5>1
      <4> QED BY <2>2, <4>1, <4>2
    <3> HIDE DEF i, p
    <3> QED BY <1>1, <1>2, <2>1, <2>2, <3>1 DEF Adds
  <2>6. Added(lib, lib', i, old, new)
    BY <2>5, AddedFacts
  <2> HIDE DEF i, p, old, new, size
  <2>7. lib' \in [Instances -> Seq(Rows)] /\ Grown(lib, lib')
    BY <2>6 DEF Added
  <2>8. \A e \in p.create \union p.update : \A r \in Taken(p, order, e) :
           r[1] \in DOMAIN lib'[i] /\ <<e.what, lib'[i][r[1]].what, r[2]>> \in made
    <3> SUFFICES ASSUME NEW e \in p.create \union p.update, NEW r \in Taken(p, order, e)
                 PROVE  r[1] \in DOMAIN lib'[i] /\ <<e.what, lib'[i][r[1]].what, r[2]>> \in made
      OBVIOUS
    <3>1. CASE r[1] \in DOMAIN lib[i] /\ <<e.what, lib[i][r[1]].what, r[2]>> \in made
      BY <1>1, <2>7, <3>1 DEF Grown
    <3>2. ASSUME NEW h \in DOMAIN order, r[1] = size + h, <<e.what, order[h].what, r[2]>> \in made
          PROVE  r[1] \in DOMAIN lib'[i] /\ <<e.what, lib'[i][r[1]].what, r[2]>> \in made
      <4>1. size + h \in DOMAIN lib'[i] /\ lib'[i][size + h] = Created(p, order, order[h])
        BY <2>2, <2>6 DEF Added, size
      <4>2. Created(p, order, order[h]).what = order[h].what
        BY CreatedFields
      <4> QED BY <3>2, <4>1, <4>2
    <3> QED BY <2>3, <3>1, <3>2
  <2>9. \A key : StandsFor(lib, key) => StandsFor(lib', key) /\ What(lib', key) = What(lib, key)
    <3>1. made \subseteq made
      OBVIOUS
    <3> QED BY <2>7, <3>1, GrownFacts
  <2>10. LibInv(lib', made)
    <3>1. ASSUME NEW j \in Instances, NEW n \in DOMAIN lib'[j]
          PROVE  RowTrue(lib', made, j, n)
      <4>1. CASE n \in DOMAIN lib[j] /\ lib'[j][n] = lib[j][n]
        <5>1. RowTrue(lib, made, j, n) /\ made \subseteq made
          BY <1>2, <4>1 DEF LibInv
        <5> QED BY <2>7, <4>1, <5>1, GrownRow
      <4>2. CASE j # i
        BY <2>6, <4>1, <4>2 DEF Added
      <4>3. CASE j = i /\ n \in DOMAIN lib[i] /\ lib'[i][n] # lib[i][n]
        <5>1. lib'[i][n] = old[n]
          BY <2>6, <4>3 DEF Added
        <5>2. PICK e \in p.update : e.key = lib[i][n].origin /\ lib'[i][n] = Updated(p, order, lib[i][n], e)
          BY <2>2, <4>3, <5>1
        <5> DEFINE row == lib[i][n]
                   now == lib'[i][n]
        <5>3. RowTrue(lib, made, i, n) /\ Good(lib, made, e) /\ (single => e.hash = e.content) /\ e.key # NoKey
          <6>1. e.key \in Keys /\ Good(lib, made, e)
            BY <2>3 DEF Good, StandsFor
          <6> QED BY <1>1, <1>2, <2>3, <4>3, <6>1, KeyFacts DEF LibInv
        <5>4. /\ now.text = e.content.text /\ now.hash = e.hash /\ now.what = row.what /\ now.origin = row.origin
              /\ now.refs = {r \in row.refs : r[2] = "edge"} \union Taken(p, order, e)
          <6>1. /\ Updated(p, order, row, e).text = e.content.text
                /\ Updated(p, order, row, e).hash = e.hash
                /\ Updated(p, order, row, e).refs = {r \in row.refs : r[2] = "edge"} \union Taken(p, order, e)
                /\ Updated(p, order, row, e).what = row.what
                /\ Updated(p, order, row, e).origin = row.origin
            BY <2>4, <4>3
          <6> QED BY <5>2, <6>1
        <5>5. e.what = row.what
          BY <5>2, <5>3 DEF RowTrue, Good
        <5>6. \A r \in row.refs : r[1] \in DOMAIN lib'[i] /\ <<row.what, lib'[i][r[1]].what, r[2]>> \in made
          BY <1>1, <2>7, <5>3 DEF RowTrue, Grown
        <5>7. row.origin # NoKey =>
                 StandsFor(lib', row.origin) /\ row.what = What(lib', row.origin) /\ row.origin[1] # i
          BY <2>9, <5>3 DEF RowTrue
        <5>8. \A r \in now.refs : r[1] \in DOMAIN lib'[i] /\ <<now.what, lib'[i][r[1]].what, r[2]>> \in made
          BY <2>8, <5>4, <5>5, <5>6
        <5> HIDE DEF row
        <5> QED BY <4>3, <5>3, <5>4, <5>7, <5>8 DEF RowTrue
      <4>4. CASE j = i /\ n \notin DOMAIN lib[i]
        <5>1. PICK h \in DOMAIN order : lib'[i][n] = Created(p, order, order[h])
          BY <2>2, <2>6, <3>1, <4>4 DEF Added
        <5> DEFINE e == order[h]
                   now == lib'[i][n]
        <5>2. e \in p.create /\ Good(lib, made, e) /\ (single => e.hash = e.content) /\ e.key[1] # i
          BY <2>3
        <5>3. /\ now.text = e.content.text /\ now.hash = e.hash /\ now.what = e.what /\ now.origin = e.key
              /\ now.refs = Taken(p, order, e)
          BY <5>1, CreatedFields
        <5>4. StandsFor(lib', e.key) /\ e.what = What(lib', e.key)
          BY <2>9, <5>2 DEF Good
        <5>5. \A r \in now.refs : r[1] \in DOMAIN lib'[i] /\ <<now.what, lib'[i][r[1]].what, r[2]>> \in made
          BY <2>8, <5>2, <5>3
        <5> HIDE DEF e
        <5> QED BY <4>4, <5>2, <5>3, <5>4, <5>5 DEF RowTrue
      <4> QED BY <4>1, <4>2, <4>3, <4>4
    <3>2. ASSUME NEW j \in Instances, NEW m \in DOMAIN lib'[j], NEW n \in DOMAIN lib'[j],
                 lib'[j][m].origin = lib'[j][n].origin, lib'[j][m].origin # NoKey
          PROVE  m = n
      <4>1. \A k \in DOMAIN lib[j] : lib'[j][k].origin = lib[j][k].origin
        BY <2>7 DEF Grown
      <4>2. \A k, l \in DOMAIN lib[j] : lib[j][k].origin = lib[j][l].origin => k = l \/ lib[j][k].origin = NoKey
        BY <1>2 DEF LibInv
      <4>3. CASE m \in DOMAIN lib[j] /\ n \in DOMAIN lib[j]
        BY <3>2, <4>1, <4>2, <4>3
      <4>4. ASSUME NEW k \in DOMAIN lib'[j], k \notin DOMAIN lib[j]
            PROVE  /\ j = i /\ k - size \in DOMAIN order /\ lib'[i][k].origin = order[k - size].key
                   /\ order[k - size] \in p.create /\ k \in Nat
        <5>1. j = i
          BY <2>6, <4>4 DEF Added
        <5>2. k - size \in DOMAIN order /\ lib'[i][k] = Created(p, order, order[k - size])
          BY <2>2, <2>6, <4>4, <5>1 DEF Added, size
        <5>3. k \in Nat
          BY <2>7, <4>4
        <5>4. Created(p, order, order[k - size]).origin = order[k - size].key
          BY CreatedFields
        <5> QED BY <2>3, <5>1, <5>2, <5>3, <5>4
      <4>5. ASSUME NEW k \in DOMAIN lib[j], NEW l \in DOMAIN lib'[j], l \notin DOMAIN lib[j],
                   lib'[j][k].origin = lib'[j][l].origin
            PROVE  lib'[j][k].origin = NoKey
        <5>1. j = i /\ lib'[i][l].origin \notin Known(i)
          BY <2>3, <4>4, <4>5
        <5> QED BY <4>1, <4>5, <5>1 DEF Known, Ids
      <4>6. CASE m \notin DOMAIN lib[j] /\ n \notin DOMAIN lib[j]
        <5>1. order[m - size].key = order[n - size].key
          BY <3>2, <4>4, <4>6
        <5>2. m - size = n - size
          BY <2>3, <4>4, <4>6, <5>1
        <5>3. size \in Nat /\ m \in Nat /\ n \in Nat
          BY <1>1, <1>2, <4>4, <4>6 DEF size
        <5> QED BY <5>2, <5>3
      <4> QED BY <3>2, <4>3, <4>5, <4>6
    <3> QED BY <3>1, <3>2 DEF LibInv
  <2>11. LibInv(lib', made') /\ made \subseteq made'
    BY <1>2, <2>10
  <2> QED BY <1>2, <1>3, <1>4, <2>7, <2>11, GrownKeeps
<1> QED BY <1>5, <1>6 DEF ImportApply

LEMMA BundleStep ==
    ASSUME BundleInv, [BundleNext]_bundleVars
    PROVE  BundleInv'
<1>1. CASE \E i \in Instances, kind \in RecordKinds : Write(i, kind)
  BY <1>1, WriteKeeps
<1>2. CASE \E i \in Instances : \E id \in Ids(i) : Edit(i, id)
  BY <1>2, EditKeeps
<1>3. CASE \E w \in Workers, i \in Instances, name \in BundleNames, targets \in BOOLEAN :
              \E S \in SUBSET Ids(i) : ExportGather(w, i, S, targets, name)
  BY <1>3, GatherKeeps
<1>4. ASSUME NEW w \in Workers, ExportFiles(w) \/ ExportManifest(w) \/ ImportApply(w) \/ Crash(w)
      PROVE  BundleInv'
  BY <1>4, FilesKeep, ManifestKeeps, ImportApplyKeeps, CrashKeeps
<1>5. CASE \E w \in Workers, i \in Instances, d \in DOMAIN disk : DryRun(w, i, d)
  <2>1. DOMAIN disk = Places
    BY DEF BundleInv, BundleTypeOK
  <2> QED BY <1>5, <2>1, DryRunKeeps
<1>6. CASE \E w \in Workers, overwrite \in BOOLEAN :
              /\ proc[w].op = "reported"
              /\ \E skip \in SUBSET {e.key : e \in proc[w].loaded} : ImportRead(w, skip, overwrite)
  BY <1>6, ImportReadKeeps
<1>7. CASE UNCHANGED bundleVars
  <2>1. UNCHANGED <<lib, disk, proc, made, single>>
    BY <1>7 DEF bundleVars
  <2>2. BundleTypeOK' /\ Grown(lib, lib') /\ LibInv(lib', made')
    BY <2>1 DEF BundleInv, BundleTypeOK, Grown
  <2> QED BY <2>1, <2>2, GrownKeeps
<1> QED BY <1>1, <1>2, <1>3, <1>4, <1>5, <1>6, <1>7 DEF BundleNext

LEMMA BundleFound ==
    ASSUME BundleInv, NEW i \in Instances
    PROVE  CopiesAreTrue(i) /\ WarnedBefore(i) /\ (single => HashIsOfTheText(i))
<1>1. /\ \A n \in DOMAIN lib[i] : RowTrue(lib, made, i, n)
      /\ \A m, n \in DOMAIN lib[i] : lib[i][m].origin = lib[i][n].origin => m = n \/ lib[i][m].origin = NoKey
  BY DEF BundleInv, LibInv
<1>2. CopiesAreTrue(i)
  BY <1>1 DEF CopiesAreTrue, RowTrue, Ids
<1>3. single => HashIsOfTheText(i)
  BY <1>1 DEF HashIsOfTheText, RowTrue, Ids
<1> QED BY <1>2, <1>3, WarnedAlways

\* What a dry run found whole is resolved whole.
LEMMA ForetoldAlways ==
    ASSUME BundleInv, NEW w \in Workers
    PROVE  DryRunForetells(w)
<1> DEFINE p == proc[w]
<1> SUFFICES ASSUME p.op = "import", p.foretold, NEW order \in Orders(p.inst, p.create)
             PROVE  Dropped(p, order) = {}
  BY DEF DryRunForetells
<1>1. p \in Imports /\ p.inst \in Instances /\ p.create \in SUBSET Arrivals /\ ImportTrue(lib, made, p)
  <2>1. p \in BundleCalls /\ CallTrue(lib, made, disk, p)
    BY DEF BundleInv, BundleTypeOK
  <2>2. p \in Imports
    BY <2>1, CallFacts DEF Imports
  <2> QED BY <2>1, <2>2 DEF CallTrue, Imports
<1>2. \A e \in p.create \union p.update : \A r \in e.content.refs :
         r[1] \in KeysOf(p.create) \union p.known \union {key \in Keys : key[1] = p.inst}
  BY <1>1 DEF ImportTrue
<1> HIDE DEF p
<1>3. \A e \in p.create : \E n \in DOMAIN order : order[n] = e
  BY <1>1, OrderFacts
<1>4. ASSUME NEW key \in KeysOf(p.create) \union p.known \union {key \in Keys : key[1] = p.inst}
      PROVE  Resolve(p, order, key) # {}
  <2> DEFINE here == {n \in DOMAIN order : order[n].key = key}
  <2>1. here = {} => key \notin KeysOf(p.create)
    BY <1>3 DEF KeysOf
  <2> QED BY <1>4, <2>1 DEF Resolve
<1> QED BY <1>2, <1>4 DEF Dropped

\* Whatever is written, edited, exported and imported, by however many workers between
\* however many instances, and whenever one goes down: what an instance took over it
\* has once, with references that somebody made between those very records, and, one
\* export at a time, with the text its hash was taken of; a choice of records that
\* draws no warning exports no dangling reference; and what a dry run found whole is
\* taken over without dropping one. (export_bundle_service.py, import_bundle_service.py)
THEOREM BundlesAlwaysTrue == BundleSpec => BundlesAreTrue
<1>1. BundleInit => BundleInv
  BY BundleInitial
<1>2. BundleInv /\ [BundleNext]_bundleVars => BundleInv'
  BY BundleStep
<1>3. BundleInv => \A i \in Instances : CopiesAreTrue(i) /\ WarnedBefore(i) /\ (single => HashIsOfTheText(i))
  BY BundleFound
<1>4. BundleInv /\ [BundleNext]_bundleVars => [\A w \in Workers : DryRunForetells(w)]_bundleVars
  BY ForetoldAlways
<1> QED BY <1>1, <1>2, <1>3, <1>4, PTL DEF BundleSpec, BundlesAreTrue
================================================================================
