------------------------------- MODULE Relations -------------------------------
(***************************************************************************)
(* The directed relations between decisions and between activities         *)
(* (relation_service.py), the pins that follow a superseding               *)
(* (pin_service.py), the settling of destabilised decisions                *)
(* (destabilization_service.py) and retraction.                            *)
(*                                                                         *)
(* A call has a connection of its own.  What it reads before its first     *)
(* write is outside the transaction of its writes, so that add_relation    *)
(* looks for a path from its first target before it holds the write lock,  *)
(* and from the others while it does.                                      *)
(***************************************************************************)
EXTENDS Naturals, FiniteSets

CONSTANTS Callers,       \* tool calls under way at a time
          Decisions, Activities,
          Others,        \* further entities pins may join: tags, topics, logs, materials
          Kinds,         \* the relations the callers use
          Resolutions,   \* the resolutions the callers give
          Dangling,      \* may revised_to_decision_id name no decision?
          Retractable,   \* bound: the decisions the callers retract
          Overlap,       \* do calls overlap?
          Failures       \* do calls fail at any point?

Relation == {"replaces", "destabilizes", "depends_on"}
Resolution == {"reaffirmed", "revised", "retracted"}

ASSUME KindsAssumption == Kinds \subseteq Relation /\ Resolutions \subseteq Resolution
ASSUME RetractableAssumption == Retractable \subseteq Decisions
ASSUME SwitchAssumption == Overlap \in BOOLEAN /\ Failures \in BOOLEAN /\ Dangling \subseteq BOOLEAN

VARIABLES
    edges,      \* decision_supersedes by kind, and activity_dependencies
    pins,
    retracted,  \* decisions whose retracted_at is set
    resolved,   \* decision_destabilization_resolutions, by edge
    call        \* what each call knows; history: "overtaken", another has stored an edge of
                \* the graph since the search, "undone", another has undone the retraction

vars == <<edges, pins, retracted, resolved, call>>

Members(k) == IF k = "depends_on" THEN Activities ELSE Decisions
Entities == Decisions \union Others

Idle == [pc |-> "idle"]
AddCall(k) == {r \in [pc : {"add"}, kind : {k}, source : Members(k), targets : SUBSET Members(k),
                       first : Members(k), overtaken : BOOLEAN] :
                  r.first \in r.targets /\ r.source \notin r.targets}
ResolveCall == [pc : {"retract", "record"}, source : Decisions, target : Decisions,
                resolution : Resolution, dangling : BOOLEAN, undone : BOOLEAN]
Call == {Idle} \union (UNION {AddCall(k) : k \in Relation}) \union ResolveCall

Init ==
    /\ edges = [k \in Relation |-> {}]
    /\ pins = {}
    /\ retracted = {}
    /\ resolved = [e \in Decisions \X Decisions |-> "none"]
    /\ call = [c \in Callers |-> Idle]

Become(c, r) == call' = [call EXCEPT ![c] = r]
Return(c) == Become(c, Idle)
MayStart(c) ==
    /\ call[c] = Idle
    /\ Overlap \/ \A d \in Callers : call[d] = Idle

--------------------------------------------------------------------------------
\* The depth-first search: b is found from a exactly when every set that holds a
\* and is closed under the edges holds b.
ClosedUnder(R, E) == \A e \in E : e[1] \in R => e[2] \in R
Reaches(N, E, a, b) == \A R \in SUBSET N : a \in R /\ ClosedUnder(R, E) => b \in R

\* Supersedes and destabilizes are searched together, whatever their kind.
Graph(k) ==
    IF k = "depends_on" THEN edges["depends_on"]
    ELSE edges["replaces"] \union edges["destabilizes"]

\* A target equal to the source is skipped; a call with a path from its first
\* target back to its source is refused before it has written anything.
AddRelationCheck(c) ==
    /\ MayStart(c)
    /\ \E k \in Kinds : \E s \in Members(k), T \in SUBSET Members(k) : \E t \in T \ {s} :
          /\ ~Reaches(Members(k), Graph(k), t, s)
          /\ Become(c, [pc |-> "add", kind |-> k, source |-> s, targets |-> T \ {s}, first |-> t,
                       overtaken |-> FALSE])
    /\ UNCHANGED <<edges, pins, retracted, resolved>>

ClosesCycle_OwnKind(r) ==
    \E t \in r.targets \ {r.first} :
       Reaches(Members(r.kind), edges[r.kind] \union {<<r.source, r.first>>}, t, r.source)

\* The further targets are searched from in the transaction, which has the first
\* edge already.  The edges all leave the source, so their order is immaterial.
ClosesCycle(r) ==
    \E t \in r.targets \ {r.first} :
       Reaches(Members(r.kind), Graph(r.kind) \union {<<r.source, r.first>>}, t, r.source)

\* _transfer_pins_with_conn for each decision that is newly superseded: pins from
\* and to it become pins from and to the new one, merged with those it has, and a
\* pin between the two disappears.
TransferPins_TargetsOnly(olds, new) ==
    LET now(x) == IF x \in olds THEN new ELSE x
    IN  {<<p[1], now(p[2])>> : p \in {q \in pins : q[1] \notin olds}} \ {<<new, new>>}

TransferPins(olds, new) ==
    LET now(x) == IF x \in olds THEN new ELSE x
    IN  {<<now(p[1]), now(p[2])>> : p \in pins} \ {<<new, new>>}

SameGraph(k, l) == k = "depends_on" <=> l = "depends_on"

\* The call returns. Those that have searched the graph it has added to are overtaken.
ReturnAdding(c, k, new) ==
    call' = [d \in Callers |->
               IF d = c THEN Idle
               ELSE IF call[d].pc = "add" /\ SameGraph(call[d].kind, k) /\ ~(new \subseteq Graph(k))
               THEN [call[d] EXCEPT !.overtaken = TRUE] ELSE call[d]]

AddRelationWrite(c) ==
    LET r == call[c] IN
    /\ r.pc = "add" /\ ~ClosesCycle(r)
    /\ edges' = [edges EXCEPT ![r.kind] = @ \union ({r.source} \X r.targets)]
    /\ pins' = IF r.kind = "replaces"
               THEN TransferPins({t \in r.targets : <<r.source, t>> \notin edges["replaces"]}, r.source)
               ELSE pins
    /\ ReturnAdding(c, r.kind, {r.source} \X r.targets)
    /\ UNCHANGED <<retracted, resolved>>

\* A search that finds a path rolls back what the call has inserted.
AddRelationRefused(c) ==
    /\ call[c].pc = "add" /\ ClosesCycle(call[c])
    /\ Return(c)
    /\ UNCHANGED <<edges, pins, retracted, resolved>>

\* Destabilizes edges are not removed.  The pins a superseding moved stay moved.
RemoveRelation(c) ==
    /\ MayStart(c)
    /\ \E k \in Kinds \ {"destabilizes"} : \E s \in Members(k), T \in SUBSET Members(k) :
          edges' = [edges EXCEPT ![k] = @ \ ({s} \X (T \ {s}))]
    /\ UNCHANGED <<pins, retracted, resolved, call>>

--------------------------------------------------------------------------------

\* A run without Others has no pins.
AddPin(c) ==
    /\ MayStart(c)
    /\ \E x, y \in Entities : Others # {} /\ x # y /\ pins' = pins \union {<<x, y>>}
    /\ UNCHANGED <<edges, retracted, resolved, call>>

RemovePin(c) ==
    /\ MayStart(c)
    /\ \E p \in pins : pins' = pins \ {p}
    /\ UNCHANGED <<edges, retracted, resolved, call>>

--------------------------------------------------------------------------------
\* The retract tool, and its undo.
Retract(c) ==
    /\ MayStart(c)
    /\ \E d \in Retractable : retracted' = retracted \union {d}
    /\ UNCHANGED <<edges, pins, resolved, call>>

Unretract(c) ==
    /\ MayStart(c)
    /\ \E d \in Retractable :
          /\ retracted' = retracted \ {d}
          /\ call' = [u \in Callers |-> IF call[u].pc = "record" /\ call[u].target = d
                                        THEN [call[u] EXCEPT !.undone = TRUE] ELSE call[u]]
    /\ UNCHANGED <<edges, pins, resolved>>

ResolveArgs(s, t, r, dang) ==
    [pc |-> IF r = "retracted" THEN "retract" ELSE "record",
     source |-> s, target |-> t, resolution |-> r, dangling |-> dang, undone |-> FALSE]

ResolveCheck_RecordOnly(c) ==
    /\ MayStart(c)
    /\ \E s, t \in Decisions, r \in Resolutions, dang \in Dangling :
          /\ resolved[<<s, t>>] = "none"
          /\ Become(c, [ResolveArgs(s, t, r, dang) EXCEPT !.pc = "record"])
    /\ UNCHANGED <<edges, pins, retracted, resolved>>

\* resolve_destabilization returns at once when the edge is resolved already; it
\* does not look for the edge itself.
ResolveCheck(c) ==
    /\ MayStart(c)
    /\ \E s, t \in Decisions, r \in Resolutions, dang \in Dangling :
          /\ resolved[<<s, t>>] = "none"
          /\ Become(c, ResolveArgs(s, t, r, dang))
    /\ UNCHANGED <<edges, pins, retracted, resolved>>

\* retract_service commits on a connection of its own before the row is written.
ResolveRetract(c) ==
    /\ call[c].pc = "retract"
    /\ retracted' = retracted \union {call[c].target}
    /\ Become(c, [call[c] EXCEPT !.pc = "record"])
    /\ UNCHANGED <<edges, pins, resolved>>

\* The insert fails on the primary key when the edge has been resolved meanwhile,
\* and on the foreign key when revised_to_decision_id names no decision.
ResolveRecord_Replaces(c) ==
    LET e == <<call[c].source, call[c].target>> IN
    /\ call[c].pc = "record"
    /\ resolved' = [resolved EXCEPT ![e] = IF ~call[c].dangling THEN call[c].resolution ELSE @]
    /\ Return(c)
    /\ UNCHANGED <<edges, pins, retracted>>

ResolveRecord(c) ==
    LET e == <<call[c].source, call[c].target>> IN
    /\ call[c].pc = "record"
    /\ resolved' = [resolved EXCEPT ![e] =
                      IF @ = "none" /\ ~call[c].dangling THEN call[c].resolution ELSE @]
    /\ Return(c)
    /\ UNCHANGED <<edges, pins, retracted>>

--------------------------------------------------------------------------------
\* The write lock times out, or the server dies: the open transaction is undone.
CallFails(c) ==
    /\ Failures /\ call[c] # Idle
    /\ Return(c)
    /\ UNCHANGED <<edges, pins, retracted, resolved>>

Next ==
    \E c \in Callers :
       \/ AddRelationCheck(c) \/ AddRelationWrite(c) \/ AddRelationRefused(c) \/ RemoveRelation(c)
       \/ AddPin(c) \/ RemovePin(c) \/ Retract(c) \/ Unretract(c)
       \/ ResolveCheck(c) \/ ResolveRetract(c) \/ ResolveRecord(c)
       \/ CallFails(c)

Spec == Init /\ [][Next]_vars

--------------------------------------------------------------------------------
TypeOK ==
    /\ edges \in [Relation -> SUBSET ((Decisions \union Activities) \X (Decisions \union Activities))]
    /\ \A k \in Relation : edges[k] \subseteq Members(k) \X Members(k)
    /\ pins \subseteq Entities \X Entities
    /\ retracted \subseteq Decisions
    /\ resolved \in [Decisions \X Decisions -> Resolution \union {"none"}]
    /\ call \in [Callers -> Call]

\* An edge that is stored closes no cycle, through edges of either kind, unless it is
\* the one edge of its call that was searched for before the call had the write lock,
\* and another call has stored an edge of the graph since. The searches of
\* add_relation are to ensure it; the transitive readers (compute_supersede_info,
\* get_map) and whoever looks for the decision that is in force rely on it.
ClosesAfter(k, e) == Reaches(Members(k), Graph(k)', e[2], e[1])
OnlyRacesCloseCycles ==
    [][\A k \in Relation : \A e \in Graph(k)' \ Graph(k) : ClosesAfter(k, e) =>
          \E c \in Callers : /\ call[c].pc = "add" /\ call[c].overtaken
                             /\ e = <<call[c].source, call[c].first>>]_vars

\* Hence there is no cycle before there is a race: every set of decisions or of
\* activities holds one that leads to none of the set.
Acyclic(N, E) == \A S \in (SUBSET N) \ {{}} : \E x \in S : \A y \in S : <<x, y>> \notin E
NoCycles == \A k \in Relation : Acyclic(Members(k), Graph(k))

\* Nothing ever pins itself: add_pin refuses it, and the transfers of a superseding
\* never make such a pin, whatever pins and supersedings came before.
NoSelfPins == \A p \in pins : p[1] # p[2]

\* A pin is only lost to remove_pin, or to a superseding that gives each end that
\* is superseded its superseder: what was pinned stays pinned in the decision that
\* took its place, unless the two ends became one.
Heir(x, y) == y = x \/ <<y, x>> \in edges'["replaces"]
KeepsPins ==
    \A p \in pins \ pins' :
       \/ pins' = pins \ {p} /\ UNCHANGED edges
       \/ \E x, y \in Entities : Heir(p[1], x) /\ Heir(p[2], y) /\ (x = y \/ <<x, y>> \in pins')

PinsAreKept == [][KeepsPins]_vars

\* However the settlings of an edge overlap with each other and with retractions, and
\* wherever they die: the first verdict stands, and "retracted" is only recorded of a
\* decision that is, unless somebody has undone that since. (The reverse is not so: a
\* decision may be left retracted by a call that comes to nothing.)
VerdictsAreTrue ==
    [][\A e \in Decisions \X Decisions : resolved'[e] # resolved[e] =>
          /\ resolved[e] = "none"
          /\ resolved'[e] = "retracted" =>
                \/ e[2] \in retracted
                \/ \E c \in Callers : call[c].pc = "record" /\ call[c].target = e[2] /\ call[c].undone]_vars

================================================================================
