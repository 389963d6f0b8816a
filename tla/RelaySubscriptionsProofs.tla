---------------------- MODULE RelaySubscriptionsProofs ----------------------
(***************************************************************************)
(* Proofs about the declarations of subscriptions, for any number of       *)
(* sessions, label sets, ids and calls: type correctness; one entry per    *)
(* label set, however loads and saves overlap; that no lease lapses while  *)
(* the loop is in time and nothing fails; and that a new subscription      *)
(* stays declared while loads and saves do not overlap, through teardowns, *)
(* sweeps, restarts of the server and a relay that forgets.                *)
(*                                                                         *)
(* And, at the end, about posts, publishes and the saves of the            *)
(* declaration file (RelayPublish), for any number of speakers, calls and  *)
(* files: a post is stored once and its stream joined unless something     *)
(* failed, and the file is whole unless two saves shared the temporary one.*)
(*                                                                         *)
(* And about the table of the sessions at work (SessionAliases), for any   *)
(* number of sessions, titles and wishes: no alias is given twice, and a   *)
(* session is listed by the alias it was answered.                         *)
(***************************************************************************)
EXTENDS RelaySubscriptions, RelayPublish, SessionAliases, TLAPS, FiniteSetTheorems, WellFoundedInduction

\* In every copy of a declaration, label sets and ids are distinct.
Distinct(entries) ==
    \A e, f \in entries : e.labels = f.labels \/ e.id = f.id => e = f

CopiesDistinct ==
    /\ \A s \in Sessions : Distinct(decl[s])
    /\ \A c \in Callers : Distinct(call[c].mem)
    /\ Distinct(loop.mem)

\* The loop holds a loaded declaration only while it works on an action, and
\* has actions to do only while it acts.
Working == {"renew", "post", "save"}
AtRest ==
    /\ \A c \in Callers : call[c].pc = "idle" => call[c].mem = {}
    /\ loop.pc \notin Working => loop.mem = {}
    /\ loop.pc \notin Working \union {"act"} => loop.todo = {}

\* Once the loop has scanned, what is not fresh is on its list or under way, in
\* the declaration and in the copy the loop has loaded and not yet renewed.
Due(s, e) == \E a \in loop.todo : a.s = s /\ a.entry.id = e.id
UnderWay(s, e) == loop.act.s = s /\ loop.act.entry.id = e.id

Covered ==
    scanned =>
    /\ \A s \in active : \A e \in decl[s] :
         e.age # "fresh" => Due(s, e) \/ (loop.pc \in Working /\ UnderWay(s, e))
    /\ loop.pc \in Working /\ loop.act.s \in active => \A e \in loop.mem :
         e.age # "fresh" => Due(loop.act.s, e) \/ (loop.pc # "save" /\ UnderWay(loop.act.s, e))

\* The relay holds at least the lease that any copy of an entry tells of.
Lives(r, entries) ==
    \A e \in entries : /\ e.age \in {"fresh", "due"}
                       /\ r[e.id] # "none"
                       /\ e.age = "fresh" => r[e.id] = "fresh"

LeaseInv ==
    /\ \A s \in Sessions : Lives(relay, decl[s]) /\ (decl[s] # {} => s \in active) /\ td[s].pc = "idle"
    /\ \A c \in Callers : Lives(relay, call[c].mem) /\ (call[c].pc # "idle" => call[c].s \in active)
    /\ Lives(relay, loop.mem) /\ (loop.pc \in Working => loop.act.s \in active)
    /\ \A a \in loop.todo : a.s \in active

\* Loads and saves that do not overlap: whoever writes is alone.
TdBusy(s) == td[s].pc \in {"schedule", "delete", "files"}
OneWriter ==
    /\ \A c \in Callers : call[c].pc # "idle" =>
        /\ \A d \in Callers : call[d].pc # "idle" => c = d
        /\ loop.pc \notin Working /\ orphans = {} /\ \A s \in Sessions : ~TdBusy(s)
    /\ loop.pc \in Working => orphans = {} /\ \A s \in Sessions : ~TdBusy(s)
    /\ orphans # {} => \A s \in Sessions : ~TdBusy(s)
    /\ \A s, t \in Sessions : TdBusy(s) /\ TdBusy(t) => s = t

\* What was granted anew is declared with a lease that no sweep takes for an
\* orphan's and an id that no teardown t has in its snapshot, and so it is in the
\* copy of whoever is about to save.
Stands(t, e) == e.age \in {"fresh", "due"} /\ (t.pc = "compare" => e.id \notin t.ids)
Holds(new, t, entries) ==
    \A ls \in new : \E e \in entries : e.labels = ls /\ Stands(t, e)

GrantInv ==
    /\ \A s \in Sessions :
        /\ s \notin exists => decl[s] = {}
        /\ Holds(granted[s].new, td[s], decl[s])
        /\ TdBusy(s) \/ s \in orphans => granted[s].new = {}
    /\ \A c \in Callers : LET s == call[c].s IN
        /\ call[c].pc = "create" => s \notin exists
        /\ call[c].pc \in {"create", "find"} => call[c].mem = decl[s]
        /\ call[c].pc = "save" => Holds(granted[s].new \union {call[c].labels}, td[s], call[c].mem)
    /\ loop.pc \in Working =>
        LET s == loop.act.s IN Holds(granted[s].new, td[s], loop.mem)

-----------------------------------------------------------------------------
(* Entries *)

LEMMA AgedEntries ==
    ASSUME NEW S \in SUBSET Entries
    PROVE  /\ AgeEntries(S) \subseteq Entries
           /\ \A x \in AgeEntries(S) : \E e \in S :
                x = [labels |-> e.labels, id |-> e.id, age |-> Older[e.age]]
           /\ \A e \in S : [labels |-> e.labels, id |-> e.id, age |-> Older[e.age]] \in AgeEntries(S)
<1>1. \A a \in Ages : Older[a] \in Ages
  BY DEF Ages, Older
<1>2. \A e \in S : [e EXCEPT !.age = Older[@]] = [labels |-> e.labels, id |-> e.id, age |-> Older[e.age]]
  BY DEF Entries
<1> QED BY <1>1, <1>2 DEF AgeEntries, Entries

\* The entries after the current one was renewed, or created anew, as i.
LEMMA ReplacedEntries ==
    ASSUME loop.mem \subseteq Entries, NEW i \in Ids
    PROVE  /\ Replace(i) \subseteq Entries
           /\ \A x \in Replace(i) : \/ x \in loop.mem /\ x.id # loop.act.entry.id
                                    \/ \E e \in loop.mem : /\ e.id = loop.act.entry.id
                                                           /\ x = [labels |-> e.labels, id |-> i, age |-> "fresh"]
           /\ \A e \in loop.mem :
                \/ e.id # loop.act.entry.id /\ e \in Replace(i)
                \/ e.id = loop.act.entry.id /\ [labels |-> e.labels, id |-> i, age |-> "fresh"] \in Replace(i)
BY DEF Replace, Entries, Ages

-----------------------------------------------------------------------------
(* Type correctness *)

LEMMA InitType == Init => TypeOK
<1> SUFFICES ASSUME Init PROVE TypeOK
  OBVIOUS
<1> USE DEF Init
<1>1. call \in [Callers -> Calls] /\ \A c \in Callers : call[c].pc = "idle"
  BY DEF Calls, NoCall
<1>2. loop \in Loops /\ loop.pc = "start"
  BY DEF Loops, NoLoop
<1>3. td \in [Sessions -> Teardowns]
  BY DEF Teardowns, NoTeardown
<1>4. granted \in [Sessions -> [all : SUBSET Labels, new : SUBSET Labels]]
  BY DEF NoGrant
<1>5. \A s \in Sessions : granted[s].new \subseteq granted[s].all
  BY DEF NoGrant
<1> QED BY <1>1, <1>2, <1>3, <1>4, <1>5 DEF TypeOK

LEMMA SavedCall ==
    ASSUME NEW f \in [Callers -> Calls], NEW c \in Callers, NEW m \in SUBSET Entries
    PROVE  [f EXCEPT ![c].pc = "save", ![c].mem = m] \in [Callers -> Calls]
<1>1. [f EXCEPT ![c].pc = "save", ![c].mem = m] = [f EXCEPT ![c] = [f[c] EXCEPT !.pc = "save", !.mem = m]]
  OBVIOUS
<1>2. [f[c] EXCEPT !.pc = "save", !.mem = m] \in Calls
  BY DEF Calls
<1> QED BY <1>1, <1>2

LEMMA AgedCalls ==
    ASSUME NEW f \in [Callers -> Calls],
           NEW g, g = [c \in Callers |-> [f[c] EXCEPT !.mem = AgeEntries(@)]]
    PROVE  /\ g \in [Callers -> Calls]
           /\ \A c \in Callers : /\ g[c].pc = f[c].pc /\ g[c].s = f[c].s /\ g[c].labels = f[c].labels
                                 /\ g[c].mem = AgeEntries(f[c].mem)
<1>1. \A c \in Callers : f[c] \in Calls /\ f[c].mem \in SUBSET Entries
  BY DEF Calls
<1>2. \A c \in Callers : AgeEntries(f[c].mem) \in SUBSET Entries
  BY <1>1, AgedEntries
<1> QED BY <1>1, <1>2 DEF Calls

LEMMA NextType == TypeOK /\ [Next]_vars => TypeOK'
<1> SUFFICES ASSUME TypeOK, [Next]_vars PROVE TypeOK'
  OBVIOUS
<1> USE DEF TypeOK, Calls, Loops, Teardowns, NoCall, NoTeardown, NoGrant
<1>1. ASSUME NEW c \in Callers, Subscribe(c) PROVE TypeOK'
  <2>1. ASSUME NEW s \in Sessions, NEW ls \in Labels, SubLoad(c, s, ls) PROVE TypeOK'
    BY <2>1 DEF SubLoad
  <2>2. CASE SubCreate(c)
    <3>1. call' \in [Callers -> Calls]
      <4>1. call' = [call EXCEPT ![c] = [call[c] EXCEPT !.pc = "find"]]
        BY <2>2 DEF SubCreate
      <4>2. call \in [Callers -> Calls] /\ call[c] \in Calls
        OBVIOUS
      <4> HIDE DEF TypeOK
      <4>3. [call[c] EXCEPT !.pc = "find"] \in Calls
        BY <4>2
      <4> HIDE DEF Calls
      <4> QED BY <4>1, <4>2, <4>3
    <3>2. \A d \in Callers : call'[d].s = call[d].s /\ call'[d].labels = call[d].labels
                             /\ (d # c => call'[d].pc = call[d].pc)
      BY <2>2 DEF SubCreate
    <3>3. exists' \subseteq Sessions /\ decl' \in [Sessions -> SUBSET Entries]
      BY <2>2 DEF SubCreate
    <3> QED BY <2>2, <3>1, <3>2, <3>3 DEF SubCreate
  <2>3. CASE SubReuse(c)
    <3>1. granted' \in [Sessions -> [all : SUBSET Labels, new : SUBSET Labels]]
      BY <2>3 DEF SubReuse, Grant
    <3>2. \A s \in Sessions : granted'[s].new \subseteq granted'[s].all
      BY <2>3 DEF SubReuse, Grant
    <3>3. call' = [call EXCEPT ![c] = NoCall] /\ call' \in [Callers -> Calls]
      BY <2>3 DEF SubReuse
    <3> QED BY <2>3, <3>1, <3>2, <3>3 DEF SubReuse
  <2>4. CASE SubPost(c)
    <3> DEFINE E(i) == [labels |-> call[c].labels, id |-> i, age |-> "fresh"]
    <3>1. PICK i \in FreeIds :
            /\ relay' = [relay EXCEPT ![i] = "fresh"]
            /\ call' = [call EXCEPT ![c].pc = "save", ![c].mem = Upsert(call[c].mem, E(i))]
      BY <2>4 DEF SubPost
    <3>2. i \in Ids /\ call[c] \in Calls /\ call[c].s \in Sessions /\ call[c].labels \in Labels
      BY <2>4 DEF SubPost, FreeIds
    <3>3. Upsert(call[c].mem, E(i)) \in SUBSET Entries
      BY <3>2 DEF Upsert, FindLabels, Entries, Ages
    <3>4. call' \in [Callers -> Calls]
      <4> DEFINE m == Upsert(call[c].mem, E(i))
      <4>1. call' = [call EXCEPT ![c].pc = "save", ![c].mem = m]
        BY <3>1
      <4>2. m \in SUBSET Entries /\ call \in [Callers -> Calls]
        BY <3>3
      <4> HIDE DEF m
      <4> QED BY <4>1, <4>2, SavedCall
    <3>5. \A d \in Callers : call'[d].s = call[d].s /\ call'[d].labels = call[d].labels
                             /\ (d # c => call'[d].pc = call[d].pc)
      BY <3>1
    <3>6. relay' \in [Ids -> {"fresh", "due", "none"}]
      BY <3>1
    <3> QED BY <2>4, <3>2, <3>4, <3>5, <3>6 DEF SubPost
  <2>5. CASE SubFails(c)
    BY <2>5 DEF SubFails
  <2>6. CASE SubSave(c)
    <3>1. granted' \in [Sessions -> [all : SUBSET Labels, new : SUBSET Labels]]
      BY <2>6 DEF SubSave, Grant
    <3>2. \A s \in Sessions : granted'[s].new \subseteq granted'[s].all
      BY <2>6 DEF SubSave, Grant
    <3> QED BY <2>6, <3>1, <3>2 DEF SubSave
  <2> QED BY <1>1, <2>1, <2>2, <2>3, <2>4, <2>5, <2>6 DEF Subscribe
<1>2. CASE Renewal
  <2>1. CASE LoopScan
    <3>1. RenewActions \subseteq Actions
      BY DEF RenewActions, Actions
    <3> QED BY <2>1, <3>1 DEF LoopScan
  <2>2. CASE LoopWait
    BY <2>2 DEF LoopWait
  <2>3. CASE LoopRenew
    <3>1. loop.act.entry.id \in Ids /\ Replace(loop.act.entry.id) \subseteq Entries
      BY <2>3, ReplacedEntries DEF LoopRenew, Actions, Entries
    <3>2. loop' \in Loops /\ loop'.act = loop.act
      <4>1. \/ loop' = [loop EXCEPT !.pc = "save", !.mem = Replace(loop.act.entry.id)]
            \/ loop' = [loop EXCEPT !.pc = "post"]
        BY <2>3 DEF LoopRenew
      <4>2. loop \in Loops /\ Replace(loop.act.entry.id) \in SUBSET Entries
        BY <3>1
      <4> QED BY <4>1, <4>2
    <3>3. relay' \in [Ids -> {"fresh", "due", "none"}]
      BY <2>3, <3>1 DEF LoopRenew
    <3> QED BY <2>3, <3>2, <3>3 DEF LoopRenew
  <2>4. CASE LoopPost
    <3>1. \A i \in FreeIds : i \in Ids /\ Replace(i) \subseteq Entries
      BY ReplacedEntries DEF FreeIds
    <3>2. loop' \in Loops
      <4>1. PICK i \in FreeIds : loop' = [loop EXCEPT !.pc = "save", !.mem = Replace(i)]
        BY <2>4 DEF LoopPost
      <4>2. Replace(i) \in SUBSET Entries
        BY <3>1
      <4> QED BY <4>1, <4>2
    <3>3. relay' \in [Ids -> {"fresh", "due", "none"}]
      BY <2>4, <3>1 DEF LoopPost
    <3>4. loop'.pc = "save" /\ loop'.act = loop.act /\ loop.act \in Actions
      BY <2>4 DEF LoopPost
    <3> QED BY <2>4, <3>2, <3>3, <3>4 DEF LoopPost
  <2>5. CASE LoopFails
    BY <2>5 DEF LoopFails
  <2>6. CASE LoopSave
    BY <2>6 DEF LoopSave, Actions
  <2>7. CASE LoopEnd
    BY <2>7 DEF LoopEnd
  <2>8. ASSUME NEW a \in loop.todo, LoopLoad(a) PROVE TypeOK'
    <3>1. a \in Actions /\ a.s \in Sessions /\ a.kind \in {"renew", "post"}
      BY <2>8 DEF Actions
    <3> QED BY <2>8, <3>1 DEF LoopLoad
  <2> QED BY <1>2, <2>1, <2>2, <2>3, <2>4, <2>5, <2>6, <2>7, <2>8 DEF Renewal
<1>3. CASE Sweep
  BY <1>3 DEF Sweep, SweepScan, SweepDelete, Forget
<1>4. CASE Tick
  <2>1. call' \in [Callers -> Calls]
        /\ \A c \in Callers :
             call'[c].pc = call[c].pc /\ call'[c].s = call[c].s /\ call'[c].labels = call[c].labels
    <3> DEFINE g == [c \in Callers |-> [call[c] EXCEPT !.mem = AgeEntries(@)]]
    <3>1. call' = g /\ call \in [Callers -> Calls]
      BY <1>4 DEF Tick
    <3>2. /\ g \in [Callers -> Calls]
          /\ \A c \in Callers : g[c].pc = call[c].pc /\ g[c].s = call[c].s /\ g[c].labels = call[c].labels
      <4> HIDE DEF TypeOK, Calls
      <4> QED BY <3>1, AgedCalls
    <3> HIDE DEF g
    <3> QED BY <3>1, <3>2
  <2>2. loop' \in Loops /\ loop'.pc = loop.pc /\ loop'.act = loop.act
    <3>1. AgeEntries(loop.mem) \in SUBSET Entries
      BY AgedEntries
    <3>2. loop' = [loop EXCEPT !.mem = AgeEntries(loop.mem)]
      BY <1>4 DEF Tick
    <3> QED BY <3>1, <3>2
  <2>3. decl' \in [Sessions -> SUBSET Entries]
    <3>1. \A s \in Sessions : AgeEntries(decl[s]) \in SUBSET Entries
      BY AgedEntries
    <3> QED BY <1>4, <3>1 DEF Tick
  <2>4. relay' \in [Ids -> {"fresh", "due", "none"}]
    BY <1>4 DEF Tick
  <2>5. scanned' = FALSE /\ UNCHANGED <<active, exists, orphans, td, granted>>
    BY <1>4 DEF Tick
  <2>6. \A c \in Callers : call'[c].pc # "idle" => call'[c].s \in Sessions /\ call'[c].labels \in Labels
    BY <2>1
  <2> HIDE DEF Calls, Loops, Teardowns
  <2> QED BY <2>1, <2>2, <2>3, <2>4, <2>5, <2>6
<1>5. CASE Crash
  BY <1>5 DEF Crash, NoLoop
<1>6. ASSUME NEW s \in Sessions, Register(s) \/ Remove(s) PROVE TypeOK'
  <2>1. CASE Register(s)
    BY <2>1 DEF Register
  <2>2. CASE Remove(s)
    <3>1. granted' \in [Sessions -> [all : SUBSET Labels, new : SUBSET Labels]]
      BY <2>2 DEF Remove
    <3>2. \A t \in Sessions : granted'[t].new \subseteq granted'[t].all
      BY <2>2 DEF Remove
    <3> QED BY <2>2, <3>1, <3>2 DEF Remove
  <2> QED BY <1>6, <2>1, <2>2
<1>7. ASSUME NEW s \in Sessions, Teardown(s) PROVE TypeOK'
  <2>1. IdsOf(decl[s]) \subseteq Ids
    BY DEF IdsOf, Entries
  <2>2. CASE TeardownSchedule(s)
    BY <2>1, <2>2 DEF TeardownSchedule
  <2>3. CASE TeardownCompare(s)
    BY <2>1, <2>3 DEF TeardownCompare
  <2>4. CASE TeardownDelete(s)
    BY <2>4 DEF TeardownDelete
  <2>5. CASE TeardownFiles(s)
    BY <2>5 DEF TeardownFiles, Forget
  <2> QED BY <1>7, <2>2, <2>3, <2>4, <2>5 DEF Teardown
<1>8. ASSUME NEW i \in Ids, RelayForgets(i) PROVE TypeOK'
  BY <1>8 DEF RelayForgets
<1>9. CASE UNCHANGED vars
  BY <1>9 DEF vars
<1> QED BY <1>1, <1>2, <1>3, <1>4, <1>5, <1>6, <1>7, <1>8, <1>9 DEF Next

\* Every reachable state of the subscriptions has the types TypeOK gives it.
THEOREM TypeCorrect == Spec => []TypeOK
BY InitType, NextType, PTL DEF Spec

-----------------------------------------------------------------------------
(* Label sets and ids stay distinct in every copy of a declaration *)

LEMMA AgedDistinct ==
    ASSUME NEW S \in SUBSET Entries, Distinct(S)
    PROVE  Distinct(AgeEntries(S))
<1> SUFFICES ASSUME NEW x \in AgeEntries(S), NEW y \in AgeEntries(S), x.labels = y.labels \/ x.id = y.id
             PROVE  x = y
  BY DEF Distinct
<1>1. PICK e \in S : x = [labels |-> e.labels, id |-> e.id, age |-> Older[e.age]]
  BY AgedEntries
<1>2. PICK f \in S : y = [labels |-> f.labels, id |-> f.id, age |-> Older[f.age]]
  BY AgedEntries
<1>3. e = f
  BY <1>1, <1>2 DEF Distinct
<1> QED BY <1>1, <1>2, <1>3

LEMMA ReplacedDistinct ==
    ASSUME loop.mem \subseteq Entries, Distinct(loop.mem),
           NEW i \in Ids, i = loop.act.entry.id \/ i \notin IdsOf(loop.mem)
    PROVE  Distinct(Replace(i))
<1> SUFFICES ASSUME NEW x \in Replace(i), NEW y \in Replace(i), x.labels = y.labels \/ x.id = y.id
             PROVE  x = y
  BY DEF Distinct
<1> DEFINE Kept(z) == z \in loop.mem /\ z.id # loop.act.entry.id
           New(z, e) == e.id = loop.act.entry.id /\ z = [labels |-> e.labels, id |-> i, age |-> "fresh"]
<1>1. /\ Kept(x) \/ \E e \in loop.mem : New(x, e)
      /\ Kept(y) \/ \E e \in loop.mem : New(y, e)
  BY ReplacedEntries
<1>2. CASE Kept(x) /\ Kept(y)
  BY <1>2 DEF Distinct
<1>3. CASE \E e, f \in loop.mem : New(x, e) /\ New(y, f)
  BY <1>3 DEF Distinct
<1>4. ASSUME NEW u, NEW v, Kept(u), NEW e \in loop.mem, New(v, e), u.labels = v.labels \/ u.id = v.id
      PROVE  FALSE
  <2>1. u.id # i
    BY <1>4 DEF IdsOf
  <2>2. u = e
    BY <1>4, <2>1 DEF Distinct
  <2> QED BY <1>4, <2>2
<1> QED BY <1>1, <1>2, <1>3, <1>4

LEMMA UpsertDistinct ==
    ASSUME NEW S \in SUBSET Entries, Distinct(S), NEW e \in Entries, e.id \notin IdsOf(S)
    PROVE  Distinct(Upsert(S, e))
BY DEF Distinct, Upsert, FindLabels, IdsOf

LEMMA FreeIdFacts ==
    ASSUME TypeOK, NEW i \in FreeIds
    PROVE  /\ i \in Ids /\ relay[i] = "none"
           /\ \A s \in Sessions : i \notin IdsOf(decl[s]) /\ i \notin td[s].ids
           /\ \A c \in Callers : i \notin IdsOf(call[c].mem)
           /\ i \notin IdsOf(loop.mem)
<1>1. i \in Ids /\ relay[i] = "none" /\ i \notin Referenced
  BY DEF FreeIds
<1>2. \A s \in Sessions : IdsOf(decl[s]) \in {IdsOf(decl[t]) : t \in Sessions}
                          /\ td[s].ids \in {td[t].ids : t \in Sessions}
  OBVIOUS
<1>3. \A c \in Callers : IdsOf(call[c].mem) \in {IdsOf(call[d].mem) : d \in Callers}
  OBVIOUS
<1>4. /\ UNION {IdsOf(decl[s]) : s \in Sessions} \subseteq Referenced
      /\ UNION {IdsOf(call[c].mem) : c \in Callers} \subseteq Referenced
      /\ IdsOf(loop.mem) \subseteq Referenced
      /\ UNION {td[s].ids : s \in Sessions} \subseteq Referenced
  <2> DEFINE A == UNION {IdsOf(decl[s]) : s \in Sessions}
             B == UNION {IdsOf(call[c].mem) : c \in Callers}
             C == IdsOf(loop.mem)
             D == {a.entry.id : a \in loop.todo}
             E == UNION {td[s].ids : s \in Sessions}
  <2>1. Referenced = A \union B \union C \union D \union E
    BY DEF Referenced
  <2> HIDE DEF A, B, C, D, E
  <2>2. A \subseteq Referenced /\ B \subseteq Referenced /\ C \subseteq Referenced /\ E \subseteq Referenced
    BY <2>1
  <2> QED BY <2>2 DEF A, B, C, E
<1>5. \A s \in Sessions : i \notin IdsOf(decl[s]) /\ i \notin td[s].ids
  BY <1>1, <1>2, <1>4
<1> QED BY <1>1, <1>3, <1>4, <1>5

LEMMA NextDistinct == TypeOK /\ CopiesDistinct /\ [Next]_vars => CopiesDistinct'
<1> SUFFICES ASSUME TypeOK, CopiesDistinct, [Next]_vars PROVE CopiesDistinct'
  OBVIOUS
<1> USE DEF CopiesDistinct
<1>t. /\ \A s \in Sessions : decl[s] \in SUBSET Entries
      /\ \A c \in Callers : call[c] \in Calls /\ call[c].mem \in SUBSET Entries
      /\ loop.mem \in SUBSET Entries
      /\ decl \in [Sessions -> SUBSET Entries] /\ call \in [Callers -> Calls] /\ loop \in Loops
  BY DEF TypeOK, Calls, Loops
<1>0. Distinct({})
  BY DEF Distinct
<1>1. ASSUME NEW c \in Callers, Subscribe(c) PROVE CopiesDistinct'
  <2>1. ASSUME NEW s \in Sessions, NEW ls \in Labels, SubLoad(c, s, ls) PROVE CopiesDistinct'
    BY <1>t, <2>1 DEF SubLoad
  <2>2. CASE SubCreate(c)
    BY <1>t, <1>0, <2>2 DEF SubCreate
  <2>3. CASE SubReuse(c)
    BY <1>t, <1>0, <2>3 DEF SubReuse, NoCall
  <2>4. CASE SubPost(c)
    <3> DEFINE E(i) == [labels |-> call[c].labels, id |-> i, age |-> "fresh"]
    <3>1. PICK i \in FreeIds : call' = [call EXCEPT ![c].pc = "save", ![c].mem = Upsert(call[c].mem, E(i))]
      BY <2>4 DEF SubPost
    <3>2. E(i) \in Entries /\ E(i).id \notin IdsOf(call[c].mem)
      BY <2>4, FreeIdFacts DEF SubPost, TypeOK, Entries, Ages
    <3>3. Distinct(Upsert(call[c].mem, E(i)))
      BY <1>t, <3>2, UpsertDistinct
    <3> HIDE DEF E
    <3>4. \A d \in Callers : call'[d].mem = IF d = c THEN Upsert(call[c].mem, E(i)) ELSE call[d].mem
      BY <1>t, <3>1 DEF Calls
    <3> QED BY <1>t, <2>4, <3>3, <3>4 DEF SubPost
  <2>5. CASE SubFails(c)
    BY <1>t, <1>0, <2>5 DEF SubFails, NoCall
  <2>6. CASE SubSave(c)
    BY <1>t, <1>0, <2>6 DEF SubSave, NoCall
  <2> QED BY <1>1, <2>1, <2>2, <2>3, <2>4, <2>5, <2>6 DEF Subscribe
<1>2. CASE Renewal
  <2>1. CASE LoopScan
    BY <1>t, <2>1 DEF LoopScan, Loops
  <2>2. CASE LoopWait
    BY <1>t, <2>2 DEF LoopWait, Loops
  <2>3. CASE LoopRenew
    <3>1. loop.act.entry.id \in Ids
      BY <2>3 DEF LoopRenew, TypeOK, Actions, Entries
    <3>2. Distinct(Replace(loop.act.entry.id))
      BY <1>t, <3>1, ReplacedDistinct
    <3> QED BY <1>t, <2>3, <3>2 DEF LoopRenew, Loops
  <2>4. CASE LoopPost
    <3>1. PICK i \in FreeIds : loop' = [loop EXCEPT !.pc = "save", !.mem = Replace(i)]
      BY <2>4 DEF LoopPost
    <3>2. Distinct(Replace(i))
      BY <1>t, FreeIdFacts, ReplacedDistinct
    <3> QED BY <1>t, <2>4, <3>1, <3>2 DEF LoopPost, Loops
  <2>5. CASE LoopFails
    BY <1>t, <1>0, <2>5 DEF LoopFails, Loops
  <2>6. CASE LoopSave
    BY <1>t, <1>0, <2>6 DEF LoopSave, Loops
  <2>7. CASE LoopEnd
    BY <1>t, <2>7 DEF LoopEnd, Loops
  <2>8. ASSUME NEW a \in loop.todo, LoopLoad(a) PROVE CopiesDistinct'
    <3>1. a.s \in Sessions
      BY <1>t DEF Loops, Actions
    <3> QED BY <1>t, <2>8, <3>1 DEF LoopLoad, Loops
  <2> QED BY <1>2, <2>1, <2>2, <2>3, <2>4, <2>5, <2>6, <2>7, <2>8 DEF Renewal
<1>3. CASE Sweep
  BY <1>t, <1>0, <1>3 DEF Sweep, SweepScan, SweepDelete, Forget, Loops
<1>4. CASE Tick
  <2>1. \A s \in Sessions : decl'[s] = AgeEntries(decl[s])
    BY <1>4 DEF Tick
  <2>2. call' = [c \in Callers |-> [call[c] EXCEPT !.mem = AgeEntries(@)]]
    BY <1>4 DEF Tick
  <2>3. \A c \in Callers : call'[c].mem = AgeEntries(call[c].mem)
    BY <1>t, <2>2 DEF Calls
  <2>4. loop'.mem = AgeEntries(loop.mem)
    BY <1>t, <1>4 DEF Tick, Loops
  <2> QED BY <1>t, <2>1, <2>3, <2>4, AgedDistinct
<1>5. CASE Crash
  BY <1>t, <1>0, <1>5 DEF Crash, NoLoop, NoCall
<1>6. ASSUME NEW s \in Sessions, Register(s) \/ Remove(s) PROVE CopiesDistinct'
  BY <1>6 DEF Register, Remove
<1>7. ASSUME NEW s \in Sessions, Teardown(s) PROVE CopiesDistinct'
  BY <1>t, <1>0, <1>7 DEF Teardown, TeardownSchedule, TeardownCompare, TeardownDelete, TeardownFiles, Forget
<1>8. ASSUME NEW i \in Ids, RelayForgets(i) PROVE CopiesDistinct'
  BY <1>8 DEF RelayForgets
<1>9. CASE UNCHANGED vars
  BY <1>9 DEF vars
<1> QED BY <1>1, <1>2, <1>3, <1>4, <1>5, <1>6, <1>7, <1>8, <1>9 DEF Next

\* OneEntryPerLabels: no label set is declared twice, however loads and saves overlap.
THEOREM DeclaredOnce == Spec => []OneEntryPerLabels
<1>1. Init => CopiesDistinct
  BY DEF Init, CopiesDistinct, Distinct, NoCall, NoLoop
<1>2. CopiesDistinct => OneEntryPerLabels
  BY DEF CopiesDistinct, Distinct, OneEntryPerLabels
<1> QED BY <1>1, <1>2, NextDistinct, TypeCorrect, PTL DEF Spec

-----------------------------------------------------------------------------
(* What the loop has still to renew *)

LEMMA NextAtRest == TypeOK /\ AtRest /\ [Next]_vars => AtRest'
<1> SUFFICES ASSUME TypeOK, AtRest, [Next]_vars PROVE AtRest'
  OBVIOUS
<1> USE DEF AtRest, Working
<1>t. call \in [Callers -> Calls] /\ loop \in Loops /\ \A a \in loop.todo : a.kind \in {"renew", "post"}
  BY DEF TypeOK, Loops, Actions
<1>1. ASSUME NEW c \in Callers, Subscribe(c) PROVE AtRest'
  <2>1. ASSUME NEW s \in Sessions, NEW ls \in Labels, SubLoad(c, s, ls) PROVE AtRest'
    BY <1>t, <2>1 DEF SubLoad
  <2>2. CASE SubCreate(c)
    BY <1>t, <2>2 DEF SubCreate, Calls
  <2>3. CASE SubReuse(c)
    BY <1>t, <2>3 DEF SubReuse, NoCall
  <2>4. CASE SubPost(c)
    BY <1>t, <2>4 DEF SubPost, Calls
  <2>5. CASE SubFails(c)
    BY <1>t, <2>5 DEF SubFails, NoCall
  <2>6. CASE SubSave(c)
    BY <1>t, <2>6 DEF SubSave, NoCall
  <2> QED BY <1>1, <2>1, <2>2, <2>3, <2>4, <2>5, <2>6 DEF Subscribe
<1>2. CASE Renewal
  <2>1. CASE LoopScan \/ LoopWait \/ LoopEnd \/ LoopFails
    BY <1>t, <2>1 DEF LoopScan, LoopWait, LoopEnd, LoopFails, Loops
  <2>2. CASE LoopRenew \/ LoopPost
    BY <1>t, <2>2 DEF LoopRenew, LoopPost, Loops
  <2>3. CASE LoopSave
    BY <1>t, <2>3 DEF LoopSave, Loops
  <2>4. ASSUME NEW a \in loop.todo, LoopLoad(a) PROVE AtRest'
    BY <1>t, <2>4 DEF LoopLoad, Loops
  <2> QED BY <1>2, <2>1, <2>2, <2>3, <2>4 DEF Renewal
<1>3. CASE Sweep
  BY <1>t, <1>3 DEF Sweep, SweepScan, SweepDelete, Loops
<1>4. CASE Tick
  <2>1. \A c \in Callers : call'[c].pc = call[c].pc /\ call'[c].mem = AgeEntries(call[c].mem)
    BY <1>t, <1>4 DEF Tick, Calls
  <2>2. loop'.pc = loop.pc /\ loop'.todo = loop.todo /\ loop'.mem = AgeEntries(loop.mem)
    BY <1>t, <1>4 DEF Tick, Loops
  <2>3. AgeEntries({}) = {}
    BY DEF AgeEntries
  <2> QED BY <2>1, <2>2, <2>3
<1>5. CASE Crash
  BY <1>5 DEF Crash, NoLoop, NoCall
<1>6. ASSUME NEW s \in Sessions, Register(s) \/ Remove(s) \/ Teardown(s) PROVE AtRest'
  BY <1>6 DEF Register, Remove, Teardown, TeardownSchedule, TeardownCompare, TeardownDelete, TeardownFiles
<1>7. ASSUME NEW i \in Ids, RelayForgets(i) PROVE AtRest'
  BY <1>7 DEF RelayForgets
<1>8. CASE UNCHANGED vars
  BY <1>8 DEF vars
<1> QED BY <1>1, <1>2, <1>3, <1>4, <1>5, <1>6, <1>7, <1>8 DEF Next

LEMMA MayStays == [Next]_vars => may' = may
  BY DEF Next, vars

LEMMA NextCovered ==
    ASSUME TypeOK, AtRest, Covered, [Next]_vars, "http" \notin may
    PROVE  Covered'
<1> USE DEF Working
<1>t. /\ decl \in [Sessions -> SUBSET Entries] /\ loop \in Loops /\ loop.mem \in SUBSET Entries
      /\ active \subseteq Sessions /\ scanned \in BOOLEAN
      /\ \A a \in loop.todo : a.s \in Sessions /\ a.kind \in {"renew", "post"}
  BY DEF TypeOK, Loops, Actions
<1>u. UNCHANGED <<active, decl, loop, scanned>> => Covered'
  BY DEF Covered, Due, UnderWay
<1>f. ASSUME scanned' = FALSE PROVE Covered'
  BY <1>f DEF Covered
<1>e. ASSUME NEW s \in Sessions, decl' = [decl EXCEPT ![s] = {}], active' = active, loop' = loop, scanned' = scanned
      PROVE  Covered'
  BY <1>t, <1>e DEF Covered, Due, UnderWay
<1>1. ASSUME NEW c \in Callers, Subscribe(c) PROVE Covered'
  <2>1. CASE SubCreate(c)
    <3>1. call[c].s \in Sessions
      BY <2>1 DEF SubCreate, TypeOK
    <3> QED BY <2>1, <3>1, <1>e DEF SubCreate
  <2>2. CASE SubSave(c)
    BY <2>2, <1>f DEF SubSave
  <2> QED BY <1>u, <1>1, <2>1, <2>2 DEF Subscribe, SubLoad, SubReuse, SubPost, SubFails
<1>2. CASE Renewal
  <2>1. CASE LoopScan
    <3>1. \A s \in active : \A e \in decl[s] : e.age # "fresh" => \E a \in RenewActions : a.s = s /\ a.entry.id = e.id
      <4> TAKE s \in active
      <4> TAKE e \in decl[s]
      <4> DEFINE a == [s |-> s, entry |-> e, kind |-> RenewKinds[e.age]]
      <4>1. e \in Entries /\ e \in UNION {decl[t] : t \in active}
        BY <1>t
      <4>2. e.age # "fresh" => RenewKinds[e.age] \in {"renew", "post"}
        BY <4>1 DEF Entries, Ages, RenewKinds
      <4>3. e.age # "fresh" => a \in RenewActions
        BY <4>1, <4>2 DEF RenewActions
      <4> QED BY <4>3
    <3>2. loop'.todo = RenewActions /\ loop'.pc = "act" /\ decl' = decl /\ active' = active
      BY <1>t, <2>1 DEF LoopScan, Loops
    <3> QED BY <3>1, <3>2 DEF Covered, Due
  <2>2. CASE LoopWait \/ LoopEnd
    <3>1. /\ decl' = decl /\ active' = active /\ scanned' = scanned /\ loop'.todo = loop.todo
          /\ loop.pc \notin Working /\ loop'.pc \notin Working
      BY <1>t, <2>2 DEF LoopWait, LoopEnd, Loops
    <3> QED BY <3>1 DEF Covered, Due
  <2>3. CASE LoopRenew /\ loop'.pc = "post"
    <3>1. /\ decl' = decl /\ active' = active /\ scanned' = scanned /\ loop'.todo = loop.todo
          /\ loop'.mem = loop.mem /\ loop'.act = loop.act /\ loop.pc = "renew"
      BY <1>t, <2>3 DEF LoopRenew, Loops
    <3> QED BY <2>3, <3>1 DEF Covered, Due, UnderWay
  <2>4. ASSUME NEW i \in Ids, loop.pc \in {"renew", "post"},
               loop' = [loop EXCEPT !.pc = "save", !.mem = Replace(i)], UNCHANGED <<active, decl, scanned>>
        PROVE  Covered'
    <3>1. /\ loop'.pc = "save" /\ loop'.todo = loop.todo /\ loop'.act = loop.act /\ loop'.mem = Replace(i)
      BY <1>t, <2>4 DEF Loops
    <3>2. \A x \in Replace(i) : x.age # "fresh" => x \in loop.mem /\ x.id # loop.act.entry.id
      BY <1>t, ReplacedEntries
    <3> QED BY <2>4, <3>1, <3>2 DEF Covered, Due, UnderWay
  <2>5. CASE LoopRenew \/ LoopPost
    <3>1. CASE LoopPost
      BY <2>4, <3>1 DEF LoopPost, FreeIds
    <3>2. CASE LoopRenew
      <4>1. loop.act.entry.id \in Ids
        BY <3>2 DEF LoopRenew, TypeOK, Actions, Entries
      <4>2. relay[loop.act.entry.id] = "none" => loop'.pc = "post"
        BY <1>t, <3>2 DEF LoopRenew, Loops
      <4> QED BY <2>3, <2>4, <3>2, <4>1, <4>2 DEF LoopRenew
    <3> QED BY <2>5, <3>1, <3>2
  <2>6. CASE LoopSave
    <3>1. loop.act.s \in Sessions
      BY <2>6 DEF LoopSave, TypeOK, Actions
    <3>2. /\ loop'.pc = "act" /\ loop'.todo = loop.todo /\ loop.pc = "save"
          /\ active' = active /\ scanned' = scanned /\ decl' = [decl EXCEPT ![loop.act.s] = loop.mem]
      BY <1>t, <2>6 DEF LoopSave, Loops
    <3> QED BY <1>t, <3>1, <3>2 DEF Covered, Due, UnderWay
  <2>7. ASSUME NEW a \in loop.todo, LoopLoad(a) PROVE Covered'
    <3>1. /\ loop.pc = "act" /\ decl' = decl /\ active' = active /\ scanned' = scanned
          /\ loop'.todo = loop.todo \ {a}
      BY <1>t, <2>7 DEF LoopLoad, Loops
    <3>2. CASE {e \in decl[a.s] : e.id = a.entry.id} = {}
      <4>1. loop'.pc = "act"
        BY <1>t, <2>7, <3>2 DEF LoopLoad, Loops
      <4> QED BY <3>1, <3>2, <4>1 DEF Covered, Due
    <3>3. CASE {e \in decl[a.s] : e.id = a.entry.id} # {}
      <4>1. loop'.pc \in {"renew", "post"} /\ loop'.act = a /\ loop'.mem = decl[a.s]
        BY <1>t, <2>7, <3>3 DEF LoopLoad
      <4>2. \A s \in active : \A e \in decl[s] :
              scanned /\ e.age # "fresh" => \E b \in loop.todo : b.s = s /\ b.entry.id = e.id
        BY <3>1 DEF Covered, Due
      <4> QED BY <3>1, <4>1, <4>2 DEF Covered, Due, UnderWay
    <3> QED BY <3>2, <3>3
  <2> QED BY <1>2, <2>1, <2>2, <2>5, <2>6, <2>7 DEF Renewal, LoopFails
<1>3. CASE Sweep
  <2>1. CASE SweepScan
    BY <1>t, <2>1 DEF SweepScan, Covered, Due, Loops
  <2>2. ASSUME NEW s \in Sessions, SweepDelete(s) PROVE Covered'
    BY <2>2, <1>e DEF SweepDelete, Forget
  <2> QED BY <1>3, <2>1, <2>2 DEF Sweep, TypeOK
<1>4. CASE Tick
  BY <1>4, <1>f DEF Tick
<1>5. CASE Crash
  BY <1>5, <1>f DEF Crash
<1>6. ASSUME NEW s \in Sessions, Register(s) \/ Remove(s) PROVE Covered'
  <2>1. CASE Register(s)
    BY <2>1, <1>f DEF Register
  <2>2. CASE Remove(s)
    BY <2>2 DEF Remove, Covered, Due, UnderWay
  <2> QED BY <1>6, <2>1, <2>2
<1>7. ASSUME NEW s \in Sessions, Teardown(s) PROVE Covered'
  BY <1>u, <1>e, <1>7 DEF Teardown, TeardownSchedule, TeardownCompare, TeardownDelete, TeardownFiles, Forget
<1>8. ASSUME NEW i \in Ids, RelayForgets(i) PROVE Covered'
  BY <1>u, <1>8 DEF RelayForgets
<1>9. CASE UNCHANGED vars
  BY <1>u, <1>9 DEF vars
<1> QED BY <1>1, <1>2, <1>3, <1>4, <1>5, <1>6, <1>7, <1>8, <1>9 DEF Next

-----------------------------------------------------------------------------
(* Leases do not lapse *)

\* A lease that is granted or renewed takes none away.
LEMMA LivesOn ==
    ASSUME NEW S \in SUBSET Entries, NEW r \in [Ids -> {"fresh", "due", "none"}], Lives(r, S),
           NEW i \in Ids
    PROVE  Lives([r EXCEPT ![i] = "fresh"], S)
BY DEF Lives, Entries

LEMMA LivesAged ==
    ASSUME NEW S \in SUBSET Entries, NEW r \in [Ids -> {"fresh", "due", "none"}], Lives(r, S),
           \A e \in S : e.age = "fresh"
    PROVE  Lives([i \in Ids |-> IF r[i] = "fresh" THEN "due" ELSE "none"], AgeEntries(S))
<1> SUFFICES ASSUME NEW x \in AgeEntries(S)
             PROVE  /\ x.age = "due" /\ x.id \in Ids
                    /\ [i \in Ids |-> IF r[i] = "fresh" THEN "due" ELSE "none"][x.id] = "due"
  BY DEF Lives
<1>1. PICK e \in S : x = [labels |-> e.labels, id |-> e.id, age |-> Older[e.age]]
  BY AgedEntries
<1>2. e.id \in Ids /\ e.age = "fresh" /\ r[e.id] = "fresh"
  BY DEF Entries, Lives
<1> QED BY <1>1, <1>2 DEF Older

LEMMA NextLeases ==
    ASSUME TypeOK, AtRest, Covered, LeaseInv, [Next]_vars, may \subseteq {"overlap"}
    PROVE  LeaseInv'
<1> USE DEF LeaseInv, Working
<1>t. /\ decl \in [Sessions -> SUBSET Entries] /\ loop \in Loops /\ loop.mem \in SUBSET Entries
      /\ call \in [Callers -> Calls] /\ \A c \in Callers : call[c].mem \in SUBSET Entries
      /\ relay \in [Ids -> {"fresh", "due", "none"}]
      /\ active \subseteq Sessions /\ td \in [Sessions -> Teardowns]
  BY DEF TypeOK, Loops, Calls
<1>0. Lives(relay', {})
  BY DEF Lives
<1>1. ASSUME NEW c \in Callers, Subscribe(c) PROVE LeaseInv'
  <2>1. ASSUME NEW s \in Sessions, NEW ls \in Labels, SubLoad(c, s, ls) PROVE LeaseInv'
    BY <1>t, <2>1 DEF SubLoad
  <2>2. CASE SubCreate(c)
    BY <1>t, <1>0, <2>2 DEF SubCreate, Calls
  <2>3. CASE SubReuse(c)
    BY <1>t, <1>0, <2>3 DEF SubReuse, NoCall
  <2>4. CASE SubPost(c)
    <3> DEFINE E(i) == [labels |-> call[c].labels, id |-> i, age |-> "fresh"]
    <3>1. PICK i \in FreeIds :
            /\ relay' = [relay EXCEPT ![i] = "fresh"]
            /\ call' = [call EXCEPT ![c].pc = "save", ![c].mem = Upsert(call[c].mem, E(i))]
      BY <2>4 DEF SubPost
    <3>2. i \in Ids /\ call[c].pc # "idle"
      BY <2>4 DEF FreeIds, SubPost
    <3>3. \A S \in SUBSET Entries : Lives(relay, S) => Lives(relay', S)
      BY <1>t, <3>1, <3>2, LivesOn
    <3>4. Lives(relay', call[c].mem)
      BY <1>t, <3>3
    <3>5. Lives(relay', Upsert(call[c].mem, E(i)))
      BY <1>t, <3>1, <3>2, <3>4 DEF Lives, Upsert, FindLabels
    <3> HIDE DEF E
    <3>6. \A d \in Callers : /\ call'[d].mem = IF d = c THEN Upsert(call[c].mem, E(i)) ELSE call[d].mem
                             /\ call'[d].s = call[d].s
                             /\ (d # c => call'[d].pc = call[d].pc)
      BY <1>t, <3>1 DEF Calls
    <3> QED BY <1>t, <2>4, <3>2, <3>3, <3>5, <3>6 DEF SubPost
  <2>5. CASE SubFails(c)
    BY <2>5 DEF SubFails
  <2>6. CASE SubSave(c)
    <3>1. call[c].s \in active /\ call[c].s \in Sessions
      BY <1>t, <2>6 DEF SubSave
    <3> QED BY <1>t, <1>0, <2>6, <3>1 DEF SubSave, NoCall
  <2> QED BY <1>1, <2>1, <2>2, <2>3, <2>4, <2>5, <2>6 DEF Subscribe
<1>2. CASE Renewal
  <2>1. CASE LoopScan
    <3>1. \A a \in RenewActions : a.s \in active
      BY DEF RenewActions
    <3>2. loop'.pc = "act" /\ loop'.todo = RenewActions /\ loop'.mem = loop.mem
      BY <1>t, <2>1 DEF LoopScan, Loops
    <3> QED BY <1>t, <2>1, <3>1, <3>2 DEF LoopScan
  <2>2. CASE LoopWait \/ LoopEnd
    BY <1>t, <2>2 DEF LoopWait, LoopEnd, Loops
  <2>3. ASSUME NEW i \in Ids, loop.pc \in {"renew", "post"},
               loop' = [loop EXCEPT !.pc = "save", !.mem = Replace(i)],
               relay' = [relay EXCEPT ![i] = "fresh"], UNCHANGED <<active, decl, call, td>>
        PROVE  LeaseInv'
    <3>1. /\ loop'.pc = "save" /\ loop'.todo = loop.todo /\ loop'.act = loop.act /\ loop'.mem = Replace(i)
      BY <1>t, <2>3 DEF Loops
    <3>2. \A S \in SUBSET Entries : Lives(relay, S) => Lives(relay', S)
      BY <1>t, <2>3, LivesOn
    <3>3. Lives(relay', loop.mem) /\ relay'[i] = "fresh"
      BY <1>t, <2>3, <3>2
    <3>4. Lives(relay', Replace(i))
      BY <1>t, <3>3, ReplacedEntries DEF Lives
    <3>5. \A s \in Sessions : Lives(relay', decl[s])
      BY <1>t, <3>2
    <3>6. \A c \in Callers : Lives(relay', call[c].mem)
      BY <1>t, <3>2
    <3>7. decl' = decl /\ call' = call /\ active' = active /\ td' = td
      BY <2>3
    <3>8. loop.act.s \in active /\ loop'.act.s = loop.act.s /\ Lives(relay', loop'.mem)
      BY <2>3, <3>1, <3>4
    <3> QED BY <3>1, <3>5, <3>6, <3>7, <3>8
  <2>4. CASE LoopPost
    BY <2>3, <2>4 DEF LoopPost, FreeIds
  <2>5. CASE LoopRenew
    <3>1. loop.act.entry.id \in Ids
      BY <2>5 DEF LoopRenew, TypeOK, Actions, Entries
    <3>2. CASE relay[loop.act.entry.id] # "none"
      BY <2>3, <2>5, <3>1, <3>2 DEF LoopRenew
    <3>3. CASE relay[loop.act.entry.id] = "none"
      BY <1>t, <2>5, <3>3 DEF LoopRenew, Loops
    <3> QED BY <3>2, <3>3
  <2>6. CASE LoopSave
    <3>1. loop.act.s \in active /\ loop.act.s \in Sessions
      BY <1>t, <2>6 DEF LoopSave
    <3>2. loop'.pc = "act" /\ loop'.todo = loop.todo /\ loop'.mem = {}
      BY <1>t, <2>6 DEF LoopSave, Loops
    <3> QED BY <1>t, <1>0, <2>6, <3>1, <3>2 DEF LoopSave
  <2>7. ASSUME NEW a \in loop.todo, LoopLoad(a) PROVE LeaseInv'
    <3>1. a.s \in active /\ a.s \in Sessions
      BY <1>t
    <3> QED BY <1>t, <2>7, <3>1 DEF LoopLoad, Loops
  <2> QED BY <1>2, <2>1, <2>2, <2>4, <2>5, <2>6, <2>7 DEF Renewal, LoopFails
<1>3. CASE Sweep
  <2>1. CASE SweepScan
    BY <1>t, <2>1 DEF SweepScan, Loops
  <2>2. ASSUME NEW s \in Sessions, SweepDelete(s) PROVE LeaseInv'
    BY <1>t, <1>0, <2>2 DEF SweepDelete, Forget
  <2> QED BY <1>3, <2>1, <2>2 DEF Sweep, TypeOK
<1>4. CASE Tick
  <2>1. scanned /\ loop.pc = "idle" /\ \A c \in Callers : call[c].pc = "idle"
    BY <1>4 DEF Tick, Settled
  <2>2. loop.todo = {} /\ loop.mem = {} /\ \A c \in Callers : call[c].mem = {}
    BY <2>1 DEF AtRest
  <2>3. \A s \in Sessions : \A e \in decl[s] : e.age = "fresh"
    BY <1>t, <2>1, <2>2 DEF Covered, Due
  <2>4. relay' = [i \in Ids |-> IF relay[i] = "fresh" THEN "due" ELSE "none"]
    BY <1>4 DEF Tick
  <2>5. \A s \in Sessions : Lives(relay', AgeEntries(decl[s]))
    BY <1>t, <2>3, <2>4, LivesAged
  <2>6. AgeEntries({}) = {}
    BY DEF AgeEntries
  <2>7. \A c \in Callers : call'[c].pc = "idle" /\ call'[c].mem = {}
    <3> TAKE c \in Callers
    <3>1. call[c] \in Calls /\ call'[c] = [call[c] EXCEPT !.mem = AgeEntries(@)]
      BY <1>t, <1>4 DEF Tick
    <3> QED BY <2>1, <2>2, <2>6, <3>1 DEF Calls
  <2>8. loop'.pc = "idle" /\ loop'.mem = {} /\ loop'.todo = {}
    BY <1>t, <1>4, <2>1, <2>2, <2>6 DEF Tick, Loops
  <2>9. \A s \in Sessions : decl'[s] = AgeEntries(decl[s])
    BY <1>t, <1>4 DEF Tick
  <2> QED BY <1>t, <1>0, <1>4, <2>5, <2>6, <2>7, <2>8, <2>9 DEF Tick
<1>5. ASSUME NEW s \in Sessions, Register(s) PROVE LeaseInv'
  BY <1>t, <1>5 DEF Register
<1>6. ASSUME NEW s \in Sessions, Teardown(s) PROVE FALSE
  BY <1>6 DEF Teardown, TeardownSchedule, TeardownCompare, TeardownDelete, TeardownFiles
<1>7. CASE UNCHANGED vars
  BY <1>7 DEF vars
<1> QED BY <1>1, <1>2, <1>3, <1>4, <1>5, <1>6, <1>7 DEF Next, Crash, Remove, RelayForgets

\* LeaseNeverLapses: what a registered session declares is live at the relay, as
\* long as calls, scans and heartbeats are timely and nothing fails.
THEOREM LeasesLive == Spec => [](may \subseteq {"overlap"} => LeaseNeverLapses)
<1> DEFINE Inv == may \subseteq {"overlap"} => AtRest /\ Covered /\ LeaseInv
<1>1. Init => Inv
  BY DEF Init, AtRest, Covered, LeaseInv, Lives, NoCall, NoLoop, NoTeardown, Working
<1>2. TypeOK /\ Inv /\ [Next]_vars => Inv'
  BY MayStays, NextAtRest, NextCovered, NextLeases
<1>3. TypeOK /\ Inv => (may \subseteq {"overlap"} => LeaseNeverLapses)
  BY DEF LeaseNeverLapses, LeaseInv, Lives, TypeOK
<1> HIDE DEF Inv
<1> QED BY <1>1, <1>2, <1>3, TypeCorrect, PTL DEF Spec

-----------------------------------------------------------------------------
(* One writer at a time *)

LEMMA NextOneWriter ==
    ASSUME TypeOK, OneWriter, [Next]_vars, "overlap" \notin may
    PROVE  OneWriter'
<1> USE DEF OneWriter, TdBusy, Working
<1>t. /\ call \in [Callers -> Calls] /\ loop \in Loops /\ td \in [Sessions -> Teardowns]
      /\ orphans \subseteq Sessions
  BY DEF TypeOK
<1>w. ASSUME MayStart
      PROVE  /\ \A c \in Callers : call[c].pc = "idle"
             /\ loop.pc \notin Working /\ orphans = {} /\ \A s \in Sessions : ~TdBusy(s)
  BY <1>w DEF MayStart, Writing
<1>1. ASSUME NEW c \in Callers, Subscribe(c) PROVE OneWriter'
  <2>1. \A d \in Callers \ {c} : call'[d].pc = call[d].pc
    BY <1>t, <1>1 DEF Subscribe, SubLoad, SubCreate, SubReuse, SubPost, SubFails, SubSave
  <2>2. loop' = loop /\ orphans' = orphans /\ td' = td
    BY <1>1 DEF Subscribe, SubLoad, SubCreate, SubReuse, SubPost, SubFails, SubSave
  <2>3. MayStart \/ call[c].pc # "idle"
    BY <1>1 DEF Subscribe, SubLoad, SubCreate, SubReuse, SubPost, SubFails, SubSave
  <2> QED BY <1>w, <2>1, <2>2, <2>3
<1>2. CASE Renewal
  <2>1. call' = call /\ orphans' = orphans /\ td' = td
    BY <1>2 DEF Renewal, LoopScan, LoopWait, LoopRenew, LoopPost, LoopFails, LoopSave, LoopEnd, LoopLoad
  <2>2. loop'.pc \in Working => MayStart \/ loop.pc \in Working
    BY <1>t, <1>2 DEF Renewal, LoopScan, LoopWait, LoopRenew, LoopPost, LoopFails, LoopSave, LoopEnd, LoopLoad, Loops
  <2> QED BY <1>w, <2>1, <2>2
<1>3. CASE Sweep
  <2>1. call' = call /\ td' = td
    BY <1>3 DEF Sweep, SweepScan, SweepDelete
  <2>2. loop'.pc \in Working => loop.pc \in Working
    BY <1>t, <1>3 DEF Sweep, SweepScan, SweepDelete, Loops
  <2>3. MayStart \/ (orphans # {} /\ orphans' \subseteq orphans /\ loop' = loop)
    BY <1>3 DEF Sweep, SweepScan, SweepDelete
  <2> QED BY <1>w, <2>1, <2>2, <2>3
<1>4. CASE Tick
  <2>1. \A c \in Callers : call'[c].pc = call[c].pc
    BY <1>t, <1>4 DEF Tick, Calls
  <2>2. loop'.pc = loop.pc
    BY <1>t, <1>4 DEF Tick, Loops
  <2> QED BY <1>4, <2>1, <2>2 DEF Tick
<1>5. CASE Crash
  BY <1>5 DEF Crash, NoLoop, NoCall, NoTeardown
<1>6. ASSUME NEW s \in Sessions, Register(s) \/ Remove(s) PROVE OneWriter'
  <2>1. CASE Register(s)
    BY <2>1 DEF Register
  <2>2. CASE Remove(s)
    <3>1. MayStart /\ call' = call /\ loop' = loop /\ orphans' = orphans
          /\ \A t \in Sessions \ {s} : td'[t] = td[t]
      BY <1>t, <2>2 DEF Remove
    <3> QED BY <1>w, <3>1
  <2> QED BY <1>6, <2>1, <2>2
<1>7. ASSUME NEW s \in Sessions, Teardown(s) PROVE OneWriter'
  <2>1. call' = call /\ loop' = loop /\ orphans' = orphans /\ \A t \in Sessions \ {s} : td'[t] = td[t]
    BY <1>t, <1>7 DEF Teardown, TeardownSchedule, TeardownCompare, TeardownDelete, TeardownFiles
  <2>2. TdBusy(s) \/ MayStart
    BY <1>7 DEF Teardown, TeardownSchedule, TeardownCompare, TeardownDelete, TeardownFiles
  <2> QED BY <1>w, <2>1, <2>2
<1>8. ASSUME NEW i \in Ids, RelayForgets(i) PROVE OneWriter'
  BY <1>8 DEF RelayForgets
<1>9. CASE UNCHANGED vars
  BY <1>9 DEF vars
<1> QED BY <1>1, <1>2, <1>3, <1>4, <1>5, <1>6, <1>7, <1>8, <1>9 DEF Next

-----------------------------------------------------------------------------
(* What was granted anew stays declared *)

LEMMA HoldsAged ==
    ASSUME NEW S \in SUBSET Entries, \A e \in S : e.age = "fresh", NEW new, NEW t, Holds(new, t, S)
    PROVE  Holds(new, t, AgeEntries(S))
<1> SUFFICES ASSUME NEW ls \in new
             PROVE  \E x \in AgeEntries(S) : x.labels = ls /\ Stands(t, x)
  BY DEF Holds
<1>1. PICK e \in S : e.labels = ls /\ Stands(t, e)
  BY DEF Holds
<1> DEFINE x == [labels |-> e.labels, id |-> e.id, age |-> Older[e.age]]
<1>2. x \in AgeEntries(S) /\ x.labels = ls /\ x.age = "due" /\ x.id = e.id
  BY <1>1, AgedEntries DEF Older
<1> QED BY <1>1, <1>2 DEF Stands

LEMMA HoldsUpserted ==
    ASSUME NEW S \in SUBSET Entries, NEW e \in Entries, NEW new, NEW t, Holds(new, t, S), Stands(t, e)
    PROVE  Holds(new \union {e.labels}, t, Upsert(S, e))
BY DEF Holds, Upsert, FindLabels

LEMMA HoldsReplaced ==
    ASSUME loop.mem \subseteq Entries, NEW i \in Ids, NEW new, NEW t, Holds(new, t, loop.mem),
           i = loop.act.entry.id \/ i \notin t.ids
    PROVE  Holds(new, t, Replace(i))
<1> SUFFICES ASSUME NEW ls \in new
             PROVE  \E x \in Replace(i) : x.labels = ls /\ Stands(t, x)
  BY DEF Holds
<1>1. PICK e \in loop.mem : e.labels = ls /\ Stands(t, e)
  BY DEF Holds
<1>2. CASE e.id # loop.act.entry.id
  BY <1>1, <1>2, ReplacedEntries
<1>3. CASE e.id = loop.act.entry.id
  <2> DEFINE x == [labels |-> e.labels, id |-> i, age |-> "fresh"]
  <2>1. x \in Replace(i)
    BY <1>3, ReplacedEntries
  <2>2. Stands(t, x)
    BY <1>1, <1>3 DEF Stands
  <2> QED BY <1>1, <2>1, <2>2
<1> QED BY <1>2, <1>3

LEMMA NextGrants ==
    ASSUME TypeOK, AtRest, Covered, OneWriter, GrantInv, [Next]_vars,
           {"overlap", "late", "http"} \cap may = {}
    PROVE  GrantInv'
<1> USE DEF GrantInv, TdBusy, Working
<1>t. /\ decl \in [Sessions -> SUBSET Entries] /\ loop \in Loops /\ loop.mem \in SUBSET Entries
      /\ call \in [Callers -> Calls] /\ td \in [Sessions -> Teardowns]
      /\ granted \in [Sessions -> [all : SUBSET Labels, new : SUBSET Labels]]
      /\ active \subseteq Sessions /\ exists \subseteq Sessions /\ orphans \subseteq Sessions
  BY DEF TypeOK, Loops
<1>w. ASSUME MayStart
      PROVE  /\ \A c \in Callers : call[c].pc = "idle"
             /\ loop.pc \notin Working /\ orphans = {} /\ \A s \in Sessions : ~TdBusy(s)
  BY <1>w DEF MayStart, Writing
<1>0. \A t, S : Holds({}, t, S)
  BY DEF Holds
<1>n. \A new, t, S : Holds(new, t, S) => Holds(new, NoTeardown, S)
  BY DEF Holds, Stands, NoTeardown
<1>1. ASSUME NEW c \in Callers, Subscribe(c) PROVE GrantInv'
  <2>1. ASSUME NEW s \in Sessions, NEW ls \in Labels, SubLoad(c, s, ls) PROVE GrantInv'
    BY <1>t, <2>1 DEF SubLoad
  <2>a. ASSUME call[c].pc # "idle"
        PROVE  /\ \A d \in Callers \ {c} : call[d].pc = "idle"
               /\ loop.pc \notin Working /\ orphans = {} /\ \A s \in Sessions : ~TdBusy(s)
               /\ call[c].s \in Sessions /\ call[c].labels \in Labels /\ call[c].mem \in SUBSET Entries
    BY <2>a DEF OneWriter, TypeOK, Calls
  <2>2. CASE SubCreate(c)
    <3>1. decl' = decl
      BY <1>t, <2>a, <2>2 DEF SubCreate
    <3>2. call'[c].pc = "find" /\ call'[c].s = call[c].s /\ call'[c].mem = call[c].mem
          /\ \A d \in Callers \ {c} : call'[d].pc = "idle"
      BY <1>t, <2>a, <2>2 DEF SubCreate, Calls
    <3>3. /\ call[c].s \in Sessions /\ call[c].mem = decl[call[c].s] /\ exists' = exists \union {call[c].s}
          /\ UNCHANGED <<loop, orphans, td, granted>>
      BY <2>a, <2>2 DEF SubCreate
    <3>4. \A s \in Sessions :
            /\ s \notin exists' => decl'[s] = {}
            /\ Holds(granted'[s].new, td'[s], decl'[s])
            /\ TdBusy(s)' \/ s \in orphans' => granted'[s].new = {}
      BY <3>1, <3>3
    <3>5. loop'.pc \notin Working
      BY <2>a, <2>2, <3>3 DEF SubCreate
    <3> QED BY <3>1, <3>2, <3>3, <3>4, <3>5
  <2>3. CASE SubReuse(c)
    <3>1. \A s \in Sessions : granted'[s].new = granted[s].new
      BY <1>t, <2>3 DEF SubReuse, Grant
    <3>2. \A d \in Callers : call'[d].pc = "idle"
      BY <1>t, <2>a, <2>3 DEF SubReuse, NoCall
    <3> QED BY <2>a, <2>3, <3>1, <3>2 DEF SubReuse
  <2>4. CASE SubPost(c)
    <3> DEFINE E(i) == [labels |-> call[c].labels, id |-> i, age |-> "fresh"]
               s == call[c].s
    <3>1. PICK i \in FreeIds : call' = [call EXCEPT ![c].pc = "save", ![c].mem = Upsert(call[c].mem, E(i))]
      BY <2>4 DEF SubPost
    <3>2. E(i) \in Entries /\ Stands(td[s], E(i))
      BY <2>4, <2>a, FreeIdFacts DEF SubPost, Entries, Ages, Stands
    <3>3. Holds(granted[s].new, td[s], call[c].mem)
      BY <2>4, <2>a DEF SubPost
    <3>4. Holds(granted[s].new \union {call[c].labels}, td[s], Upsert(call[c].mem, E(i)))
      <4>1. E(i).labels = call[c].labels
        OBVIOUS
      <4> HIDE DEF E
      <4> QED BY <2>4, <2>a, <3>2, <3>3, <4>1, HoldsUpserted DEF SubPost
    <3> HIDE DEF E
    <3>5. /\ call'[c].pc = "save" /\ call'[c].s = s /\ call'[c].labels = call[c].labels
          /\ call'[c].mem = Upsert(call[c].mem, E(i))
          /\ \A d \in Callers \ {c} : call'[d].pc = "idle"
      BY <1>t, <2>a, <2>4, <3>1 DEF SubPost, Calls
    <3>6. UNCHANGED <<exists, decl, loop, orphans, td, granted>>
      BY <2>4 DEF SubPost
    <3>7. call[c].pc # "idle"
      BY <2>4 DEF SubPost
    <3> QED BY <2>a, <3>4, <3>5, <3>6, <3>7
  <2>5. CASE SubFails(c)
    BY <2>5 DEF SubFails
  <2>6. CASE SubSave(c)
    <3> DEFINE s == call[c].s
    <3>1. /\ s \in Sessions /\ orphans' = {} /\ loop' = loop /\ td' = td
          /\ \A d \in Callers : call'[d].pc = "idle"
          /\ exists' = exists \union {s}
          /\ \A t \in Sessions : decl'[t] = IF t = s THEN call[c].mem ELSE decl[t]
      BY <1>t, <2>a, <2>6 DEF SubSave, NoCall
    <3>2. /\ \A t \in Sessions \ {s} : granted'[t].new = granted[t].new
          /\ granted'[s].new \subseteq granted[s].new \union {call[c].labels}
      BY <1>t, <2>a, <2>6 DEF SubSave, Grant
    <3>3. Holds(granted'[s].new, td[s], call[c].mem)
      <4>1. Holds(granted[s].new \union {call[c].labels}, td[s], call[c].mem)
        BY <2>6 DEF SubSave
      <4> QED BY <3>2, <4>1 DEF Holds
    <3> QED BY <2>a, <2>6, <3>1, <3>2, <3>3 DEF SubSave
  <2> QED BY <1>1, <2>1, <2>2, <2>3, <2>4, <2>5, <2>6 DEF Subscribe
<1>2. CASE Renewal
  <2>1. CASE LoopScan \/ LoopWait \/ LoopEnd
    <3>1. loop'.pc \notin Working /\ UNCHANGED <<exists, decl, call, orphans, td, granted>>
      BY <1>t, <2>1 DEF LoopScan, LoopWait, LoopEnd, Loops
    <3> QED BY <3>1
  <2>2. ASSUME NEW i \in Ids, loop.pc \in {"renew", "post"},
               i = loop.act.entry.id \/ \A s \in Sessions : i \notin td[s].ids,
               loop' = [loop EXCEPT !.pc = "save", !.mem = Replace(i)],
               UNCHANGED <<exists, decl, call, orphans, td, granted>>
        PROVE  GrantInv'
    <3> DEFINE s == loop.act.s
    <3>1. s \in Sessions
      BY <2>2 DEF TypeOK, Actions
    <3>2. Holds(granted[s].new, td[s], Replace(i))
      BY <1>t, <2>2, <3>1, HoldsReplaced
    <3>3. loop'.act.s = s /\ loop'.mem = Replace(i) /\ loop'.pc = "save"
      BY <1>t, <2>2 DEF Loops
    <3> QED BY <2>2, <3>2, <3>3
  <2>3. CASE LoopPost
    BY <2>2, <2>3, FreeIdFacts DEF LoopPost
  <2>4. CASE LoopRenew
    <3>1. loop.act.entry.id \in Ids
      BY <2>4 DEF LoopRenew, TypeOK, Actions, Entries
    <3>2. CASE relay[loop.act.entry.id] # "none"
      BY <2>2, <2>4, <3>1, <3>2 DEF LoopRenew
    <3>3. CASE relay[loop.act.entry.id] = "none"
      BY <1>t, <2>4, <3>3 DEF LoopRenew, Loops
    <3> QED BY <3>2, <3>3
  <2>5. CASE LoopSave
    <3> DEFINE s == loop.act.s
    <3>1. /\ s \in Sessions /\ loop'.pc = "act" /\ exists' = exists \union {s}
          /\ \A t \in Sessions : decl'[t] = IF t = s THEN loop.mem ELSE decl[t]
          /\ UNCHANGED <<call, orphans, td, granted>>
      BY <1>t, <2>5 DEF LoopSave, Loops, TypeOK, Actions
    <3>2. \A c \in Callers : call[c].pc = "idle"
      BY <2>5 DEF LoopSave, OneWriter
    <3> QED BY <2>5, <3>1, <3>2 DEF LoopSave
  <2>6. ASSUME NEW a \in loop.todo, LoopLoad(a) PROVE GrantInv'
    <3>1. a.s \in Sessions
      BY <1>t DEF Loops, Actions
    <3>2. \/ loop'.pc = "act"
          \/ loop'.act = a /\ loop'.mem = decl[a.s]
      BY <1>t, <2>6 DEF LoopLoad, Loops
    <3>3. UNCHANGED <<exists, decl, call, orphans, td, granted>>
      BY <2>6 DEF LoopLoad
    <3> QED BY <3>1, <3>2, <3>3
  <2> QED BY <1>2, <2>1, <2>3, <2>4, <2>5, <2>6 DEF Renewal, LoopFails
<1>3. CASE Sweep
  <2>1. CASE SweepScan
    <3>1. \A s \in Sessions : Orphan(s) => granted[s].new = {}
      BY <1>t DEF Orphan, Holds, Stands
    <3>2. loop'.pc = "sweep" /\ orphans' = {s \in Sessions : Orphan(s)} /\ UNCHANGED <<exists, decl, call, td, granted>>
      BY <1>t, <2>1 DEF SweepScan, Loops
    <3> QED BY <3>1, <3>2
  <2>2. ASSUME NEW s \in Sessions, SweepDelete(s) PROVE GrantInv'
    <3>1. /\ granted[s].new = {} /\ \A c \in Callers : call[c].pc = "idle"
          /\ loop.pc \notin Working
      BY <2>2 DEF SweepDelete, OneWriter
    <3>2. /\ exists' = exists \ {s} /\ orphans' = orphans \ {s}
          /\ \A t \in Sessions : decl'[t] = IF t = s THEN {} ELSE decl[t]
          /\ UNCHANGED <<call, loop, td, granted>>
      BY <1>t, <2>2 DEF SweepDelete, Forget
    <3>3. \A t \in Sessions : Holds(granted'[t].new, td'[t], decl'[t])
      <4>1. Holds(granted'[s].new, td'[s], decl'[s])
        <5>1. granted'[s].new = {}
          BY <3>1, <3>2
        <5> QED BY <1>0, <5>1
      <4>2. \A t \in Sessions \ {s} : Holds(granted'[t].new, td'[t], decl'[t])
        BY <3>2
      <4> QED BY <4>1, <4>2
    <3> QED BY <3>1, <3>2, <3>3
  <2> QED BY <1>t, <1>3, <2>1, <2>2 DEF Sweep
<1>4. CASE Tick
  <2>1. /\ scanned /\ loop.pc = "idle" /\ \A c \in Callers : call[c].pc = "idle"
        /\ \A s \in Sessions : granted[s].all # {} => s \in active
    BY <1>4 DEF Tick, Settled
  <2>2. loop.todo = {}
    BY <2>1 DEF AtRest
  <2>3. \A s \in Sessions : granted[s].new # {} => \A e \in decl[s] : e.age = "fresh"
    BY <2>1, <2>2 DEF Covered, Due, TypeOK
  <2>4. \A s \in Sessions : Holds(granted[s].new, td[s], AgeEntries(decl[s]))
    <3> TAKE s \in Sessions
    <3>1. CASE granted[s].new = {}
      BY <1>0, <3>1
    <3>2. CASE granted[s].new # {}
      BY <1>t, <2>3, <3>2, HoldsAged
    <3> QED BY <3>1, <3>2
  <2>5. (\A c \in Callers : call'[c].pc = "idle") /\ loop'.pc = "idle"
    BY <1>t, <1>4, <2>1 DEF Tick, Calls, Loops
  <2>6. \A s \in Sessions : decl'[s] = AgeEntries(decl[s]) /\ (decl[s] = {} => decl'[s] = {})
    BY <1>4 DEF Tick, AgeEntries
  <2>7. UNCHANGED <<exists, orphans, td, granted>>
    BY <1>4 DEF Tick
  <2> QED BY <2>4, <2>5, <2>6, <2>7
<1>5. CASE Crash
  <2>1. /\ \A c \in Callers : call'[c].pc = "idle"
        /\ loop'.pc = "start" /\ orphans' = {} /\ \A s \in Sessions : td'[s] = NoTeardown
        /\ UNCHANGED <<exists, decl, granted>>
    BY <1>5 DEF Crash, NoCall, NoLoop
  <2> QED BY <1>n, <2>1 DEF NoTeardown
<1>6. ASSUME NEW s \in Sessions, Register(s) \/ Remove(s) PROVE GrantInv'
  <2>1. CASE Register(s)
    BY <2>1 DEF Register
  <2>2. CASE Remove(s)
    <3>1. /\ granted'[s].new = {} /\ \A t \in Sessions \ {s} : granted'[t] = granted[t] /\ td'[t] = td[t]
          /\ UNCHANGED <<exists, decl, call, loop, orphans>>
      BY <1>t, <2>2 DEF Remove, NoGrant
    <3>2. \A t \in Sessions : Holds(granted'[t].new, td'[t], decl'[t])
      <4>1. Holds(granted'[s].new, td'[s], decl'[s])
        BY <3>1 DEF Holds
      <4>2. \A t \in Sessions \ {s} : Holds(granted'[t].new, td'[t], decl'[t])
        BY <3>1
      <4> QED BY <4>1, <4>2
    <3>3. MayStart
      BY <2>2 DEF Remove
    <3> QED BY <1>w, <3>1, <3>2, <3>3
  <2> QED BY <1>6, <2>1, <2>2
<1>7. ASSUME NEW s \in Sessions, Teardown(s) PROVE GrantInv'
  <2>1. /\ UNCHANGED <<call, loop, orphans, granted>>
        /\ \A t \in Sessions \ {s} : td'[t] = td[t] /\ decl'[t] = decl[t] /\ (t \in exists <=> t \in exists')
    BY <1>t, <1>7 DEF Teardown, TeardownSchedule, TeardownCompare, TeardownDelete, TeardownFiles, Forget
  <2>2. (\A c \in Callers : call[c].pc = "idle") /\ loop.pc \notin Working
    <3>1. MayStart \/ TdBusy(s)
      BY <1>7 DEF Teardown, TeardownSchedule, TeardownCompare, TeardownDelete, TeardownFiles
    <3> QED BY <1>w, <3>1 DEF OneWriter
  <2>3. CASE TdBusy(s)
    <3>1. granted[s].new = {}
      BY <2>3
    <3>2. s \notin exists' => decl'[s] = {}
      BY <1>t, <1>7, <2>3 DEF Teardown, TeardownSchedule, TeardownCompare, TeardownDelete, TeardownFiles, Forget
    <3>3. \A t \in Sessions : Holds(granted'[t].new, td'[t], decl'[t])
      <4>1. Holds(granted'[s].new, td'[s], decl'[s])
        BY <2>1, <3>1 DEF Holds
      <4>2. \A t \in Sessions \ {s} : Holds(granted'[t].new, td'[t], decl'[t])
        BY <2>1, <3>1
      <4> QED BY <4>1, <4>2
    <3> QED BY <2>1, <2>2, <3>1, <3>2, <3>3
  <2>4. CASE TeardownCompare(s)
    <3>1. UNCHANGED <<exists, decl>>
      BY <2>4 DEF TeardownCompare
    <3>2. CASE Unchanged(s)
      <4>1. granted[s].new = {}
        BY <2>4, <3>2 DEF TeardownCompare, Unchanged, Holds, Stands, IdsOf
      <4>2. \A t \in Sessions : Holds(granted'[t].new, td'[t], decl'[t])
        <5>1. Holds(granted'[s].new, td'[s], decl'[s])
          BY <2>1, <4>1 DEF Holds
        <5>2. \A t \in Sessions \ {s} : Holds(granted'[t].new, td'[t], decl'[t])
          BY <2>1, <4>1
        <5> QED BY <5>1, <5>2
      <4> QED BY <2>1, <2>2, <3>1, <4>1, <4>2
    <3>3. CASE ~Unchanged(s)
      <4>1. td'[s] = NoTeardown
        BY <1>t, <2>4, <3>3 DEF TeardownCompare
      <4> QED BY <1>n, <1>w, <2>1, <2>2, <2>4, <3>1, <4>1 DEF NoTeardown, TeardownCompare
    <3> QED BY <3>2, <3>3
  <2> QED BY <1>7, <2>3, <2>4 DEF Teardown, TeardownSchedule, TeardownDelete, TeardownFiles
<1>8. ASSUME NEW i \in Ids, RelayForgets(i) PROVE GrantInv'
  BY <1>8 DEF RelayForgets
<1>9. CASE UNCHANGED vars
  BY <1>9 DEF vars
<1> QED BY <1>1, <1>2, <1>3, <1>4, <1>5, <1>6, <1>7, <1>8, <1>9 DEF Next

\* NewGrantIsDeclared: as long as loads and saves of a declaration do not overlap,
\* requests succeed and calls, scans and heartbeats are timely, a registered session
\* keeps every subscription it was given a new id for, whatever teardown, sweep,
\* forgetful relay or restart of the server comes in between.
THEOREM GrantsStand == Spec => []({"overlap", "late", "http"} \cap may = {} => NewGrantIsDeclared)
<1> DEFINE Inv == {"overlap", "late", "http"} \cap may = {} => AtRest /\ Covered /\ OneWriter /\ GrantInv
<1>1. Init => Inv
  BY DEF Init, AtRest, Covered, OneWriter, GrantInv, Holds, NoCall, NoLoop, NoTeardown, NoGrant, Working, TdBusy
<1>2. TypeOK /\ Inv /\ [Next]_vars => Inv'
  BY MayStays, NextAtRest, NextCovered, NextOneWriter, NextGrants
<1>3. TypeOK /\ Inv => ({"overlap", "late", "http"} \cap may = {} => NewGrantIsDeclared)
  BY DEF NewGrantIsDeclared, DeclaredLabels, GrantInv, Holds, TypeOK
<1> HIDE DEF Inv
<1> QED BY <1>1, <1>2, <1>3, TypeCorrect, PTL DEF Spec

-----------------------------------------------------------------------------
\* SubscriptionsAreKept: the three of them, each where it can be relied on.
THEOREM SubscriptionsAlwaysKept == Spec => []SubscriptionsAreKept
<1>1. /\ OneEntryPerLabels
      /\ {"overlap", "late", "http"} \cap may = {} => NewGrantIsDeclared
      /\ may \subseteq {"overlap"} => LeaseNeverLapses
      => SubscriptionsAreKept
  BY DEF SubscriptionsAreKept
<1> QED BY <1>1, DeclaredOnce, GrantsStand, LeasesLive, PTL

--------------------------------------------------------------------------------
(***************************************************************************)
(* RelayPublish                                                            *)
(***************************************************************************)

\* A call under way has stored nothing, and tells a save from a publish.
Saving == {"open", "fill", "replace"}
CallsAgree ==
    \A c \in Speakers :
       /\ calls[c].stored <= 1
       /\ calls[c].answer = "ok" /\ calls[c].op # "save" => calls[c].stored = 1
       /\ doing[c].pc # "none" => calls[c].stored = 0 /\ calls[c].answer = "none"
       /\ doing[c].pc \in Saving => (doing[c].last <=> calls[c].op = "save")

\* As long as no two saves shared the temporary file, one save at most has a file
\* open, under the temporary name, and that is not the declaration.
Holding(c) == doing[c].pc \in {"fill", "replace"}
FilesAgree ==
    /\ name.decl # Nothing => content[name.decl] = "whole" /\ name.decl # name.tmp
    /\ \A c \in Speakers : Holding(c) =>
         /\ doing[c].node = name.tmp
         /\ content[name.tmp] = IF doing[c].pc = "fill" THEN "empty" ELSE "whole"
         /\ \A d \in Speakers : Holding(d) => c = d

PublishInv == CallsAgree /\ JoinedUnlessUnlucky /\ (~shared => FilesAgree)

-----------------------------------------------------------------------------
(* Type correctness *)

LEMMA CallingFacts ==
    ASSUME NEW x \in Callings
    PROVE  /\ x.pc \in {"none", "post", "create", "join", "insert", "open", "fill", "replace"}
           /\ x.pc = "open" => x.last \in BOOLEAN
           /\ x.pc \in {"fill", "replace"} =>
                /\ x.last \in BOOLEAN /\ x.node \in Nodes
                /\ x = [pc |-> x.pc, last |-> x.last, node |-> x.node]
           /\ x.pc = "none" => x = Silent
BY DEF Callings, Silent

LEMMA PublishTypeInit == PublishAssumption /\ PublishInit => PublishTypeOK
<1> SUFFICES ASSUME PublishInit PROVE PublishTypeOK
  OBVIOUS
<1>1. doing \in [Speakers -> Callings]
  BY DEF PublishInit, Callings
<1>2. calls \in [Speakers -> [made : Nat, op : {"none", "post", "publish", "save"},
                             answer : {"none", "ok", "error"}, stored : Nat]]
  BY DEF PublishInit
<1>3. /\ content \in [Nodes -> {"free", "empty", "whole", "torn"}]
      /\ name \in [decl : Nodes \union {Nothing}, tmp : Nodes \union {Nothing}]
  BY DEF PublishInit
<1> QED BY <1>1, <1>2, <1>3 DEF PublishInit, PublishTypeOK

LEMMA PublishTypeNext ==
    ASSUME PublishAssumption, PublishTypeOK, [PublishNext]_pubVars
    PROVE  PublishTypeOK'
<1> USE DEF PublishTypeOK, Go, At
<1>n. /\ Silent \in Callings
      /\ \A b \in BOOLEAN : [pc |-> "post", again |-> b] \in Callings /\ [pc |-> "open", last |-> b] \in Callings
      /\ \A p \in {"create", "join", "insert"} : [pc |-> p] \in Callings
      /\ \A p \in {"fill", "replace"}, b \in BOOLEAN, n \in Nodes : [pc |-> p, last |-> b, node |-> n] \in Callings
  BY DEF Callings
<1> DEFINE Records == [made : Nat, op : {"none", "post", "publish", "save"},
                       answer : {"none", "ok", "error"}, stored : Nat]
<1>1. ASSUME NEW c \in Speakers, NEW r \in Records, NEW x \in Callings
      PROVE  /\ [doing EXCEPT ![c] = x] \in [Speakers -> Callings]
             /\ [calls EXCEPT ![c] = r] \in [Speakers -> Records]
  OBVIOUS
<1>2. ASSUME NEW c \in Speakers, NEW a \in {"ok", "error"}, Answer(c, a)
      PROVE  doing' \in [Speakers -> Callings] /\ calls' \in [Speakers -> Records]
  BY <1>n, <1>2 DEF Answer
<1>3. ASSUME NEW c \in Speakers, NEW op \in {"post", "publish", "save"}, Start(c, op)
      PROVE  calls' \in [Speakers -> Records]
  BY <1>3 DEF Start
<1>4. ASSUME NEW c \in Speakers, NEW a \in {"ok", "error"}, NEW n \in Nat,
             calls' = [calls EXCEPT ![c].answer = a, ![c].stored = n]
      PROVE  calls' \in [Speakers -> Records]
  <2>1. calls \in [Speakers -> Records]
    OBVIOUS
  <2> HIDE DEF PublishTypeOK
  <2> HIDE DEF Records
  <2>2. [calls EXCEPT ![c].answer = a, ![c].stored = n]
          = [calls EXCEPT ![c] = [calls[c] EXCEPT !.answer = a, !.stored = n]]
    BY <2>1
  <2>3. calls[c] \in Records
    BY <2>1
  <2>4. [calls[c] EXCEPT !.answer = a, !.stored = n] \in Records
    BY <2>3 DEF Records
  <2> QED BY <1>4, <2>1, <2>2, <2>4
<1>5. ASSUME NEW c \in Speakers, NEW x \in Callings, Go(c, x), UNCHANGED calls
      PROVE  doing' \in [Speakers -> Callings] /\ calls' \in [Speakers -> Records]
  BY <1>5
<1>c. ASSUME NEW c \in Speakers, Post(c) \/ Send(c) \/ Create(c) \/ Join(c) PROVE PublishTypeOK'
  <2>1. CASE Post(c)
    BY <1>n, <1>3, <2>1 DEF Post
  <2>2. CASE Send(c)
    <3>1. doing' \in [Speakers -> Callings] /\ calls' \in [Speakers -> Records]
      <4>1. CASE IF doing[c].again THEN Answer(c, "error") ELSE Go(c, [pc |-> "create"]) /\ UNCHANGED calls
        <5>1. Answer(c, "error") \/ (Go(c, [pc |-> "create"]) /\ UNCHANGED calls)
          BY <4>1
        <5> HIDE DEF PublishTypeOK
        <5> QED BY <1>n, <1>2, <1>5, <5>1
      <4>2. CASE Go(c, Silent) /\ calls' = [calls EXCEPT ![c].answer = "ok", ![c].stored = @ + 1]
        <5>1. calls' = [calls EXCEPT ![c] = [calls[c] EXCEPT !.answer = "ok", !.stored = calls[c].stored + 1]]
          BY <4>2
        <5>2. calls[c].stored + 1 \in Nat
          OBVIOUS
        <5> QED BY <1>n, <1>4, <4>2, <5>1, <5>2
      <4>3. ASSUME NEW n \in {0, 1}, Go(c, Silent),
                   calls' = [calls EXCEPT ![c].answer = "error", ![c].stored = @ + n]
            PROVE  doing' \in [Speakers -> Callings] /\ calls' \in [Speakers -> Records]
        <5>1. calls' = [calls EXCEPT ![c] = [calls[c] EXCEPT !.answer = "error", !.stored = calls[c].stored + n]]
          BY <4>3
        <5>2. calls[c].stored + n \in Nat
          OBVIOUS
        <5> QED BY <1>n, <1>4, <4>3, <5>1, <5>2
      <4> QED BY <2>2, <4>1, <4>2, <4>3 DEF Send
    <3> QED BY <2>2, <3>1 DEF Send
  <2>3. CASE Create(c)
    <3>1. doing' \in [Speakers -> Callings] /\ calls' \in [Speakers -> Records]
      <4>1. Answer(c, "error") \/ \E x \in Callings : Go(c, x) /\ UNCHANGED calls
        BY <1>n, <2>3 DEF Create
      <4> HIDE DEF PublishTypeOK
      <4> QED BY <1>2, <1>5, <4>1
    <3> QED BY <2>3, <3>1 DEF Create
  <2>4. CASE Join(c)
    <3>1. doing' \in [Speakers -> Callings] /\ calls' \in [Speakers -> Records]
      <4>1. Answer(c, "error") \/ \E x \in Callings : Go(c, x) /\ UNCHANGED calls
        BY <1>n, <2>4 DEF Join
      <4> HIDE DEF PublishTypeOK
      <4> QED BY <1>2, <1>5, <4>1
    <3> QED BY <2>4, <3>1 DEF Join
  <2> QED BY <1>c, <2>1, <2>2, <2>3, <2>4
<1>d. ASSUME NEW c \in Speakers, Ensure(c) \/ Insert(c) \/ Open(c) \/ Fill(c) \/ Rename(c) PROVE PublishTypeOK'
  <2>1. CASE Ensure(c)
    <3>1. PICK op \in {"publish", "save"} :
            /\ Start(c, op)
            /\ Go(c, IF Readable /\ op = "publish" THEN [pc |-> "insert"]
                     ELSE [pc |-> "open", last |-> op = "save"])
      BY <2>1 DEF Ensure
    <3>2. doing' \in [Speakers -> Callings]
      BY <1>n, <3>1
    <3> QED BY <1>3, <2>1, <3>1, <3>2 DEF Ensure
  <2>2. CASE Insert(c)
    <3>1. doing' \in [Speakers -> Callings] /\ calls' \in [Speakers -> Records]
      <4>1. CASE Answer(c, "error")
        BY <1>2, <4>1
      <4>2. CASE Go(c, Silent) /\ calls' = [calls EXCEPT ![c].answer = "ok", ![c].stored = 1]
        BY <1>n, <1>4, <4>2
      <4> QED BY <2>2, <4>1, <4>2 DEF Insert
    <3> QED BY <2>2, <3>1 DEF Insert
  <2>3. CASE Open(c)
    <3>1. doing[c].last \in BOOLEAN
      BY <2>3, CallingFacts DEF Open
    <3>2. doing' \in [Speakers -> Callings]
      BY <1>n, <2>3, <3>1 DEF Open
    <3>3. /\ content' \in [Nodes -> {"free", "empty", "whole", "torn"}]
          /\ name' \in [decl : Nodes \union {Nothing}, tmp : Nodes \union {Nothing}]
          /\ shared' \in BOOLEAN
      BY <2>3 DEF Open, Held
    <3> QED BY <2>3, <3>2, <3>3 DEF Open
  <2>4. CASE Fill(c)
    <3>1. doing[c] = [pc |-> "fill", last |-> doing[c].last, node |-> doing[c].node]
          /\ doing[c].last \in BOOLEAN /\ doing[c].node \in Nodes
      BY <2>4, CallingFacts DEF Fill
    <3>2. [doing[c] EXCEPT !.pc = "replace"] = [pc |-> "replace", last |-> doing[c].last, node |-> doing[c].node]
      BY <3>1
    <3> QED BY <1>n, <2>4, <3>1, <3>2 DEF Fill
  <2>5. CASE Rename(c)
    <3>1. doing' \in [Speakers -> Callings] /\ calls' \in [Speakers -> Records]
      BY <1>n, <1>2, <2>5 DEF Rename
    <3>2. name' \in [decl : Nodes \union {Nothing}, tmp : Nodes \union {Nothing}]
      BY <2>5 DEF Rename
    <3> QED BY <2>5, <3>1, <3>2 DEF Rename, Freed
  <2> QED BY <1>d, <2>1, <2>2, <2>3, <2>4, <2>5
<1>e. CASE Delete
  BY <1>e DEF Delete, Freed
<1>f. CASE Die
  BY <1>n, <1>f DEF Die, Freed
<1>g. CASE UNCHANGED pubVars
  BY <1>g DEF pubVars
<1> QED BY <1>c, <1>d, <1>e, <1>f, <1>g DEF PublishNext

\* Every reachable state of the callers, the stream and the files is well typed.
THEOREM PublishTypeCorrect == PublishAssumption => (PublishSpec => []PublishTypeOK)
<1> SUFFICES ASSUME PublishAssumption PROVE PublishSpec => []PublishTypeOK
  OBVIOUS
<1> QED BY PublishTypeInit, PublishTypeNext, PTL DEF PublishSpec

-----------------------------------------------------------------------------
(* Copies, members and files *)

LEMMA NextCalls ==
    ASSUME PublishTypeOK, CallsAgree, [PublishNext]_pubVars
    PROVE  CallsAgree'
<1> USE DEF CallsAgree, Go, At, Saving
<1>t. /\ doing \in [Speakers -> Callings] /\ calls \in [Speakers -> [made : Nat, op : {"none", "post", "publish", "save"},
                              answer : {"none", "ok", "error"}, stored : Nat]]
      /\ Silent.pc = "none"
  BY DEF PublishTypeOK, Silent
<1>o. ASSUME NEW c \in Speakers, \A d \in Speakers \ {c} : doing'[d] = doing[d] /\ calls'[d] = calls[d],
             LET k == calls'[c] x == doing'[c] IN
             /\ k.stored <= 1 /\ (k.answer = "ok" /\ k.op # "save" => k.stored = 1)
             /\ x.pc # "none" => k.stored = 0 /\ k.answer = "none"
             /\ x.pc \in Saving => (x.last <=> k.op = "save")
      PROVE  CallsAgree'
  BY <1>o
<1>a. ASSUME NEW c \in Speakers, NEW a \in {"ok", "error"}, Answer(c, a), doing[c].pc # "none",
             a = "ok" => calls[c].op = "save"
      PROVE  CallsAgree'
  BY <1>t, <1>a DEF Answer
<1>s. ASSUME NEW c \in Speakers, NEW op \in {"post", "publish", "save"}, Start(c, op), NEW x, Go(c, x),
             x.pc \in Saving => (x.last <=> op = "save")
      PROVE  CallsAgree'
  BY <1>t, <1>s DEF Start
<1>g. ASSUME NEW c \in Speakers, NEW x, Go(c, x), calls' = calls, doing[c].pc # "none",
             x.pc \in Saving => doing[c].pc \in Saving /\ x.last = doing[c].last
      PROVE  CallsAgree'
  BY <1>t, <1>g
<1>1. ASSUME NEW c \in Speakers, Post(c) PROVE CallsAgree'
  BY <1>s, <1>1 DEF Post
<1>2. ASSUME NEW c \in Speakers, Send(c) PROVE CallsAgree'
  <2>1. CASE IF doing[c].again THEN Answer(c, "error") ELSE Go(c, [pc |-> "create"]) /\ UNCHANGED calls
    BY <1>a, <1>g, <1>2, <2>1 DEF Send
  <2>2. ASSUME NEW a \in {"ok", "error"}, NEW n \in {0, 1}, a = "ok" => n = 1, Go(c, Silent),
               calls' = [calls EXCEPT ![c].answer = a, ![c].stored = @ + n]
        PROVE  CallsAgree'
    <3>1. calls[c].stored = 0
      BY <1>2 DEF Send
    <3>2. calls'[c].stored = n /\ calls'[c].answer = a /\ doing'[c] = Silent
          /\ \A d \in Speakers \ {c} : doing'[d] = doing[d] /\ calls'[d] = calls[d]
      BY <1>t, <2>2, <3>1
    <3> QED BY <1>t, <1>o, <2>2, <3>2
  <2> QED BY <1>2, <2>1, <2>2 DEF Send
<1>3. ASSUME NEW c \in Speakers, Create(c) \/ Join(c) PROVE CallsAgree'
  BY <1>a, <1>g, <1>3 DEF Create, Join
<1>4. ASSUME NEW c \in Speakers, Ensure(c) PROVE CallsAgree'
  BY <1>s, <1>4 DEF Ensure
<1>5. ASSUME NEW c \in Speakers, Insert(c) PROVE CallsAgree'
  <2>1. CASE Answer(c, "error")
    BY <1>a, <1>5, <2>1 DEF Insert
  <2>2. CASE Go(c, Silent) /\ calls' = [calls EXCEPT ![c].answer = "ok", ![c].stored = 1]
    BY <1>t, <2>2
  <2> QED BY <1>5, <2>1, <2>2 DEF Insert
<1>6. ASSUME NEW c \in Speakers, Open(c) PROVE CallsAgree'
  BY <1>g, <1>6 DEF Open
<1>7. ASSUME NEW c \in Speakers, Fill(c) PROVE CallsAgree'
  <2>1. [doing[c] EXCEPT !.pc = "replace"].last = doing[c].last
    BY <1>t, <1>7, CallingFacts DEF Fill
  <2> QED BY <1>g, <1>7, <2>1 DEF Fill
<1>8. ASSUME NEW c \in Speakers, Rename(c) PROVE CallsAgree'
  <2>1. doing[c].last => calls[c].op = "save"
    BY <1>8 DEF Rename
  <2>2. CASE name.tmp = Nothing
    BY <1>a, <1>8, <2>2 DEF Rename
  <2>3. CASE name.tmp # Nothing
    BY <1>a, <1>g, <1>8, <2>1, <2>3 DEF Rename
  <2> QED BY <2>2, <2>3
<1>9. CASE Delete \/ Die \/ UNCHANGED pubVars
  BY <1>t, <1>9 DEF Delete, Die, pubVars
<1> QED BY <1>1, <1>2, <1>3, <1>4, <1>5, <1>6, <1>7, <1>8, <1>9 DEF PublishNext

LEMMA NextJoined ==
    ASSUME PublishTypeOK, JoinedUnlessUnlucky, [PublishNext]_pubVars
    PROVE  JoinedUnlessUnlucky'
<1> USE DEF JoinedUnlessUnlucky, Go, At
<1>t. doing \in [Speakers -> Callings] /\ unlucky \in BOOLEAN
  BY DEF PublishTypeOK
<1>1. ASSUME stream' = stream, unlucky' = unlucky, NEW c \in Speakers, ~At(c, "join"),
             \A d \in Speakers \ {c} : doing'[d] = doing[d]
      PROVE  JoinedUnlessUnlucky'
  BY <1>1
<1>2. ASSUME NEW c \in Speakers, Create(c) PROVE JoinedUnlessUnlucky'
  BY <1>t, <1>1, <1>2 DEF Create
<1>3. ASSUME NEW c \in Speakers, Join(c) PROVE JoinedUnlessUnlucky'
  BY <1>t, <1>3 DEF Join
<1>4. ASSUME NEW c \in Speakers, Send(c) PROVE JoinedUnlessUnlucky'
  BY <1>t, <1>1, <1>4 DEF Send, Answer
<1>5. ASSUME NEW c \in Speakers,
             Post(c) \/ Ensure(c) \/ Insert(c) \/ Open(c) \/ Fill(c) \/ Rename(c)
      PROVE  JoinedUnlessUnlucky'
  BY <1>t, <1>1, <1>5 DEF Post, Ensure, Insert, Open, Fill, Rename, Start, Answer, Silent
<1>6. CASE Delete \/ Die \/ UNCHANGED pubVars
  BY <1>6 DEF Delete, Die, pubVars
<1> QED BY <1>2, <1>3, <1>4, <1>5, <1>6 DEF PublishNext

LEMMA NextFiles ==
    ASSUME PublishAssumption, PublishTypeOK, FilesAgree, [PublishNext]_pubVars, ~shared'
    PROVE  FilesAgree'
<1> USE DEF FilesAgree, Holding, Go, At
<1>t. /\ doing \in [Speakers -> Callings] /\ content \in [Nodes -> {"free", "empty", "whole", "torn"}]
      /\ name \in [decl : Nodes \union {Nothing}, tmp : Nodes \union {Nothing}]
      /\ Nothing \notin Nodes /\ Nodes \subseteq Nat
  BY DEF PublishTypeOK, PublishAssumption, Nothing
<1>h. \A c \in Speakers : Holding(c) => doing[c].node \in Nodes /\ name.tmp = doing[c].node
  BY <1>t, CallingFacts
<1>u. ASSUME content' = content, name' = name,
             \A c \in Speakers : Holding(c)' => doing'[c] = doing[c]
      PROVE  FilesAgree'
  BY <1>u
<1>1. ASSUME NEW c \in Speakers, Post(c) \/ Send(c) \/ Create(c) \/ Join(c) \/ Ensure(c) \/ Insert(c)
      PROVE  FilesAgree'
  <2>1. content' = content /\ name' = name
    BY <1>1 DEF Post, Send, Create, Join, Ensure, Insert
  <2>2. doing'[c].pc \notin {"fill", "replace"} /\ \A d \in Speakers \ {c} : doing'[d] = doing[d]
    BY <1>t, <1>1 DEF Post, Send, Create, Join, Ensure, Insert, Answer, Silent
  <2> QED BY <1>u, <2>1, <2>2
<1>2. ASSUME NEW c \in Speakers, Open(c) PROVE FilesAgree'
  <2>1. PICK n \in Nodes :
          /\ IF name.tmp = Nothing THEN content[n] = "free" ELSE n = name.tmp
          /\ content' = [content EXCEPT ![n] = "empty"]
          /\ name' = [name EXCEPT !.tmp = n]
          /\ shared' = (shared \/ Held(doing, n))
          /\ Go(c, [pc |-> "fill", last |-> doing[c].last, node |-> n])
    BY <1>2 DEF Open
  <2>2. ~Held(doing, n)
    BY <2>1
  <2>3. \A d \in Speakers : ~Holding(d)
    BY <1>t, <1>h, <2>1, <2>2 DEF Held
  <2>4. name'.tmp = n /\ name'.decl = name.decl /\ name.decl # n
    BY <1>t, <2>1
  <2>5. \A d \in Speakers : Holding(d)' => d = c
    BY <1>t, <2>1, <2>3
  <2>6. doing'[c].pc = "fill" /\ doing'[c].node = n
    BY <1>t, <2>1
  <2> QED BY <1>t, <2>1, <2>4, <2>5, <2>6
<1>3. ASSUME NEW c \in Speakers, Fill(c) PROVE FilesAgree'
  <2>1. doing[c].node = name.tmp /\ content[name.tmp] = "empty" /\ name.tmp \in Nodes
    BY <1>h, <1>3 DEF Fill
  <2>2. content' = [content EXCEPT ![name.tmp] = "whole"] /\ name' = name
    BY <1>3, <2>1 DEF Fill
  <2>3. doing'[c].pc = "replace" /\ doing'[c].node = name.tmp /\ \A d \in Speakers \ {c} : doing'[d] = doing[d]
    BY <1>t, <1>3, <2>1, CallingFacts DEF Fill
  <2> QED BY <1>t, <1>3, <2>1, <2>2, <2>3 DEF Fill
<1>f. ASSUME NEW d, NEW names, NEW n \in Nodes, n \in {names.decl, names.tmp} \/ Held(d, n)
      PROVE  Freed(d, names, content)[n] = content[n]
  BY <1>f DEF Freed
<1>4. ASSUME NEW c \in Speakers, Rename(c) PROVE FilesAgree'
  <2>1. name.tmp \in Nodes /\ content[name.tmp] = "whole" /\ \A d \in Speakers : Holding(d) => d = c
    BY <1>h, <1>4 DEF Rename
  <2>2. name' = [decl |-> name.tmp, tmp |-> Nothing]
    BY <1>t, <1>4, <2>1 DEF Rename
  <2>3. doing'[c].pc \notin {"fill", "replace"} /\ \A d \in Speakers \ {c} : doing'[d] = doing[d]
    BY <1>t, <1>4 DEF Rename, Answer, Silent
  <2>4. content'[name.tmp] = "whole"
    BY <1>f, <1>4, <2>1, <2>2 DEF Rename
  <2> QED BY <1>t, <2>1, <2>2, <2>3, <2>4
<1>5. CASE Delete
  <2>1. name'.decl = Nothing /\ name'.tmp = name.tmp /\ doing' = doing
    BY <1>t, <1>5 DEF Delete
  <2>2. ASSUME NEW c \in Speakers, Holding(c)
        PROVE  content'[name.tmp] = content[name.tmp]
    <3>1. name.tmp \in Nodes
      BY <1>h, <2>2
    <3>2. content' = Freed(doing, name', content)
      BY <1>5 DEF Delete
    <3>3. name.tmp \in {name'.decl, name'.tmp}
      BY <2>1
    <3>4. Freed(doing, name', content)[name.tmp] = content[name.tmp]
      BY <3>1, <3>3 DEF Freed
    <3> QED BY <3>2, <3>4
  <2> QED BY <2>1, <2>2
<1>6. CASE Die
  <2>1. name' = name /\ \A c \in Speakers : doing'[c].pc = "none"
    BY <1>6 DEF Die, Silent
  <2>2. name.decl # Nothing => content'[name.decl] = content[name.decl]
    <3>1. name.decl # Nothing => name.decl \in Nodes
      BY <1>t
    <3>2. content' = Freed(doing', name, content)
      BY <1>6, <2>1 DEF Die
    <3> QED BY <1>f, <3>1, <3>2
  <2> QED BY <2>1, <2>2
<1>7. CASE UNCHANGED pubVars
  BY <1>7 DEF pubVars
<1> QED BY <1>1, <1>2, <1>3, <1>4, <1>5, <1>6, <1>7 DEF PublishNext

LEMMA SharedStays == PublishTypeOK /\ [PublishNext]_pubVars => (shared => shared')
BY DEF PublishTypeOK, PublishNext, pubVars, Post, Send, Create, Join, Ensure, Insert, Open, Fill, Rename, Delete, Die

\* PostsAreSound: a post that is answered as sent is at the relay once, and no call
\* leaves more than one copy; a stream is one its creator reads unless a request
\* failed or a call was cut; and a declaration file is whole unless two saves had
\* the temporary file open at once; for any number of callers that post, publish,
\* subscribe, leave and die.
THEOREM PostsAlwaysSound == PublishAssumption => (PublishSpec => []PostsAreSound)
<1> SUFFICES ASSUME PublishAssumption PROVE PublishSpec => []PostsAreSound
  OBVIOUS
<1>1. PublishInit => PublishInv
  <2> SUFFICES ASSUME PublishInit PROVE PublishInv
    OBVIOUS
  <2>1. \A c \in Speakers : doing[c].pc = "none" /\ calls[c].stored = 0 /\ calls[c].answer = "none"
    BY DEF PublishInit, Silent
  <2>2. CallsAgree
    BY <2>1 DEF CallsAgree, Saving
  <2>3. FilesAgree
    BY <2>1 DEF FilesAgree, Holding, PublishInit
  <2> QED BY <2>2, <2>3 DEF PublishInv, JoinedUnlessUnlucky, PublishInit
<1>2. PublishTypeOK /\ PublishInv /\ [PublishNext]_pubVars => PublishInv'
  <2> SUFFICES ASSUME PublishTypeOK, PublishInv, [PublishNext]_pubVars PROVE PublishInv'
    OBVIOUS
  <2>1. CallsAgree' /\ JoinedUnlessUnlucky'
    BY NextCalls, NextJoined DEF PublishInv
  <2>2. ~shared' => FilesAgree'
    BY NextFiles, SharedStays DEF PublishInv
  <2> QED BY <2>1, <2>2 DEF PublishInv
<1>3. PublishTypeOK /\ PublishInv => PostsAreSound
  BY DEF PublishTypeOK, PublishInv, PostsAreSound, CallsAgree, OneCopyEach, FilesAgree, WholeUnlessShared
<1> QED BY <1>1, <1>2, <1>3, PublishTypeCorrect, PTL DEF PublishSpec

--------------------------------------------------------------------------------
\* Every non-empty set of natural numbers has a least element.
LEMMA LeastNumber ==
    ASSUME NEW T, T \subseteq Nat, T # {}
    PROVE  \E x \in T : \A y \in T : x <= y
<1> DEFINE R == OpToRel(<, Nat)
<1>1. IsWellFoundedOn(R, Nat)
  BY NatLessThanWellFounded
<1>2. \E x \in T : \A y \in T : ~(<<y, x>> \in R)
  <2> HIDE DEF R
  <2> QED BY <1>1, WFMin
<1>3. \A x, y \in T : <<y, x>> \notin R => x <= y
  BY DEF OpToRel
<1> QED BY <1>2, <1>3

\* Sessions that exist have rows, of these kinds.
AliasRows == [alias : Seq(Nat), work : Works, pid : Nat, age : Nat, source : {"manual", "derived"}]

\* No two sessions answer to one alias.
AliasesUnique == \A j, k \in DOMAIN table : OneAlias(j, k)

AliasTypeOK ==
    /\ DOMAIN table \subseteq Clis
    /\ table \in [DOMAIN table -> AliasRows]
    /\ proc \in [Clis -> Nat]

LEMMA AppendIsInjective ==
    ASSUME NEW q \in Seq(Nat), NEW m \in Nat, NEW n \in Nat, Append(q, m) = Append(q, n)
    PROVE  m = n
<1>1. Append(q, m)[Len(q) + 1] = m /\ Append(q, n)[Len(q) + 1] = n
  OBVIOUS
<1> QED BY <1>1

\* Of as many numbers as there are aliases and one more, one gives a free alias.
LEMMA OneIsFree ==
    ASSUME NEW T, IsFiniteSet(T), NEW base \in Seq(Nat)
    PROVE  \E m \in 2 .. Cardinality(T) + 2 : Append(base, m) \notin T
<1> SUFFICES ASSUME \A m \in 2 .. Cardinality(T) + 2 : Append(base, m) \in T PROVE FALSE
  OBVIOUS
<1>1. PICK n \in Nat : n = Cardinality(T)
  BY FS_CardinalityType
<1> DEFINE g == [m \in 2 .. n + 2 |-> Append(base, m)]
<1>2. g \in [2 .. n + 2 -> T]
  BY <1>1
<1>3. IsFiniteSet(2 .. n + 2) /\ Cardinality(2 .. n + 2) = n + 1
  <2>1. 2 \in Int /\ n + 2 \in Int /\ ~(2 > n + 2) /\ n + 2 - 2 + 1 = n + 1
    BY <1>1
  <2> HIDE DEF g
  <2> QED BY <2>1, FS_Interval
<1>4. Cardinality(T) < Cardinality(2 .. n + 2)
  BY <1>1, <1>3
<1>5. PICK x, y \in 2 .. n + 2 : x # y /\ g[x] = g[y]
  <2> HIDE DEF g
  <2> QED BY <1>2, <1>3, <1>4, FS_PigeonHole
<1>6. x \in Nat /\ y \in Nat /\ Append(base, x) = Append(base, y)
  BY <1>1, <1>5
<1> QED
  BY <1>5, <1>6, AppendIsInjective

\* The number that _resolve_collision counts to is there, and the alias it gives
\* is nobody else's.
LEMMA ResolveIsFree ==
    ASSUME SessionAliasesAssumption, AliasTypeOK, NEW base \in Seq(Nat), NEW c \in Clis
    PROVE  Resolve(base, c) \in Seq(Nat) /\ Resolve(base, c) \notin TakenBut(c)
<1> DEFINE T == TakenBut(c)
           n == Cardinality(T)
           free == {m \in 2 .. n + 2 : Append(base, m) \notin T}
<1>1. IsFiniteSet(T) /\ n \in Nat
  <2>1. IsFiniteSet(DOMAIN table \ {c})
    BY FS_Subset DEF SessionAliasesAssumption, AliasTypeOK
  <2> DEFINE f == [k \in DOMAIN table \ {c} |-> table[k].alias]
  <2>2. f \in Surjection(DOMAIN table \ {c}, T)
    BY DEF Surjection, TakenBut
  <2> QED
    BY <2>1, <2>2, FS_Surjection, FS_CardinalityType
<1>2. free # {}
  BY <1>1, OneIsFree
<1>3. PICK least \in free : \A m \in free : least <= m
  <2>1. free \subseteq Nat
    BY <1>1
  <2> QED BY <1>2, <2>1, LeastNumber
<1> DEFINE first == CHOOSE m \in free : \A k \in free : m <= k
<1>4. first \in free
  BY <1>3
<1>5. first \in Nat /\ Append(base, first) \notin T
  BY <1>1, <1>4
<1>6. Resolve(base, c) = IF base \notin T THEN base ELSE Append(base, first)
  BY DEF Resolve
<1> QED
  BY <1>5, <1>6

--------------------------------------------------------------------------------
\* What _gc leaves of rows are some of these rows.
LEMMA CollectedRows ==
    ASSUME NEW rows, NEW after \in Collected(rows)
    PROVE  /\ DOMAIN after \subseteq DOMAIN rows
           /\ \A k \in DOMAIN after : after[k] = rows[k]
           /\ after = [k \in DOMAIN after |-> rows[k]]
BY DEF Collected, Live

\* A table that is not full of rows of that day keeps a live row of this day.
LEMMA CollectedKeepsNewest ==
    ASSUME SessionAliasesAssumption, NEW rows, NEW after \in Collected(rows), NEW c \in Live(rows),
           \A k \in Live(rows) : rows[k].age \in Nat,
           \A k \in Live(rows) \ {c} : rows[k].age > rows[c].age
    PROVE  c \in DOMAIN after
<1>1. PICK S \in SUBSET Live(rows) :
         /\ S = Live(rows) \/ Cardinality(S) = MaxEntries
         /\ \A k \in S, gone \in Live(rows) \ S : rows[k].age <= rows[gone].age
         /\ DOMAIN after = S
  BY DEF Collected
<1> SUFFICES ASSUME c \notin S PROVE FALSE
  BY <1>1
<1>2. Cardinality(S) = MaxEntries
  BY <1>1
<1>3. S # {}
  BY <1>2, FS_EmptySet DEF SessionAliasesAssumption
<1>4. PICK k \in S : TRUE
  BY <1>3
<1>5. rows[k].age <= rows[c].age /\ rows[k].age > rows[c].age
  BY <1>1, <1>4
<1> QED
  BY <1>1, <1>4, <1>5

LEMMA PutKeeps ==
    ASSUME AliasTypeOK, AliasesUnique, NEW c \in Clis, NEW row \in AliasRows, row.alias \notin TakenBut(c),
           table' \in Collected(Put(c, row)), UNCHANGED proc
    PROVE  AliasTypeOK' /\ AliasesUnique'
<1>1. /\ DOMAIN table' \subseteq DOMAIN table \union {c}
      /\ \A k \in DOMAIN table' : table'[k] = Put(c, row)[k]
      /\ table' = [k \in DOMAIN table' |-> Put(c, row)[k]]
  <2>1. DOMAIN Put(c, row) = DOMAIN table \union {c}
    BY DEF Put
  <2> QED BY <2>1, CollectedRows
<1>2. \A k \in DOMAIN table' : table'[k] = IF k = c THEN row ELSE table[k]
  BY <1>1 DEF Put
<1>3. \A k \in DOMAIN table' : table'[k] \in AliasRows
  BY <1>1, <1>2 DEF AliasTypeOK
<1>4. AliasTypeOK'
  BY <1>1, <1>3 DEF AliasTypeOK
<1>5. ASSUME NEW j \in DOMAIN table', NEW k \in DOMAIN table', table'[j].alias = table'[k].alias
      PROVE  j = k
  <2>1. CASE j # c /\ k # c
    BY <1>1, <1>2, <1>5, <2>1 DEF AliasesUnique, OneAlias
  <2>2. \A i \in DOMAIN table' \ {c} : table'[i].alias \in TakenBut(c)
    BY <1>1, <1>2 DEF TakenBut
  <2> QED BY <1>2, <1>5, <2>1, <2>2
<1> QED
  BY <1>4, <1>5 DEF AliasesUnique, OneAlias

LEMMA PutAnswers ==
    ASSUME SessionAliasesAssumption, AliasTypeOK, NEW c \in Clis, NEW row \in AliasRows,
           row.age = 0, row.pid = proc[c], proc[c] # 0,
           \A k \in DOMAIN table \ {c} : table[k].age > 0,
           table' \in Collected(Put(c, row))
    PROVE  c \in DOMAIN table' /\ table'[c].alias = row.alias
<1> DEFINE rows == Put(c, row)
<1>1. /\ DOMAIN rows = DOMAIN table \union {c}
      /\ \A k \in DOMAIN rows : rows[k] = IF k = c THEN row ELSE table[k]
  BY DEF Put
<1> HIDE DEF rows
<1>2. c \in Live(rows)
  BY <1>1 DEF Live, SessionAliasesAssumption
<1>3. \A k \in Live(rows) : rows[k].age \in Nat
  <2>1. \A k \in DOMAIN rows : rows[k] \in AliasRows
    BY <1>1 DEF AliasTypeOK
  <2> QED BY <2>1 DEF Live, AliasRows
<1>4. \A k \in Live(rows) \ {c} : rows[k].age > rows[c].age
  BY <1>1 DEF Live
<1>5. table' \in Collected(rows)
  BY DEF rows
<1>6. c \in DOMAIN table'
  BY <1>2, <1>3, <1>4, <1>5, CollectedKeepsNewest
<1>7. table'[c] = rows[c]
  BY <1>5, <1>6, CollectedRows
<1> QED
  BY <1>1, <1>6, <1>7

--------------------------------------------------------------------------------
LEMMA OwnAliasIsFree ==
    ASSUME AliasTypeOK, AliasesUnique, NEW c \in DOMAIN table
    PROVE  table[c].alias \notin TakenBut(c)
BY DEF AliasesUnique, OneAlias, TakenBut

LEMMA RegisterCheckinKeeps ==
    ASSUME SessionAliasesAssumption, AliasTypeOK, AliasesUnique,
           NEW c \in Clis, NEW w \in Works, RegisterCheckin(c, w)
    PROVE  AliasTypeOK' /\ AliasesUnique' /\ AnsweredIsListed
<1> DEFINE kept == c \in DOMAIN table /\ table[c].source = "manual" /\ table[c].work = w
           alias == IF kept THEN table[c].alias ELSE Resolve(TitleOf[w], c)
           row == [alias |-> alias, work |-> w, pid |-> proc[c], age |-> 0,
                   source |-> IF kept THEN "manual" ELSE "derived"]
<1>1. /\ proc[c] # 0 /\ table' \in Collected(Put(c, row))
      /\ answer' = [who |-> c, alias |-> alias] /\ UNCHANGED proc
  BY DEF RegisterCheckin
<1>2. alias \in Seq(Nat) /\ alias \notin TakenBut(c)
  <2>1. TitleOf[w] \in Seq(Nat)
    BY DEF SessionAliasesAssumption
  <2>2. Resolve(TitleOf[w], c) \in Seq(Nat) /\ Resolve(TitleOf[w], c) \notin TakenBut(c)
    BY <2>1, ResolveIsFree
  <2>3. kept => table[c].alias \in Seq(Nat) /\ table[c].alias \notin TakenBut(c)
    BY OwnAliasIsFree DEF AliasTypeOK, AliasRows
  <2> QED BY <2>2, <2>3
<1>3. proc[c] \in Nat
  BY DEF AliasTypeOK
<1> HIDE DEF alias, kept
<1>4. row \in AliasRows /\ row.alias = alias /\ row.age = 0 /\ row.pid = proc[c]
  BY <1>2, <1>3 DEF AliasRows
<1> HIDE DEF row
<1>5. AliasTypeOK' /\ AliasesUnique'
  BY <1>1, <1>2, <1>4, PutKeeps
<1>6. ASSUME AsCheckedIn(answer'.who)
      PROVE  c \in DOMAIN table' /\ table'[c].alias = alias
  <2>1. \A k \in DOMAIN table \ {c} : table[k].age > 0
    BY <1>1, <1>6 DEF AsCheckedIn
  <2> QED BY <1>1, <1>4, <2>1, PutAnswers
<1>7. AnsweredIsListed
  BY <1>1, <1>6 DEF AnsweredIsListed
<1> QED
  BY <1>5, <1>7

LEMMA SetAliasKeeps ==
    ASSUME SessionAliasesAssumption, AliasTypeOK, AliasesUnique,
           NEW c \in Clis, NEW wanted \in Wanted, SetAlias(c, wanted)
    PROVE  AliasTypeOK' /\ AliasesUnique' /\ AnsweredIsListed
<1> DEFINE alias == Resolve(wanted, c)
           row == [table[c] EXCEPT !.alias = alias, !.source = "manual", !.age = 0]
<1>1. /\ proc[c] # 0 /\ c \in DOMAIN table /\ table' \in Collected(Put(c, row))
      /\ answer' = [who |-> c, alias |-> alias] /\ UNCHANGED proc
  BY DEF SetAlias
<1>2. alias \in Seq(Nat) /\ alias \notin TakenBut(c)
  BY ResolveIsFree DEF SessionAliasesAssumption
<1> HIDE DEF alias
<1>3. row \in AliasRows /\ row.alias = alias /\ row.age = 0 /\ row.pid = table[c].pid
  <2>1. table[c] \in AliasRows
    BY <1>1 DEF AliasTypeOK
  <2> QED BY <1>2, <2>1 DEF AliasRows
<1> HIDE DEF row
<1>4. AliasTypeOK' /\ AliasesUnique'
  BY <1>1, <1>2, <1>3, PutKeeps
<1>5. ASSUME AsCheckedIn(answer'.who)
      PROVE  c \in DOMAIN table' /\ table'[c].alias = alias
  <2>1. row.pid = proc[c] /\ \A k \in DOMAIN table \ {c} : table[k].age > 0
    BY <1>1, <1>3, <1>5 DEF AsCheckedIn
  <2> QED BY <1>1, <1>3, <2>1, PutAnswers
<1>6. AnsweredIsListed
  BY <1>1, <1>5 DEF AnsweredIsListed
<1> QED
  BY <1>4, <1>6

LEMMA OtherAliasSteps ==
    ASSUME SessionAliasesAssumption, AliasTypeOK, AliasesUnique,
           \/ ListSessions \/ FileBroken \/ AliasDay
           \/ \E c \in Clis : CliStarts(c) \/ CliEnds(c)
    PROVE  AliasTypeOK' /\ AliasesUnique' /\ AnsweredIsListed
<1>1. answer' = NoAnswer
  BY DEF ListSessions, FileBroken, AliasDay, CliStarts, CliEnds
<1>2. AnsweredIsListed
  BY <1>1 DEF AnsweredIsListed
<1>3. CASE ListSessions
  <2>1. /\ DOMAIN table' \subseteq DOMAIN table
        /\ \A k \in DOMAIN table' : table'[k] = table[k]
        /\ table' = [k \in DOMAIN table' |-> table[k]]
    BY <1>3, CollectedRows DEF ListSessions
  <2> QED BY <1>2, <1>3, <2>1 DEF ListSessions, AliasTypeOK, AliasesUnique, OneAlias
<1>4. CASE FileBroken
  BY <1>2, <1>4 DEF FileBroken, AliasTypeOK, AliasesUnique, OneAlias
<1>5. CASE AliasDay
  <2>1. /\ DOMAIN table' = DOMAIN table
        /\ table' = [k \in DOMAIN table |-> [table[k] EXCEPT !.age = IF @ <= TTL THEN @ + 1 ELSE @]]
    BY <1>5 DEF AliasDay
  <2>2. \A k \in DOMAIN table : table'[k] \in AliasRows /\ table'[k].alias = table[k].alias
    <3> TAKE k \in DOMAIN table
    <3>1. table[k] \in AliasRows
      BY DEF AliasTypeOK
    <3>2. table'[k] = [table[k] EXCEPT !.age = IF table[k].age <= TTL THEN table[k].age + 1 ELSE table[k].age]
      BY <2>1
    <3>3. (IF table[k].age <= TTL THEN table[k].age + 1 ELSE table[k].age) \in Nat
      BY <3>1 DEF AliasRows
    <3> QED BY <3>1, <3>2, <3>3 DEF AliasRows
  <2> QED BY <1>2, <1>5, <2>1, <2>2 DEF AliasDay, AliasTypeOK, AliasesUnique, OneAlias
<1>6. CASE \E c \in Clis : CliStarts(c) \/ CliEnds(c)
  <2>1. UNCHANGED table /\ proc' \in [Clis -> Nat]
    BY <1>6 DEF CliStarts, CliEnds, AliasTypeOK, SessionAliasesAssumption
  <2> QED BY <1>2, <2>1 DEF AliasTypeOK, AliasesUnique, OneAlias
<1> QED
  BY <1>3, <1>4, <1>5, <1>6

\* AliasesAreKept: however many sessions derive, ask for and lose aliases, no two
\* are listed by one, and a session is listed by the alias that it was answered.
THEOREM AliasesAlwaysKept == ASSUME SessionAliasesAssumption PROVE AliasSpec => AliasesAreKept
<1>1. AliasInit => AliasTypeOK /\ AliasesUnique
  BY DEF AliasInit, AliasTypeOK, AliasesUnique, OneAlias, SessionAliasesAssumption
<1>2. AliasTypeOK /\ AliasesUnique /\ AliasNext => AliasTypeOK' /\ AliasesUnique' /\ AnsweredIsListed
  BY RegisterCheckinKeeps, SetAliasKeeps, OtherAliasSteps DEF AliasNext
<1>3. AliasTypeOK /\ AliasesUnique /\ UNCHANGED aliasVars => AliasTypeOK' /\ AliasesUnique'
  BY DEF aliasVars, AliasTypeOK, AliasesUnique, OneAlias
<1>4. AliasesUnique <=> \A j, k \in DOMAIN table : OneAlias(j, k)
  BY DEF AliasesUnique
<1> QED
  BY <1>1, <1>2, <1>3, <1>4, PTL DEF AliasSpec, AliasesAreKept
=============================================================================
