------------------------- MODULE RelaySubscriptions -------------------------
(***************************************************************************)
(* Who owns a subscription of the relay: the declaration file of each      *)
(* session (declarations.py) and the four parties that load it, talk to    *)
(* the relay, and save it back or delete it without a lock:                *)
(*   - relay_subscribe calls (service.py), in a thread each;               *)
(*   - the lease loop (lease_loop.py), which renews and resubscribes;      *)
(*   - its sweep of orphan declarations;                                   *)
(*   - the teardown (teardown.py) of a session that was removed.           *)
(*                                                                         *)
(* Leases are dates. What matters of a date is its distance to now, so a   *)
(* date is an age that every Tick of the clock moves on.                   *)
(***************************************************************************)
EXTENDS Naturals, FiniteSets

CONSTANTS
    Sessions, Labels, Ids,  \* label sets and subscription ids are atoms
    Callers,   \* concurrent relay_subscribe calls
    Nobody,    \* no session, no action
    Conditions \* the sets of what may happen together: of Hazards

\* Loads and saves of a declaration overlap, as in the code; calls, scans and
\* heartbeats take longer than a Tick, or one comes before what a call saved is
\* scanned; the relay forgets, a request fails, the server dies, a session leaves.
Hazards == {"overlap", "late", "forget", "http", "crash", "remove"}

ASSUME SubscriptionsAssumption ==
    Nobody \notin Sessions /\ Conditions \subseteq SUBSET Hazards

\* fresh: more than a third of the lease left; due: less; expired; old: expired
\* for longer than the orphan threshold.
Ages == {"fresh", "due", "expired", "old"}
Older == [fresh |-> "due", due |-> "expired", expired |-> "old", old |-> "old"]
Entries == [labels : Labels, id : Ids, age : Ages]

VARIABLES
    relay,     \* per id, the lease the relay holds ("none": no subscription)
    active,    \* SessionManager: the sessions that are registered
    exists,    \* the sessions with a declaration file
    decl,      \* its entries
    call,      \* per caller: pc, session, labels, loaded entries, new id
    loop,      \* the lease loop: pc, actions to do, the current one, loaded entries
    scanned,   \* it has scanned since the last Tick, registration or save of a call
    orphans,   \* the sessions the sweep has still to delete
    td,        \* per session, its teardown: pc and the ids to compare or delete
    granted,   \* history: per session, label sets relay_subscribe has answered,
               \* and those it answered with a new id, since it registered
    may        \* what may happen in this behaviour: one of Conditions, from first to last

vars == <<relay, active, exists, decl, call, loop, scanned, orphans, td, granted, may>>

-----------------------------------------------------------------------------
IdsOf(entries) == {e.id : e \in entries}

LeaseActive(e) == e.age \in {"fresh", "due"}

FindLabels(entries, ls) == {e \in entries : e.labels = ls}

Upsert_Adds(entries, e) == entries \union {e}
Upsert(entries, e) == (entries \ FindLabels(entries, e.labels)) \union {e}

\* The relay gives out an id that nobody has any more.
Referenced ==
    (UNION {IdsOf(decl[s]) : s \in Sessions})
    \union (UNION {IdsOf(call[c].mem) : c \in Callers})
    \union IdsOf(loop.mem) \union {a.entry.id : a \in loop.todo}
    \union (UNION {td[s].ids : s \in Sessions})
FreeIds == {i \in Ids : relay[i] = "none"} \ Referenced

\* Is something under way that loaded a declaration or is about to delete it?
Writing ==
    \/ \E c \in Callers : call[c].pc # "idle"
    \/ loop.pc \in {"renew", "post", "save"}
    \/ orphans # {}
    \/ \E s \in Sessions : td[s].pc \in {"schedule", "delete", "files"}
MayStart == "overlap" \in may \/ ~Writing

NoCall == [pc |-> "idle", s |-> Nobody, labels |-> Nobody, mem |-> {}]
NoTeardown == [pc |-> "idle", ids |-> {}]
NoLoop == [pc |-> "start", todo |-> {}, act |-> Nobody, mem |-> {}]
NoGrant == [all |-> {}, new |-> {}]

Grant(s, ls, isNew) ==
    granted' = IF s \notin active THEN granted ELSE
        [granted EXCEPT ![s].all = @ \union {ls},
                        ![s].new = IF isNew THEN @ \union {ls} ELSE @]

-----------------------------------------------------------------------------
Init ==
    /\ relay = [i \in Ids |-> "none"]
    /\ active = {} /\ exists = {}
    /\ decl = [s \in Sessions |-> {}]
    /\ call = [c \in Callers |-> NoCall]
    /\ loop = NoLoop /\ scanned = FALSE /\ orphans = {}
    /\ td = [s \in Sessions |-> NoTeardown]
    /\ granted = [s \in Sessions |-> NoGrant]
    /\ may \in Conditions

-----------------------------------------------------------------------------
(* relay_subscribe *)

\* ensure loads the declaration; a missing one is created, empty.
SubLoad(c, s, ls) ==
    /\ MayStart
    /\ call[c].pc = "idle" /\ s \in active
    /\ call' = [call EXCEPT ![c] =
        [pc |-> IF s \in exists THEN "find" ELSE "create",
         s |-> s, labels |-> ls, mem |-> decl[s]]]
    /\ UNCHANGED <<relay, active, exists, decl, loop, scanned, orphans, td, granted>>

SubCreate(c) ==
    LET s == call[c].s
    IN /\ call[c].pc = "create"
       /\ exists' = exists \union {s}
       /\ decl' = [decl EXCEPT ![s] = {}]
       /\ call' = [call EXCEPT ![c].pc = "find"]
       /\ UNCHANGED <<relay, active, loop, scanned, orphans, td, granted>>

\* An entry whose lease is active answers the call.
SubReuse(c) ==
    /\ call[c].pc = "find"
    /\ \E e \in FindLabels(call[c].mem, call[c].labels) : LeaseActive(e)
    /\ Grant(call[c].s, call[c].labels, FALSE)
    /\ call' = [call EXCEPT ![c] = NoCall]
    /\ UNCHANGED <<relay, active, exists, decl, loop, scanned, orphans, td>>

\* Otherwise the relay creates one, and the call upserts it into what it loaded.
SubPost(c) ==
    LET e(i) == [labels |-> call[c].labels, id |-> i, age |-> "fresh"]
    IN /\ call[c].pc = "find"
       /\ \A x \in FindLabels(call[c].mem, call[c].labels) : ~LeaseActive(x)
       /\ \E i \in FreeIds :
            /\ relay' = [relay EXCEPT ![i] = "fresh"]
            /\ call' = [call EXCEPT ![c].pc = "save", ![c].mem = Upsert(@, e(i))]
       /\ UNCHANGED <<active, exists, decl, loop, scanned, orphans, td, granted>>

\* The request fails: the caller gets an error.
SubFails(c) ==
    /\ "http" \in may
    /\ call[c].pc = "find"
    /\ \A x \in FindLabels(call[c].mem, call[c].labels) : ~LeaseActive(x)
    /\ call' = [call EXCEPT ![c] = NoCall]
    /\ UNCHANGED <<relay, active, exists, decl, loop, scanned, orphans, td, granted>>

SubSave(c) ==
    LET s == call[c].s
    IN /\ call[c].pc = "save"
       /\ exists' = exists \union {s}
       /\ decl' = [decl EXCEPT ![s] = call[c].mem]
       /\ Grant(s, call[c].labels, TRUE)
       /\ call' = [call EXCEPT ![c] = NoCall]
       /\ scanned' = FALSE
       /\ UNCHANGED <<relay, active, loop, orphans, td>>

-----------------------------------------------------------------------------
(* The lease loop *)

\* compute_renew_actions: entries of registered sessions that are due or expired.
RenewKinds_OnlyExpired == [fresh |-> "none", due |-> "none",
                           expired |-> "post", old |-> "post"]
RenewKinds == [fresh |-> "none", due |-> "renew", expired |-> "post", old |-> "post"]

RenewActions ==
    {a \in [s : active, entry : UNION {decl[s] : s \in active}, kind : {"renew", "post"}] :
        a.entry \in decl[a.s] /\ a.kind = RenewKinds[a.entry.age]}

LoopScan ==
    /\ loop.pc = "idle"
    /\ loop' = [loop EXCEPT !.pc = "act", !.todo = RenewActions]
    /\ scanned' = TRUE
    /\ UNCHANGED <<relay, active, exists, decl, call, orphans, td, granted>>

\* apply_action: load the declaration again; the entry may have gone.
LoopLoad(a) ==
    LET found == {e \in decl[a.s] : e.id = a.entry.id}
    IN /\ MayStart
       /\ loop.pc = "act" /\ a \in loop.todo
       /\ loop' = IF found = {} THEN [loop EXCEPT !.todo = @ \ {a}]
                  ELSE [pc |-> a.kind, todo |-> loop.todo \ {a}, act |-> a, mem |-> decl[a.s]]
       /\ UNCHANGED <<relay, active, exists, decl, call, scanned, orphans, td, granted>>

\* What the loaded declaration becomes when the current entry is replaced.
Replace(i) ==
    {IF e.id = loop.act.entry.id THEN [labels |-> e.labels, id |-> i, age |-> "fresh"] ELSE e :
        e \in loop.mem}

\* put_lease; 404 or 410 falls through to a new subscription.
LoopRenew ==
    LET i == loop.act.entry.id
    IN /\ loop.pc = "renew"
       /\ IF relay[i] # "none"
          THEN /\ relay' = [relay EXCEPT ![i] = "fresh"]
               /\ loop' = [loop EXCEPT !.pc = "save", !.mem = Replace(i)]
          ELSE loop' = [loop EXCEPT !.pc = "post"] /\ UNCHANGED relay
       /\ UNCHANGED <<active, exists, decl, call, scanned, orphans, td, granted>>

LoopPost ==
    /\ loop.pc = "post"
    /\ \E i \in FreeIds :
        /\ relay' = [relay EXCEPT ![i] = "fresh"]
        /\ loop' = [loop EXCEPT !.pc = "save", !.mem = Replace(i)]
    /\ UNCHANGED <<active, exists, decl, call, scanned, orphans, td, granted>>

\* A transient failure: the action is left to the next scan.
LoopFails ==
    /\ "http" \in may
    /\ loop.pc \in {"renew", "post"}
    /\ loop' = [loop EXCEPT !.pc = "act", !.act = Nobody, !.mem = {}]
    /\ UNCHANGED <<relay, active, exists, decl, call, scanned, orphans, td, granted>>

LoopSave ==
    LET s == loop.act.s
    IN /\ loop.pc = "save"
       /\ exists' = exists \union {s}
       /\ decl' = [decl EXCEPT ![s] = loop.mem]
       /\ loop' = [loop EXCEPT !.pc = "act", !.act = Nobody, !.mem = {}]
       /\ UNCHANGED <<relay, active, call, scanned, orphans, td, granted>>

LoopEnd ==
    /\ loop.pc = "act" /\ loop.todo = {}
    /\ loop' = [loop EXCEPT !.pc = "end"]
    /\ UNCHANGED <<relay, active, exists, decl, call, scanned, orphans, td, granted>>

\* The sweep, when the thread starts and, once an hour, after the renewals:
\* every lease of the declaration is old, or it has none.
Orphan_NotEmpty(s) == s \in exists /\ decl[s] # {} /\ \A e \in decl[s] : e.age = "old"
Orphan(s) == s \in exists /\ \A e \in decl[s] : e.age = "old"

SweepScan ==
    /\ MayStart
    /\ loop.pc \in {"start", "end"}
    /\ orphans' = {s \in Sessions : Orphan(s)}
    /\ loop' = [loop EXCEPT !.pc = "sweep"]
    /\ UNCHANGED <<relay, active, exists, decl, call, scanned, td, granted>>

\* Nothing left to delete, or no sweep is due: wait for the next scan.
LoopWait ==
    /\ loop.pc = "end" \/ (loop.pc = "sweep" /\ orphans = {})
    /\ loop' = [loop EXCEPT !.pc = "idle"]
    /\ UNCHANGED <<relay, active, exists, decl, call, scanned, orphans, td, granted>>

\* delete_orphan_state.
Forget(s) ==
    /\ exists' = exists \ {s}
    /\ decl' = [decl EXCEPT ![s] = {}]

SweepDelete(s) ==
    /\ s \in orphans
    /\ Forget(s)
    /\ orphans' = orphans \ {s}
    /\ UNCHANGED <<relay, active, call, loop, scanned, td, granted>>

-----------------------------------------------------------------------------
(* SessionManager and the teardown *)

Register(s) ==
    /\ s \notin active
    /\ active' = active \union {s}
    /\ scanned' = FALSE
    /\ UNCHANGED <<relay, exists, decl, call, loop, orphans, td, granted>>

\* unregister or a missed heartbeat. Bound: one teardown of a session at a time.
Remove(s) ==
    /\ "remove" \in may /\ MayStart
    /\ s \in active /\ td[s].pc = "idle"
    /\ active' = active \ {s}
    /\ granted' = [granted EXCEPT ![s] = NoGrant]
    /\ td' = [td EXCEPT ![s].pc = "schedule"]
    /\ UNCHANGED <<relay, exists, decl, call, loop, scanned, orphans>>

\* schedule: the snapshot of the ids at the time of the removal.
TeardownSchedule(s) ==
    /\ td[s].pc = "schedule"
    /\ td' = [td EXCEPT ![s] = IF s \in exists THEN [pc |-> "compare", ids |-> IdsOf(decl[s])]
                               ELSE NoTeardown]
    /\ UNCHANGED <<relay, active, exists, decl, call, loop, scanned, orphans, granted>>

\* The declaration has changed since, so the session is back: leave it alone.
Unchanged_Always(s) == s \in exists
Unchanged(s) == s \in exists /\ IdsOf(decl[s]) = td[s].ids

TeardownCompare(s) ==
    /\ MayStart
    /\ td[s].pc = "compare"
    /\ td' = [td EXCEPT ![s] = IF Unchanged(s) THEN [pc |-> "delete", ids |-> IdsOf(decl[s])]
                               ELSE NoTeardown]
    /\ UNCHANGED <<relay, active, exists, decl, call, loop, scanned, orphans, granted>>

\* delete_subscription of each id, best effort.
TeardownDelete(s) ==
    /\ td[s].pc = "delete"
    /\ \E gone \in (IF "http" \in may THEN SUBSET td[s].ids ELSE {td[s].ids}) :
        relay' = [i \in Ids |-> IF i \in gone THEN "none" ELSE relay[i]]
    /\ td' = [td EXCEPT ![s] = [pc |-> "files", ids |-> {}]]
    /\ UNCHANGED <<active, exists, decl, call, loop, scanned, orphans, granted>>

TeardownFiles(s) ==
    /\ td[s].pc = "files"
    /\ Forget(s)
    /\ td' = [td EXCEPT ![s] = NoTeardown]
    /\ UNCHANGED <<relay, active, call, loop, scanned, orphans, granted>>

-----------------------------------------------------------------------------
(* Time, the relay, and the server process *)

AgeEntries(entries) == {[e EXCEPT !.age = Older[@]] : e \in entries}

\* Nothing is under way, and the sessions that live have sent their heartbeat.
Settled ==
    /\ scanned /\ loop.pc = "idle"
    /\ \A c \in Callers : call[c].pc = "idle"
    /\ \A s \in Sessions : td[s].pc = "idle" /\ (granted[s].all # {} => s \in active)

Tick ==
    /\ Settled \/ "late" \in may
    /\ scanned' = FALSE
    /\ relay' = [i \in Ids |-> IF relay[i] = "fresh" THEN "due" ELSE "none"]
    /\ decl' = [s \in Sessions |-> AgeEntries(decl[s])]
    /\ call' = [c \in Callers |-> [call[c] EXCEPT !.mem = AgeEntries(@)]]
    /\ loop' = [loop EXCEPT !.mem = AgeEntries(@)]
    /\ UNCHANGED <<active, exists, orphans, td, granted>>

\* The relay loses a subscription (it restarted).
RelayForgets(i) ==
    /\ "forget" \in may
    /\ relay[i] # "none"
    /\ relay' = [relay EXCEPT ![i] = "none"]
    /\ UNCHANGED <<active, exists, decl, call, loop, scanned, orphans, td, granted>>

\* The server restarts: calls, the loop and teardowns are gone, and so is the
\* list of sessions, which their heartbeats fill again.
Crash ==
    /\ "crash" \in may
    /\ active' = {}
    /\ call' = [c \in Callers |-> NoCall]
    /\ loop' = NoLoop /\ scanned' = FALSE /\ orphans' = {}
    /\ td' = [s \in Sessions |-> NoTeardown]
    /\ UNCHANGED <<relay, exists, decl, granted>>

-----------------------------------------------------------------------------
Subscribe(c) ==
    \/ \E s \in Sessions, ls \in Labels : SubLoad(c, s, ls)
    \/ SubCreate(c) \/ SubReuse(c) \/ SubPost(c) \/ SubFails(c) \/ SubSave(c)
Renewal ==
    \/ LoopScan \/ LoopWait \/ LoopRenew \/ LoopPost \/ LoopFails \/ LoopSave \/ LoopEnd
    \/ \E a \in loop.todo : LoopLoad(a)
Sweep == SweepScan \/ \E s \in orphans : SweepDelete(s)
Teardown(s) ==
    TeardownSchedule(s) \/ TeardownCompare(s) \/ TeardownDelete(s) \/ TeardownFiles(s)

Next ==
    /\ \/ \E c \in Callers : Subscribe(c)
       \/ Renewal \/ Sweep \/ Tick \/ Crash
       \/ \E s \in Sessions : Register(s) \/ Remove(s) \/ Teardown(s)
       \/ \E i \in Ids : RelayForgets(i)
    /\ UNCHANGED may

Spec == Init /\ [][Next]_vars

-----------------------------------------------------------------------------
(* Properties *)

Calls == [pc : {"idle", "create", "find", "save"}, s : Sessions \union {Nobody},
          labels : Labels \union {Nobody}, mem : SUBSET Entries]
Actions == [s : Sessions, entry : Entries, kind : {"renew", "post"}]
Loops == [pc : {"start", "idle", "act", "renew", "post", "save", "end", "sweep"},
          todo : SUBSET Actions, act : Actions \union {Nobody}, mem : SUBSET Entries]
Teardowns == [pc : {"idle", "schedule", "compare", "delete", "files"}, ids : SUBSET Ids]

\* A call under way is of a session for a label set, a loop at work has an action.
TypeOK ==
    /\ relay \in [Ids -> {"fresh", "due", "none"}]
    /\ active \subseteq Sessions /\ exists \subseteq Sessions /\ orphans \subseteq Sessions
    /\ decl \in [Sessions -> SUBSET Entries]
    /\ call \in [Callers -> Calls]
    /\ \A c \in Callers : call[c].pc # "idle" => call[c].s \in Sessions /\ call[c].labels \in Labels
    /\ loop \in Loops /\ (loop.pc \in {"renew", "post", "save"} => loop.act \in Actions)
    /\ scanned \in BOOLEAN
    /\ td \in [Sessions -> Teardowns]
    /\ granted \in [Sessions -> [all : SUBSET Labels, new : SUBSET Labels]]
    /\ \A s \in Sessions : granted[s].new \subseteq granted[s].all

DeclaredLabels(s) == {e.labels : e \in decl[s]}

\* A registered session is subscribed to whatever relay_subscribe told it since
\* it registered: nobody saves an older declaration over it or deletes it.
GrantedIsDeclared == \A s \in active : granted[s].all \subseteq DeclaredLabels(s)

\* The same of the subscriptions it was given a new id for, which the comparison
\* of the teardown is there to protect.
NewGrantIsDeclared == \A s \in active : granted[s].new \subseteq DeclaredLabels(s)

\* No label set is declared twice, in however stale a copy it was upserted: a
\* session hears a message once.
OneEntryPerLabels ==
    \A s \in Sessions : \A e, f \in decl[s] : e.labels = f.labels => e = f

\* A lease is renewed before it ends: what a registered session declares is
\* live at the relay (while the relay does not lose it and renewals succeed).
LeaseNeverLapses ==
    \A s \in active : \A e \in decl[s] : relay[e.id] # "none"

\* What the above come to.  A new subscription stays declared as long as loads and
\* saves do not overlap and requests succeed; a lease never lapses as long as
\* nothing fails; both as long as calls, scans and heartbeats are timely.
SubscriptionsAreKept ==
    /\ OneEntryPerLabels
    /\ {"overlap", "late", "http"} \cap may = {} => NewGrantIsDeclared
    /\ may \subseteq {"overlap"} => LeaseNeverLapses

\* The declaration of a session that has gone for good is deleted, by the
\* teardown or, when the server died or the teardown stood back, by the sweep.
DepartedIsRemoved == \A s \in Sessions : <>[](s \notin active) => <>[](s \notin exists)
=============================================================================
