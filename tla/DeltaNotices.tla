----------------------------- MODULE DeltaNotices -----------------------------
(***************************************************************************)
(* What a session is told of its topics: the context a check-in gathers    *)
(* (checkin_service.py) and the notices of later records that the delta    *)
(* middleware adds to the answers of other tool calls.                     *)
(*                                                                         *)
(* A tool runs in a thread of its own and commits; its answer then passes  *)
(* through the middleware, whose handlers run one at a time on the event   *)
(* loop and keep a watermark per session and kind of record.               *)
(***************************************************************************)
EXTENDS Integers, Sequences, FiniteSets, SequencesExt

CONSTANTS Listeners,      \* the sessions
          Scopes,         \* the activities
          Topics,
          TopicsOf,       \* the topics each activity is related to
          Kinds,          \* kinds of records, of "decision", "log", "material"
          Limit,          \* DECISIONS_FULL_LIMIT
          MaxSessions,    \* _WATERMARKS_MAX_SESSIONS
          MaxRows,        \* bound: records there will ever be
          MaxCalls        \* bound: calls a session has under way at once

DeltaAssumption ==
    /\ Kinds \subseteq {"decision", "log", "material"}
    /\ TopicsOf \in [Scopes -> SUBSET Topics]
    /\ Limit \in Nat \ {0} /\ MaxSessions \in Nat \ {0} /\ MaxCalls \in Nat \ {0}

VARIABLES
    rows,     \* the records of each kind, in the order of their ids
    pinned,   \* pins: what is pinned to each activity (or to one of its tags)
    mark,     \* _watermarks
    order,    \* the sessions that have one, in order of insertion
    under,    \* the calls of each session whose answer is on its way
    shown,    \* what the last check-in of a session showed
    told,     \* what a session was told since its baseline
    inTurn    \* calls do not overlap; never changes

deltaVars == <<rows, pinned, mark, order, under, shown, told, inTurn>>

Ref == UNION {{<<k, i>> : i \in 1..Len(rows[k])} : k \in DOMAIN rows}
RowOf(r) == rows[r[1]][r[2]]
Live(r) == RowOf(r).live

NoMark == [at |-> "none"]

\* material_scope_clause: materials count for the topics and for the activity,
\* decisions and logs for the topics alone.
InScope(r, scope) ==
    RowOf(r).in \intersect (TopicsOf[scope] \union (IF r[1] = "material" THEN {scope} ELSE {})) # {}

IdsOf(S, k) == {r[2] : r \in {x \in S : x[1] = k}}
IsHighest(n, S) == n \in S /\ \A m \in S : m <= n

\* get_baseline: the highest id in scope, retracted or not.
IsBaseline(at, a) ==
    \A k \in Kinds : IsHighest(at[k], {0} \union IdsOf({r \in Ref : InScope(r, a)}, k))

\* compute_delta: what stands in scope above the watermark.
Delta(m) == {r \in Ref : InScope(r, m.scope) /\ Live(r) /\ r[2] > m.at[r[1]]}

DeltaInit ==
    /\ rows = [k \in Kinds |-> <<>>]
    /\ pinned = [a \in Scopes |-> {}]
    /\ mark = [s \in Listeners |-> NoMark]
    /\ order = <<>>
    /\ under = [s \in Listeners |-> {}]
    /\ shown = [s \in Listeners |-> {}]
    /\ told = [s \in Listeners |-> {}]
    /\ inTurn \in BOOLEAN

--------------------------------------------------------------------------------
\* What a check-in shows of an activity.  The newest decisions of its topics
\* (ORDER BY id DESC LIMIT) ...
DecisionsOfTopics(a) == {r \in Ref : r[1] = "decision" /\ Live(r) /\ InScope(r, a)}
AreRecent(S, all) ==
    /\ S \subseteq all
    /\ IF S = all THEN Cardinality(S) <= Limit ELSE Cardinality(S) = Limit
    /\ \A r \in S, q \in all \ S : r[2] > q[2]

\* ... the newest log with its text and the others as a catalogue ...
LogsOfTopics(a) == {r \in Ref : r[1] = "log" /\ Live(r) /\ InScope(r, a)}
LatestLog(a) == {r \in LogsOfTopics(a) : \A q \in LogsOfTopics(a) : q[2] <= r[2]}
LogsCatalog(a) == LogsOfTopics(a) \ LatestLog(a)

\* ... the materials related to the activity itself, and what is pinned.
Materials(a) == {r \in Ref : r[1] = "material" /\ Live(r) /\ a \in RowOf(r).in}
PinnedTargets(a) == {r \in pinned[a] : Live(r)}

Context(recent, a) ==
    recent \union LatestLog(a) \union LogsCatalog(a) \union Materials(a) \union PinnedTargets(a)

Enter(s, c) ==
    /\ Cardinality(under[s]) < MaxCalls
    /\ inTurn => \A x \in Listeners : under[x] = {}
    /\ under' = [under EXCEPT ![s] = @ \union {c}]
Leave(s, c) == under' = [under EXCEPT ![s] = @ \ {c}]

\* check_in gathers its context; the answer has yet to pass the middleware.
Gather(s, a) ==
    /\ \E recent \in SUBSET DecisionsOfTopics(a) :
          /\ AreRecent(recent, DecisionsOfTopics(a))
          /\ Enter(s, [tool |-> "check_in", act |-> a, context |-> Context(recent, a)])
    /\ UNCHANGED <<rows, pinned, mark, order, shown, told>>

\* add_decisions, add_logs, add_material.
AddRecord(s, k, places) ==
    /\ Cardinality(Ref) < MaxRows
    /\ rows' = [rows EXCEPT ![k] =
                  Append(@, [by |-> s, in |-> places, live |-> TRUE, late |-> FALSE])]
    /\ Enter(s, [tool |-> "write", row |-> <<k, Len(rows[k]) + 1>>])
    /\ UNCHANGED <<pinned, mark, order, shown, told>>

Alter(r, row) == rows' = [rows EXCEPT ![r[1]] = [@ EXCEPT ![r[2]] = row]]

\* Any other tool; retract, its undo, add_relation and update_pin among them.
Other(s) ==
    /\ Enter(s, [tool |-> "other"])
    /\ \/ UNCHANGED <<rows, pinned>>
       \/ \E r \in Ref :
             /\ Alter(r, [RowOf(r) EXCEPT !.live = ~@, !.late = TRUE])
             /\ UNCHANGED pinned
       \/ \E r \in Ref, t \in Topics :
             /\ Alter(r, [RowOf(r) EXCEPT !.in = @ \union {t}, !.late = TRUE])
             /\ UNCHANGED pinned
       \/ \E r \in Ref, a \in Scopes :
             /\ pinned' = [pinned EXCEPT ![a] = @ \union {r}]
             /\ UNCHANGED rows
    /\ UNCHANGED <<mark, order, shown, told>>

\* The oldest session makes room for a new one.
Evicted(s) == IF s \notin Range(order) /\ Len(order) >= MaxSessions THEN {order[1]} ELSE {}

\* _handle_check_in.
HandleCheckIn(s) ==
    \E c \in under[s], at \in [Kinds -> 0..MaxRows] :
       /\ c.tool = "check_in"
       /\ IsBaseline(at, c.act)
       /\ mark' = [x \in Listeners |->
                     IF x = s THEN [scope |-> c.act, at |-> at]
                     ELSE IF x \in Evicted(s) THEN NoMark ELSE mark[x]]
       /\ order' = LET kept == SelectSeq(order, LAMBDA x : x \notin Evicted(s))
                   IN  IF s \in Range(order) THEN order ELSE Append(kept, s)
       /\ shown' = [shown EXCEPT ![s] = c.context]
       /\ told' = [told EXCEPT ![s] = {}]
       /\ Leave(s, c)
       /\ UNCHANGED <<rows, pinned>>

MoveTo(s, at) == mark' = [mark EXCEPT ![s] = [@ EXCEPT !.at = at]]

\* _handle_write: the watermark passes the session's own record, in scope.
HandleWrite_Unscoped(s) ==
    \E c \in under[s] :
       /\ c.tool = "write"
       /\ Leave(s, c)
       /\ IF mark[s] # NoMark
          THEN MoveTo(s, [mark[s].at EXCEPT ![c.row[1]] = IF c.row[2] > @ THEN c.row[2] ELSE @])
          ELSE UNCHANGED mark
       /\ UNCHANGED <<rows, pinned, order, shown, told>>

HandleWrite(s) ==
    \E c \in under[s] :
       /\ c.tool = "write"
       /\ Leave(s, c)
       /\ IF mark[s] # NoMark /\ InScope(c.row, mark[s].scope)
          THEN MoveTo(s, [mark[s].at EXCEPT ![c.row[1]] = IF c.row[2] > @ THEN c.row[2] ELSE @])
          ELSE UNCHANGED mark
       /\ UNCHANGED <<rows, pinned, order, shown, told>>

\* _handle_other: the notice, and the watermark past what it names; a busy
\* database ends the handler before either.
HandleOther_Stuck(s) ==
    \E c \in under[s] :
       /\ c.tool = "other"
       /\ Leave(s, c)
       /\ \/ /\ mark[s] # NoMark
             /\ told' = [told EXCEPT ![s] = @ \union Delta(mark[s])]
             /\ \E at \in [Kinds -> 0..MaxRows] :
                   /\ \A k \in Kinds :
                         IsHighest(at[k], {mark[s].at[k]} \union {n - 1 : n \in IdsOf(Delta(mark[s]), k)})
                   /\ MoveTo(s, at)
          \/ UNCHANGED <<mark, told>>
       /\ UNCHANGED <<rows, pinned, order, shown>>

HandleOther(s) ==
    \E c \in under[s] :
       /\ c.tool = "other"
       /\ Leave(s, c)
       /\ \/ /\ mark[s] # NoMark
             /\ told' = [told EXCEPT ![s] = @ \union Delta(mark[s])]
             /\ \E at \in [Kinds -> 0..MaxRows] :
                   /\ \A k \in Kinds : IsHighest(at[k], {mark[s].at[k]} \union IdsOf(Delta(mark[s]), k))
                   /\ MoveTo(s, at)
          \/ UNCHANGED <<mark, told>>
       /\ UNCHANGED <<rows, pinned, order, shown>>

\* Restart: the watermarks are lost, and the answers under way.
Restart ==
    /\ mark' = [s \in Listeners |-> NoMark] /\ order' = <<>>
    /\ under' = [s \in Listeners |-> {}]
    /\ UNCHANGED <<rows, pinned, shown, told>>

Places(k) == IF k = "material" THEN Topics \union Scopes ELSE Topics

DeltaNext ==
    /\ \/ \E s \in Listeners :
             \/ \E a \in Scopes : Gather(s, a)
             \/ \E k \in Kinds : \E p \in Places(k) : AddRecord(s, k, {p})
             \/ Other(s)
             \/ HandleCheckIn(s) \/ HandleWrite(s) \/ HandleOther(s)
       \/ Restart
    /\ UNCHANGED inTurn

DeltaSpec == DeltaInit /\ [][DeltaNext]_deltaVars

--------------------------------------------------------------------------------
\* A session is told of a record once between two check-ins, and never of one
\* that it wrote itself into the scope (the announce-once promise and the
\* suppression of own records; calls of one session one after the other).
NoEcho ==
    \A s \in Listeners : mark[s] # NoMark =>
       /\ told[s] \intersect Delta(mark[s]) = {}
       /\ \A r \in told[s] : RowOf(r).by = s => RowOf(r).late

\* Once a notice was given, the session knows everything that stands in the
\* scope of its check-in, related there from the start: it was shown, or its
\* check-in only had room for newer ones, or it was told, or it is older than a
\* record of the session's own.
Knows(s, r) ==
    \/ r \in told[s] \union shown[s]
    \/ \E q \in Ref : q[1] = r[1] /\ q[2] >= r[2] /\ RowOf(q).by = s /\ InScope(q, mark[s].scope)
    \/ r[1] = "decision"
       /\ Cardinality({q \in shown[s] : q[1] = "decision" /\ q[2] > r[2]}) >= Limit
    \/ r[1] = "material" /\ mark[s].scope \notin RowOf(r).in   \* only counted for its topic

UpToDate(s) == mark[s] # NoMark /\ Delta(mark[s]) = {}

NothingMissed ==
    \A s \in Listeners : UpToDate(s) =>
       \A r \in Ref : Live(r) /\ InScope(r, mark[s].scope) /\ ~RowOf(r).late => Knows(s, r)

\* A session is told of a record once and never of its own; one call at a time, it
\* misses none.
NoticesAreSound == NoEcho /\ (inTurn => NothingMissed)

================================================================================
