-------------------------------- MODULE Habits --------------------------------
(***************************************************************************)
(* Habits and their projection to a rules file (habit_service.py,          *)
(* habit_projection.py, migration 0065, the habits section of              *)
(* session_start_hook.py).                                                 *)
(*                                                                         *)
(* update_habit reads the row and the pool's total before the statement    *)
(* that writes, a trigger checks the pool again; every change is then      *)
(* exported to a file Claude Code loads when a session starts, and the     *)
(* hook of the session start compares that file with the table.            *)
(***************************************************************************)
EXTENDS Integers, FiniteSets

CONSTANTS Habits,        \* bound: the ids, positive numbers
          Sizes,         \* lengths of contents; a content is its length
          MaxContent,    \* _ALWAYS_PROMOTION_MAX_CONTENT_CHARS
          Capacity,      \* CALM_ALWAYS_POOL_CAPACITY
          Ceiling,       \* the 2000 characters of migration 0065
          MaxItems,      \* CALM_PROJECTION_MANIFEST_MAX_ITEMS
          MaxColumns,    \* bound: how many columns a call sets
          Callers, Starters

HabitsAssumption ==
    /\ Habits \subseteq Nat \ {0} /\ IsFiniteSet(Habits) /\ Sizes \subseteq Nat \ {0}
    /\ MaxContent \in Nat \ {0} /\ Capacity \in Nat /\ Ceiling \in Nat /\ MaxItems \in Nat

VARIABLES
    habits,   \* the rows; cold: not referenced for HABIT_MANIFEST_DECAY_DAYS
    rules,    \* the rules file: its body and the body its hash was taken of
    doing,    \* the call of each caller and of each session start
    told,     \* what the hook of a session start said of the habits
    alone,    \* one call at a time
    exporting \* CALM_HABITS_RULES_EXPORT

habitVars == <<habits, rules, doing, told, alone, exporting>>

None == [size |-> 0]
NoCall == [pc |-> "none"]
Exists(h) == habits[h] # None
InPool(row) == row # None /\ row.active /\ row.always

\* The characters of the pool, told apart by the habit and their place in it.
Chars(h, row) == IF InPool(row) THEN {h} \X (1 .. row.size) ELSE {}
Total(rows) == Cardinality(UNION {Chars(h, rows[h]) : h \in Habits})
Larger(m, n) == IF m > n THEN m ELSE n

--------------------------------------------------------------------------------
\* The layers of the projection: every habit of the pool in full, and the
\* first MaxItems titles of what is recalled on demand.
Manifest == {h \in Habits : Exists(h) /\ ~habits[h].always /\ habits[h].active
                            /\ ~habits[h].archived /\ ~habits[h].cold}
Titles == {h \in Manifest : Cardinality({k \in Manifest : k < h}) < MaxItems}
Body == [always |-> {<<h, habits[h].size>> : h \in {k \in Habits : InPool(habits[k])}},
         titles |-> {<<h, habits[h].size>> : h \in Titles},
         more |-> Cardinality(Manifest \ Titles)]
Placeholder == [always |-> {}, titles |-> {}, more |-> -1]
Edited == [always |-> {}, titles |-> {}, more |-> -2]

NoRules == [body |-> Placeholder, meta |-> Edited]     \* a file without its header
File(b) == [body |-> b, meta |-> b]

\* _write: unless forced, a file whose body is the same is left as it is; a
\* write goes through a temporary file of the thread and may fail.
WriteRules(b, force, failed) ==
    rules' = IF failed \/ (~force /\ rules # NoRules /\ rules.body = b) THEN rules ELSE File(b)

HabitsInit ==
    /\ habits \in [Habits -> {None} \cup
                    [size : Sizes, always : {TRUE}, active : {TRUE}, archived : {FALSE}, cold : {FALSE}]]
    /\ rules = NoRules
    /\ doing = [p \in Callers \cup Starters |-> NoCall]
    /\ told = [s \in Starters |-> "all"]
    /\ alone \in BOOLEAN /\ exporting \in BOOLEAN

Does(p, c) == doing' = [doing EXCEPT ![p] = c]
Export == [pc |-> "export"]
Fixed == UNCHANGED <<alone, exporting>>

\* Whoever is alone begins, and time passes, when no call is under way.
InTurn == alone => \A p \in DOMAIN doing : doing[p] = NoCall

--------------------------------------------------------------------------------
AddHabit(p) ==
    /\ doing[p] = NoCall /\ InTurn
    /\ \E h \in Habits, n \in Sizes, archived \in BOOLEAN :
          /\ ~Exists(h)
          /\ habits' = [habits EXCEPT ![h] = [size |-> n, always |-> FALSE, active |-> TRUE,
                                              archived |-> archived, cold |-> FALSE]]
    /\ Does(p, Export)
    /\ UNCHANGED <<rules, told>> /\ Fixed

\* Naming a habit is a reference to it.
GetHabit(p) ==
    /\ doing[p] = NoCall /\ InTurn
    /\ \E h \in Habits : Exists(h) /\ habits' = [habits EXCEPT ![h].cold = FALSE]
    /\ UNCHANGED <<rules, doing, told>> /\ Fixed

\* An update gives new values to some of the columns; {} leaves one as it is.
Given(values) == {{}} \cup {{n} : n \in values}
Changes == {c \in [size : Given(Sizes), always : Given(BOOLEAN), active : Given(BOOLEAN),
                   archived : Given(BOOLEAN)] :
              Cardinality({x \in DOMAIN c : c[x] # {}}) \in 1..MaxColumns}
New(change, old) == IF change = {} THEN old ELSE CHOOSE n \in change : TRUE
Updated(row, c) ==
    [size |-> New(c.size, row.size), always |-> New(c.always, row.always),
     active |-> New(c.active, row.active), archived |-> New(c.archived, row.archived), cold |-> row.cold]

UpdateRead(p) ==
    /\ doing[p] = NoCall /\ InTurn
    /\ \E h \in Habits, c \in Changes :
          Exists(h) /\ Does(p, [pc |-> "gate", habit |-> h, row |-> habits[h], change |-> c])
    /\ UNCHANGED <<habits, rules, told>> /\ Fixed

\* _check_always_promotion_gate_with_conn: a habit of the pool is short when
\* its content or mode is set, and the pool does not outgrow its capacity, or
\* what it is already.
Gate(pre, c) ==
    LET post == Updated(pre, c)
        now == Total(habits)
        then == now - (IF InPool(pre) THEN pre.size ELSE 0) + post.size
    IN post.always =>
         /\ (c.size # {} \/ c.always # {}) => post.size < MaxContent
         /\ post.active => then <= Larger(now, Capacity)

UpdateGate_NoTotal(p) ==
    /\ doing[p].pc = "gate"
    /\ IF LET post == Updated(doing[p].row, doing[p].change)
          IN post.always /\ (doing[p].change.size # {} \/ doing[p].change.always # {})
               => post.size < MaxContent
       THEN Does(p, [pc |-> "write", habit |-> doing[p].habit, change |-> doing[p].change])
       ELSE Does(p, NoCall)
    /\ UNCHANGED <<habits, rules, told>> /\ Fixed

UpdateGate(p) ==
    /\ doing[p].pc = "gate"
    /\ IF Gate(doing[p].row, doing[p].change)
       THEN Does(p, [pc |-> "write", habit |-> doing[p].habit, change |-> doing[p].change])
       ELSE Does(p, NoCall)
    /\ UNCHANGED <<habits, rules, told>> /\ Fixed

\* The trigger of migration 0065 on content, active and trigger_mode: a pool
\* over the ceiling does not grow.
Ratchet_ContentOnly(rows, c) == c.size # {} => Total(rows) <= Larger(Total(habits), Ceiling)
Ratchet(rows, c) ==
    c.size # {} \/ c.active # {} \/ c.always # {} => Total(rows) <= Larger(Total(habits), Ceiling)

UpdateWrite(p) ==
    /\ doing[p].pc = "write"
    /\ LET rows == [habits EXCEPT ![doing[p].habit] = Updated(@, doing[p].change)]
       IN IF Ratchet(rows, doing[p].change)
          THEN habits' = rows /\ Does(p, Export)
          ELSE Does(p, NoCall) /\ UNCHANGED habits
    /\ UNCHANGED <<rules, told>> /\ Fixed

--------------------------------------------------------------------------------
\* export: reads the layers, then writes the file.
ExportRead(p) ==
    /\ doing[p].pc = "export"
    /\ Does(p, [pc |-> "project", body |-> IF exporting THEN Body ELSE Placeholder])
    /\ UNCHANGED <<habits, rules, told>> /\ Fixed

ExportWrite(p) ==
    /\ doing[p].pc = "project"
    /\ \E failed \in BOOLEAN : WriteRules(doing[p].body, FALSE, failed)
    /\ Does(p, NoCall)
    /\ UNCHANGED <<habits, told>> /\ Fixed

\* A session starts: Claude Code has loaded the rules file, then runs the hook.
Load(s) ==
    /\ doing[s] = NoCall /\ InTurn
    /\ Does(s, [pc |-> "verify", loaded |-> rules.body])
    /\ told' = [told EXCEPT ![s] = "all"]
    /\ UNCHANGED <<habits, rules>> /\ Fixed

VerifyRead(s) ==
    /\ doing[s].pc = "verify"
    /\ Does(s, [pc |-> "heal", loaded |-> doing[s].loaded, body |-> Body])
    /\ UNCHANGED <<habits, rules, told>> /\ Fixed

Fresh_HeaderOnly(b) == rules # NoRules /\ rules.meta = b
Fresh(b) == rules # NoRules /\ rules.body = b /\ rules.meta = b

\* verify_and_heal and what the section says of its result: nothing of a fresh
\* file, a notice of one it has replaced, and everything where there was no
\* file, it could not be written or the context was compacted.
VerifyHeal(s) ==
    /\ doing[s].pc = "heal"
    /\ \E failed, compact \in BOOLEAN :
          /\ IF exporting /\ ~Fresh(doing[s].body)
             THEN WriteRules(doing[s].body, TRUE, failed) ELSE UNCHANGED rules
          /\ told' = [told EXCEPT ![s] =
               CASE compact \/ ~exporting \/ rules = NoRules -> "all"
                 [] Fresh(doing[s].body) -> "nothing"
                 [] OTHER -> IF failed THEN "all" ELSE "notice"]
    /\ Does(s, NoCall)
    /\ UNCHANGED habits /\ Fixed

--------------------------------------------------------------------------------
\* The environment: time passes, somebody edits or deletes the file.
Fade == /\ InTurn
        /\ \E h \in Habits : Exists(h) /\ habits' = [habits EXCEPT ![h].cold = TRUE]
        /\ UNCHANGED <<rules, doing, told>> /\ Fixed
Tamper == /\ \/ rules # NoRules /\ rules' = [rules EXCEPT !.body = Edited]
             \/ rules' = NoRules
          /\ UNCHANGED <<habits, doing, told>> /\ Fixed

Call(p) ==
    \/ AddHabit(p) \/ GetHabit(p) \/ UpdateRead(p) \/ UpdateGate(p) \/ UpdateWrite(p)
    \/ ExportRead(p) \/ ExportWrite(p)

HabitsNext ==
    \/ \E p \in Callers : Call(p)
    \/ \E s \in Starters : Load(s) \/ VerifyRead(s) \/ VerifyHeal(s)
    \/ Fade \/ Tamper

HabitsSpec == HabitsInit /\ [][HabitsNext]_habitVars

--------------------------------------------------------------------------------
\* However updates overlap, the pool of always-on habits never grows past the
\* ceiling, nor past what it already was (migration 0065, after the gate of
\* update_habit has let two calls through).
PoolIsRatcheted == Total(habits') <= Larger(Total(habits), Ceiling)

\* One call at a time, the gate holds: the pool never outgrows its capacity,
\* and no content of MaxContent characters or more enters the pool but by a
\* row that was always-on before (habit_service.py:284, 305).
GateHolds ==
    /\ Total(habits') <= Larger(Total(habits), Capacity)
    /\ \A h \in Habits : habits'[h].size >= MaxContent /\ habits'[h].always
                          => habits[h].size = habits'[h].size /\ habits[h].always

\* A session start with no other call under way leaves the file as the table
\* says, and a session that is told nothing loaded just that, whatever a write
\* that failed and edits did to the file before, and edits do meanwhile
\* (session_start_hook.py:366-386).
StartsAreTrue ==
    \A s \in Starters :
        doing[s].pc = "heal" /\ doing'[s] = NoCall /\ exporting =>
           /\ told'[s] = "nothing" => doing[s].loaded = Body /\ rules'.body = Body
           /\ told'[s] = "notice" => Fresh(Body)'

\* The pool of habits grows past the ceiling in no order of calls; one call at a
\* time, not past its capacity either, and a session knows what it has loaded.
HabitsAreKept ==
    [][PoolIsRatcheted /\ (alone => GateHolds /\ StartsAreTrue)]_habitVars

================================================================================
