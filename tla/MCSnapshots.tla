------------------------------ MODULE MCSnapshots ------------------------------
(***************************************************************************)
(* What is kept for later sessions and versions, what a session is told of *)
(* it and the gate a new version passes, in small instances, one of which  *)
(* a behaviour chooses in its first state:                                 *)
(*   - "rotate", "restore": Snapshots, with quotas of 2, 1 and 2 files,    *)
(*     two snapshots a day, a loss of two rows an anomaly: sessions start  *)
(*     at the same time beside a server and none fails, or one at a time   *)
(*     takes turns with restores and one process may fail;                 *)
(*   - "migrate": Migrations, three of them, of which one start of a       *)
(*     server crashes and one file is edited;                              *)
(*   - "habits", "habits at once": Habits, one call at a time, with starts *)
(*     and the rules file, and two calls that overlap;                     *)
(*   - "context": StartContext, three activities and two changes of them;  *)
(*   - "gate": GateCheck, branches that change up to three files.          *)
(***************************************************************************)
EXTENDS Snapshots, Migrations, GateCheck, StartContext, Habits, TLC

CONSTANTS RestoreRows,    \* bound: rows, and intervals that pass, with restores
          RestoreNow,
          d1, d2          \* domains

VARIABLE setting

otherVars == <<migrationVars, habitVars, startVars, gateVars>>

MCQuota == [periodic |-> 2, daily |-> 1, prerestore |-> 2]

Rotating == INSTANCE Snapshots WITH MaxFaults <- 0

\* An activity: status, domains, pinned, managed, heartbeat, age in days.
Act(s, d, p, m, b, g) == [status |-> s, domains |-> d, pinned |-> p, managed |-> m, beat |-> b, age |-> g]
MCActs ==
    {Act("completed", {d1}, FALSE, FALSE, "none", 0),
     Act("in_progress", {d1, d2}, FALSE, FALSE, "other", 0),
     Act("in_progress", {d1}, FALSE, FALSE, "none", 0),
     Act("pending", {}, TRUE, FALSE, "own", 1),
     Act("pending", {d2}, TRUE, TRUE, "none", 0),
     Act("pending", {d1}, FALSE, FALSE, "none", 0)}

ASSUME GateAssumption /\ BudgetAssumption /\ HabitsAssumption

Short == \E h \in Habits : habits[h].size < MaxContent

MCInit ==
    /\ Init /\ MigrationInit /\ StartInit /\ GateInit
    /\ setting \in {"rotate", "restore", "migrate", "habits", "habits at once", "context", "gate"}
    /\ setting = "restore" => db <= RestoreRows
    /\ setting \notin {"rotate", "restore"} => db = 0
    /\ files[LedgerMig] = "told"
    /\ setting # "context" => \A a \in 1..3 : acts[a].status = "completed"
    /\ setting # "migrate" => files = [m \in Migs |-> "told"]
    /\ HabitsInit /\ alone = exporting /\ alone = (setting = "habits")
    /\ setting = "habits at once" => Short
    /\ setting \notin {"habits", "habits at once"} => habits = [h \in Habits |-> None]

InSnapshots ==
    /\ \/ setting = "rotate" /\ Rotating!Next /\ serving' /\ ~Restoring'
       \/ /\ setting = "restore" /\ Next
          /\ Cardinality({h \in Hooks : pc'[h] # "idle"}) <= 1
          /\ db' <= RestoreRows /\ now' <= RestoreNow
    /\ UNCHANGED otherVars

InMigrate == setting = "migrate" /\ MigrationNext /\ UNCHANGED <<vars, habitVars, startVars, gateVars>>

InHabits ==
    /\ \/ setting = "habits" /\ HabitsNext /\ doing'[2] = NoCall
       \/ setting = "habits at once" /\ (\E p \in Callers : Call(p)) /\ Short'
    /\ \A p \in Callers : doing'[p].pc = "gate" =>
          LET c == doing'[p].change IN c.archived = {} /\ (IF alone THEN c.active ELSE c.size) = {}
    /\ UNCHANGED <<vars, migrationVars, startVars, gateVars>>

InContext ==
    setting = "context" /\ StartNext /\ UNCHANGED <<vars, migrationVars, habitVars, gateVars>>

\* With three files, which only their number asks for, no line shows anything.
InGate ==
    /\ setting = "gate" /\ GateNext
    /\ \A p \in Changed' : diff'[p].header => diff'[p].old = p /\ Changed' \subseteq {"core", "test"}
    /\ Cardinality(Changed') = MaxChanged => \A p \in Changed' : diff'[p].shows = {}
    /\ UNCHANGED <<vars, migrationVars, habitVars, startVars>>

MCNext == (InSnapshots \/ InMigrate \/ InHabits \/ InContext \/ InGate) /\ UNCHANGED setting

MCSpec == MCInit /\ [][MCNext]_<<vars, otherVars, setting>>

\* Snapshots as it is, for whatever Overlap says.
AnyInit ==
    /\ Init /\ MigrationInit /\ HabitsInit /\ StartInit /\ GateInit
    /\ \A a \in 1..3 : acts[a].status = "completed"
    /\ setting = "any" /\ files = [m \in Migs |-> "told"]
    /\ habits = [h \in Habits |-> None] /\ ~alone /\ ~exporting
AnySpec == AnyInit /\ [][Next /\ UNCHANGED <<otherVars, setting>>]_<<vars, otherVars, setting>>

Symmetry == Permutations(Hooks)

================================================================================
