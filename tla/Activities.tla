------------------------------ MODULE Activities ------------------------------
(***************************************************************************)
(* Activities: how they are added, updated, snoozed, checked in to and     *)
(* listed (activity_service.py, checkin_service.py).                       *)
(*                                                                         *)
(* update_activity reads the row before the transaction that writes it,    *)
(* and check_in decides from a row read at its start; calls of several     *)
(* sessions interleave between the two.                                    *)
(***************************************************************************)
EXTENDS Integers, FiniteSets

CONSTANTS Agents,         \* the sessions
          Acts,           \* bound: the activities there will ever be
          SnoozeDays      \* SNOOZE_DURATION_DAYS

ActivitiesAssumption == SnoozeDays \in Nat \ {0}

VARIABLES
    acts,      \* the rows: status and days since updated_at
    standing,  \* the decision an implement activity is to rest on: not retracted
    doing,     \* the call each session is in
    said,      \* the status the last check-in of a session reported
    quiet,     \* history: days a snoozed activity has been snoozed
    alone      \* calls do not overlap; never changes

actVars == <<acts, standing, doing, said, quiet, alone>>

REAL_STATUSES == {"pending", "in_progress", "completed", "snoozed", "shelved"}
ACTIVE_STATUSES == {"in_progress", "pending"}

NoAct == [status |-> "none"]
Resting == [pc |-> "none"]
NotSaid == [act |-> "none"]

Exists(a) == acts[a] # NoAct

ActInit ==
    /\ acts = [a \in Acts |-> NoAct]
    /\ standing = TRUE
    /\ doing = [s \in Agents |-> Resting]
    /\ said = [s \in Agents |-> NotSaid]
    /\ quiet = [a \in Acts |-> 0]
    /\ alone \in BOOLEAN

\* Where calls do not overlap, none of a session in S is under way.
Undisturbed(S) == alone => \A s \in S : doing[s] = Resting

GoesTo(s, c) == doing' = [doing EXCEPT ![s] = c]
Done(s) == GoesTo(s, Resting)

\* Every write of a row sets updated_at.
Write(a, row) ==
    /\ acts' = [acts EXCEPT ![a] = row]
    /\ quiet' = [quiet EXCEPT ![a] = IF row.status = "snoozed" /\ acts[a].status = "snoozed" THEN @ ELSE 0]

--------------------------------------------------------------------------------
\* _check_implement_workflow_guard: an implement activity names a decision that
\* is not retracted.
GuardPasses(intent, cites) == intent = "implement" => cites /\ standing

AddCheck_NamedOnly(s) ==
    /\ doing[s] = Resting /\ Undisturbed(Agents)
    /\ \E intent \in {"implement", "other"}, cites, checkin \in BOOLEAN :
          /\ (intent = "implement" => cites)
          /\ GoesTo(s, [pc |-> "insert", intent |-> intent, checkin |-> checkin])
    /\ UNCHANGED <<acts, standing, said, quiet>>

AddCheck(s) ==
    /\ doing[s] = Resting /\ Undisturbed(Agents)
    /\ \E intent \in {"implement", "other"}, cites, checkin \in BOOLEAN :
          /\ GuardPasses(intent, cites)
          /\ GoesTo(s, [pc |-> "insert", intent |-> intent, checkin |-> checkin])
    /\ UNCHANGED <<acts, standing, said, quiet>>

\* The row, its tags, relations and pins in one transaction; a pin that does
\* not resolve rolls all of it back.
AddWrite(s) ==
    /\ doing[s].pc = "insert"
    /\ \/ \E a \in Acts :
             /\ ~Exists(a)
             /\ Write(a, [status |-> "pending", days |-> 0])
             /\ IF doing[s].checkin THEN GoesTo(s, [pc |-> "look", act |-> a]) ELSE Done(s)
       \/ Done(s) /\ UNCHANGED <<acts, quiet>>
    /\ UNCHANGED <<standing, said>>

\* update_activity reads the row; a field update revives a snoozed activity.
NewStatus(asked, old) ==
    IF asked = "keep" /\ old = "snoozed" THEN "pending" ELSE asked

UpdateActivityRead_AnyIdle(s, a) ==
    /\ doing[s] = Resting /\ Undisturbed(Agents) /\ Exists(a)
    /\ \E asked \in REAL_STATUSES \union {"keep"} :
          GoesTo(s, [pc |-> "set", act |-> a, saw |-> acts[a].status, asked |-> asked,
                 to |-> IF asked = "keep" /\ acts[a].status \notin ACTIVE_STATUSES
                        THEN "pending" ELSE asked])
    /\ UNCHANGED <<acts, standing, said, quiet>>

UpdateActivityRead(s, a) ==
    /\ doing[s] = Resting /\ Undisturbed(Agents) /\ Exists(a)
    /\ \E asked \in REAL_STATUSES \union {"keep"} :
          GoesTo(s, [pc |-> "set", act |-> a, saw |-> acts[a].status, asked |-> asked,
                 to |-> NewStatus(asked, acts[a].status)])
    /\ UNCHANGED <<acts, standing, said, quiet>>

Updated(row, c) ==
    [row EXCEPT !.status = IF c.to = "keep" THEN @ ELSE c.to, !.days = 0]

UpdateActivityWrite(s) ==
    /\ doing[s].pc = "set"
    /\ Write(doing[s].act, Updated(acts[doing[s].act], doing[s]))
    /\ Done(s)
    /\ UNCHANGED <<standing, said>>

--------------------------------------------------------------------------------
\* check_in reads the row and gathers what goes with it ...
CheckInLook(s, a) ==
    /\ Exists(a)
    /\ doing[s] \in {Resting, [pc |-> "look", act |-> a]} /\ Undisturbed(Agents \ {s})
    /\ GoesTo(s, [pc |-> "start", act |-> a, seen |-> acts[a].status])
    /\ UNCHANGED <<acts, standing, said, quiet>>

\* ... has update_activity set in_progress, unless it was when it looked; a
\* failure of the update is logged and the check-in goes on ...
CheckInSets_Believes(s) ==
    /\ doing[s].pc = "start"
    /\ LET a == doing[s].act
       IN  \/ /\ doing[s].seen # "in_progress"
              /\ Write(a, [acts[a] EXCEPT !.status = "in_progress", !.days = 0])
              /\ GoesTo(s, [pc |-> "answer", act |-> a, status |-> "in_progress"])
           \/ GoesTo(s, [pc |-> "answer", act |-> a, status |-> "in_progress"]) /\ UNCHANGED <<acts, quiet>>
    /\ UNCHANGED <<standing, said>>

CheckInSets(s) ==
    /\ doing[s].pc = "start"
    /\ LET a == doing[s].act
       IN  \/ /\ doing[s].seen # "in_progress"
              /\ Write(a, [acts[a] EXCEPT !.status = "in_progress", !.days = 0])
              /\ GoesTo(s, [pc |-> "answer", act |-> a, status |-> "in_progress"])
           \/ GoesTo(s, [pc |-> "answer", act |-> a, status |-> doing[s].seen]) /\ UNCHANGED <<acts, quiet>>
    /\ UNCHANGED <<standing, said>>

\* ... and answers.
CheckInAnswer(s) ==
    /\ doing[s].pc = "answer"
    /\ said' = [said EXCEPT ![s] = [act |-> doing[s].act, status |-> doing[s].status]]
    /\ Done(s)
    /\ UNCHANGED <<acts, standing, quiet>>

--------------------------------------------------------------------------------
\* get_activities wakes what has been snoozed for SNOOZE_DURATION_DAYS first.
Overdue(a) == Exists(a) /\ acts[a].status = "snoozed" /\ acts[a].days >= SnoozeDays

List ==
    /\ Undisturbed(Agents)
    /\ acts' = [a \in Acts |->
                  IF Overdue(a) THEN [acts[a] EXCEPT !.status = "pending", !.days = 0] ELSE acts[a]]
    /\ quiet' = [a \in Acts |-> IF Overdue(a) THEN 0 ELSE quiet[a]]
    /\ UNCHANGED <<standing, doing, said>>

\* bump_updated_at_and_publish_with_conn: a relation or a pin of the activity
\* came or went.
Bump(a) ==
    /\ Exists(a) /\ Undisturbed(Agents)
    /\ acts' = [acts EXCEPT ![a] = [@ EXCEPT !.days = 0]]
    /\ UNCHANGED <<standing, doing, said, quiet>>

RetractDecision ==
    /\ Undisturbed(Agents)
    /\ standing' = ~standing
    /\ UNCHANGED <<acts, doing, said, quiet>>

Older(n) == IF n < SnoozeDays THEN n + 1 ELSE n

Day ==
    /\ \A s \in Agents : doing[s] = Resting
    /\ acts' = [a \in Acts |-> IF Exists(a) THEN [acts[a] EXCEPT !.days = Older(@)] ELSE NoAct]
    /\ quiet' = [a \in Acts |-> IF acts[a].status = "snoozed" THEN Older(quiet[a]) ELSE 0]
    /\ UNCHANGED <<standing, doing, said>>

ActNext ==
    /\ \/ \E s \in Agents :
             \/ AddCheck(s) \/ AddWrite(s) \/ UpdateActivityWrite(s)
             \/ CheckInSets(s) \/ CheckInAnswer(s)
             \/ \E a \in Acts : UpdateActivityRead(s, a) \/ CheckInLook(s, a)
       \/ \E a \in Acts : Bump(a)
       \/ List \/ RetractDecision \/ Day
    /\ UNCHANGED alone

ActSpec == ActInit /\ [][ActNext]_actVars

--------------------------------------------------------------------------------
\* An activity is left alone until someone asks: its status changes by a call
\* that asks for it (an update to that status, a check-in), by a field update
\* that found it snoozed, or by a listing once it has been snoozed for all of
\* SNOOZE_DURATION_DAYS; no other field update and no listing touches it.
Asked(s, a, new) ==
    /\ doing[s] # Resting /\ doing'[s] # doing[s] /\ doing[s].act = a
    /\ \/ doing[s].pc = "set" /\ doing[s].asked = new
       \/ doing[s].pc = "set" /\ doing[s].saw = "snoozed" /\ new = "pending"
       \/ doing[s].pc = "start" /\ doing[s].seen # new /\ new = "in_progress"

ChangesAreAskedFor ==
    \A a \in Acts :
       (Exists(a) /\ acts'[a].status # acts[a].status) =>
          \/ quiet[a] >= SnoozeDays /\ acts'[a].status = "pending"
          \/ \E s \in Agents : Asked(s, a, acts'[a].status)

\* When a check-in answers, the status it reports is the one stored (calls that do
\* not overlap).
AnswersStored == \A s \in Agents : said'[s] # said[s] => acts[said'[s].act].status = said'[s].status

\* An activity is not added to implement something unless the decision it names
\* stands (calls that do not overlap).
RestsOnDecision ==
    \A s \in Agents :
        doing[s].pc = "insert" /\ doing[s].intent = "implement" /\ acts' # acts => standing

\* The status of an activity changes as someone asked, whatever overlaps; one call
\* at a time, a check-in answers the status that is stored, and what implements a
\* decision rests on one that stands.
ActivitiesAreSound ==
    [][ChangesAreAskedFor /\ (alone => AnswersStored /\ RestsOnDecision)]_actVars

================================================================================
