----------------------------- MODULE StartContext -----------------------------
(***************************************************************************)
(* What a session is told when it starts (session_start_hook.py): the list *)
(* of activities, built from several reads of a database that goes on      *)
(* changing, and its composition with the other sections under their       *)
(* budgets (injection_compositor.py).  A text is a sequence of lines.      *)
(***************************************************************************)
EXTENDS Integers, Sequences, SequencesExt, FiniteSets

CONSTANTS Acts,                    \* bound: the ids, numbers
          Rows,                    \* bound: what an activity may be like
          TIER2_MAX_ITEMS, TIER2_MAX_AGE_DAYS, PIN_SURFACE_DECAY_DAYS,
          Budget, Before, After,   \* the budgets of the list, of what precedes and of what follows it
          TOTAL_BUDGET,
          MaxChanges               \* bound: changes of activities

\* compose raises ValueError otherwise.
BudgetAssumption ==
    /\ {Before, Budget, After, TOTAL_BUDGET, TIER2_MAX_ITEMS} \subseteq Nat
    /\ Before + Budget + After <= TOTAL_BUDGET
    /\ IsFiniteSet(Acts) /\ Acts \subseteq Nat

VARIABLES
    acts,     \* the activities
    hook,     \* what the hook has read
    context,  \* what it emitted
    steady,   \* history: activities nothing happened to since the hook started
    changes

startVars == <<acts, hook, context, steady, changes>>

Idle == [pc |-> "idle"]
Active(row) == row.status # "completed"
Ids(found) == {f.id : f \in found}

StartInit ==
    /\ acts \in [Acts -> Rows]
    /\ hook = Idle /\ context = <<>> /\ steady = {} /\ changes = 0

--------------------------------------------------------------------------------
\* Another session changes an activity in any way.
ChangeActivity ==
    /\ changes < MaxChanges /\ hook # Idle
    /\ \E a \in Acts, r \in Rows :
          r # acts[a] /\ acts' = [acts EXCEPT ![a] = r] /\ steady' = steady \ {a}
    /\ changes' = changes + 1
    /\ UNCHANGED <<hook, context>>

ReadDomains ==
    /\ hook = Idle /\ context = <<>>
    /\ hook' = [pc |-> "acts", found |-> {},
                todo |-> UNION {acts[a].domains : a \in {b \in Acts : Active(acts[b])}}]
    /\ steady' = Acts
    /\ UNCHANGED <<acts, context, changes>>

Adding(found, new) == found \cup {[id |-> a, row |-> acts[a]] : a \in new \ Ids(found)}

ReadActs ==
    /\ hook.pc = "acts"
    /\ \E d \in hook.todo :
          hook' = [hook EXCEPT !.todo = @ \ {d},
                     !.found = Adding(@, {a \in Acts : d \in acts[a].domains /\ Active(acts[a])
                                                       /\ ~acts[a].managed})]
    /\ UNCHANGED <<acts, context, steady, changes>>

ReadPinned ==
    /\ hook.pc = "acts" /\ hook.todo = {}
    /\ LET pinned == {a \in Acts : acts[a].pinned /\ Active(acts[a]) /\ ~acts[a].managed}
       IN hook' = [pc |-> "build", found |-> Adding(hook.found, pinned), pinned |-> pinned]
    /\ UNCHANGED <<acts, context, steady, changes>>

--------------------------------------------------------------------------------
\* The tiers: what other sessions work on, then what is pinned or in progress
\* and not too old, the pinned and the latest first.
Tier1 == {f \in hook.found : f.row.beat = "other"}
Tier2Pool_All ==
    {f \in hook.found :
       \/ f.row.status = "in_progress" /\ f.row.age <= TIER2_MAX_AGE_DAYS
       \/ f.id \in hook.pinned /\ f.row.age <= PIN_SURFACE_DECAY_DAYS}
Tier2Pool ==
    {f \in hook.found \ Tier1 :
       \/ f.row.status = "in_progress" /\ f.row.age <= TIER2_MAX_AGE_DAYS
       \/ f.id \in hook.pinned /\ f.row.age <= PIN_SURFACE_DECAY_DAYS}
Later(f, g) == f.row.age < g.row.age \/ (f.row.age = g.row.age /\ f.id > g.id)
First(f, g) ==
    IF (f.id \in hook.pinned) = (g.id \in hook.pinned) THEN Later(f, g) ELSE f.id \in hook.pinned
Lines(tier) == [i \in DOMAIN tier |-> [act |-> tier[i].id]]
Taken(pool) == IF Len(pool) <= TIER2_MAX_ITEMS THEN pool ELSE SubSeq(pool, 1, TIER2_MAX_ITEMS)

\* The list ends with the number of activities that are not shown.
List(tier1, pool) ==
    LET shown == Lines(tier1 \o Taken(pool))
        left == Ids(hook.found) \ {line.act : line \in Range(shown)}
    IN shown \o <<[more |-> Cardinality(left)]>>

Truncated(text, budget) ==
    IF budget < 1 THEN <<>> ELSE SubSeq(text, 1, budget - 1) \o <<[cut |-> TRUE]>>
Fitted(text, budget) == IF Len(text) <= budget THEN text ELSE Truncated(text, budget)
Section(n) == [i \in 1..n |-> [other |-> TRUE]]
Joined(s, t) == IF s = <<>> \/ t = <<>> THEN s \o t ELSE s \o <<[sep |-> TRUE]>> \o t

\* A section that fails or has nothing to say is left out; every other is cut
\* to its budget, and the whole to the total.
Compose ==
    /\ hook.pc = "build"
    /\ \E tier1 \in SetToSeqs(Tier1), pool \in SetToSeqs(Tier2Pool) :
          /\ \A i, j \in DOMAIN tier1 : i < j => Later(tier1[i], tier1[j])
          /\ \A i, j \in DOMAIN pool : i < j => First(pool[i], pool[j])
          /\ \E b \in 0..(Before + 1), a \in 0..(After + 1), failed \in BOOLEAN :
                LET list == IF failed THEN <<>> ELSE Fitted(List(tier1, pool), Budget)
                IN context' = Fitted(Joined(Joined(Fitted(Section(b), Before), list),
                                            Fitted(Section(a), After)),
                                     TOTAL_BUDGET)
    /\ hook' = Idle
    /\ UNCHANGED <<acts, steady, changes>>

StartNext == ChangeActivity \/ ReadDomains \/ ReadActs \/ ReadPinned \/ Compose

StartSpec == StartInit /\ [][StartNext]_startVars

--------------------------------------------------------------------------------
\* The context keeps to its budget and shows no activity twice.  A list that
\* comes to its end leaves out no activity silently that is open, not managed,
\* in a domain or pinned, and that nothing happened to while it was built; it
\* counts right where nothing changed at all (session_start_hook.py:167-223,
\* injection_compositor.py:100-106).
Has(line, field) == field \in DOMAIN line
Shown == {line.act : line \in {l \in Range(context) : Has(l, "act")}}
Listed(a) == Active(acts[a]) /\ ~acts[a].managed /\ (acts[a].domains # {} \/ acts[a].pinned)
ContextIsHonest ==
    /\ Len(context) <= TOTAL_BUDGET
    /\ Cardinality({i \in DOMAIN context : Has(context[i], "act")}) = Cardinality(Shown)
    /\ \A line \in {l \in Range(context) : Has(l, "more")} :
          /\ Cardinality({a \in steady \ Shown : Listed(a)}) <= line.more
          /\ steady = Acts => Cardinality({a \in Acts : Listed(a)}) = Cardinality(Shown) + line.more
================================================================================
