----------------------- MODULE MCRelaySubscriptions -----------------------
(***************************************************************************)
(* What a session declares and says on the relay, in small instances, one  *)
(* of which a behaviour chooses in its first state:                        *)
(*   - "subscribe": RelaySubscriptions, where loads and saves of a         *)
(*     declaration do not overlap, and everything else may happen in time; *)
(*     or they overlap, and nothing fails; or they overlap, requests fail, *)
(*     the server dies, and calls may outlive their session;               *)
(*   - "publish": RelayPublish, two speakers that make two calls each;     *)
(*   - "aliases": SessionAliases, three sessions and a table of two rows.  *)
(***************************************************************************)
EXTENDS RelaySubscriptions, RelayPublish, SessionAliases

CONSTANTS l1, l2, l3, i1, i2, i3, i4   \* Labels and Ids

VARIABLE setting

otherVars == <<pubVars, aliasVars>>

MCTitles == [w |-> <<1>>]
MCWanted == {<<1>>, <<1, 2>>}

ASSUME SessionAliasesAssumption

MCInit ==
    /\ setting \in {"subscribe", "publish", "aliases"}
    /\ Init /\ PublishInit /\ AliasInit
    /\ setting # "subscribe" => may = {"overlap"}

\* Under what may happen, the labels asked for and the ids given out.
Asked == IF "late" \in may THEN {l1} ELSE IF "overlap" \in may THEN {l1, l2, l3} ELSE {l1, l2}
Given == IF "late" \in may THEN {i1, i2} ELSE IF "overlap" \in may THEN {i1, i2, i3, i4} ELSE {i1, i2, i3}
Bounded ==
    /\ \A c \in Callers : call'[c].labels \in Asked \union {Nobody}
    /\ \A i \in Ids \ Given : relay'[i] = "none"

InSubscribe == setting = "subscribe" /\ Next /\ Bounded /\ UNCHANGED otherVars
InPublish == setting = "publish" /\ PublishNext /\ UNCHANGED <<vars, aliasVars>>
InAliases == setting = "aliases" /\ AliasNext /\ UNCHANGED <<vars, pubVars>>

MCNext == (InSubscribe \/ InPublish \/ InAliases) /\ UNCHANGED setting

LateStep(A) ==
    setting = "subscribe" /\ "late" \in may /\ A /\ Bounded /\ UNCHANGED <<may, otherVars, setting>>

\* Threads run on, time passes, and a sweep is due again and again.
MCSpec ==
    /\ MCInit /\ [][MCNext]_<<vars, otherVars, setting>>
    /\ WF_vars(LateStep(Tick)) /\ WF_vars(LateStep(Renewal)) /\ SF_vars(LateStep(SweepScan))
    /\ \A c \in Callers : WF_vars(LateStep(Subscribe(c) /\ call[c].pc # "idle"))
    /\ \A s \in Sessions : SF_vars(LateStep(SweepDelete(s))) /\ SF_vars(LateStep(Teardown(s)))

\* DepartedIsRemoved, whatever fails and overlaps.
DepartedRemovedTardily == setting = "subscribe" /\ "late" \in may => DepartedIsRemoved
=============================================================================
