--------------------------------- MODULE Asks ---------------------------------
(***************************************************************************)
(* Questions an agent leaves for a human (ask_service.py), the activities  *)
(* they block and the check-in that hands the answers back.                *)
(*                                                                         *)
(* Every tool call opens a connection of its own and the calls of several  *)
(* sessions run in the server's thread pool: what a call read before its   *)
(* first write may be stale when it writes.  A step below is one           *)
(* transaction, or one read outside of any.  The dashboard's answers come  *)
(* at any time.                                                            *)
(***************************************************************************)
EXTENDS Naturals, FiniteSets

CONSTANTS Sessions,      \* clients, one tool call each at a time
          Activities,
          Questions,     \* fingerprints of normalised questions
          Ids,           \* bound: the rows asks will ever have
          Tags,
          Conditions     \* the sets of what may happen together: that calls
                         \* overlap, that tags are not linked, that a write fails

ASSUME AsksAssumption == Conditions \subseteq SUBSET {"overlap", "tags", "write"}

VARIABLES
    act,        \* activities.status; snoozed and shelved count as pending
    asks,       \* the rows of asks with their ask_blocks and ask_tags
    made,       \* asks for which some decision was recorded
    call,       \* the call each session is in
    delivered,  \* answered asks some check-in has handed out
    may         \* what may happen in this behaviour: one of Conditions, from first to last

vars == <<act, asks, made, call, delivered, may>>

ActStatus == {"pending", "in_progress", "completed"}
Undecided == {"open", "answered"}
Triaged   == {"promoted", "dismissed"}
AskStatus == Undecided \union Triaged \union {"withdrawn"}

Row == [q : Questions, status : AskStatus, blocks : SUBSET Activities,
        tags : SUBSET Tags, cooling : BOOLEAN]
NoRow == [status |-> "none"]

Idle == [pc |-> "idle"]
Call == {Idle}
    \union [pc : {"post"}, q : Questions, blocks : (SUBSET Activities) \ {{}}, tags : (SUBSET Tags) \ {{}}]
    \union [pc : {"tag"}, ask : Ids, tags : (SUBSET Tags) \ {{}}, new : BOOLEAN]
    \union [pc : {"link"}, ask : Ids, tags : (SUBSET Tags) \ {{}}]
    \union [pc : {"triage"}, ask : Ids, verdict : Triaged]
    \union [pc : {"promote"}, ask : Ids]
    \union [pc : {"checkin", "deliver"}, act : Activities, seen : ActStatus]

Rows == {i \in Ids : asks[i].status # "none"}
RowsFor(q) == {i \in Rows : asks[i].q = q}
Open(i) == asks[i].status = "open"

Init ==
    /\ act = [a \in Activities |-> "pending"]
    /\ asks = [i \in Ids |-> NoRow]
    /\ made = {}
    /\ call = [s \in Sessions |-> Idle]
    /\ delivered = {}
    /\ may \in Conditions

Become(s, c) == call' = [call EXCEPT ![s] = c]
Return(s) == Become(s, Idle)
MayStart(s) == call[s] = Idle /\ ("overlap" \in may \/ \A r \in Sessions : call[r] = Idle)

--------------------------------------------------------------------------------
\* add_ask reads, outside any transaction, the blocked activities and the
\* question's recent withdrawals.  One step for both: passing the second read
\* implies passing it at the time of the first.
Cooling(q) == \E i \in RowsFor(q) : asks[i].status = "withdrawn" /\ asks[i].cooling

\* The bound Ids: a row is left for every post under way.
RowLeft == Cardinality({s \in Sessions : call[s].pc = "post"}) < Cardinality(Ids \ Rows)

AddAskCheck_NoCooldown(s) ==
    /\ MayStart(s) /\ RowLeft
    /\ \E q \in Questions, blocks \in (SUBSET Activities) \ {{}}, t \in Tags :
          /\ \E b \in blocks : act[b] # "completed"
          /\ Become(s, [pc |-> "post", q |-> q, blocks |-> blocks, tags |-> {t}])
    /\ UNCHANGED <<act, asks, made, delivered>>

AddAskCheck(s) ==
    /\ MayStart(s) /\ RowLeft
    /\ \E q \in Questions, blocks \in (SUBSET Activities) \ {{}}, t \in Tags :
          /\ \E b \in blocks : act[b] # "completed"
          /\ ~Cooling(q)
          /\ Become(s, [pc |-> "post", q |-> q, blocks |-> blocks, tags |-> {t}])
    /\ UNCHANGED <<act, asks, made, delivered>>

\* The upsert: the partial unique index on open rows turns the insert into an
\* update of the open ask with this fingerprint.  ask_blocks takes the union.
Insert(s) ==
    \E i \in Ids \ Rows :
       /\ asks' = [asks EXCEPT ![i] =
                     [q |-> call[s].q, status |-> "open", blocks |-> call[s].blocks,
                      tags |-> {}, cooling |-> FALSE]]
       /\ Become(s, [pc |-> "tag", ask |-> i, tags |-> call[s].tags, new |-> TRUE])

Repeat(s) ==
    \E i \in RowsFor(call[s].q) :
       /\ Open(i)
       /\ asks' = [asks EXCEPT ![i].blocks = @ \union call[s].blocks]
       /\ Become(s, [pc |-> "tag", ask |-> i, tags |-> call[s].tags, new |-> FALSE])

AddAskWrite_NoConflict(s) ==
    /\ call[s].pc = "post"
    /\ Insert(s)
    /\ UNCHANGED <<act, made, delivered>>

AddAskWrite(s) ==
    /\ call[s].pc = "post"
    /\ IF \E i \in RowsFor(call[s].q) : Open(i) THEN Repeat(s) ELSE Insert(s)
    /\ UNCHANGED <<act, made, delivered>>

\* After the commit the tags are resolved, unless the ask has some already.
AddAskReadTags(s) ==
    /\ call[s].pc = "tag"
    /\ IF asks[call[s].ask].tags = {}
       THEN Become(s, [pc |-> "link", ask |-> call[s].ask, tags |-> call[s].tags])
       ELSE Return(s)
    /\ UNCHANGED <<act, asks, made, delivered>>

AddAskLink(s) ==
    /\ call[s].pc = "link"
    /\ asks' = [asks EXCEPT ![call[s].ask].tags = @ \union call[s].tags]
    /\ Return(s)
    /\ UNCHANGED <<act, made, delivered>>

\* resolve_tags or the link fails: the ask stays, without tags.
AddAskLinkFails(s) ==
    /\ "tags" \in may
    /\ call[s].pc = "link"
    /\ Return(s)
    /\ UNCHANGED <<act, asks, made, delivered>>

--------------------------------------------------------------------------------
\* answer_ask and withdraw_ask: the state is checked by the UPDATE itself.
AnswerAsk ==
    /\ \E i \in Rows : Open(i) /\ asks' = [asks EXCEPT ![i].status = "answered"]
    /\ UNCHANGED <<act, made, call, delivered>>

WithdrawAsk_KeepBlocks(s) ==
    /\ MayStart(s)
    /\ \E i \in Rows :
          /\ Open(i)
          /\ asks' = [asks EXCEPT ![i] = [@ EXCEPT !.status = "withdrawn", !.cooling = TRUE]]
    /\ UNCHANGED <<act, made, call, delivered>>

WithdrawAsk(s) ==
    /\ MayStart(s)
    /\ \E i \in Rows :
          /\ Open(i)
          /\ asks' = [asks EXCEPT ![i] =
                        [@ EXCEPT !.status = "withdrawn", !.cooling = TRUE, !.blocks = {}]]
    /\ UNCHANGED <<act, made, call, delivered>>

\* Five minutes after a withdrawal.
CoolDown ==
    /\ \E i \in Rows : asks[i].cooling /\ asks' = [asks EXCEPT ![i].cooling = FALSE]
    /\ UNCHANGED <<act, made, call, delivered>>

\* triage_ask reads the ask before its savepoint; a promotion then records
\* its decision through add_decisions, on a connection that commits at once,
\* and only afterwards moves the ask, if it still awaits triage.
TriageCheck_NoCheck(s, i) ==
    /\ MayStart(s)
    /\ \E v \in Triaged : Become(s, [pc |-> "triage", ask |-> i, verdict |-> v])
    /\ UNCHANGED <<act, asks, made, delivered>>

TriageCheck(s, i) ==
    /\ MayStart(s)
    /\ asks[i].status = "answered"
    /\ \E v \in Triaged : Become(s, [pc |-> "triage", ask |-> i, verdict |-> v])
    /\ UNCHANGED <<act, asks, made, delivered>>

PromoteRecord(s) ==
    /\ call[s].pc = "triage" /\ call[s].verdict = "promoted"
    /\ made' = made \union {call[s].ask}
    /\ Become(s, [pc |-> "promote", ask |-> call[s].ask])
    /\ UNCHANGED <<act, asks, delivered>>

\* add_decisions reports an error: nothing was recorded.
PromoteRecordFails(s) ==
    /\ "write" \in may
    /\ call[s].pc = "triage" /\ call[s].verdict = "promoted"
    /\ Return(s)
    /\ UNCHANGED <<act, asks, made, delivered>>

Settle_Unguarded(i, verdict) ==
    asks' = [asks EXCEPT ![i] = [@ EXCEPT !.status = verdict, !.blocks = {}]]

Settle(i, verdict) ==
    asks' = IF asks[i].status = "answered"
            THEN [asks EXCEPT ![i] = [@ EXCEPT !.status = verdict, !.blocks = {}]]
            ELSE asks

TriageWrite(s) ==
    /\ \/ call[s].pc = "promote" /\ Settle(call[s].ask, "promoted")
       \/ call[s].pc = "triage" /\ call[s].verdict = "dismissed" /\ Settle(call[s].ask, "dismissed")
    /\ Return(s)
    /\ UNCHANGED <<act, made, delivered>>

\* The UPDATE raises (the database is locked): its savepoint is rolled back,
\* the decision of a promotion stays.
TriageWriteFails(s) ==
    /\ "write" \in may
    /\ \/ call[s].pc = "promote"
       \/ call[s].pc = "triage" /\ call[s].verdict = "dismissed"
    /\ Return(s)
    /\ UNCHANGED <<act, asks, made, delivered>>

--------------------------------------------------------------------------------

\* update_activity(status): any session, any activity, any status.
SetStatus(s, a) ==
    /\ MayStart(s)
    /\ \E st \in ActStatus : act' = [act EXCEPT ![a] = st]
    /\ UNCHANGED <<asks, made, call, delivered>>

\* check_in reads the activity, takes it in progress unless it was (a
\* completed one is reopened), and then reads the asks that block it.
CheckInRead(s, a) ==
    /\ MayStart(s)
    /\ Become(s, [pc |-> "checkin", act |-> a, seen |-> act[a]])
    /\ UNCHANGED <<act, asks, made, delivered>>

CheckInStart(s) ==
    /\ call[s].pc = "checkin"
    /\ act' = IF call[s].seen = "in_progress" THEN act
              ELSE [act EXCEPT ![call[s].act] = "in_progress"]
    /\ Become(s, [call[s] EXCEPT !.pc = "deliver"])
    /\ UNCHANGED <<asks, made, delivered>>

\* The update fails: logged, and the check-in goes on.
CheckInStartFails(s) ==
    /\ "write" \in may
    /\ call[s].pc = "checkin" /\ call[s].seen # "in_progress"
    /\ Become(s, [call[s] EXCEPT !.pc = "deliver"])
    /\ UNCHANGED <<act, asks, made, delivered>>

AwaitingTriage(a, status) ==
    {i \in Rows : asks[i].status = "answered" /\ a \in asks[i].blocks /\ status # "completed"}

\* The asks that block the activity, by its status after the reopening.
CheckInDeliver_Stale(s) ==
    /\ call[s].pc = "deliver"
    /\ delivered' = delivered \union AwaitingTriage(call[s].act, call[s].seen)
    /\ Return(s)
    /\ UNCHANGED <<act, asks, made>>

CheckInDeliver(s) ==
    /\ call[s].pc = "deliver"
    /\ delivered' = delivered \union AwaitingTriage(call[s].act, act[call[s].act])
    /\ Return(s)
    /\ UNCHANGED <<act, asks, made>>

AddAsk(s) == AddAskCheck(s) \/ AddAskWrite(s) \/ AddAskReadTags(s) \/ AddAskLink(s) \/ AddAskLinkFails(s)

TriageAsk(s) ==
    \/ \E i \in Rows : TriageCheck(s, i)
    \/ PromoteRecord(s) \/ PromoteRecordFails(s)
    \/ TriageWrite(s) \/ TriageWriteFails(s)

CheckIn(s) ==
    \/ \E a \in Activities : CheckInRead(s, a)
    \/ CheckInStart(s) \/ CheckInStartFails(s) \/ CheckInDeliver(s)

Next ==
    /\ \/ \E s \in Sessions : AddAsk(s) \/ WithdrawAsk(s) \/ TriageAsk(s) \/ CheckIn(s)
       \/ \E s \in Sessions, a \in Activities : SetStatus(s, a)
       \/ AnswerAsk
       \/ CoolDown
    /\ UNCHANGED may

Spec == Init /\ [][Next]_vars

--------------------------------------------------------------------------------
TypeOK ==
    /\ act \in [Activities -> ActStatus]
    /\ asks \in [Ids -> Row \union {NoRow}]
    /\ made \subseteq Ids
    /\ call \in [Sessions -> Call]
    /\ delivered \subseteq Ids

\* A question has at most one open ask, whoever posts it and however the posts
\* interleave: the upsert of add_ask_with_conn.
OneOpenPerQuestion ==
    \A i, j \in Rows : Open(i) /\ Open(j) /\ asks[i].q = asks[j].q => i = j

\* An ask blocks activities exactly as long as it is undecided: nothing that
\* still waits for an answer or for triage is out of every check-in's reach,
\* and nothing settled or withdrawn keeps an activity blocked.
BlocksWhileUndecided ==
    \A i \in Rows : (asks[i].blocks # {}) <=> (asks[i].status \in Undecided)

\* One ask is open per question, and an activity waits exactly for its undecided asks.
OpenAsksAreSound == OneOpenPerQuestion /\ BlocksWhileUndecided

\* A decision recorded for an ask is its promotion, or that of a call still on
\* its way, or the loser of a race: it never belongs to an ask that is left
\* awaiting triage, which a retry would promote a second time (triage_ask's
\* commit of the decision before its own update).
DecisionMeansTriaged ==
    \A i \in made :
          \/ asks[i].status \in Triaged
          \/ \E s \in Sessions : call[s].pc = "promote" /\ call[s].ask = i

\* An ask only moves from open to answered or withdrawn and from answered to
\* one verdict: no answer, verdict or withdrawal is ever overwritten by a call
\* that read the ask before (the WHERE clauses of the UPDATEs).
Lifecycle ==
    {<<"none", "open">>, <<"open", "answered">>, <<"open", "withdrawn">>,
     <<"answered", "promoted">>, <<"answered", "dismissed">>}

StatusFollowsLifecycle ==
    [][\A i \in Ids : asks'[i].status # asks[i].status =>
          <<asks[i].status, asks'[i].status>> \in Lifecycle]_vars

\* A question withdrawn less than five minutes ago is not posted again.
KeepsCooldown ==
    \A q \in Questions :
       Cooling(q) => ~\E i \in Ids : asks[i].status = "none" /\ asks'[i].status = "open"
                                     /\ asks'[i].q = q

\* A check-in hands out every answer that waits for triage and blocks its
\* activity, also one that was completed before: it is reopened first.
HandsOver ==
    \A s \in Sessions : call[s].pc = "deliver" /\ call'[s] = Idle =>
       \A i \in Rows : asks[i].status = "answered" /\ call[s].act \in asks[i].blocks
                       => i \in delivered'

\* As long as no UPDATE of an ask fails, no decision is left by a triage that was
\* lost; and as long as calls do not overlap either, the cooldown is kept and a
\* check-in hands over every answer.
TriageIsSound ==
    /\ []("write" \notin may => DecisionMeansTriaged)
    /\ [][may \cap {"overlap", "write"} = {} => KeepsCooldown /\ HandsOver]_vars

================================================================================
