--------------------------- MODULE MCRelayIntake ---------------------------
(***************************************************************************)
(* Small instances of RelayIntake, two sessions with a subscription each   *)
(* and a stream both declare, one of which a behaviour chooses in its      *)
(* first state: one session stays, and there are faults, or both come and  *)
(* go, and there are none.                                                 *)
(***************************************************************************)
EXTENDS RelayIntake, TLC

CONSTANTS s1, s2, a, b, r

VARIABLE setting

TwoOwners == (a :> s1 @@ b :> s2)
TwoRooms == (a :> {r} @@ b :> {r})

Moving == INSTANCE RelayIntake WITH Movers <- Subs, MaxPub <- 1, Faults <- {}

MCInit == (setting = "faulty" /\ Init) \/ (setting = "moving" /\ Moving!Init)

InFaulty == setting = "faulty" /\ Next
InMoving == setting = "moving" /\ Moving!Next

MCNext == (InFaulty \/ InMoving) /\ UNCHANGED setting

\* A step of RelayIntake in the instance a behaviour has chosen.
Step(A, B) ==
    /\ \/ setting = "faulty" /\ A
       \/ setting = "moving" /\ B
    /\ UNCHANGED setting

\* The fairness of RelayIntake, in each instance.
MCSpec ==
    /\ MCInit /\ [][MCNext]_<<vars, setting>>
    /\ WF_vars(Step(Run, Moving!Run))
    /\ WF_vars(Step(Comment, Moving!Comment))
    /\ SF_vars(\E l \in Lanes : Step(Receive(l), Moving!Receive(l)))
    /\ \A l \in Subs :
        WF_vars(/\ sub[l] \in {"posted", "saved", "deleted", "lapsed"}
                /\ Step(SubscriptionStep(l), Moving!SubscriptionStep(l)))
=============================================================================
