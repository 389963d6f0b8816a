------------------------- MODULE MCServerLifecycle -------------------------
(***************************************************************************)
(* Small instances of ServerLifecycle, one of which a behaviour chooses in *)
(* its first state:                                                        *)
(*   - "orderly": servers crash, but none ends under a launcher that is    *)
(*     looking for one;                                                    *)
(*   - "unruly": servers are stopped and idle out at any moment.           *)
(***************************************************************************)
EXTENDS ServerLifecycle

VARIABLE setting

Orderly == INSTANCE ServerLifecycle WITH Faults <- {"crash"}
Unruly == INSTANCE ServerLifecycle WITH Faults <- {"stop", "anytime"}

MCInit == Init /\ setting \in {"orderly", "unruly"}

InOrderly == setting = "orderly" /\ Orderly!Next
InUnruly == setting = "unruly" /\ Unruly!Next

MCNext == (InOrderly \/ InUnruly) /\ UNCHANGED setting

\* The steps of launchers and servers that FairSpec is fair to, in each setting.
Launch(l) ==
    /\ \/ setting = "orderly" /\ Orderly!Launching(l)
       \/ setting = "unruly" /\ Unruly!Launching(l)
    /\ UNCHANGED setting
Serve(s) ==
    /\ \/ setting = "orderly" /\ Orderly!Serving(s)
       \/ setting = "unruly" /\ Unruly!Serving(s)
    /\ UNCHANGED setting

MCSpec ==
    /\ MCInit /\ [][MCNext]_<<vars, setting>>
    /\ \A l \in Launchers : WF_vars(Launch(l))
    /\ \A s \in Servers :
        /\ WF_vars(Serve(s))
        /\ WF_vars(Dispatch(s) /\ UNCHANGED setting)

\* Every launcher is bridged in the end, unless a server ends under one that
\* looks for it, and no server is left over when the launchers are gone.
ServedAndEnded ==
    (setting = "orderly" => EveryLauncherServed) /\ NoServerLeftOver
=============================================================================
