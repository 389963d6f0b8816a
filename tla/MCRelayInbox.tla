--------------------------- MODULE MCRelayInbox ---------------------------
(***************************************************************************)
(* What a session is sent and what its hooks tell it, in small instances,  *)
(* one of which a behaviour chooses in its first state:                    *)
(*   - "inbox": RelayInbox, the messages that arrive;                      *)
(*   - "stops": Hooks, the Stop hook at the end of the turns;              *)
(*   - "starts": Hooks, the sanitizer at the starts of the session.        *)
(***************************************************************************)
EXTENDS RelayInbox, Hooks

VARIABLE setting

Starting == INSTANCE Hooks WITH Kinds <- {"say", "raw"}, MaxFails <- 1, MaxStarts <- 2

ASSUME HooksAssumption

MCInit == Init /\ HookInit /\ setting \in {"inbox", "stops", "starts"}

InInbox == setting = "inbox" /\ Next /\ UNCHANGED hookVars
InHooks ==
    /\ \/ setting = "stops" /\ HookNext
       \/ setting = "starts" /\ Starting!HookNext
    /\ UNCHANGED vars

MCNext == (InInbox \/ InHooks) /\ UNCHANGED setting

\* The Fairness of RelayInbox and of Hooks, each in its setting.
Inbox(A) == setting = "inbox" /\ A
StopHook ==
    /\ setting \in {"stops", "starts"}
    /\ StopBegin \/ StopAppend \/ StopOffset \/ StopTurn \/ StopJudge

MCSpec ==
    /\ MCInit /\ [][MCNext]_<<vars, hookVars, setting>>
    /\ WF_vars(Inbox(WriterWrite)) /\ WF_vars(Inbox(WriterReturn)) /\ SF_vars(Inbox(WriterLock))
    /\ \A d \in Drainers :
        /\ SF_vars(Inbox(DrainLock(d)))
        /\ WF_vars(Inbox(DrainRead(d) \/ DrainTruncate(d) \/ DrainCursor(d) \/ DrainReturn(d)))
    /\ WF_hookVars(StopHook)
===========================================================================
