--------------------------- MODULE SessionManager ---------------------------
(***************************************************************************)
(* The HTTP server's count of sessions (session_manager.py): launchers     *)
(* register and send heartbeats, a reaper evicts the silent, and when      *)
(* nobody is left a grace timer shuts the server down.                     *)
(*                                                                         *)
(* The threads: the event loop, which serves register and unregister one   *)
(* at a time; the reaper; and one thread per grace timer. Each step below  *)
(* is a section under the manager's lock, or what lies between two.        *)
(* Times are ages that every Tick moves on, up to the bound that decides.  *)
(***************************************************************************)
EXTENDS Naturals, FiniteSets

CONSTANTS
    Sessions,
    Timers,    \* pool of grace timer threads, reused when they end (bound)
    Grace,     \* grace period in ticks, 0: never shut down
    Timeout    \* liveness timeout in ticks, 0: no reaper

ASSUME ManagerAssumption == Grace \in Nat /\ Timeout \in Nat

Silent == Timeout + 1   \* ages beyond the timeout are all alike

VARIABLES
    active,    \* registered sessions
    seen,      \* per session, ticks since its last register
    tpc,       \* per timer: "none", "wait", "expired", "kill"
    tage,      \* ticks it has waited
    cancelled, \* its cancel event is set
    current,   \* _cancel_event: the timer whose event register sets
    http,      \* event loop: "idle", or "arm" when an unregister left nobody
    reaper,    \* "wait", "evict", or "arm" when an eviction left nobody
    stale,     \* sessions the reaper has still to look at again
    idle,      \* history: ticks since a session was last registered, up to Grace
    shutdown

timerVars == <<tpc, tage, cancelled, current>>
vars == <<active, seen, timerVars, http, reaper, stale, idle, shutdown>>

-----------------------------------------------------------------------------
\* start_watchdog: the first timer runs before anybody registers.
Init ==
    /\ active = {} /\ seen = [s \in Sessions |-> 0]
    /\ current \in Timers
    /\ tpc = [t \in Timers |-> IF t = current /\ Grace > 0 THEN "wait" ELSE "none"]
    /\ tage = [t \in Timers |-> 0]
    /\ cancelled = {}
    /\ http = "idle" /\ reaper = "wait" /\ stale = {}
    /\ idle = 0 /\ shutdown = FALSE

-----------------------------------------------------------------------------
\* Registration and heartbeat; a new session cancels the grace timer.
Register(s) ==
    /\ ~shutdown /\ http = "idle"
    /\ active' = active \union {s}
    /\ seen' = [seen EXCEPT ![s] = 0]
    /\ cancelled' = IF s \in active THEN cancelled ELSE cancelled \union {current}
    /\ idle' = 0
    /\ UNCHANGED <<tpc, tage, current, http, reaper, stale, shutdown>>

\* What removing the last session leaves to be done once the lock is released.
AfterRemoval(rest, default) == IF rest = {} THEN "arm" ELSE default

Unregister(s) ==
    /\ ~shutdown /\ http = "idle" /\ s \in active
    /\ active' = active \ {s}
    /\ http' = AfterRemoval(active \ {s}, "idle")
    /\ UNCHANGED <<seen, timerVars, reaper, stale, idle, shutdown>>

\* _start_grace_timer: cancel the old timer, take a new event, start a thread.
StartTimer_KeepsOld(t) ==
    IF Grace = 0 THEN UNCHANGED timerVars ELSE
    /\ tpc[t] = "none"
    /\ tpc' = [tpc EXCEPT ![t] = "wait"]
    /\ tage' = [tage EXCEPT ![t] = 0]
    /\ cancelled' = cancelled \ {t}
    /\ current' = t
StartTimer_SameEvent(t) ==
    IF Grace = 0 THEN UNCHANGED timerVars ELSE
    /\ tpc[t] = "none"
    /\ tpc' = [tpc EXCEPT ![t] = "wait"]
    /\ tage' = [tage EXCEPT ![t] = 0]
    /\ cancelled' = IF current \in cancelled THEN cancelled \union {t} ELSE cancelled \ {t}
    /\ current' = t
StartTimer(t) ==
    IF Grace = 0 THEN UNCHANGED timerVars ELSE
    /\ tpc[t] = "none"
    /\ tpc' = [tpc EXCEPT ![t] = "wait"]
    /\ tage' = [tage EXCEPT ![t] = 0]
    /\ cancelled' = (cancelled \union {current}) \ {t}
    /\ current' = t

HttpArm(t) ==
    /\ ~shutdown /\ http = "arm"
    /\ StartTimer(t)
    /\ http' = "idle"
    /\ UNCHANGED <<active, seen, reaper, stale, idle, shutdown>>

-----------------------------------------------------------------------------
ReaperScan ==
    /\ ~shutdown /\ reaper = "wait" /\ Timeout > 0
    /\ stale' = {s \in active : seen[s] > Timeout}
    /\ reaper' = "evict"
    /\ UNCHANGED <<active, seen, timerVars, http, idle, shutdown>>

\* _evict_if_still_stale looks again under the lock.
StillStale_NoRecheck(s) == s \in active
StillStale(s) == s \in active /\ seen[s] > Timeout

ReaperEvict(s) ==
    /\ ~shutdown /\ reaper = "evict" /\ s \in stale
    /\ stale' = stale \ {s}
    /\ active' = IF StillStale(s) THEN active \ {s} ELSE active
    /\ reaper' = IF StillStale(s) THEN AfterRemoval(active \ {s}, "evict") ELSE "evict"
    /\ UNCHANGED <<seen, timerVars, http, idle, shutdown>>

ReaperArm(t) ==
    /\ ~shutdown /\ reaper = "arm"
    /\ StartTimer(t)
    /\ reaper' = "evict"
    /\ UNCHANGED <<active, seen, http, stale, idle, shutdown>>

ReaperDone_Early ==
    /\ ~shutdown /\ reaper = "evict"
    /\ reaper' = "wait"
    /\ UNCHANGED <<active, seen, timerVars, http, stale, idle, shutdown>>
ReaperDone ==
    /\ ~shutdown /\ reaper = "evict" /\ stale = {}
    /\ reaper' = "wait"
    /\ UNCHANGED <<active, seen, timerVars, http, stale, idle, shutdown>>

-----------------------------------------------------------------------------
TimerCancelled(t) ==
    /\ ~shutdown /\ tpc[t] = "wait" /\ t \in cancelled
    /\ tpc' = [tpc EXCEPT ![t] = "none"]
    /\ UNCHANGED <<active, seen, tage, cancelled, current, http, reaper, stale, idle, shutdown>>

TimerExpires(t) ==
    /\ ~shutdown /\ tpc[t] = "wait" /\ t \notin cancelled /\ tage[t] >= Grace
    /\ tpc' = [tpc EXCEPT ![t] = "expired"]
    /\ UNCHANGED <<active, seen, tage, cancelled, current, http, reaper, stale, idle, shutdown>>

\* The count is read under the lock ...
TimerCount(t) ==
    /\ ~shutdown /\ tpc[t] = "expired"
    /\ tpc' = [tpc EXCEPT ![t] = IF active = {} THEN "kill" ELSE "none"]
    /\ UNCHANGED <<active, seen, tage, cancelled, current, http, reaper, stale, idle, shutdown>>

\* ... and acted on after it.
TimerKill(t) ==
    /\ ~shutdown /\ tpc[t] = "kill"
    /\ shutdown' = TRUE
    /\ UNCHANGED <<active, seen, timerVars, http, reaper, stale, idle>>

Tick ==
    /\ ~shutdown
    /\ seen' = [s \in Sessions |-> IF seen[s] < Silent THEN seen[s] + 1 ELSE seen[s]]
    /\ tage' = [t \in Timers |-> IF tage[t] < Grace THEN tage[t] + 1 ELSE tage[t]]
    /\ idle' = IF active = {} /\ idle < Grace THEN idle + 1 ELSE idle
    /\ UNCHANGED <<active, tpc, cancelled, current, http, reaper, stale, shutdown>>

-----------------------------------------------------------------------------
Timer(t) == TimerCancelled(t) \/ TimerExpires(t) \/ TimerCount(t) \/ TimerKill(t)
Reaper ==
    \/ ReaperScan \/ ReaperDone
    \/ \E s \in Sessions : ReaperEvict(s)
    \/ \E t \in Timers : ReaperArm(t)
Arm == \E t \in Timers : HttpArm(t)

Next ==
    \/ \E s \in Sessions : Register(s) \/ Unregister(s)
    \/ Arm \/ Reaper \/ Tick
    \/ \E t \in Timers : Timer(t)

Spec == Init /\ [][Next]_vars

\* Threads run on and time passes. Launchers may call or not.
FairSpec ==
    /\ Spec
    /\ WF_vars(Tick) /\ WF_vars(Arm) /\ WF_vars(Reaper)
    /\ \A t \in Timers : WF_vars(Timer(t))

-----------------------------------------------------------------------------
(* Properties *)

TypeOK ==
    /\ active \subseteq Sessions
    /\ seen \in [Sessions -> 0..Silent]
    /\ tpc \in [Timers -> {"none", "wait", "expired", "kill"}]
    /\ tage \in [Timers -> 0..Grace]
    /\ cancelled \subseteq Timers /\ current \in Timers
    /\ http \in {"idle", "arm"} /\ reaper \in {"wait", "evict", "arm"}
    /\ stale \subseteq Sessions /\ (reaper = "wait" => stale = {})
    /\ idle \in 0..Grace /\ shutdown \in BOOLEAN

Live(t) == tpc[t] = "wait" /\ t \notin cancelled
Pending == http = "arm" \/ reaper = "arm"

\* A server without sessions is always on its way down: some timer runs on, or
\* has run out, or is about to be started. No order of registrations, heartbeats,
\* departures and evictions leaves a daemon behind that nobody will stop.
WatchdogArmed ==
    Grace > 0 /\ active = {} /\ ~Pending =>
        \E t \in Timers : Live(t) \/ tpc[t] \in {"expired", "kill"}

\* At most one timer can run out, the one register would cancel.
OneLiveTimer == \A t \in Timers : Live(t) => t = current

\* A timer never counts time in which a session was registered: what it has
\* waited is no longer than the server has been idle.
TimerCountsIdleTime ==
    active = {} /\ ~Pending => \A t \in Timers : Live(t) => tage[t] <= idle

\* Together: what has run out is one timer, and it has counted idle time only.
TimersAreSound == OneLiveTimer /\ TimerCountsIdleTime

\* A session is dropped when it asks, or when it has been silent for longer than
\* the timeout at that very moment, whatever the reaper saw before.
EvictedIsSilent ==
    [][\A s \in active \ active' : seen[s] > Timeout \/ Unregister(s)]_vars

\* A session that stops sending heartbeats is dropped, whatever the others do.
SilentIsEvicted(s) == <>[][~Register(s)]_vars => <>(shutdown \/ [](s \notin active))

\* A server that stays without sessions shuts down.
IdleShutsDown == <>[](active = {}) => <>shutdown

\* The server shuts down when it has no session left.
ShutdownMeansIdle == shutdown => active = {}
=============================================================================
