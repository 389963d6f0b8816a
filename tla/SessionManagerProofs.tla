------------------------ MODULE SessionManagerProofs ------------------------
(***************************************************************************)
(* Proofs about SessionManager, for any sessions, timers, grace period and *)
(* timeout. The argument is one inductive invariant, the conjunction of    *)
(* the type invariant and the three properties of the grace timers: none   *)
(* of the three needs more than the others, because every one of them      *)
(* speaks of both threads that may be about to start a timer.              *)
(*                                                                         *)
(* And of EmbeddingServer: the invariant joins who has loaded the model to *)
(* who has the port, and who looks for a server to who holds the lock of   *)
(* the process; there is one of each.                                      *)
(***************************************************************************)
EXTENDS SessionManager, EmbeddingServer, TLAPS

USE ManagerAssumption

IInv == TypeOK /\ WatchdogArmed /\ OneLiveTimer /\ TimerCountsIdleTime

\* Starting a timer keeps the timers well typed, leaves it alone to run, and
\* it has waited for nothing yet.
LEMMA StartTimerFacts ==
    ASSUME NEW t \in Timers, IInv, StartTimer(t), Grace > 0
    PROVE  /\ tpc' \in [Timers -> {"none", "wait", "expired", "kill"}]
           /\ tage' \in [Timers -> 0..Grace]
           /\ cancelled' \subseteq Timers /\ current' \in Timers
           /\ Live(t)' /\ tage'[t] = 0 /\ current' = t
           /\ \A u \in Timers : Live(u)' => u = t
  BY DEF IInv, TypeOK, OneLiveTimer, StartTimer, Live

\* The first timer is armed and counts from zero.
LEMMA InitIInv == Init => IInv
<1> SUFFICES ASSUME Init PROVE IInv
  OBVIOUS
<1>1. TypeOK
  <2>1. tpc \in [Timers -> {"none", "wait", "expired", "kill"}]
    BY DEF Init
  <2>2. seen \in [Sessions -> 0..Silent] /\ tage \in [Timers -> 0..Grace]
    BY DEF Init, Silent
  <2>. QED  BY <2>1, <2>2 DEF Init, TypeOK
<1>2. WatchdogArmed
  BY DEF Init, WatchdogArmed, Live
<1>3. OneLiveTimer /\ TimerCountsIdleTime
  BY DEF Init, OneLiveTimer, TimerCountsIdleTime, Live
<1>. QED  BY <1>1, <1>2, <1>3 DEF IInv

\* A start of a timer by either thread, seen from the invariant.
LEMMA ArmIInv ==
    ASSUME IInv, NEW t \in Timers, HttpArm(t) \/ ReaperArm(t)
    PROVE  IInv'
<1>1. /\ StartTimer(t)
      /\ UNCHANGED <<active, seen, stale, idle, shutdown>>
      /\ http' \in {"idle", "arm"}
      /\ reaper' = reaper \/ reaper' = "evict"
  BY DEF HttpArm, ReaperArm, IInv, TypeOK
<1>2. CASE Grace = 0
  <2>1. UNCHANGED timerVars
    BY <1>1, <1>2 DEF StartTimer
  <2>2. \A u \in Timers : tage[u] = 0 /\ ~(Grace > 0)
    BY <1>2 DEF IInv, TypeOK
  <2>. QED  BY <1>1, <1>2, <2>1, <2>2
            DEF IInv, TypeOK, WatchdogArmed, OneLiveTimer, TimerCountsIdleTime, Live, timerVars
<1>3. CASE Grace > 0
  <2>1. TypeOK'
    BY <1>1, <1>3, StartTimerFacts DEF IInv, TypeOK
  <2>2. WatchdogArmed' /\ OneLiveTimer'
    BY <1>1, <1>3, StartTimerFacts DEF WatchdogArmed, OneLiveTimer
  <2>3. TimerCountsIdleTime'
    BY <1>1, <1>3, <2>1, StartTimerFacts DEF TimerCountsIdleTime, TypeOK
  <2>. QED  BY <2>1, <2>2, <2>3 DEF IInv
<1>. QED  BY <1>2, <1>3

\* Every step keeps the invariant.
LEMMA NextIInv == IInv /\ [Next]_vars => IInv'
<1> SUFFICES ASSUME IInv, [Next]_vars PROVE IInv'
  OBVIOUS
<1>. USE DEF IInv, TypeOK, WatchdogArmed, OneLiveTimer, TimerCountsIdleTime, Live, Pending,
             timerVars, Silent
<1>1. ASSUME NEW s \in Sessions, Register(s) PROVE IInv'
  BY <1>1 DEF Register
<1>2. ASSUME NEW s \in Sessions, Unregister(s) PROVE IInv'
  BY <1>2 DEF Unregister, AfterRemoval
<1>3. ASSUME NEW t \in Timers, HttpArm(t) \/ ReaperArm(t) PROVE IInv'
  BY <1>3, ArmIInv
<1>4. CASE ReaperScan
  BY <1>4 DEF ReaperScan
<1>5. CASE ReaperDone
  BY <1>5 DEF ReaperDone
<1>6. ASSUME NEW s \in Sessions, ReaperEvict(s) PROVE IInv'
  BY <1>6 DEF ReaperEvict, AfterRemoval, StillStale
<1>7. ASSUME NEW t \in Timers, Timer(t) PROVE IInv'
  <2>1. CASE TimerCancelled(t)
    BY <2>1 DEF TimerCancelled
  <2>2. CASE TimerExpires(t)
    BY <2>2 DEF TimerExpires
  <2>3. CASE TimerCount(t)
    BY <2>3 DEF TimerCount
  <2>4. CASE TimerKill(t)
    BY <2>4 DEF TimerKill
  <2>. QED  BY <1>7, <2>1, <2>2, <2>3, <2>4 DEF Timer
<1>8. CASE Tick
  <2>1. TypeOK'
    BY <1>8 DEF Tick
  <2>2. (WatchdogArmed /\ OneLiveTimer)'
    BY <1>8 DEF Tick
  <2>3. TimerCountsIdleTime'
    <3> SUFFICES ASSUME (active = {} /\ ~Pending)', NEW t \in Timers, Live(t)'
                 PROVE  tage'[t] <= idle'
      OBVIOUS
    <3>1. tage[t] <= idle /\ tage[t] \in 0..Grace /\ idle \in 0..Grace
      BY <1>8 DEF Tick
    <3>. QED  BY <1>8, <3>1 DEF Tick
  <2>. QED  BY <2>1, <2>2, <2>3
<1>9. CASE UNCHANGED vars
  BY <1>9 DEF vars
<1>. QED  BY <1>1, <1>2, <1>3, <1>4, <1>5, <1>6, <1>7, <1>8, <1>9 DEF Next, Arm, Reaper

\* Every reachable state of the session manager is well typed.
THEOREM TypeCorrect == Spec => []TypeOK
<1>1. IInv => TypeOK
  BY DEF IInv
<1>. QED  BY InitIInv, NextIInv, <1>1, PTL DEF Spec

\* Whatever the threads do in whatever order, a server without sessions has a
\* grace timer that runs, has run out, or is about to be started.
THEOREM AlwaysArmed == Spec => []WatchdogArmed
<1>1. IInv => WatchdogArmed
  BY DEF IInv
<1>. QED  BY InitIInv, NextIInv, <1>1, PTL DEF Spec

\* Only the timer that register cancels can run out.
THEOREM NeverTwoTimers == Spec => []OneLiveTimer
<1>1. IInv => OneLiveTimer
  BY DEF IInv
<1>. QED  BY InitIInv, NextIInv, <1>1, PTL DEF Spec

\* No timer has waited for longer than the server has been without sessions.
THEOREM TimersCountIdleTime == Spec => []TimerCountsIdleTime
<1>1. IInv => TimerCountsIdleTime
  BY DEF IInv
<1>. QED  BY InitIInv, NextIInv, <1>1, PTL DEF Spec

\* Both together: in every order of registrations, heartbeats and timers, the
\* server stops on one clock that counts time without sessions only.
THEOREM TimersSound == Spec => []TimersAreSound
<1>1. TimersAreSound <=> OneLiveTimer /\ TimerCountsIdleTime
  BY DEF TimersAreSound
<1>. QED  BY <1>1, NeverTwoTimers, TimersCountIdleTime, PTL

\* A session leaves when it asks to, or because it is silent at that moment: what
\* the reaper saw before it took the lock again never decides.
THEOREM OnlySilentEvicted == Spec => EvictedIsSilent
<1> DEFINE A == \A s \in active \ active' : seen[s] > Timeout \/ Unregister(s)
<1>1. IInv /\ [Next]_vars => [A]_vars
  <2> SUFFICES ASSUME IInv, Next PROVE A
    OBVIOUS
  <2>1. ASSUME NEW s \in Sessions, Register(s) PROVE A
    BY <2>1 DEF Register
  <2>2. ASSUME NEW s \in Sessions, Unregister(s) PROVE A
    <3>1. \A r \in active \ active' : r = s
      BY <2>2 DEF Unregister
    <3>. QED  BY <2>2, <3>1
  <2>3. ASSUME NEW s \in Sessions, ReaperEvict(s) PROVE A
    <3>1. \A r \in active \ active' : r = s /\ StillStale(s)
      BY <2>3 DEF ReaperEvict
    <3>. QED  BY <3>1 DEF StillStale
  <2>4. ASSUME UNCHANGED active PROVE A
    BY <2>4
  <2>. QED  BY <2>1, <2>2, <2>3, <2>4
            DEF Next, Arm, Reaper, Timer, HttpArm, ReaperArm, ReaperScan, ReaperDone,
                TimerCancelled, TimerExpires, TimerCount, TimerKill, Tick
<1>. QED  BY InitIInv, NextIInv, <1>1, PTL DEF Spec, EvictedIsSilent

--------------------------------------------------------------------------------
\* EmbeddingServer.

\* Who has a model is who has the port, and who looks for a server has the lock of the
\* process: there is one of each.
States == {"none", "starting", "loading", "serving", "draining", "gone"}
EmbedTypeOK ==
    /\ server \in [Servers -> States] /\ port \in Servers \union {Nobody}
    /\ child \in [Threads -> Servers \union {Nobody}]
    /\ lock \in [Procs -> Threads \union {Nobody}]
    /\ pc \in [Threads -> {"idle", "enter", "ensure", "wait", "kill", "request"}]
EmbedInv ==
    /\ EmbedTypeOK
    /\ \A k \in Servers : HasModel(k) <=> port = k
    /\ \A t \in Threads : Awaits(t) => lock[Of[t]] = t
    /\ \A t \in Threads : pc[t] \in {"wait", "kill"} => child[t] \in Servers

LEMMA NobodyIsNone == Nobody \notin Servers /\ Nobody \notin Threads /\ \A t \in Threads : Of[t] \in Procs
BY EmbeddingServerAssumption DEF Nobody, Procs

LEMMA EmbedInitial == EmbedInit => EmbedInv
BY NobodyIsNone DEF EmbedInit, EmbedInv, EmbedTypeOK, States, HasModel, Awaits

\* A thread that gives the lock up, at rest or with its server found.
LEMMA ReleasedKeeps ==
    ASSUME EmbedInv, NEW t \in Threads, Awaits(t), Release(t),
           NEW to \in {"idle", "request"}, pc' = [pc EXCEPT ![t] = to],
           child' = [child EXCEPT ![t] = Nobody],
           server' \in [Servers -> States], port' \in Servers \union {Nobody},
           \A k \in Servers : HasModel(k)' <=> port' = k
    PROVE  EmbedInv'
<1>1. EmbedTypeOK'
  BY NobodyIsNone DEF EmbedInv, EmbedTypeOK, Release
<1>2. \A u \in Threads : pc'[u] \in {"wait", "kill"} => child'[u] \in Servers
  BY DEF EmbedInv, EmbedTypeOK
<1>3. ASSUME NEW u \in Threads, Awaits(u)'
      PROVE  lock'[Of[u]] = u
  <2>1. u # t /\ Awaits(u)
    BY <1>3 DEF EmbedInv, EmbedTypeOK, Awaits
  <2>2. lock[Of[t]] = t /\ lock[Of[u]] = u
    BY <2>1 DEF EmbedInv
  <2> QED BY <2>1, <2>2, NobodyIsNone DEF EmbedInv, EmbedTypeOK, Release
<1> QED BY <1>1, <1>2, <1>3 DEF EmbedInv

LEMMA EnterKeeps ==
    ASSUME EmbedInv, NEW t \in Threads, Encode(t) \/ Enter(t) \/ Request(t)
    PROVE  EmbedInv'
<1>1. UNCHANGED <<server, port, child>>
  BY DEF Encode, Enter, Request
<1>2. \/ pc' = [pc EXCEPT ![t] = "ensure"] /\ lock' = [lock EXCEPT ![Of[t]] = t] /\ lock[Of[t]] = Nobody
      \/ pc' \in {[pc EXCEPT ![t] = "enter"], [pc EXCEPT ![t] = "request"], [pc EXCEPT ![t] = "idle"]} /\ lock' = lock
  BY DEF Encode, Enter, Request, At
<1>3. EmbedTypeOK' /\ \A k \in Servers : HasModel(k)' <=> port' = k
  BY <1>1, <1>2, NobodyIsNone DEF EmbedInv, EmbedTypeOK, HasModel
<1>4. ASSUME NEW u \in Threads, Awaits(u)'
      PROVE  lock'[Of[u]] = u
  <2>1. u # t => Awaits(u) /\ lock[Of[u]] = u
    BY <1>2, <1>4 DEF EmbedInv, EmbedTypeOK, Awaits
  <2>2. u = t => lock'[Of[u]] = u
    BY <1>2, <1>4, NobodyIsNone DEF EmbedInv, EmbedTypeOK, Awaits
  <2>3. u # t => lock'[Of[u]] = u
    BY <1>2, <2>1, NobodyIsNone DEF EmbedInv, EmbedTypeOK
  <2> QED BY <2>2, <2>3
<1>5. \A u \in Threads : pc'[u] \in {"wait", "kill"} => child'[u] \in Servers
  BY <1>1, <1>2 DEF EmbedInv, EmbedTypeOK
<1> QED BY <1>3, <1>4, <1>5 DEF EmbedInv

LEMMA SearchKeeps ==
    ASSUME EmbedInv, NEW t \in Threads, \/ Ensure(t) \/ WaitFound(t) \/ WaitDead(t)
                                            \/ WaitLong(t) \/ Kill(t)
    PROVE  EmbedInv'
<1>1. ASSUME UNCHANGED <<server, port>>, Awaits(t),
             NEW from, Found(t, from) \/ Fail(t, from)
      PROVE  EmbedInv'
  <2>1. PICK to \in {"idle", "request"} :
           pc' = [pc EXCEPT ![t] = to] /\ Release(t) /\ child' = [child EXCEPT ![t] = Nobody]
    BY <1>1 DEF Found, Fail, At
  <2>2. /\ server' \in [Servers -> States] /\ port' \in Servers \union {Nobody}
        /\ \A k \in Servers : HasModel(k)' <=> port' = k
    BY <1>1 DEF HasModel, EmbedInv, EmbedTypeOK
  <2> QED BY <1>1, <2>1, <2>2, ReleasedKeeps
<1>2. CASE Ensure(t)
  <2>1. Awaits(t) /\ port' = port
    BY <1>2 DEF Ensure, Awaits
  <2>2. CASE (Found(t, "ensure") \/ Fail(t, "ensure")) /\ UNCHANGED server
    BY <1>1, <2>1, <2>2
  <2>3. ASSUME NEW k \in Servers, server[k] = "none", server' = [server EXCEPT ![k] = "starting"],
               child' = [child EXCEPT ![t] = k], At(t, "ensure", "wait"), UNCHANGED lock
        PROVE  EmbedInv'
    <3>1. EmbedTypeOK'
      BY <2>1, <2>3 DEF EmbedInv, EmbedTypeOK, States, At
    <3>2. \A l \in Servers : HasModel(l)' <=> HasModel(l)
      BY <2>3 DEF EmbedInv, EmbedTypeOK, HasModel
    <3>3. \A u \in Threads : Awaits(u)' => Awaits(u)
      BY <2>1, <2>3 DEF EmbedInv, EmbedTypeOK, Awaits, At
    <3>4. \A u \in Threads : pc'[u] \in {"wait", "kill"} => child'[u] \in Servers
      BY <2>3 DEF EmbedInv, EmbedTypeOK, At
    <3> QED BY <2>1, <2>3, <3>1, <3>2, <3>3, <3>4 DEF EmbedInv
  <2> QED BY <1>2, <2>2, <2>3 DEF Ensure
<1>3. CASE WaitFound(t) \/ WaitDead(t)
  <2>1. Awaits(t) /\ UNCHANGED <<server, port>> /\ (Found(t, "wait") \/ Fail(t, "wait"))
    BY <1>3 DEF WaitFound, WaitDead, Awaits
  <2> QED BY <1>1, <2>1
<1>4. CASE WaitLong(t)
  <2>1. Awaits(t) /\ UNCHANGED <<server, port>>
    BY <1>4 DEF WaitLong, Awaits
  <2>2. CASE Fail(t, "wait")
    BY <1>1, <2>1, <2>2
  <2>3. CASE At(t, "wait", "kill") /\ UNCHANGED <<child, lock>>
    <3>1. EmbedTypeOK' /\ \A k \in Servers : HasModel(k)' <=> port' = k
      BY <2>1, <2>3 DEF EmbedInv, EmbedTypeOK, HasModel, At
    <3>2. \A u \in Threads : Awaits(u)' => Awaits(u)
      BY <2>1, <2>3 DEF EmbedInv, EmbedTypeOK, Awaits, At
    <3>3. \A u \in Threads : pc'[u] \in {"wait", "kill"} => child'[u] \in Servers
      BY <2>3 DEF EmbedInv, EmbedTypeOK, At
    <3> QED BY <2>3, <3>1, <3>2, <3>3 DEF EmbedInv
  <2> QED BY <1>4, <2>2, <2>3 DEF WaitLong
<1>5. CASE Kill(t)
  <2>1. Awaits(t) /\ Release(t) /\ pc' = [pc EXCEPT ![t] = "idle"] /\ child' = [child EXCEPT ![t] = Nobody]
    BY <1>5 DEF Kill, Fail, At, Awaits
  <2>2. /\ child[t] \in Servers /\ server' = [server EXCEPT ![child[t]] = "gone"]
        /\ port' = IF port = child[t] THEN Nobody ELSE port
    BY <1>5 DEF Kill, EmbedInv
  <2>3. server' \in [Servers -> States] /\ port' \in Servers \union {Nobody}
    BY <2>2 DEF EmbedInv, EmbedTypeOK, States
  <2>4. \A k \in Servers : HasModel(k)' <=> port' = k
    BY <2>2, NobodyIsNone DEF EmbedInv, EmbedTypeOK, HasModel
  <2> QED BY <2>1, <2>3, <2>4, ReleasedKeeps
<1> QED BY <1>2, <1>3, <1>4, <1>5

LEMMA ServerKeeps ==
    ASSUME EmbedInv, NEW k \in Servers, Bind(k) \/ Load(k) \/ Drain(k) \/ End(k), UNCHANGED <<child, lock, pc>>
    PROVE  EmbedInv'
<1>1. EmbedTypeOK'
  BY DEF EmbedInv, EmbedTypeOK, States, Bind, Load, Drain, End
<1>2. ASSUME NEW l \in Servers
      PROVE  HasModel(l)' <=> port' = l
  <2>1. \A m \in Servers : HasModel(m) <=> port = m
    BY DEF EmbedInv
  <2>2. CASE Bind(k)
    BY <1>2, <2>1, <2>2, NobodyIsNone DEF EmbedInv, EmbedTypeOK, Bind, HasModel
  <2>3. CASE Load(k) \/ Drain(k)
    BY <1>2, <2>1, <2>3 DEF EmbedInv, EmbedTypeOK, Load, Drain, HasModel
  <2>4. CASE End(k)
    BY <1>2, <2>1, <2>4, NobodyIsNone DEF EmbedInv, EmbedTypeOK, End, HasModel
  <2> QED BY <2>2, <2>3, <2>4
<1> QED BY <1>1, <1>2 DEF EmbedInv, Awaits

LEMMA EmbedStep == EmbedInv /\ [EmbedNext]_embedVars => EmbedInv'
<1> SUFFICES ASSUME EmbedInv, [EmbedNext]_embedVars PROVE EmbedInv'
  OBVIOUS
<1>1. CASE UNCHANGED <<server, port, child, lock, pc>>
  BY <1>1 DEF EmbedInv, EmbedTypeOK, HasModel, Awaits
<1>2. ASSUME NEW p \in Procs, Backfill(p) \/ Cool(p)
      PROVE  EmbedInv'
  BY <1>1, <1>2 DEF Backfill, Cool
<1>3. ASSUME NEW t \in Threads, \/ Encode(t) \/ Enter(t) \/ Ensure(t) \/ WaitFound(t) \/ WaitDead(t)
                                \/ WaitLong(t) \/ Kill(t) \/ Request(t)
      PROVE  EmbedInv'
  BY <1>3, EnterKeeps, SearchKeeps
<1>4. ASSUME NEW k \in Servers, Bind(k) \/ Load(k) \/ Drain(k) \/ End(k),
             UNCHANGED <<child, lock, ready, cooling, filling, pc, calls>>
      PROVE  EmbedInv'
  BY <1>4, ServerKeeps
<1> QED BY <1>1, <1>2, <1>3, <1>4 DEF EmbedNext, embedVars

\* Who loses the port ends or is killed by its starter, who had looked for a bound
\* port before; and the one step that starts a server asks for the cooldown.
LEMMA EmbedActions ==
    ASSUME EmbedInv, [EmbedNext]_embedVars
    PROVE  /\ \A k \in Servers : port = k /\ port' # k =>
                End(k) \/ \E t \in Threads : pc[t] = "kill" /\ child[t] = k
           /\ \A t \in Threads : pc[t] # "kill" /\ pc'[t] = "kill" => ~HasModel(child[t])
           /\ \A t \in Threads : child[t] = Nobody /\ child'[t] # Nobody => ~cooling[Of[t]]
<1>1. ASSUME NEW k \in Servers, port = k, port' # k
      PROVE  End(k) \/ \E t \in Threads : pc[t] = "kill" /\ child[t] = k
  <2>1. port # Nobody /\ port' # port
    BY <1>1, NobodyIsNone
  <2>2. \A t \in Threads : /\ ~Encode(t) /\ ~Enter(t) /\ ~Ensure(t) /\ ~WaitFound(t) /\ ~WaitDead(t)
                           /\ ~WaitLong(t) /\ ~Request(t)
    BY <2>1 DEF Encode, Enter, Ensure, WaitFound, WaitDead, WaitLong, Request
  <2>3. \A p \in Procs : ~Backfill(p) /\ ~Cool(p)
    BY <2>1 DEF Backfill, Cool
  <2>4. \A l \in Servers : ~Bind(l) /\ ~Load(l) /\ ~Drain(l)
    BY <2>1 DEF Bind, Load, Drain
  <2>5. (\E t \in Threads : Kill(t)) \/ \E l \in Servers : End(l)
    BY <2>1, <2>2, <2>3, <2>4 DEF EmbedNext, embedVars
  <2>6. \A t \in Threads : Kill(t) => pc[t] = "kill" /\ child[t] = k
    BY <1>1, <2>1 DEF Kill
  <2>7. \A l \in Servers : End(l) => l = k
    BY <1>1, <2>1 DEF End
  <2> QED BY <2>5, <2>6, <2>7
<1>2. ASSUME NEW t \in Threads, pc[t] # "kill", pc'[t] = "kill"
      PROVE  ~HasModel(child[t])
  <2>1. \A u \in Threads : At(u, "wait", "kill") \/ pc'[t] # "kill" \/ ~WaitLong(u)
    BY <1>2 DEF WaitLong, Fail, At, EmbedInv, EmbedTypeOK
  <2>2. \A u \in Threads : ~Encode(u) /\ ~Enter(u) /\ ~WaitFound(u) /\ ~WaitDead(u) /\ ~Kill(u) /\ ~Request(u)
    BY <1>2 DEF Encode, Enter, WaitFound, WaitDead, Kill, Request, Found, Fail, At, EmbedInv, EmbedTypeOK
  <2>3. \A u \in Threads : ~Ensure(u)
    BY <1>2 DEF Ensure, Found, Fail, At, EmbedInv, EmbedTypeOK
  <2>4. (\A p \in Procs : ~Backfill(p) /\ ~Cool(p)) /\ pc' # pc
    BY <1>2 DEF Backfill, Cool
  <2>5. PICK u \in Threads : WaitLong(u)
    BY <2>2, <2>3, <2>4 DEF EmbedNext, embedVars
  <2>6. u = t /\ port = Nobody
    <3>1. CASE Fail(u, "wait")
      BY <1>2, <3>1 DEF Fail, At, EmbedInv, EmbedTypeOK
    <3>2. CASE At(u, "wait", "kill") /\ port = Nobody
      BY <1>2, <3>2 DEF At, EmbedInv, EmbedTypeOK
    <3> QED BY <2>5, <3>1, <3>2 DEF WaitLong
  <2>7. child[t] \in Servers
    BY <2>5, <2>6 DEF WaitLong, EmbedInv
  <2> QED BY <2>6, <2>7, NobodyIsNone DEF EmbedInv
<1>3. ASSUME NEW t \in Threads, child[t] = Nobody, child'[t] # Nobody
      PROVE  ~cooling[Of[t]]
  <2>1. \A u \in Threads, from \in {"ensure", "wait", "kill"} :
           Found(u, from) \/ Fail(u, from) => child'[t] = Nobody
    BY <1>3 DEF Found, Fail, EmbedInv, EmbedTypeOK
  <2>2. \A u \in Threads : /\ ~Encode(u) /\ ~Enter(u) /\ ~WaitFound(u) /\ ~WaitDead(u) /\ ~WaitLong(u)
                           /\ ~Kill(u) /\ ~Request(u)
    BY <1>3, <2>1 DEF Encode, Enter, WaitFound, WaitDead, WaitLong, Kill, Request
  <2>3. \A p \in Procs : ~Backfill(p) /\ ~Cool(p)
    BY <1>3 DEF Backfill, Cool
  <2>4. PICK u \in Threads : Ensure(u)
    BY <1>3, <2>2, <2>3 DEF EmbedNext, embedVars
  <2>5. ~cooling[Of[u]] /\ \E k \in Servers : child' = [child EXCEPT ![u] = k]
    BY <1>3, <2>1, <2>4 DEF Ensure
  <2> QED BY <1>3, <2>5 DEF EmbedInv, EmbedTypeOK
<1> QED BY <1>1, <1>2, <1>3

\* However many threads of however many processes call for embeddings, fail, wait and
\* give up, and however servers start, fail, drain and end, one of them at most loads
\* the model, one thread of a process looks for it, the one that is bound goes only
\* by itself or by a starter that gave it up unbound, and a start that failed is not
\* repeated before its cooldown.
THEOREM OneModelAlways == EmbedSpec => OneModelIsShared
<1>1. EmbedInit => EmbedInv
  BY EmbedInitial
<1>2. EmbedInv /\ [EmbedNext]_embedVars => EmbedInv'
  BY EmbedStep
<1>3. EmbedInv => \A k, l \in Servers : HasModel(k) /\ HasModel(l) => k = l
  BY DEF EmbedInv
<1>4. EmbedInv => \A t, u \in Threads : Of[t] = Of[u] /\ Awaits(t) /\ Awaits(u) => t = u
  BY DEF EmbedInv
<1>5. EmbedInv /\ [EmbedNext]_embedVars =>
         [/\ \A k \in Servers : port = k /\ port' # k =>
                End(k) \/ \E t \in Threads : pc[t] = "kill" /\ child[t] = k
          /\ \A t \in Threads : pc[t] # "kill" /\ pc'[t] = "kill" => ~HasModel(child[t])
          /\ \A t \in Threads : child[t] = Nobody /\ child'[t] # Nobody => ~cooling[Of[t]]]_embedVars
  BY EmbedActions
<1> QED BY <1>1, <1>2, <1>3, <1>4, <1>5, PTL DEF EmbedSpec, OneModelIsShared
=============================================================================
