--------------------------- MODULE ServerLifecycle ---------------------------
(***************************************************************************)
(* How launchers come by an HTTP server (launcher.py), and how servers     *)
(* come by the lock file (lock_file.py, main.py), the port and the outbox  *)
(* dispatcher (runtime.py). Launchers and servers are processes that share *)
(* the lock file and the port; several may start at once, stop or crash.   *)
(* The sessions of a server are those of SessionManager, whose grace       *)
(* period is here a step that a server without sessions may take.          *)
(***************************************************************************)
EXTENDS Naturals, FiniteSets

CONSTANTS
    Launchers,
    Servers,   \* pids of servers, reused when nothing names them any more (bound)
    Nobody,
    Faults     \* subset of FaultKinds that may happen

\* stop: a stale server, or one to be restarted, gets a signal. crash: a server is
\* killed. anytime: servers end whatever the launchers are about to do; without
\* it none ends under a launcher that looks for one, or is seen winding down.
FaultKinds == {"stop", "crash", "anytime"}

ASSUME LifecycleAssumption == Nobody \notin Servers /\ Faults \subseteq FaultKinds

VARIABLES
    lpc,     \* per launcher: where it is in main
    spc,     \* per server: where it is in main.py
    lock,    \* server.lock: who made it, and whether its pid is written yet
    regs,    \* per server, the launchers registered with it
    bridge,  \* per launcher, the server it is bridged to
    disp,    \* per server, its dispatcher thread
    dlock    \* who holds <db>.dispatcher.lock

vars == <<lpc, spc, lock, regs, bridge, disp, dlock>>

NoLock == [by |-> Nobody, ok |-> FALSE]

Listening(s) == spc[s] = "listen"
Running(s) == spc[s] # "off"
Booting(s) == spc[s] \in {"check", "create", "write", "judge", "unlink", "again", "boot", "bind"}

\* read(): a file that is missing or not written yet names nobody.
LockPid == IF lock.ok THEN lock.by ELSE Nobody

\* The launcher or the server that a check and a register find.
Port == {s \in Servers : Listening(s)}

Looking == \E l \in Launchers : lpc[l] \in {"lock", "unlink", "spawn", "wait", "register", "connect"}
Returning == \E l \in Launchers :
    lpc[l] = "check" \/ (lpc[l] = "bridge" /\ ~Listening(bridge[l]))
Winding == \E s \in Servers : spc[s] \in {"drain", "exit"}

-----------------------------------------------------------------------------
Init ==
    /\ lpc = [l \in Launchers |-> "idle"]
    /\ spc = [s \in Servers |-> "off"]
    /\ lock = NoLock
    /\ regs = [s \in Servers |-> {}]
    /\ bridge = [l \in Launchers |-> Nobody]
    /\ disp = [s \in Servers |-> "none"]
    /\ dlock = Nobody

-----------------------------------------------------------------------------
(* Launchers *)

LGoto(l, from, to) == lpc[l] = from /\ lpc' = [lpc EXCEPT ![l] = to]

Start(l) ==
    /\ "anytime" \in Faults \/ ~Winding
    /\ LGoto(l, "idle", "check")
    /\ UNCHANGED <<spc, lock, regs, bridge, disp, dlock>>

\* _ensure_server_running
Check(l) ==
    /\ LGoto(l, "check", IF Port # {} THEN "register" ELSE "lock")
    /\ UNCHANGED <<spc, lock, regs, bridge, disp, dlock>>

\* A lock of a dead process is removed, a lock of a live one waited for.
OnLock_Trusting == IF LockPid = Nobody THEN "spawn" ELSE "wait"
OnLock ==
    IF LockPid = Nobody THEN "spawn" ELSE IF Running(LockPid) THEN "wait" ELSE "unlink"

ReadLock(l) ==
    /\ LGoto(l, "lock", OnLock)
    /\ UNCHANGED <<spc, lock, regs, bridge, disp, dlock>>

LUnlink(l) ==
    /\ LGoto(l, "unlink", "spawn")
    /\ lock' = NoLock
    /\ UNCHANGED <<spc, regs, bridge, disp, dlock>>

Spawn(l) ==
    /\ LGoto(l, "spawn", "wait")
    /\ \E s \in Servers :
        /\ spc[s] = "off" /\ lock.by # s /\ \A m \in Launchers : bridge[m] # s
        /\ spc' = [spc EXCEPT ![s] = "check"]
    /\ UNCHANGED <<lock, regs, bridge, disp, dlock>>

Ready(l) ==
    /\ Port # {} /\ LGoto(l, "wait", "register")
    /\ UNCHANGED <<spc, lock, regs, bridge, disp, dlock>>

\* Sixty polls without an answer: exit. Servers boot within the 30 seconds.
GiveUp(l) ==
    /\ \A s \in Servers : ~Booting(s) /\ ~Listening(s)
    /\ LGoto(l, "wait", "gone")
    /\ UNCHANGED <<spc, lock, regs, bridge, disp, dlock>>

\* POST /session/register reaches whoever listens.
Registered(l) == regs' = [s \in Servers |-> IF s \in Port THEN regs[s] \union {l} ELSE regs[s]]

\* A failed registration ends the launcher too.
Register(l) ==
    /\ LGoto(l, "register", IF Port = {} THEN "gone" ELSE "connect")
    /\ Registered(l)
    /\ UNCHANGED <<spc, lock, bridge, disp, dlock>>

\* The bridge connects, perhaps to another server than the one that registered it.
Connect(l) ==
    /\ LGoto(l, "connect", IF Port = {} THEN "check" ELSE "bridge")
    /\ bridge' = [bridge EXCEPT ![l] = IF Port = {} THEN Nobody ELSE CHOOSE s \in Port : TRUE]
    /\ UNCHANGED <<spc, lock, regs, disp, dlock>>

Heartbeat(l) ==
    /\ lpc[l] = "bridge" /\ \E s \in Port : l \notin regs[s]
    /\ Registered(l)
    /\ UNCHANGED <<lpc, spc, lock, bridge, disp, dlock>>

\* The bridge breaks: back to the start, after a backoff.
Reconnect(l) ==
    /\ bridge[l] # Nobody /\ ~Listening(bridge[l])
    /\ LGoto(l, "bridge", "check")
    /\ bridge' = [bridge EXCEPT ![l] = Nobody]
    /\ UNCHANGED <<spc, lock, regs, disp, dlock>>

\* End of stdin: unregister with whoever listens, and exit.
Leave_Quiet(l) ==
    /\ LGoto(l, "bridge", "done")
    /\ bridge' = [bridge EXCEPT ![l] = Nobody]
    /\ UNCHANGED <<spc, lock, regs, disp, dlock>>
Leave(l) ==
    /\ LGoto(l, "bridge", "done")
    /\ regs' = [s \in Servers |-> IF s \in Port THEN regs[s] \ {l} ELSE regs[s]]
    /\ bridge' = [bridge EXCEPT ![l] = Nobody]
    /\ UNCHANGED <<spc, lock, disp, dlock>>

-----------------------------------------------------------------------------
(* Servers *)

SGoto(s, from, to) == spc[s] = from /\ spc' = [spc EXCEPT ![s] = to]

\* A port in use ends the process.
PortCheck(s) ==
    /\ SGoto(s, "check", IF Port = {} THEN "create" ELSE "off")
    /\ UNCHANGED <<lpc, lock, regs, bridge, disp, dlock>>

\* open('x') makes an empty file; the pid is written to it afterwards, unseen if
\* somebody has removed the file in between.
Create(s, from, failed) ==
    /\ SGoto(s, from, IF lock = NoLock THEN "write" ELSE failed)
    /\ lock' = IF lock = NoLock THEN [by |-> s, ok |-> FALSE] ELSE lock
    /\ UNCHANGED <<lpc, regs, bridge, disp, dlock>>
FirstCreate(s) == Create(s, "create", "judge")
SecondCreate(s) == Create(s, "again", "off")

WritePid(s) ==
    /\ SGoto(s, "write", "boot")
    /\ lock' = IF lock.by = s THEN [by |-> s, ok |-> TRUE] ELSE lock
    /\ UNCHANGED <<lpc, regs, bridge, disp, dlock>>

\* The lock counts if its process lives and the port answers.
Held == LockPid # Nobody /\ Running(LockPid) /\ Port # {}

Judge(s) ==
    /\ SGoto(s, "judge", IF Held THEN "off" ELSE "unlink")
    /\ UNCHANGED <<lpc, lock, regs, bridge, disp, dlock>>

SUnlink(s) ==
    /\ SGoto(s, "unlink", "again")
    /\ lock' = NoLock
    /\ UNCHANGED <<lpc, regs, bridge, disp, dlock>>

\* RelayRuntime.start: the threads run from here on.
Boot(s) ==
    /\ SGoto(s, "boot", "bind")
    /\ disp' = [disp EXCEPT ![s] = "starting"]
    /\ UNCHANGED <<lpc, lock, regs, bridge, dlock>>

\* _run_dispatcher: one dispatcher at a time; who is refused does not try again.
Dispatch(s) ==
    /\ disp[s] = "starting"
    /\ IF dlock = Nobody
       THEN disp' = [disp EXCEPT ![s] = "running"] /\ dlock' = s
       ELSE disp' = [disp EXCEPT ![s] = "refused"] /\ UNCHANGED dlock
    /\ UNCHANGED <<lpc, spc, lock, regs, bridge>>

Bind(s) ==
    /\ SGoto(s, "bind", IF Port = {} THEN "listen" ELSE "drain")
    /\ UNCHANGED <<lpc, lock, regs, bridge, disp, dlock>>

\* The grace period of a server without sessions ends.
Unused(s) ==
    /\ regs[s] = {}
    /\ "anytime" \in Faults \/ ~(Looking \/ Returning)
IdleOut(s) ==
    /\ Unused(s) /\ SGoto(s, "listen", "drain")
    /\ UNCHANGED <<lpc, lock, regs, bridge, disp, dlock>>

Stop(s) ==
    /\ "stop" \in Faults /\ SGoto(s, "listen", "drain")
    /\ UNCHANGED <<lpc, lock, regs, bridge, disp, dlock>>

\* The port is closed; when what still ran is done, the lock goes, if it is ours,
\* and with the process everything it held.
EndOf(s) ==
    /\ spc' = [spc EXCEPT ![s] = "off"]
    /\ disp' = [disp EXCEPT ![s] = "none"]
    /\ dlock' = IF dlock = s THEN Nobody ELSE dlock
    /\ regs' = [regs EXCEPT ![s] = {}]

Release(s) ==
    /\ SGoto(s, "drain", "exit")
    /\ lock' = IF LockPid = s THEN NoLock ELSE lock
    /\ UNCHANGED <<lpc, regs, bridge, disp, dlock>>

Exit(s) ==
    /\ spc[s] = "exit" /\ EndOf(s)
    /\ UNCHANGED <<lpc, lock, bridge>>

Crash(s) ==
    /\ "crash" \in Faults /\ Running(s)
    /\ "anytime" \in Faults \/ ~(Looking \/ Winding)
    /\ EndOf(s)
    /\ UNCHANGED <<lpc, lock, bridge>>

-----------------------------------------------------------------------------
Launching(l) ==
    \/ Check(l) \/ ReadLock(l) \/ LUnlink(l) \/ Spawn(l) \/ Ready(l) \/ GiveUp(l)
    \/ Register(l) \/ Connect(l) \/ Heartbeat(l) \/ Reconnect(l)
Serving(s) ==
    \/ PortCheck(s) \/ FirstCreate(s) \/ SecondCreate(s) \/ WritePid(s) \/ Judge(s)
    \/ SUnlink(s) \/ Boot(s) \/ Bind(s) \/ IdleOut(s) \/ Release(s) \/ Exit(s)

Next ==
    \/ \E l \in Launchers : Start(l) \/ Launching(l) \/ Leave(l)
    \/ \E s \in Servers : Serving(s) \/ Dispatch(s) \/ Stop(s) \/ Crash(s)

Spec == Init /\ [][Next]_vars

\* Processes run on; users start and leave as they like.
FairSpec ==
    /\ Spec
    /\ \A l \in Launchers : WF_vars(Launching(l))
    /\ \A s \in Servers : WF_vars(Serving(s)) /\ WF_vars(Dispatch(s))

-----------------------------------------------------------------------------
(* Properties *)

TypeOK ==
    /\ lpc \in [Launchers -> {"idle", "check", "lock", "unlink", "spawn", "wait",
                              "register", "connect", "bridge", "done", "gone"}]
    /\ spc \in [Servers -> {"off", "check", "create", "write", "judge", "unlink", "again",
                            "boot", "bind", "listen", "drain", "exit"}]
    /\ lock \in [by : Servers \union {Nobody}, ok : BOOLEAN]
    /\ regs \in [Servers -> SUBSET Launchers]
    /\ bridge \in [Launchers -> Servers \union {Nobody}]
    /\ disp \in [Servers -> {"none", "starting", "running", "refused"}]
    /\ dlock \in {Nobody} \union {s \in Servers : Running(s)}

\* A launcher that starts, or that loses its server, is bridged again unless its
\* user leaves: however many of them find the same stale lock, remove each
\* other's, or start servers that race for the port.
EveryLauncherServed ==
    \A l \in Launchers : lpc[l] = "check" ~> lpc[l] \in {"bridge", "done"}

\* Once the launchers are gone so are the servers, those that lost a race included.
NoServerLeftOver ==
    <>[](\A l \in Launchers : lpc[l] \in {"idle", "done", "gone"})
        => <>[](\A s \in Servers : ~Running(s))

\* The lock file keeps a second server from starting.
OneServer ==
    Cardinality({s \in Servers : spc[s] \in {"boot", "bind", "listen"}}) <= 1

\* A dispatcher ends only with its server, or because another one is at work.
DispatcherRuns ==
    \A s \in Servers : Listening(s) /\ disp[s] = "refused" => dlock # Nobody
=============================================================================
