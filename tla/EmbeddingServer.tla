----------------------------- MODULE EmbeddingServer -----------------------------
(***************************************************************************)
(* The embedding server (infra/embedding_server.py), which the processes   *)
(* that need it start and share, and its client (embedding_service.py):    *)
(* the tool threads of each process, with _init_lock held while a server   *)
(* is waited for. _spawn_lock is only ever taken under _init_lock.         *)
(*                                                                         *)
(* Time is left open: a wait may end in its timeout at any moment, a       *)
(* cooldown may end, a server may reach its TTL.                           *)
(***************************************************************************)
EXTENDS Integers

CONSTANTS Threads, Of,   \* the tool threads, and their process: [Threads -> ...]
          Servers,       \* the server processes that may come to be
          MaxCalls       \* bound: the encode calls of a thread

ASSUME EmbeddingServerAssumption == MaxCalls \in Nat /\ "nobody" \notin Servers \union Threads

Procs == {Of[t] : t \in Threads}

VARIABLES
    server,   \* [Servers -> "none", "starting", "loading", "serving", "draining", "gone"]
    port,     \* who has bound it
    child,    \* the server that each thread started and waits for
    lock,     \* _init_lock of each process
    ready,    \* _server_initialized
    cooling,  \* a spawn failed less than _SPAWN_RETRY_COOLDOWN_SEC ago
    filling,  \* the backfill thread: "none", "checks", "encodes", "done"
    pc, calls \* of each thread

embedVars == <<server, port, child, lock, ready, cooling, filling, pc, calls>>

Nobody == "nobody"

EmbedInit ==
    /\ server = [k \in Servers |-> "none"] /\ port = Nobody
    /\ child = [t \in Threads |-> Nobody]
    /\ lock = [p \in Procs |-> Nobody] /\ ready = [p \in Procs |-> FALSE]
    /\ cooling = [p \in Procs |-> FALSE] /\ filling = [p \in Procs |-> "none"]
    /\ pc = [t \in Threads |-> "idle"] /\ calls = [t \in Threads |-> 0]

\* /health is answered once serve_forever runs, in draining too.
Healthy == port # Nobody /\ server[port] \in {"serving", "draining"}

At(t, from, to) == pc[t] = from /\ pc' = [pc EXCEPT ![t] = to]
Release(t) == lock' = [lock EXCEPT ![Of[t]] = Nobody]

--------------------------------------------------------------------------------
Encode(t) ==
    /\ At(t, "idle", "enter") /\ calls[t] < MaxCalls
    /\ calls' = [calls EXCEPT ![t] = @ + 1]
    /\ UNCHANGED <<server, port, child, lock, ready, cooling, filling>>

Enter_Unlocked(t) ==
    /\ pc[t] = "enter"
    /\ IF ready[Of[t]] THEN pc' = [pc EXCEPT ![t] = "request"] ELSE pc' = [pc EXCEPT ![t] = "ensure"]
    /\ UNCHANGED <<server, port, child, lock, ready, cooling, filling, calls>>

Enter(t) ==
    /\ pc[t] = "enter" /\ lock[Of[t]] = Nobody
    /\ IF ready[Of[t]] THEN pc' = [pc EXCEPT ![t] = "request"] /\ UNCHANGED lock
       ELSE pc' = [pc EXCEPT ![t] = "ensure"] /\ lock' = [lock EXCEPT ![Of[t]] = t]
    /\ UNCHANGED <<server, port, child, ready, cooling, filling, calls>>

\* The server is there: the flag is set, the backfill started the first time.
Found(t, from) ==
    /\ At(t, from, "request") /\ Release(t)
    /\ ready' = [ready EXCEPT ![Of[t]] = TRUE]
    /\ filling' = [filling EXCEPT ![Of[t]] = IF @ = "none" THEN "checks" ELSE @]
    /\ child' = [child EXCEPT ![t] = Nobody]
    /\ UNCHANGED calls

Fail_Held(t, from) ==
    /\ At(t, from, "idle")
    /\ child' = [child EXCEPT ![t] = Nobody]
    /\ UNCHANGED <<lock, ready, filling, calls>>

Fail(t, from) ==
    /\ At(t, from, "idle") /\ Release(t)
    /\ child' = [child EXCEPT ![t] = Nobody]
    /\ UNCHANGED <<ready, filling, calls>>

Ensure(t) ==
    /\ pc[t] = "ensure"
    /\ \/ Healthy /\ Found(t, "ensure") /\ UNCHANGED <<server, cooling>>
       \/ ~Healthy /\ cooling[Of[t]] /\ Fail(t, "ensure") /\ UNCHANGED <<server, cooling>>
       \/ /\ ~Healthy /\ ~cooling[Of[t]]  \* Popen fails
          /\ Fail(t, "ensure") /\ cooling' = [cooling EXCEPT ![Of[t]] = TRUE] /\ UNCHANGED server
       \/ /\ ~Healthy /\ ~cooling[Of[t]]
          /\ \E k \in Servers :
                /\ server[k] = "none"
                /\ server' = [server EXCEPT ![k] = "starting"]
                /\ child' = [child EXCEPT ![t] = k]
          /\ At(t, "ensure", "wait")
          /\ UNCHANGED <<lock, ready, cooling, filling, calls>>
    /\ UNCHANGED port

\* The loop of 30 seconds: an answer to /health, from whichever server; the child
\* dead; or the end of the time, when the child is terminated if no port is bound.
WaitFound(t) ==
    /\ pc[t] = "wait" /\ Healthy
    /\ Found(t, "wait")
    /\ cooling' = [cooling EXCEPT ![Of[t]] = FALSE]
    /\ UNCHANGED <<server, port>>

WaitDead(t) ==
    /\ pc[t] = "wait" /\ ~Healthy /\ server[child[t]] = "gone"
    /\ Fail(t, "wait")
    /\ cooling' = [cooling EXCEPT ![Of[t]] = TRUE]
    /\ UNCHANGED <<server, port>>

\* The look at the port and the kill are apart: a child that binds in between is
\* killed with the port in its hands.
WaitLong_Unseen(t) ==
    /\ At(t, "wait", "kill")
    /\ UNCHANGED <<server, port, child, lock, ready, cooling, filling, calls>>

WaitLong(t) ==
    /\ pc[t] = "wait"
    /\ \/ port # Nobody /\ Fail(t, "wait") /\ cooling' = [cooling EXCEPT ![Of[t]] = TRUE]
       \/ port = Nobody /\ At(t, "wait", "kill")
          /\ UNCHANGED <<child, lock, ready, cooling, filling, calls>>
    /\ UNCHANGED <<server, port>>

Kill(t) ==
    /\ pc[t] = "kill"
    /\ Fail(t, "kill")
    /\ cooling' = [cooling EXCEPT ![Of[t]] = TRUE]
    /\ server' = [server EXCEPT ![child[t]] = "gone"]
    /\ port' = IF port = child[t] THEN Nobody ELSE port

\* _encode_batch: an answer, or none within 60 seconds, or an error. The flag is
\* reset without the lock.
Request(t) ==
    /\ pc[t] = "request"
    /\ \/ Healthy /\ At(t, "request", "idle") /\ UNCHANGED ready
       \/ At(t, "request", "idle") /\ ready' = [ready EXCEPT ![Of[t]] = FALSE]
    /\ UNCHANGED <<server, port, child, lock, cooling, filling, calls>>

\* _run_backfill: chunk after chunk until one fails; done either way.
Backfill(p) ==
    /\ \/ filling[p] = "checks" /\ filling' = [filling EXCEPT ![p] = IF Healthy THEN "encodes" ELSE "done"]
          /\ UNCHANGED ready
       \/ filling[p] = "encodes" /\ Healthy /\ UNCHANGED <<filling, ready>>
       \/ filling[p] = "encodes" /\ filling' = [filling EXCEPT ![p] = "done"]
          /\ ready' \in {ready, [ready EXCEPT ![p] = FALSE]}
    /\ UNCHANGED <<server, port, child, lock, cooling, pc, calls>>

Cool(p) ==
    /\ cooling[p] /\ cooling' = [cooling EXCEPT ![p] = FALSE]
    /\ UNCHANGED <<server, port, child, lock, ready, filling, pc, calls>>

--------------------------------------------------------------------------------
\* main: bind first, so that of several that were started all but one go before
\* they load the model. The load may fail.
Bind_LoadFirst(k) ==
    /\ server[k] = "starting"
    /\ server' = [server EXCEPT ![k] = "loading"]
    /\ port' = IF port = Nobody THEN k ELSE port
Bind(k) ==
    /\ server[k] = "starting"
    /\ IF port = Nobody THEN port' = k /\ server' = [server EXCEPT ![k] = "loading"]
       ELSE server' = [server EXCEPT ![k] = "gone"] /\ UNCHANGED port
Load(k) ==
    /\ server[k] = "loading" /\ server' = [server EXCEPT ![k] = "serving"] /\ UNCHANGED port
\* The watchdog: TTL, then idle or the deadline. A crash or a failed load ends alike.
Drain(k) ==
    /\ server[k] = "serving" /\ server' = [server EXCEPT ![k] = "draining"] /\ UNCHANGED port
End(k) ==
    /\ server[k] \in {"starting", "loading", "serving", "draining"}
    /\ server' = [server EXCEPT ![k] = "gone"]
    /\ port' = IF port = k THEN Nobody ELSE port

EmbedNext ==
    \/ \E t \in Threads : \/ Encode(t) \/ Enter(t) \/ Ensure(t) \/ WaitFound(t) \/ WaitDead(t)
                          \/ WaitLong(t) \/ Kill(t) \/ Request(t)
    \/ \E p \in Procs : Backfill(p) \/ Cool(p)
    \/ \E k \in Servers : /\ Bind(k) \/ Load(k) \/ Drain(k) \/ End(k)
                          /\ UNCHANGED <<child, lock, ready, cooling, filling, pc, calls>>

EmbedSpec == EmbedInit /\ [][EmbedNext]_embedVars

\* The threads run; nothing is promised of the servers.
EmbedFairness ==
    \A t \in Threads : WF_embedVars(Enter(t) \/ Ensure(t) \/ WaitFound(t) \/ WaitDead(t)
                                    \/ WaitLong(t) \/ Kill(t) \/ Request(t))

--------------------------------------------------------------------------------
HasModel(k) == server[k] \in {"loading", "serving", "draining"}
Awaits(t) == pc[t] \in {"ensure", "wait", "kill"}

\* However many processes and threads find no server at once, one model is loaded
\* on the machine, and one thread of a process looks for a server. A server that
\* has the port goes by itself, or by the thread that started it and gave it up
\* before it had bound and loaded anything: it cannot be told from a child that
\* hangs. And a process does not start a server again right after one failed.
OneModelIsShared ==
    /\ [](\A k, l \in Servers : HasModel(k) /\ HasModel(l) => k = l)
    /\ [](\A t, u \in Threads : Of[t] = Of[u] /\ Awaits(t) /\ Awaits(u) => t = u)
    /\ [][/\ \A k \in Servers : port = k /\ port' # k =>
                End(k) \/ \E t \in Threads : pc[t] = "kill" /\ child[t] = k
          /\ \A t \in Threads : pc[t] # "kill" /\ pc'[t] = "kill" => ~HasModel(child[t])
          /\ \A t \in Threads : child[t] = Nobody /\ child'[t] # Nobody => ~cooling[Of[t]]]_embedVars

\* Whatever the server does, every call comes back, with its vectors or without:
\* waiting for a server under the lock holds nobody up for ever.
EveryCallReturns(t) == pc[t] # "idle" ~> pc[t] = "idle"

================================================================================
