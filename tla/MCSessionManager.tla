-------------------------- MODULE MCSessionManager --------------------------
(***************************************************************************)
(* Small instances of the two parts whose processes come and go by idle    *)
(* times and deadlines, one of which a behaviour chooses in its first      *)
(* state: SessionManager, whose clients keep the main server up, and       *)
(* EmbeddingServer, whose callers start the embedding server.              *)
(***************************************************************************)
EXTENDS SessionManager, EmbeddingServer, TLC

CONSTANTS u1, u2, v1   \* threads of two processes

VARIABLE setting

ThreadsOf == (u1 :> "p") @@ (u2 :> "p") @@ (v1 :> "q")

\* Which timer is the first makes no difference.
MCInit ==
    /\ Init /\ current = CHOOSE t \in Timers : TRUE
    /\ EmbedInit
    /\ setting \in {"sessions", "embedding"}

InSessions == setting = "sessions" /\ Next /\ UNCHANGED embedVars
InEmbedding == setting = "embedding" /\ EmbedNext /\ UNCHANGED vars

MCNext == (InSessions \/ InEmbedding) /\ UNCHANGED setting

\* The fairness of SessionManager and of EmbeddingServer, each in its setting.
Sessional(A) == setting = "sessions" /\ A
Calling(t) ==
    /\ setting = "embedding"
    /\ Enter(t) \/ Ensure(t) \/ WaitFound(t) \/ WaitDead(t) \/ WaitLong(t) \/ Kill(t) \/ Request(t)

MCSpec ==
    /\ MCInit /\ [][MCNext]_<<vars, embedVars, setting>>
    /\ WF_vars(Sessional(Tick)) /\ WF_vars(Sessional(Arm)) /\ WF_vars(Sessional(Reaper))
    /\ \A t \in Timers : WF_vars(Sessional(Timer(t)))
    /\ \A t \in Threads : WF_embedVars(Calling(t))

\* A session that stays silent is evicted, and a server nobody uses stops; the
\* sessions are alike. And a call for embeddings comes back, whatever the server
\* does: that of u1, whose process has another thread that wants the lock.
NothingGoesOnForEver ==
    /\ setting = "sessions" => SilentIsEvicted(CHOOSE s \in Sessions : TRUE) /\ IdleShutsDown
    /\ EveryCallReturns(u1)
=============================================================================
