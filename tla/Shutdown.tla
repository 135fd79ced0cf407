------------------------------ MODULE Shutdown ------------------------------
(***************************************************************************)
(* Graceful shutdown of the process that serves the API and runs the       *)
(* worker.  Each signal closes the server and then the worker; a second    *)
(* signal does so while the first is still at it.                          *)
(***************************************************************************)
EXTENDS Ingestion, DeadLetters, Replay

CONSTANT Signals       \* SIGTERM and SIGINT, if they are to come

VARIABLE shutdownStep  \* what each signal's performShutdown waits for

ShutdownTypeOK ==
  shutdownStep \in [Signals -> {"none", "server", "worker", "drained", "abandoned"}]

ShutdownInit == shutdownStep = [s \in Signals |-> "none"]

ShutdownGoto(s, step) == shutdownStep' = [shutdownStep EXCEPT ![s] = step]

ServerClosing == \E s \in Signals : shutdownStep[s] # "none"
WorkerClosing == \E s \in Signals : shutdownStep[s] \in {"worker", "drained", "abandoned"}

HandlersIdle ==
  /\ \A r \in Webhooks : webhookStep[r] \in {"new", "done"}
  /\ \A r \in Retries : retryStep[r] \in {"new", "done"}
  /\ \A r \in Replays : replayStep[r] \in {"new", "done"}

(* app.close() has been called: no request is accepted any more.           *)
NoRequestStarts ==
  /\ \A r \in Webhooks : webhookStep[r] = "new" => webhookStep'[r] = "new"
  /\ \A r \in Retries : retryStep[r] = "new" => retryStep'[r] = "new"
  /\ \A r \in Replays : replayStep[r] = "new" => replayStep'[r] = "new"
  /\ UNCHANGED destinations

(* worker.close() has been called: its slots take no further job, and      *)
(* delayed jobs, which it is the worker that promotes, stay delayed.       *)
NoJobStarts ==
  /\ \A w \in Workers : At(w, "idle") => pc'[w] = "idle"
  /\ \A j \in Job : delayed'[j] >= delayed[j]

-----------------------------------------------------------------------------
Signal(s) ==
  /\ shutdownStep[s] = "none"
  /\ ShutdownGoto(s, "server")
  /\ UNCHANGED apiFaults

(* Fastify has answered the requests in progress and run its onClose       *)
(* hooks.  It does not matter whether one of those fails.                  *)
ServerClosed(s) ==
  /\ shutdownStep[s] = "server"
  /\ HandlersIdle
  /\ ShutdownGoto(s, "worker")
  /\ UNCHANGED apiFaults

(* Mutants of WorkerClosed: the jobs in progress are not waited for, and   *)
(* those in the queue are.                                                 *)
WorkerClosedAtOnce(s) ==
  /\ shutdownStep[s] = "worker"
  /\ ShutdownGoto(s, "drained")
  /\ UNCHANGED apiFaults

WorkerClosedWhenEmpty(s) ==
  /\ shutdownStep[s] = "worker"
  /\ QueueDepth = 0
  /\ ShutdownGoto(s, "drained")
  /\ UNCHANGED apiFaults

(* BullMQ has finished the jobs in progress.                               *)
WorkerClosed(s) ==
  /\ shutdownStep[s] = "worker"
  /\ \A w \in Workers : At(w, "idle")
  /\ ShutdownGoto(s, "drained")
  /\ UNCHANGED apiFaults

(* worker.close() rejects: logged, and the shutdown goes on.               *)
WorkerCloseFails(s) ==
  /\ shutdownStep[s] = "worker"
  /\ Interruption
  /\ ShutdownGoto(s, "abandoned")

ShutdownProceed(s) == ServerClosed(s) \/ WorkerClosed(s)

ShutdownNext == \E s \in Signals : Signal(s) \/ ShutdownProceed(s) \/ WorkerCloseFails(s)

=============================================================================
