------------------------------- MODULE Replay -------------------------------
(***************************************************************************)
(* The replay engine: executeReplay, run inside POST /api/replays.  It     *)
(* queues stored events again in batches, marks them replayed and counts   *)
(* its progress in a replay_requests row.                                  *)
(***************************************************************************)
EXTENDS Requests

CONSTANTS
  Replays,             \* replay requests that will be made
  BatchSize,           \* REPLAY_BATCH_SIZE
  NoEvent              \* the current event of a replay that has none

(* A table is finite, and so is what a SELECT of it returns.               *)
ASSUME ReplayAssumption ==
  /\ BatchSize \in Nat \ {0}
  /\ NoEvent \notin Events
  /\ IsFiniteSet(Events)

VARIABLES
  replayRow,           \* the replay_requests row of each request
  replayStep,          \* the step each request performs next
  replayTodo,          \* matching events it has not come to yet
  replayEvent,         \* the event it is at
  replayTargets,       \* activeDestinations of that event
  replayCount          \* its local counters

replayVars == <<replayRow, replayStep, replayTodo, replayEvent, replayTargets, replayCount>>

ReplayStep == {"new", "select", "total", "read", "enqueue", "mark", "progress",
               "complete", "done"}

RowStatus == {"absent", "pending", "processing", "completed"}

ReplayTypeOK ==
  /\ replayRow \in [Replays -> [status: RowStatus, total: Nat, processed: Nat, failed: Nat]]
  /\ replayStep \in [Replays -> ReplayStep]
  /\ replayTodo \in [Replays -> SUBSET Events]
  /\ replayEvent \in [Replays -> Events \cup {NoEvent}]
  /\ replayTargets \in [Replays -> SUBSET Destinations]
  /\ replayCount \in [Replays -> [processed: Nat, failed: Nat]]

ReplayInit ==
  /\ replayRow = [r \in Replays |->
       [status |-> "absent", total |-> 0, processed |-> 0, failed |-> 0]]
  /\ replayStep = [r \in Replays |-> "new"]
  /\ replayTodo = [r \in Replays |-> {}]
  /\ replayEvent = [r \in Replays |-> NoEvent]
  /\ replayTargets = [r \in Replays |-> {}]
  /\ replayCount = [r \in Replays |-> [processed |-> 0, failed |-> 0]]

ReplayAt(r, step) == replayStep[r] = step
ReplayGoto(r, step) == replayStep' = [replayStep EXCEPT ![r] = step]

-----------------------------------------------------------------------------
InsertRequest(r) ==
  /\ ReplayAt(r, "new")
  /\ replayRow' = [replayRow EXCEPT ![r].status = "pending"]
  /\ ReplayGoto(r, "select")
  /\ UNCHANGED <<storeVars, apiFaults, replayTodo, replayEvent, replayTargets, replayCount>>

(* The filters select any events of the tenant, whatever their status.     *)
SelectEvents(r) ==
  /\ ReplayAt(r, "select")
  /\ \E matching \in SUBSET {e \in Events : events[e] # "absent"} :
       replayTodo' = [replayTodo EXCEPT ![r] = matching]
  /\ ReplayGoto(r, "total")
  /\ UNCHANGED <<storeVars, apiFaults, replayRow, replayEvent, replayTargets, replayCount>>

SetTotal(r) ==
  /\ ReplayAt(r, "total")
  /\ replayRow' = [replayRow EXCEPT ![r].status = "processing",
                                    ![r].total = Cardinality(replayTodo[r])]
  /\ ReplayGoto(r, IF replayTodo[r] = {} THEN "complete" ELSE "read")
  /\ UNCHANGED <<storeVars, apiFaults, replayTodo, replayEvent, replayTargets, replayCount>>

(* Mutant of ReadDestinations: the payload's scope is applied.             *)
ReadRequiredDestinations(r) ==
  /\ ReplayAt(r, "read")
  /\ \E e \in replayTodo[r] :
       /\ replayEvent' = [replayEvent EXCEPT ![r] = e]
       /\ replayTodo' = [replayTodo EXCEPT ![r] = @ \ {e}]
       /\ replayTargets' = [replayTargets EXCEPT ![r] = RequiredDestinations(e)]
       /\ ReplayGoto(r, IF RequiredDestinations(e) = {} THEN "mark" ELSE "enqueue")
  /\ UNCHANGED <<storeVars, apiFaults, replayRow, replayCount>>

(* The enabled destinations of the event's source, scoped to or not.       *)
ReadDestinations(r) ==
  /\ ReplayAt(r, "read")
  /\ \E e \in replayTodo[r] :
       /\ replayEvent' = [replayEvent EXCEPT ![r] = e]
       /\ replayTodo' = [replayTodo EXCEPT ![r] = @ \ {e}]
  /\ replayTargets' = [replayTargets EXCEPT ![r] = destinations]
  /\ ReplayGoto(r, IF destinations = {} THEN "mark" ELSE "enqueue")
  /\ UNCHANGED <<storeVars, apiFaults, replayRow, replayCount>>

EnqueueReplay(r) ==
  /\ ReplayAt(r, "enqueue")
  /\ waiting' = Enqueued(waiting, {replayEvent[r]} \X replayTargets[r])
  /\ ReplayGoto(r, "mark")
  /\ UNCHANGED <<events, destinations, deliveries, delayed, failed, apiFaults,
                 replayRow, replayTodo, replayEvent, replayTargets, replayCount>>

(* Mutant of NextEvent: an incomplete last batch is not closed.            *)
NextEventFullBatches(r) ==
  LET handled == replayCount[r].processed + replayCount[r].failed + 1
  IN  /\ ReplayGoto(r, IF handled % BatchSize = 0 THEN "progress" ELSE "read")
      /\ replayEvent' = [replayEvent EXCEPT ![r] = NoEvent]
      /\ replayTargets' = [replayTargets EXCEPT ![r] = {}]

(* The next event, or the counters when the batch or the list is finished. *)
NextEvent(r) ==
  LET handled == replayCount[r].processed + replayCount[r].failed + 1
  IN  /\ ReplayGoto(r, IF replayTodo'[r] = {} \/ handled % BatchSize = 0
                       THEN "progress" ELSE "read")
      /\ replayEvent' = [replayEvent EXCEPT ![r] = NoEvent]
      /\ replayTargets' = [replayTargets EXCEPT ![r] = {}]

MarkReplayed(r) ==
  /\ ReplayAt(r, "mark")
  /\ events' = IF events[replayEvent[r]] = "absent" THEN events
               ELSE [events EXCEPT ![replayEvent[r]] = "replayed"]
  /\ replayCount' = [replayCount EXCEPT ![r].processed = @ + 1]
  /\ UNCHANGED replayTodo
  /\ NextEvent(r)
  /\ UNCHANGED <<destinations, deliveries, queueVars, apiFaults, replayRow>>

(* Mutant of FailEvent: counted as processed too.                          *)
FailEventAfterCount(r) ==
  /\ Interruption
  /\ replayStep[r] \in {"enqueue", "mark"}
  /\ replayCount' = [replayCount EXCEPT ![r].failed = @ + 1, ![r].processed = @ + 1]
  /\ UNCHANGED replayTodo
  /\ NextEvent(r)
  /\ UNCHANGED <<storeVars, replayRow>>

(* catch: reading, queueing or marking threw.                              *)
FailEvent(r) ==
  /\ Interruption
  /\ \/ /\ ReplayAt(r, "read")
        /\ \E e \in replayTodo[r] : replayTodo' = [replayTodo EXCEPT ![r] = @ \ {e}]
     \/ /\ replayStep[r] \in {"enqueue", "mark"}
        /\ UNCHANGED replayTodo
  /\ replayCount' = [replayCount EXCEPT ![r].failed = @ + 1]
  /\ NextEvent(r)
  /\ UNCHANGED <<storeVars, replayRow>>

SaveProgress(r) ==
  /\ ReplayAt(r, "progress")
  /\ replayRow' = [replayRow EXCEPT ![r].processed = replayCount[r].processed,
                                    ![r].failed = replayCount[r].failed]
  /\ ReplayGoto(r, IF replayTodo[r] = {} THEN "complete" ELSE "read")
  /\ UNCHANGED <<storeVars, apiFaults, replayTodo, replayEvent, replayTargets, replayCount>>

CompleteReplay(r) ==
  /\ ReplayAt(r, "complete")
  /\ replayRow' = [replayRow EXCEPT ![r].processed = replayCount[r].processed,
                                    ![r].failed = replayCount[r].failed,
                                    ![r].status = "completed"]
  /\ ReplayGoto(r, "done")
  /\ UNCHANGED <<storeVars, apiFaults, replayTodo, replayEvent, replayTargets, replayCount>>

(* A statement outside the try block throws, or the process dies.          *)
InterruptReplay(r) ==
  /\ replayStep[r] \notin {"new", "done"}
  /\ Interruption
  /\ ReplayGoto(r, "done")
  /\ replayTodo' = [replayTodo EXCEPT ![r] = {}]
  /\ replayEvent' = [replayEvent EXCEPT ![r] = NoEvent]
  /\ replayTargets' = [replayTargets EXCEPT ![r] = {}]
  /\ UNCHANGED <<storeVars, replayRow, replayCount>>

ReplayProceed(r) ==
  \/ SelectEvents(r)
  \/ SetTotal(r)
  \/ ReadDestinations(r)
  \/ EnqueueReplay(r)
  \/ MarkReplayed(r)
  \/ SaveProgress(r)
  \/ CompleteReplay(r)

ReplayNext ==
  \E r \in Replays :
    InsertRequest(r) \/ ReplayProceed(r) \/ FailEvent(r) \/ InterruptReplay(r)

=============================================================================
