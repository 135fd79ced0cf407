---------------------------- MODULE DeadLetters ----------------------------
(***************************************************************************)
(* Retrying dead-lettered deliveries through the API, one at a time or in  *)
(* bulk, and the sweep job.  A retry selects rows, resets them and queues  *)
(* their jobs in three round trips with no transaction around them.        *)
(***************************************************************************)
EXTENDS Requests

CONSTANT Retries       \* retry requests, single or bulk, that will be made

VARIABLES
  retryStep,           \* the step each request performs next
  retryRows            \* the rows it has selected, by position

retryVars == <<retryStep, retryRows>>

DeadLettersTypeOK ==
  /\ retryStep \in [Retries -> {"new", "reset", "enqueue", "done"}]
  /\ retryRows \in [Retries -> SUBSET DOMAIN deliveries]

DeadLettersInit ==
  /\ retryStep = [r \in Retries |-> "new"]
  /\ retryRows = [r \in Retries |-> {}]

RowsWith(status) == {i \in DOMAIN deliveries : deliveries[i].status = status}

(* Mutant of SelectDeadLetters: the WHERE clause on the status is missing. *)
SelectAnyRow(r) ==
  /\ retryStep[r] = "new"
  /\ \E rows \in SUBSET DOMAIN deliveries :
       /\ rows # {}
       /\ retryRows' = [retryRows EXCEPT ![r] = rows]
  /\ retryStep' = [retryStep EXCEPT ![r] = "reset"]
  /\ UNCHANGED <<storeVars, apiFaults>>

(* SELECT ... WHERE status = 'dead_letter', by id or by any filter on the  *)
(* destination, its source and the time of the attempt.  A request that    *)
(* finds no row is answered without any effect.                            *)
SelectDeadLetters(r) ==
  /\ retryStep[r] = "new"
  /\ \E rows \in SUBSET RowsWith("dead_letter") :
       /\ rows # {}
       /\ retryRows' = [retryRows EXCEPT ![r] = rows]
  /\ retryStep' = [retryStep EXCEPT ![r] = "reset"]
  /\ UNCHANGED <<storeVars, apiFaults>>

(* UPDATE ... WHERE id IN (the selected rows), whatever they hold by now.  *)
ResetDeadLetters(r) ==
  /\ retryStep[r] = "reset"
  /\ deliveries' = [i \in DOMAIN deliveries |->
       IF i \in retryRows[r]
       THEN [deliveries[i] EXCEPT !.status = "pending", !.attempt = 1]
       ELSE deliveries[i]]
  /\ retryStep' = [retryStep EXCEPT ![r] = "enqueue"]
  /\ UNCHANGED <<events, destinations, queueVars, retryRows, apiFaults>>

(* Mutant of EnqueueRetries: a bulk retry queues only one of its rows.     *)
EnqueueOneRetry(r) ==
  /\ retryStep[r] = "enqueue"
  /\ \E i \in retryRows[r] :
       waiting' = Enqueued(waiting, {<<deliveries[i].event, deliveries[i].destination>>})
  /\ retryStep' = [retryStep EXCEPT ![r] = "done"]
  /\ retryRows' = [retryRows EXCEPT ![r] = {}]
  /\ UNCHANGED <<events, destinations, deliveries, delayed, failed, apiFaults>>

(* queue.add, or queue.addBulk with one job for each row.                  *)
EnqueueRetries(r) ==
  /\ retryStep[r] = "enqueue"
  /\ waiting' = [j \in Job |->
       IF j.stalled THEN waiting[j]
       ELSE waiting[j] + Cardinality(retryRows[r] \cap Attempts(j.event, j.destination))]
  /\ retryStep' = [retryStep EXCEPT ![r] = "done"]
  /\ retryRows' = [retryRows EXCEPT ![r] = {}]
  /\ UNCHANGED <<events, destinations, deliveries, delayed, failed, apiFaults>>

InterruptRetry(r) ==
  /\ retryStep[r] \in {"reset", "enqueue"}
  /\ Interruption
  /\ retryStep' = [retryStep EXCEPT ![r] = "done"]
  /\ retryRows' = [retryRows EXCEPT ![r] = {}]
  /\ UNCHANGED storeVars

(* runDeadLetterSweep: one UPDATE.                                         *)
Sweepable == {i \in RowsWith("failed") :
                deliveries[i].attempt >= MaxRetries[deliveries[i].destination]}

Sweep ==
  /\ deliveries' = [i \in DOMAIN deliveries |->
       IF i \in Sweepable THEN [deliveries[i] EXCEPT !.status = "dead_letter"]
       ELSE deliveries[i]]
  /\ UNCHANGED <<events, destinations, queueVars, retryVars, apiFaults>>

DeadLettersNext ==
  \/ \E r \in Retries :
       \/ SelectDeadLetters(r)
       \/ ResetDeadLetters(r)
       \/ EnqueueRetries(r)
       \/ InterruptRetry(r)
  \/ Sweep

=============================================================================
