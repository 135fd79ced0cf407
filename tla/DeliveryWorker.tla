--------------------------- MODULE DeliveryWorker ---------------------------
(***************************************************************************)
(* The BullMQ delivery worker.  Each element of Workers is one slot of the *)
(* worker's concurrency: an invocation of processDeliveryJob, whose        *)
(* database, HTTP and Redis round trips are separate steps.  Slots of one  *)
(* or of several processes interleave freely, also on the same event and   *)
(* destination.                                                            *)
(***************************************************************************)
EXTENDS Store

CONSTANTS
  Workers,       \* concurrency slots of the delivery worker
  NoJob,         \* the job of an idle slot
  WorkerFaults   \* bound on worker steps that fail: exceptions and crashes

ASSUME WorkerAssumption == NoJob \notin Job /\ WorkerFaults \in Nat

VARIABLES
  pc,            \* the step each slot performs next
  job,           \* the job it holds
  attempt,       \* attemptNumber
  outcome,       \* status of the row it is going to insert
  required,      \* requiredDests
  workerFaults   \* failures that have happened, at most WorkerFaults

slotVars == <<pc, job, attempt, outcome, required>>
workerVars == <<slotVars, workerFaults>>

WorkerPc == {"idle", "load", "number", "deliver", "record", "reschedule",
             "required", "successes", "update", "complete"}

Outcome == {"none", "success", "failed", "dead_letter"}

WorkerTypeOK ==
  /\ pc \in [Workers -> WorkerPc]
  /\ job \in [Workers -> Job \cup {NoJob}]
  /\ \A w \in Workers : pc[w] = "idle" <=> job[w] = NoJob
  /\ attempt \in [Workers -> Nat]
  /\ outcome \in [Workers -> Outcome]
  /\ \A w \in Workers : pc[w] = "record" => outcome[w] # "none"
  /\ required \in [Workers -> SUBSET Destinations]
  /\ workerFaults \in 0..WorkerFaults

WorkerInit ==
  /\ pc = [w \in Workers |-> "idle"]
  /\ job = [w \in Workers |-> NoJob]
  /\ attempt = [w \in Workers |-> 0]
  /\ outcome = [w \in Workers |-> "none"]
  /\ required = [w \in Workers |-> {}]
  /\ workerFaults = 0

At(w, step) == pc[w] = step
Goto(w, step) == pc' = [pc EXCEPT ![w] = step]
EventOf(w) == job[w].event
DestinationOf(w) == job[w].destination

(* Mutant of Release: the slot is free but still holds its job.            *)
ReleaseKeepingJob(w) ==
  /\ Goto(w, "idle")
  /\ UNCHANGED <<job, attempt, outcome, required>>

(* The slot is free and its local state gone.                              *)
Release(w) ==
  /\ Goto(w, "idle")
  /\ job' = [job EXCEPT ![w] = NoJob]
  /\ attempt' = [attempt EXCEPT ![w] = 0]
  /\ outcome' = [outcome EXCEPT ![w] = "none"]
  /\ required' = [required EXCEPT ![w] = {}]

-----------------------------------------------------------------------------
(* BullMQ hands a waiting job to a free slot.                              *)
TakeJob(w) ==
  /\ At(w, "idle")
  /\ \E j \in Job :
       /\ waiting[j] > 0
       /\ waiting' = [waiting EXCEPT ![j] = @ - 1]
       /\ job' = [job EXCEPT ![w] = j]
  /\ Goto(w, "load")
  /\ UNCHANGED <<events, destinations, deliveries, delayed, failed,
                 attempt, outcome, required, workerFaults>>

(* BullMQ makes a delayed job available once its delay has elapsed.        *)
Promote(j) ==
  /\ delayed[j] > 0
  /\ delayed' = [delayed EXCEPT ![j] = @ - 1]
  /\ waiting' = [waiting EXCEPT ![j] = @ + 1]
  /\ UNCHANGED <<events, destinations, deliveries, failed, workerVars>>

(* Mutant of Load: a pair delivered before is skipped, and the check of    *)
(* its event with it.                                                      *)
LoadUnlessDelivered(w) ==
  /\ At(w, "load")
  /\ Goto(w, IF HasRow(EventOf(w), DestinationOf(w), "success") THEN "complete" ELSE "number")
  /\ UNCHANGED <<storeVars, job, attempt, outcome, required, workerFaults>>

(* loadEvent and loadDestination; the job is skipped if either row is gone. *)
Load(w) ==
  /\ At(w, "load")
  /\ Goto(w, IF ReferencesExist(EventOf(w), DestinationOf(w))
             THEN "number" ELSE "complete")
  /\ UNCHANGED <<storeVars, job, attempt, outcome, required, workerFaults>>

(* SELECT MAX(attempt) over the rows of the pair, and add one.             *)
IsNextAttempt(e, d, n) ==
  \/ Attempts(e, d) = {} /\ n = 1
  \/ \E i \in Attempts(e, d) :
       /\ \A k \in Attempts(e, d) : deliveries[k].attempt <= deliveries[i].attempt
       /\ n = deliveries[i].attempt + 1

(* Mutants of NextAttemptNumber: the number of rows instead of the largest *)
(* attempt, and a retried row whose attempts start over.                   *)
AttemptByCount(w) ==
  /\ At(w, "number")
  /\ attempt' = [attempt EXCEPT ![w] = Cardinality(Attempts(EventOf(w), DestinationOf(w))) + 1]
  /\ Goto(w, "deliver")
  /\ UNCHANGED <<storeVars, job, outcome, required, workerFaults>>

AttemptOfResetRow(w) ==
  /\ At(w, "number")
  /\ LET rows == Attempts(EventOf(w), DestinationOf(w))
     IN  attempt' = [attempt EXCEPT ![w] =
           IF \E i \in rows : deliveries[i].status = "pending" THEN 1
           ELSE Cardinality(rows) + 1]
  /\ Goto(w, "deliver")
  /\ UNCHANGED <<storeVars, job, outcome, required, workerFaults>>

NextAttemptNumber(w) ==
  /\ At(w, "number")
  /\ \E n \in {1} \cup {deliveries[i].attempt + 1 : i \in DOMAIN deliveries} :
       /\ IsNextAttempt(EventOf(w), DestinationOf(w), n)
       /\ attempt' = [attempt EXCEPT ![w] = n]
  /\ Goto(w, "deliver")
  /\ UNCHANGED <<storeVars, job, outcome, required, workerFaults>>

(* Mutants of OutcomeOf: one attempt too few, one too many.                *)
OutcomeTooEarly(ok, n, d) ==
  IF ok THEN "success"
  ELSE IF n + 1 >= MaxRetries[d] THEN "dead_letter" ELSE "failed"

OutcomeTooLate(ok, n, d) ==
  IF ok THEN "success"
  ELSE IF n > MaxRetries[d] THEN "dead_letter" ELSE "failed"

(* What a response means: a 2xx is a success; anything else, a timeout     *)
(* included, is retried below max_retries and dead-lettered from there on. *)
OutcomeOf(ok, n, d) ==
  IF ok THEN "success"
  ELSE IF n >= MaxRetries[d] THEN "dead_letter" ELSE "failed"

(* The HTTP request.  deliverWebhook never throws, but a response whose    *)
(* body does not end keeps it, and the slot, for ever.                     *)
Deliver(w) ==
  /\ At(w, "deliver")
  /\ \E ok \in BOOLEAN :
       outcome' = [outcome EXCEPT ![w] = OutcomeOf(ok, attempt[w], DestinationOf(w))]
  /\ Goto(w, "record")
  /\ UNCHANGED <<storeVars, job, attempt, required, workerFaults>>

(* Mutants of AfterRecord: the retry, or the event's status, is forgotten, *)
(* and a dead letter is retried.                                           *)
AfterRecordRetryAlways(status) == IF status = "success" THEN "required" ELSE "reschedule"
AfterRecordNoRetry(status) == IF status = "success" THEN "required" ELSE "complete"
AfterRecordNoStatus(status) == IF status = "failed" THEN "reschedule" ELSE "complete"

(* What remains to be done once the row is inserted.                       *)
AfterRecord(status) ==
  IF status = "failed" THEN "reschedule"
  ELSE IF status = "success" THEN "required" ELSE "complete"

(* INSERT INTO deliveries.                                                 *)
Record(w) ==
  /\ At(w, "record")
  /\ ReferencesExist(EventOf(w), DestinationOf(w))
  /\ deliveries' = Append(deliveries,
       [event |-> EventOf(w), destination |-> DestinationOf(w),
        attempt |-> attempt[w], status |-> outcome[w]])
  /\ Goto(w, AfterRecord(outcome[w]))
  /\ UNCHANGED <<events, destinations, queueVars, job, attempt, outcome, required,
                 workerFaults>>

(* A retry is a new job, delayed by the backoff.                           *)
Reschedule(w) ==
  /\ At(w, "reschedule")
  /\ delayed' = Enqueued(delayed, {<<EventOf(w), DestinationOf(w)>>})
  /\ Goto(w, "complete")
  /\ UNCHANGED <<events, destinations, deliveries, waiting, failed,
                 job, attempt, outcome, required, workerFaults>>

(* Mutant of ReadRequired: the scope of the payload is ignored.            *)
ReadUnscoped(w) ==
  /\ At(w, "required")
  /\ required' = [required EXCEPT ![w] = destinations]
  /\ Goto(w, IF destinations = {} THEN "complete" ELSE "successes")
  /\ UNCHANGED <<storeVars, job, attempt, outcome, workerFaults>>

(* updateEventStatusIfAllDelivered: three statements, no transaction.      *)
ReadRequired(w) ==
  /\ At(w, "required")
  /\ required' = [required EXCEPT ![w] = RequiredDestinations(EventOf(w))]
  /\ Goto(w, IF RequiredDestinations(EventOf(w)) = {} THEN "complete" ELSE "successes")
  /\ UNCHANGED <<storeVars, job, attempt, outcome, workerFaults>>

(* Mutant of ReadSuccesses: one success is taken for all.                  *)
ReadAnySuccess(w) ==
  /\ At(w, "successes")
  /\ Goto(w, "update")
  /\ UNCHANGED <<storeVars, job, attempt, outcome, required, workerFaults>>

ReadSuccesses(w) ==
  /\ At(w, "successes")
  /\ Goto(w, IF required[w] \subseteq SuccessfulDestinations(EventOf(w))
             THEN "update" ELSE "complete")
  /\ UNCHANGED <<storeVars, job, attempt, outcome, required, workerFaults>>

UpdateEvent(w) ==
  /\ At(w, "update")
  /\ events' = IF events[EventOf(w)] = "absent" THEN events
               ELSE [events EXCEPT ![EventOf(w)] = "delivered"]
  /\ Goto(w, "complete")
  /\ UNCHANGED <<destinations, deliveries, queueVars,
                 job, attempt, outcome, required, workerFaults>>

(* The invocation has returned and BullMQ removes the job.                 *)
Complete(w) ==
  /\ At(w, "complete")
  /\ Release(w)
  /\ UNCHANGED <<storeVars, workerFaults>>

-----------------------------------------------------------------------------
(* A job whose invocation throws goes to the failed set: jobs are added    *)
(* with BullMQ's default of a single attempt.                              *)
FailJob(w) ==
  /\ failed' = [failed EXCEPT ![job[w]] = @ + 1]
  /\ Release(w)

(* The insert violates a foreign key: a referenced row is gone.            *)
RecordRefused(w) ==
  /\ At(w, "record")
  /\ ~ReferencesExist(EventOf(w), DestinationOf(w))
  /\ FailJob(w)
  /\ UNCHANGED <<events, destinations, deliveries, waiting, delayed, workerFaults>>

Fault ==
  /\ workerFaults < WorkerFaults
  /\ workerFaults' = workerFaults + 1

(* A database statement, queue.add, queue.close or sql.end throws.  When it *)
(* throws after it has taken effect, the slot is at its next step already.  *)
Throw(w) ==
  /\ pc[w] \notin {"idle", "deliver"}
  /\ Fault
  /\ FailJob(w)
  /\ UNCHANGED <<events, destinations, deliveries, waiting, delayed>>

(* The process dies while the slot is active.  BullMQ finds the lock       *)
(* expired and moves the job back to the waiting jobs, or to the failed    *)
(* ones if it has stalled before.                                          *)
Stall(w) ==
  /\ ~At(w, "idle")
  /\ Fault
  /\ \/ /\ job[w].stalled
        /\ FailJob(w)
        /\ UNCHANGED waiting
     \/ /\ ~job[w].stalled
        /\ waiting' = [waiting EXCEPT ![StalledJob(job[w])] = @ + 1]
        /\ Release(w)
        /\ UNCHANGED failed
  /\ UNCHANGED <<events, destinations, deliveries, delayed>>

-----------------------------------------------------------------------------
(* A step of processDeliveryJob that needs nothing but the slot to run.    *)
Proceed(w) ==
  \/ Load(w)
  \/ NextAttemptNumber(w)
  \/ Deliver(w)
  \/ At(w, "record") /\ (Record(w) \/ RecordRefused(w))
  \/ Reschedule(w)
  \/ ReadRequired(w)
  \/ ReadSuccesses(w)
  \/ UpdateEvent(w)
  \/ Complete(w)

WorkerNext ==
  \/ \E w \in Workers : TakeJob(w) \/ Proceed(w) \/ Throw(w) \/ Stall(w)
  \/ \E j \in Job : Promote(j)

-----------------------------------------------------------------------------
(* The worker by itself, from the moment an ingestion burst has been       *)
(* stored and queued: every event is pending, with one job for each        *)
(* destination it is scoped to, and the destinations do not change.        *)
vars == <<storeVars, workerVars>>

Init ==
  /\ events = [e \in Events |-> "pending"]
  /\ destinations = Destinations
  /\ deliveries = << >>
  /\ waiting = Enqueued(NoJobs, {p \in Events \X Destinations : p[2] \in Matched[p[1]]})
  /\ delayed = NoJobs
  /\ failed = NoJobs
  /\ WorkerInit

Next == WorkerNext

(* A slot that runs goes on running, but for an HTTP request, which no     *)
(* timer ends; BullMQ promotes delayed jobs, and a free slot takes a       *)
(* waiting job.                                                            *)
Fairness ==
  /\ \A w \in Workers : WF_vars(~At(w, "deliver") /\ Proceed(w)) /\ WF_vars(TakeJob(w))
  /\ \A j \in Job : WF_vars(Promote(j))

Spec == Init /\ [][Next]_vars
FairSpec == Spec /\ Fairness

TypeOK == StoreTypeOK /\ WorkerTypeOK

-----------------------------------------------------------------------------
Queued(queue, e, d) ==
  \E j \in Job : j.event = e /\ j.destination = d /\ queue[j] > 0

(* A slot that is working on the pair and has not settled it.              *)
InAttempt(w, e, d) ==
  /\ pc[w] \in {"load", "number", "deliver", "record", "reschedule"}
  /\ EventOf(w) = e /\ DestinationOf(w) = d

Delivering(e, d) == \E w \in Workers : InAttempt(w, e, d)

Settled(e, d) == HasRow(e, d, "success") \/ HasRow(e, d, "dead_letter")

InFlight(e, d) ==
  Queued(waiting, e, d) \/ Queued(delayed, e, d) \/ Delivering(e, d)

(* Whatever fails or crashes, an event queued for a destination is         *)
(* delivered or dead-lettered, or a job for it is still queued, running or *)
(* kept in the failed set where an operator finds it.  A retry recorded    *)
(* and then not queued, or a job completed too early, would break this.    *)
NoDeliveryLost ==
  \A e \in Events : \A d \in Matched[e] :
    Settled(e, d) \/ InFlight(e, d) \/ Queued(failed, e, d)

(* A pair is dead-lettered only after every attempt number below           *)
(* max_retries has been recorded, even when two retry chains run at once   *)
(* on the same pair and read MAX(attempt) between each other's inserts.    *)
NeverGivesUpEarly ==
  \A i \in DOMAIN deliveries : deliveries[i].status = "dead_letter" =>
    /\ deliveries[i].attempt >= MaxRetries[deliveries[i].destination]
    /\ \A n \in 1..(deliveries[i].attempt - 1) :
         \E k \in Attempts(deliveries[i].event, deliveries[i].destination) :
           deliveries[k].attempt = n

(* Only a fault makes a pair be attempted more than max_retries times, and *)
(* each fault costs at most one more chain of attempts.                    *)
AttemptsBounded ==
  \A e \in Events, d \in Destinations :
    LET perChain == IF MaxRetries[d] = 0 THEN 1 ELSE MaxRetries[d]
    IN  Cardinality(Attempts(e, d)) <= (workerFaults + 1) * perChain

(* Without faults a pair has one chain of attempts at a time: one job, or  *)
(* one slot that may queue its successor, and none of them once the pair   *)
(* is delivered or dead-lettered.  A retry queued after the dead letter,   *)
(* or before its own attempt is over, would break this.                    *)
OneChainUnlessFaults ==
  workerFaults = 0 => \A e \in Events, d \in Destinations :
    /\ \A w, v \in Workers : InAttempt(w, e, d) /\ InAttempt(v, e, d) => w = v
    /\ \A j \in Job : j.event = e /\ j.destination = d =>
         waiting[j] + delayed[j] <= (IF j.stalled \/ Delivering(e, d) THEN 0 ELSE 1)
    /\ Settled(e, d) => ~InFlight(e, d)

AllDelivered(e) == Matched[e] # {} /\ Matched[e] \subseteq SuccessfulDestinations(e)

(* An event is marked delivered only when every destination it is scoped   *)
(* to has a successful delivery, though the destinations and the rows are  *)
(* read in two statements and the mark is a third.                         *)
DeliveredMeansAll == \A e \in Events : events[e] = "delivered" => AllDelivered(e)

Aggregating(e) ==
  \E w \in Workers :
    pc[w] \in {"required", "successes", "update"} /\ EventOf(w) = e

(* A pair dead-lettered after a success: a second chain of attempts, which *)
(* only a job that is run again begins, has not succeeded.                 *)
GivenUpAfterSuccess(e) ==
  \E i, k \in DOMAIN deliveries :
    /\ i < k
    /\ deliveries[i].event = e /\ deliveries[i].status = "success"
    /\ deliveries[k].event = e /\ deliveries[k].status = "dead_letter"
    /\ deliveries[k].destination = deliveries[i].destination

(* The slots that record the successes of an event check each other's rows *)
(* without a lock, yet the last one sees them all: an event whose          *)
(* destinations have all succeeded is delivered, or a slot is about to     *)
(* find out, or a job of the event is queued, running or failed.  After a  *)
(* crash between the insert and the check it is the job run again that     *)
(* checks, and only its dead letter can leave the event pending.           *)
LastRecorderAggregates ==
  \A e \in Events : AllDelivered(e) /\ ~GivenUpAfterSuccess(e) =>
    \/ events[e] = "delivered"
    \/ Aggregating(e)
    \/ \E d \in Destinations : InFlight(e, d) \/ Queued(failed, e, d)

(* The request to the destination is in progress, or those of all slots.   *)
HeldByResponse(e, d) ==
  \/ \E w \in Workers : At(w, "deliver") /\ EventOf(w) = e /\ DestinationOf(w) = d
  \/ \A w \in Workers : At(w, "deliver")

(* Every queued pair ends delivered, dead-lettered or in the failed set,   *)
(* unless a response without end holds its slot or, one each, every slot.  *)
EveryDeliverySettles ==
  \A e \in Events : \A d \in Matched[e] :
    <>(Settled(e, d) \/ Queued(failed, e, d)) \/ <>[]HeldByResponse(e, d)

(* An event whose destinations all succeed is eventually marked delivered, *)
(* though an invocation be cut short before the check: unless a job is in  *)
(* the failed set, or the job run again dead-letters what was delivered,   *)
(* or a response without end holds it.                                     *)
EventsClose ==
  \A e \in Events :
    \/ AllDelivered(e) ~>
         \/ events[e] = "delivered"
         \/ GivenUpAfterSuccess(e)
         \/ \E d \in Destinations : Queued(failed, e, d)
    \/ <>[](\E d \in Destinations : HeldByResponse(e, d))

(* What the rows and statuses say in the terms of ReliableDelivery.        *)
Tried == {<<deliveries[i].event, deliveries[i].destination, deliveries[i].attempt>> :
            i \in DOMAIN deliveries}
DeliveredPairs == {p \in Events \X Destinations : HasRow(p[1], p[2], "success")}
AbandonedPairs == {p \in Events \X Destinations : HasRow(p[1], p[2], "dead_letter")}
ClosedEvents   == {e \in Events : events[e] = "delivered"}

Promise == INSTANCE ReliableDelivery WITH
  tried <- Tried, delivered <- DeliveredPairs,
  abandoned <- AbandonedPairs, closed <- ClosedEvents

(* Every step of the worker is an attempt, or closes an event, as          *)
(* ReliableDelivery allows, or changes nothing it speaks of.               *)
KeepsPromise == Promise!Spec

=============================================================================
