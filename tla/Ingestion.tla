----------------------------- MODULE Ingestion -----------------------------
(***************************************************************************)
(* POST /webhooks/:sourceSlug.  A request carries one event; two requests  *)
(* carry the same event when they share an idempotency key, as a sender's  *)
(* retry does.  The event is inserted first and its jobs are queued after, *)
(* and nothing but the idempotency key ties the requests together.         *)
(***************************************************************************)
EXTENDS DeliveryWorker, Requests, Signature, FiniteSetsExt

CONSTANTS
  Webhooks,            \* requests the senders make
  MaxQueueDepth        \* BACKPRESSURE_MAX_QUEUE_DEPTH

ASSUME IngestionAssumption == MaxQueueDepth \in Nat

VARIABLES
  webhookStep,         \* the step each request performs next
  webhookEvent,        \* the event it carries, any before it arrives
  webhookTargets,      \* deliveryDestinations still to be queued
  answer               \* what the sender has been told

webhookVars == <<webhookStep, webhookEvent, webhookTargets, answer>>

Answer == {"none", "accepted", "duplicate", "unauthorized", "overloaded", "error"}

IngestionTypeOK ==
  /\ webhookStep \in [Webhooks -> {"new", "verify", "reject", "persist", "select",
                                   "enqueue", "done"}]
  /\ webhookEvent \in [Webhooks -> Events]
  /\ webhookTargets \in [Webhooks -> SUBSET Destinations]
  /\ answer \in [Webhooks -> Answer]

IngestionInit ==
  /\ webhookStep = [r \in Webhooks |-> "new"]
  /\ webhookEvent \in [Webhooks -> Events]
  /\ webhookTargets = [r \in Webhooks |-> {}]
  /\ answer = [r \in Webhooks |-> "none"]

WebhookAt(r, step) == webhookStep[r] = step
WebhookGoto(r, step) == webhookStep' = [webhookStep EXCEPT ![r] = step]

(* The request ends with a reply.                                          *)
Reply(r, status) ==
  /\ WebhookGoto(r, "done")
  /\ answer' = [answer EXCEPT ![r] = status]
  /\ webhookTargets' = [webhookTargets EXCEPT ![r] = {}]
  /\ UNCHANGED webhookEvent

-----------------------------------------------------------------------------
(* getJobCounts("waiting", "active"); delayed jobs are not counted.        *)
QueueDepth ==
  MapThenSumSet(LAMBDA j : waiting[j], Job) + Cardinality({w \in Workers : ~At(w, "idle")})

(* Step 3b.                                                                *)
CheckDepth(r) ==
  /\ WebhookAt(r, "new")
  /\ \/ /\ QueueDepth > MaxQueueDepth
        /\ Reply(r, "overloaded")
     \/ /\ QueueDepth <= MaxQueueDepth
        /\ WebhookGoto(r, "verify")
        /\ UNCHANGED <<webhookEvent, webhookTargets, answer>>
  /\ UNCHANGED <<storeVars, workerVars, apiFaults>>

(* The same body may arrive with a good and with a bad signature, soon or  *)
(* late; one unit is the tolerance here.                                   *)
Verdicts == {VerifySignature(header, age, 1) : header \in SignatureHeaders, age \in 0..2}

Verify(r) ==
  /\ WebhookAt(r, "verify")
  /\ \E valid \in Verdicts : WebhookGoto(r, IF valid THEN "persist" ELSE "reject")
  /\ UNCHANGED <<storeVars, workerVars, apiFaults, webhookEvent, webhookTargets, answer>>

(* Mutant of PersistRejected: the handler goes on after the insert.        *)
PersistRejectedAndGoOn(r) ==
  /\ WebhookAt(r, "reject")
  /\ events[webhookEvent[r]] = "absent"
  /\ events' = [events EXCEPT ![webhookEvent[r]] = "rejected"]
  /\ WebhookGoto(r, "select")
  /\ UNCHANGED <<destinations, deliveries, queueVars, workerVars, apiFaults,
                 webhookEvent, webhookTargets, answer>>

(* A rejected event is inserted without ON CONFLICT.                       *)
PersistRejected(r) ==
  /\ WebhookAt(r, "reject")
  /\ \/ /\ events[webhookEvent[r]] = "absent"
        /\ events' = [events EXCEPT ![webhookEvent[r]] = "rejected"]
        /\ Reply(r, "unauthorized")
     \/ /\ events[webhookEvent[r]] # "absent"
        /\ Reply(r, "error")
        /\ UNCHANGED events
  /\ UNCHANGED <<destinations, deliveries, queueVars, workerVars, apiFaults>>

(* Mutants of Persist: an upsert in place of DO NOTHING, and the depth     *)
(* checked only after the insert.                                          *)
PersistUpsert(r) ==
  /\ WebhookAt(r, "persist")
  /\ events' = [events EXCEPT ![webhookEvent[r]] = "pending"]
  /\ WebhookGoto(r, "select")
  /\ UNCHANGED <<destinations, deliveries, queueVars, workerVars, apiFaults,
                 webhookEvent, webhookTargets, answer>>

PersistThenCheckDepth(r) ==
  /\ WebhookAt(r, "persist")
  /\ events[webhookEvent[r]] = "absent"
  /\ events' = [events EXCEPT ![webhookEvent[r]] = "pending"]
  /\ \/ QueueDepth > MaxQueueDepth /\ Reply(r, "overloaded")
     \/ /\ QueueDepth <= MaxQueueDepth
        /\ WebhookGoto(r, "select")
        /\ UNCHANGED <<webhookEvent, webhookTargets, answer>>
  /\ UNCHANGED <<destinations, deliveries, queueVars, workerVars, apiFaults>>

(* Step 6: INSERT ... ON CONFLICT DO NOTHING.                              *)
Persist(r) ==
  /\ WebhookAt(r, "persist")
  /\ \/ /\ events[webhookEvent[r]] = "absent"
        /\ events' = [events EXCEPT ![webhookEvent[r]] = "pending"]
        /\ WebhookGoto(r, "select")
        /\ UNCHANGED <<webhookEvent, webhookTargets, answer>>
     \/ /\ events[webhookEvent[r]] # "absent"
        /\ Reply(r, "duplicate")
        /\ UNCHANGED events
  /\ UNCHANGED <<destinations, deliveries, queueVars, workerVars, apiFaults>>

(* Step 7.                                                                 *)
SelectTargets(r) ==
  /\ WebhookAt(r, "select")
  /\ LET targets == RequiredDestinations(webhookEvent[r])
     IN  \/ targets = {} /\ Reply(r, "accepted")
         \/ /\ targets # {}
            /\ webhookTargets' = [webhookTargets EXCEPT ![r] = targets]
            /\ WebhookGoto(r, "enqueue")
            /\ UNCHANGED <<webhookEvent, answer>>
  /\ UNCHANGED <<storeVars, workerVars, apiFaults>>

(* Mutant of AddJob: the reply is sent after the first of the jobs.        *)
AddOneJob(r) ==
  /\ WebhookAt(r, "enqueue")
  /\ \E d \in webhookTargets[r] : waiting' = Enqueued(waiting, {<<webhookEvent[r], d>>})
  /\ Reply(r, "accepted")
  /\ UNCHANGED <<events, destinations, deliveries, delayed, failed, workerVars, apiFaults>>

(* Step 8: one queue.add for each destination, all in flight at once.      *)
AddJob(r) ==
  /\ WebhookAt(r, "enqueue")
  /\ \E d \in webhookTargets[r] :
       /\ waiting' = Enqueued(waiting, {<<webhookEvent[r], d>>})
       /\ \/ webhookTargets[r] = {d} /\ Reply(r, "accepted")
          \/ /\ webhookTargets[r] # {d}
             /\ webhookTargets' = [webhookTargets EXCEPT ![r] = @ \ {d}]
             /\ UNCHANGED <<webhookStep, webhookEvent, answer>>
  /\ UNCHANGED <<events, destinations, deliveries, delayed, failed, workerVars, apiFaults>>

(* Some queue.add rejects, before or after it has taken effect, or the     *)
(* process dies: the sender gets a 500 or nothing, and any of the jobs may *)
(* have been queued.                                                       *)
AddFails(r) ==
  /\ WebhookAt(r, "enqueue")
  /\ Interruption
  /\ \E done \in SUBSET webhookTargets[r] :
       waiting' = Enqueued(waiting, {webhookEvent[r]} \X done)
  /\ \E told \in {"none", "error"} : Reply(r, told)
  /\ UNCHANGED <<events, destinations, deliveries, delayed, failed, workerVars>>

(* A database statement throws, or the process dies and the connection     *)
(* with it.                                                                *)
InterruptWebhook(r) ==
  /\ webhookStep[r] \notin {"new", "enqueue", "done"}
  /\ Interruption
  /\ \E told \in {"none", "error"} : Reply(r, told)
  /\ UNCHANGED <<storeVars, workerVars>>

WebhookProceed(r) ==
  \/ CheckDepth(r)
  \/ Verify(r)
  \/ PersistRejected(r)
  \/ Persist(r)
  \/ SelectTargets(r)
  \/ AddJob(r)

IngestionNext ==
  \E r \in Webhooks : WebhookProceed(r) \/ AddFails(r) \/ InterruptWebhook(r)

=============================================================================
