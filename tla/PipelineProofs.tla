--------------------------- MODULE PipelineProofs ---------------------------
(***************************************************************************)
(* Proofs about the whole engine, for any numbers of events, destinations, *)
(* slots, requests, replays, signals and faults.  First what a step of any *)
(* component can do to each of the tables, the queue and the slots; the    *)
(* invariants cite that and no action they are not about.                  *)
(***************************************************************************)
EXTENDS Pipeline, DeliveryWorkerProofs

-----------------------------------------------------------------------------
(* The queue keeps its type whatever is added to it.                       *)
LEMMA RetryCounts ==
  ASSUME StoreTypeOK, NEW rows, NEW e, NEW d
  PROVE  Cardinality(rows \cap Attempts(e, d)) \in Nat
<1>1. DOMAIN deliveries = 1..Len(deliveries) /\ Len(deliveries) \in Nat
  BY DEF StoreTypeOK
<1>2. IsFiniteSet(DOMAIN deliveries)
  BY <1>1, FS_Interval
<1>3. rows \cap Attempts(e, d) \subseteq DOMAIN deliveries
  BY DEF Attempts
<1> QED
  BY <1>2, <1>3, FS_Subset, FS_CardinalityType

LEMMA PipelineInitType == PipelineInit => PipelineTypeOK
<1> SUFFICES ASSUME PipelineInit PROVE PipelineTypeOK
  OBVIOUS
<1>1. NoJobs \in [Job -> Nat]
  BY DEF NoJobs
<1>2. waiting \in [Job -> Nat]
  BY <1>1, EnqueuedType DEF PipelineInit
<1>3. StoreTypeOK
  BY <1>1, <1>2 DEF PipelineInit, StoreTypeOK, EventStatus
<1>4. WorkerTypeOK
  BY WorkerAssumption DEF PipelineInit, WorkerInit, WorkerTypeOK, WorkerPc, Outcome
<1>5. RequestsTypeOK /\ IngestionTypeOK
  BY RequestsAssumption DEF PipelineInit, RequestsInit, RequestsTypeOK, IngestionInit,
     IngestionTypeOK, Answer
<1>6. DeadLettersTypeOK
  BY DEF PipelineInit, DeadLettersInit, DeadLettersTypeOK
<1>7. ReplayTypeOK
  BY DEF PipelineInit, ReplayInit, ReplayTypeOK, ReplayStep, RowStatus
<1>8. DestinationRoutesTypeOK /\ ArchiverTypeOK /\ ShutdownTypeOK
  BY DEF PipelineInit, DestinationRoutesInit, DestinationRoutesTypeOK, ArchiverInit,
         ArchiverTypeOK, ShutdownInit, ShutdownTypeOK
<1> QED
  BY <1>3, <1>4, <1>5, <1>6, <1>7, <1>8 DEF PipelineTypeOK, TypeOK

LEMMA InterruptionType == RequestsTypeOK /\ Interruption => RequestsTypeOK'
BY RequestsAssumption DEF RequestsTypeOK, Interruption

LEMMA ReplyType ==
  ASSUME IngestionTypeOK, NEW r \in Webhooks, NEW status \in Answer, Reply(r, status)
  PROVE  IngestionTypeOK'
BY DEF IngestionTypeOK, Reply, WebhookGoto

LEMMA IngestionType ==
  ASSUME StoreTypeOK, RequestsTypeOK, IngestionTypeOK, IngestionNext
  PROVE  StoreTypeOK' /\ RequestsTypeOK' /\ IngestionTypeOK'
<1> PICK r \in Webhooks : WebhookProceed(r) \/ AddFails(r) \/ InterruptWebhook(r)
  BY DEF IngestionNext
<1>r. webhookEvent[r] \in Events
  BY DEF IngestionTypeOK
<1>1. CASE CheckDepth(r)
  <2>1. IngestionTypeOK'
    BY <1>1, ReplyType DEF CheckDepth, Answer, IngestionTypeOK, WebhookGoto
  <2> QED
    BY <1>1, <2>1 DEF CheckDepth, storeVars, StoreTypeOK, RequestsTypeOK
<1>2. CASE Verify(r)
  <2>1. IngestionTypeOK'
    BY <1>2 DEF Verify, IngestionTypeOK, WebhookGoto
  <2> QED
    BY <1>2, <2>1 DEF Verify, storeVars, StoreTypeOK, RequestsTypeOK
<1>3. CASE PersistRejected(r)
  <2>1. IngestionTypeOK'
    BY <1>3, ReplyType DEF PersistRejected, Answer
  <2> QED
    BY <1>3, <2>1 DEF PersistRejected, queueVars, StoreTypeOK, EventStatus, RequestsTypeOK
<1>4. CASE Persist(r)
  <2>1. IngestionTypeOK'
    BY <1>4, ReplyType DEF Persist, Answer, IngestionTypeOK, WebhookGoto
  <2> QED
    BY <1>4, <2>1 DEF Persist, queueVars, StoreTypeOK, EventStatus, RequestsTypeOK
<1>5. CASE SelectTargets(r)
  <2>1. RequiredDestinations(webhookEvent[r]) \in SUBSET Destinations
    BY DEF RequiredDestinations, StoreTypeOK
  <2>2. IngestionTypeOK'
    BY <1>5, <2>1, ReplyType DEF SelectTargets, Answer, IngestionTypeOK, WebhookGoto
  <2> QED
    BY <1>5, <2>2 DEF SelectTargets, storeVars, StoreTypeOK, RequestsTypeOK
<1>6. CASE AddJob(r)
  <2>1. IngestionTypeOK'
    BY <1>6, ReplyType DEF AddJob, Answer, IngestionTypeOK
  <2>2. waiting' \in [Job -> Nat]
    <3>1. \A pairs : Enqueued(waiting, pairs) \in [Job -> Nat]
      BY EnqueuedType DEF StoreTypeOK
    <3> QED
      BY <1>6, <3>1 DEF AddJob
  <2> QED
    BY <1>6, <2>1, <2>2 DEF AddJob, StoreTypeOK, RequestsTypeOK
<1>7. CASE AddFails(r)
  <2>1. IngestionTypeOK'
    BY <1>7, ReplyType DEF AddFails, Answer
  <2>2. waiting' \in [Job -> Nat]
    <3>1. \A pairs : Enqueued(waiting, pairs) \in [Job -> Nat]
      BY EnqueuedType DEF StoreTypeOK
    <3> QED
      BY <1>7, <3>1 DEF AddFails
  <2> QED
    BY <1>7, <2>1, <2>2, InterruptionType DEF AddFails, StoreTypeOK
<1>8. CASE InterruptWebhook(r)
  <2>1. IngestionTypeOK'
    BY <1>8, ReplyType DEF InterruptWebhook, Answer
  <2> QED
    BY <1>8, <2>1, InterruptionType DEF InterruptWebhook, storeVars, StoreTypeOK
<1> QED
  BY <1>1, <1>2, <1>3, <1>4, <1>5, <1>6, <1>7, <1>8 DEF WebhookProceed

(* Rows that change their status or attempt in place.                      *)
LEMMA RewrittenRows ==
  ASSUME StoreTypeOK, NEW f \in [DOMAIN deliveries -> Delivery], deliveries' = f
  PROVE  deliveries' \in Seq(Delivery) /\ DOMAIN deliveries' = DOMAIN deliveries
<1>1. DOMAIN deliveries = 1..Len(deliveries) /\ Len(deliveries) \in Nat
  BY DEF StoreTypeOK
<1> QED
  BY <1>1, SeqDef

LEMMA ResetRows ==
  ASSUME StoreTypeOK, NEW r \in Retries, ResetDeadLetters(r)
  PROVE  /\ deliveries' \in Seq(Delivery)
         /\ DOMAIN deliveries' = DOMAIN deliveries
         /\ \A i \in DOMAIN deliveries :
              deliveries'[i] = IF i \in retryRows[r]
                               THEN [deliveries[i] EXCEPT !.status = "pending", !.attempt = 1]
                               ELSE deliveries[i]
<1> DEFINE f == [i \in DOMAIN deliveries |->
                   IF i \in retryRows[r]
                   THEN [deliveries[i] EXCEPT !.status = "pending", !.attempt = 1]
                   ELSE deliveries[i]]
<1>1. \A i \in DOMAIN deliveries : deliveries[i] \in Delivery
  BY RowType
<1>2. f \in [DOMAIN deliveries -> Delivery]
  BY <1>1 DEF Delivery, DeliveryStatus
<1>3. deliveries' = f
  BY DEF ResetDeadLetters
<1> QED
  BY <1>2, <1>3, RewrittenRows

LEMMA SweptRows ==
  ASSUME StoreTypeOK, Sweep
  PROVE  /\ deliveries' \in Seq(Delivery)
         /\ DOMAIN deliveries' = DOMAIN deliveries
         /\ \A i \in DOMAIN deliveries :
              deliveries'[i] = IF i \in Sweepable
                               THEN [deliveries[i] EXCEPT !.status = "dead_letter"]
                               ELSE deliveries[i]
<1> DEFINE f == [i \in DOMAIN deliveries |->
                   IF i \in Sweepable THEN [deliveries[i] EXCEPT !.status = "dead_letter"]
                   ELSE deliveries[i]]
<1>1. \A i \in DOMAIN deliveries : deliveries[i] \in Delivery
  BY RowType
<1>2. f \in [DOMAIN deliveries -> Delivery]
  BY <1>1 DEF Delivery, DeliveryStatus
<1>3. deliveries' = f
  BY DEF Sweep
<1> QED
  BY <1>2, <1>3, RewrittenRows

LEMMA DeadLettersType ==
  ASSUME StoreTypeOK, RequestsTypeOK, DeadLettersTypeOK, DeadLettersNext
  PROVE  StoreTypeOK' /\ RequestsTypeOK' /\ DeadLettersTypeOK'
<1>1. ASSUME NEW r \in Retries, SelectDeadLetters(r)
      PROVE  StoreTypeOK' /\ RequestsTypeOK' /\ DeadLettersTypeOK'
  <2>1. RowsWith("dead_letter") \subseteq DOMAIN deliveries
    BY DEF RowsWith
  <2>2. DeadLettersTypeOK'
    BY <1>1, <2>1 DEF SelectDeadLetters, DeadLettersTypeOK, storeVars
  <2> QED
    BY <1>1, <2>2 DEF SelectDeadLetters, storeVars, StoreTypeOK, RequestsTypeOK
<1>2. ASSUME NEW r \in Retries, ResetDeadLetters(r)
      PROVE  StoreTypeOK' /\ RequestsTypeOK' /\ DeadLettersTypeOK'
  <2>1. deliveries' \in Seq(Delivery) /\ DOMAIN deliveries' = DOMAIN deliveries
    BY <1>2, ResetRows
  <2>2. DeadLettersTypeOK'
    BY <1>2, <2>1 DEF ResetDeadLetters, DeadLettersTypeOK
  <2> QED
    BY <1>2, <2>1, <2>2 DEF ResetDeadLetters, queueVars, StoreTypeOK, RequestsTypeOK
<1>3. ASSUME NEW r \in Retries, EnqueueRetries(r)
      PROVE  StoreTypeOK' /\ RequestsTypeOK' /\ DeadLettersTypeOK'
  <2>1. \A j \in Job : Cardinality(retryRows[r] \cap Attempts(j.event, j.destination)) \in Nat
    BY RetryCounts
  <2>2. waiting' \in [Job -> Nat]
    <3> DEFINE rows(j) == Cardinality(retryRows[r] \cap Attempts(j.event, j.destination))
    <3>1. waiting' = [j \in Job |-> IF j.stalled THEN waiting[j] ELSE waiting[j] + rows(j)]
      BY <1>3 DEF EnqueueRetries
    <3>2. \A j \in Job : rows(j) \in Nat
      BY <2>1
    <3> HIDE DEF rows
    <3> QED
      BY <3>1, <3>2 DEF StoreTypeOK
  <2>3. DeadLettersTypeOK'
    BY <1>3 DEF EnqueueRetries, DeadLettersTypeOK
  <2> QED
    BY <1>3, <2>2, <2>3 DEF EnqueueRetries, StoreTypeOK, RequestsTypeOK
<1>4. ASSUME NEW r \in Retries, InterruptRetry(r)
      PROVE  StoreTypeOK' /\ RequestsTypeOK' /\ DeadLettersTypeOK'
  <2>1. DeadLettersTypeOK'
    BY <1>4 DEF InterruptRetry, DeadLettersTypeOK, storeVars
  <2> QED
    BY <1>4, <2>1, InterruptionType DEF InterruptRetry, storeVars, StoreTypeOK
<1>5. CASE Sweep
  <2>1. deliveries' \in Seq(Delivery) /\ DOMAIN deliveries' = DOMAIN deliveries
    BY <1>5, SweptRows
  <2>2. DeadLettersTypeOK'
    BY <1>5, <2>1 DEF Sweep, retryVars, DeadLettersTypeOK
  <2> QED
    BY <1>5, <2>1, <2>2 DEF Sweep, queueVars, StoreTypeOK, RequestsTypeOK
<1> QED
  BY <1>1, <1>2, <1>3, <1>4, <1>5 DEF DeadLettersNext

(* What is left of an event's turn in a replay.                            *)
LEMMA NextEventType ==
  ASSUME ReplayTypeOK, NEW r \in Replays, NextEvent(r), UNCHANGED replayRow,
         replayTodo' \in [Replays -> SUBSET Events],
         replayCount' \in [Replays -> [processed: Nat, failed: Nat]]
  PROVE  ReplayTypeOK'
BY DEF NextEvent, ReplayTypeOK, ReplayGoto, ReplayStep

LEMMA ReplayType ==
  ASSUME StoreTypeOK, RequestsTypeOK, ReplayTypeOK, ReplayNext
  PROVE  StoreTypeOK' /\ RequestsTypeOK' /\ ReplayTypeOK'
<1> PICK r \in Replays : InsertRequest(r) \/ ReplayProceed(r) \/ FailEvent(r) \/ InterruptReplay(r)
  BY DEF ReplayNext
<1>1. CASE InsertRequest(r)
  <2>1. ReplayTypeOK'
    BY <1>1 DEF InsertRequest, ReplayTypeOK, ReplayGoto, ReplayStep, RowStatus
  <2> QED
    BY <1>1, <2>1 DEF InsertRequest, storeVars, StoreTypeOK, RequestsTypeOK
<1>2. CASE SelectEvents(r)
  <2>1. ReplayTypeOK'
    BY <1>2 DEF SelectEvents, ReplayTypeOK, ReplayGoto, ReplayStep
  <2> QED
    BY <1>2, <2>1 DEF SelectEvents, storeVars, StoreTypeOK, RequestsTypeOK
<1>3. CASE SetTotal(r)
  <2>1. Cardinality(replayTodo[r]) \in Nat
    BY ReplayAssumption, FS_Subset, FS_CardinalityType DEF ReplayTypeOK
  <2>2. ReplayTypeOK'
    BY <1>3, <2>1 DEF SetTotal, ReplayTypeOK, ReplayGoto, ReplayStep, RowStatus
  <2> QED
    BY <1>3, <2>2 DEF SetTotal, storeVars, StoreTypeOK, RequestsTypeOK
<1>4. CASE ReadDestinations(r)
  <2>1. ReplayTypeOK'
    BY <1>4 DEF ReadDestinations, ReplayTypeOK, ReplayGoto, ReplayStep, StoreTypeOK
  <2> QED
    BY <1>4, <2>1 DEF ReadDestinations, storeVars, StoreTypeOK, RequestsTypeOK
<1>5. CASE EnqueueReplay(r)
  <2>1. ReplayTypeOK'
    BY <1>5 DEF EnqueueReplay, ReplayTypeOK, ReplayGoto, ReplayStep
  <2>2. waiting' \in [Job -> Nat]
    BY <1>5, EnqueuedType DEF EnqueueReplay, StoreTypeOK
  <2> QED
    BY <1>5, <2>1, <2>2 DEF EnqueueReplay, StoreTypeOK, RequestsTypeOK
<1>6. CASE MarkReplayed(r)
  <2>1. replayCount' \in [Replays -> [processed: Nat, failed: Nat]]
    BY <1>6 DEF MarkReplayed, ReplayTypeOK
  <2>2. ReplayTypeOK'
    BY <1>6, <2>1, NextEventType DEF MarkReplayed, ReplayTypeOK
  <2>3. events' \in [Events -> EventStatus]
    BY <1>6 DEF MarkReplayed, StoreTypeOK, EventStatus
  <2> QED
    BY <1>6, <2>2, <2>3 DEF MarkReplayed, queueVars, StoreTypeOK, RequestsTypeOK
<1>7. CASE SaveProgress(r)
  <2>1. ReplayTypeOK'
    BY <1>7 DEF SaveProgress, ReplayTypeOK, ReplayGoto, ReplayStep
  <2> QED
    BY <1>7, <2>1 DEF SaveProgress, storeVars, StoreTypeOK, RequestsTypeOK
<1>8. CASE CompleteReplay(r)
  <2>0. /\ replayCount[r].processed \in Nat /\ replayCount[r].failed \in Nat
        /\ replayRow[r] \in [status: RowStatus, total: Nat, processed: Nat, failed: Nat]
    BY DEF ReplayTypeOK
  <2>a. [replayRow[r] EXCEPT !.processed = replayCount[r].processed,
                             !.failed = replayCount[r].failed, !.status = "completed"]
          \in [status: RowStatus, total: Nat, processed: Nat, failed: Nat]
    BY <2>0 DEF RowStatus
  <2>b. replayRow' = [replayRow EXCEPT ![r] = [@ EXCEPT !.processed = replayCount[r].processed,
                             !.failed = replayCount[r].failed, !.status = "completed"]]
    BY <1>8 DEF CompleteReplay
  <2>1. ReplayTypeOK'
    BY <1>8, <2>a, <2>b DEF CompleteReplay, ReplayTypeOK, ReplayGoto, ReplayStep
  <2> QED
    BY <1>8, <2>1 DEF CompleteReplay, storeVars, StoreTypeOK, RequestsTypeOK
<1>9. CASE FailEvent(r)
  <2>1. replayCount' \in [Replays -> [processed: Nat, failed: Nat]]
    BY <1>9 DEF FailEvent, ReplayTypeOK
  <2>2. replayTodo' \in [Replays -> SUBSET Events]
    BY <1>9 DEF FailEvent, ReplayTypeOK
  <2>3. ReplayTypeOK'
    BY <1>9, <2>1, <2>2, NextEventType DEF FailEvent
  <2> QED
    BY <1>9, <2>3, InterruptionType DEF FailEvent, storeVars, StoreTypeOK
<1>10. CASE InterruptReplay(r)
  <2>1. ReplayTypeOK'
    BY <1>10 DEF InterruptReplay, ReplayTypeOK, ReplayGoto, ReplayStep
  <2> QED
    BY <1>10, <2>1, InterruptionType DEF InterruptReplay, storeVars, StoreTypeOK
<1> QED
  BY <1>1, <1>2, <1>3, <1>4, <1>5, <1>6, <1>7, <1>8, <1>9, <1>10 DEF ReplayProceed

LEMMA DestinationRoutesType ==
  ASSUME StoreTypeOK, DestinationRoutesTypeOK, DestinationRoutesNext
  PROVE  StoreTypeOK' /\ DestinationRoutesTypeOK'
BY DestinationRoutesAssumption
DEF DestinationRoutesNext, CreateDestination, DeleteDestination, DestinationRoutesTypeOK,
    StoreTypeOK, queueVars

LEMMA ArchiverType ==
  ASSUME StoreTypeOK, RequestsTypeOK, ArchiverTypeOK, ArchiverNext
  PROVE  StoreTypeOK' /\ RequestsTypeOK' /\ ArchiverTypeOK'
<1>1. \A e \in Aged : e \in Events
  BY ArchiverAssumption
<1>2. ArchiverTypeOK'
  BY <1>1 DEF ArchiverNext, GrowOld, CopyToArchive, DeleteArchived, DeleteRefused,
              InterruptArchiver, Archivable, ArchiverTypeOK
<1>3. RequestsTypeOK'
  BY InterruptionType DEF ArchiverNext, GrowOld, CopyToArchive, DeleteArchived, DeleteRefused,
              InterruptArchiver, RequestsTypeOK
<1>4. events' \in [Events -> EventStatus]
  BY DEF ArchiverNext, GrowOld, CopyToArchive, DeleteArchived, DeleteRefused,
         InterruptArchiver, storeVars, StoreTypeOK, EventStatus
<1> QED
  BY <1>2, <1>3, <1>4 DEF ArchiverNext, GrowOld, CopyToArchive, DeleteArchived,
                          DeleteRefused, InterruptArchiver, storeVars, queueVars, StoreTypeOK

LEMMA ShutdownType ==
  ASSUME RequestsTypeOK, ShutdownTypeOK, ShutdownNext
  PROVE  RequestsTypeOK' /\ ShutdownTypeOK'
<1>1. ShutdownTypeOK'
  BY DEF ShutdownNext, Signal, ShutdownProceed, ServerClosed, WorkerClosed, WorkerCloseFails,
         ShutdownGoto, ShutdownTypeOK
<1>2. RequestsTypeOK'
  BY InterruptionType DEF ShutdownNext, Signal, ShutdownProceed, ServerClosed, WorkerClosed,
                          WorkerCloseFails, RequestsTypeOK
<1> QED
  BY <1>1, <1>2

-----------------------------------------------------------------------------
(* A step belongs to one component, and leaves alone what only the others  *)
(* write.  A signal and a stuttering step leave all tables alone.          *)
LEMMA Components ==
  ASSUME [PipelineNext]_pipelineVars
  PROVE  \/ /\ [Next]_vars
            /\ UNCHANGED <<webhookVars, retryVars, replayVars, uncreated, archiverVars>>
         \/ IngestionNext /\ UNCHANGED <<retryVars, replayVars, uncreated, archiverVars>>
         \/ /\ DeadLettersNext
            /\ UNCHANGED <<workerVars, webhookVars, replayVars, uncreated, archiverVars>>
         \/ /\ ReplayNext
            /\ UNCHANGED <<workerVars, webhookVars, retryVars, uncreated, archiverVars>>
         \/ /\ DestinationRoutesNext
            /\ UNCHANGED <<workerVars, webhookVars, retryVars, replayVars, archiverVars>>
         \/ /\ ArchiverNext
            /\ UNCHANGED <<workerVars, webhookVars, retryVars, replayVars, uncreated>>
BY DEF PipelineNext, ComponentsNext, Next, pipelineVars

LEMMA IngestionKeepsSlots == IngestionNext => UNCHANGED <<workerVars, destinations, deliveries>>
BY DEF IngestionNext, WebhookProceed, CheckDepth, Verify, PersistRejected, Persist,
       SelectTargets, AddJob, AddFails, InterruptWebhook, storeVars

LEMMA PipelineStepType == PipelineTypeOK /\ [PipelineNext]_pipelineVars => PipelineTypeOK'
<1> SUFFICES ASSUME PipelineTypeOK, [PipelineNext]_pipelineVars PROVE PipelineTypeOK'
  OBVIOUS
<1> USE DEF PipelineTypeOK
<1>1. CASE WorkerNext /\ UNCHANGED <<webhookVars, apiFaults, retryVars, replayVars, uncreated,
                                      archiverVars, shutdownStep>>
  <2>1. TypeOK'
    BY <1>1, StepType DEF Next
  <2>2. DOMAIN deliveries \subseteq DOMAIN deliveries'
    BY <1>1, RowsKept DEF Next
  <2>3. DeadLettersTypeOK'
    BY <1>1, <2>2 DEF DeadLettersTypeOK, retryVars
  <2> QED
    BY <1>1, <2>1, <2>3 DEF RequestsTypeOK, webhookVars, IngestionTypeOK, replayVars,
       ReplayTypeOK, DestinationRoutesTypeOK, archiverVars, ArchiverTypeOK, ShutdownTypeOK
<1>2. CASE IngestionNext /\ UNCHANGED <<retryVars, replayVars, uncreated, archiverVars,
                                         shutdownStep>>
  <2>1. WorkerTypeOK' /\ deliveries' = deliveries
    BY <1>2, IngestionKeepsSlots DEF TypeOK, workerVars, slotVars, WorkerTypeOK
  <2> QED
    BY <1>2, <2>1, IngestionType DEF TypeOK, retryVars, DeadLettersTypeOK, replayVars,
       ReplayTypeOK, DestinationRoutesTypeOK, archiverVars, ArchiverTypeOK, ShutdownTypeOK
<1>3. CASE DeadLettersNext /\ UNCHANGED <<workerVars, webhookVars, replayVars, uncreated,
                                           archiverVars, shutdownStep>>
  <2>1. WorkerTypeOK'
    BY <1>3 DEF TypeOK, workerVars, slotVars, WorkerTypeOK
  <2> QED
    BY <1>3, <2>1, DeadLettersType DEF TypeOK, webhookVars, IngestionTypeOK, replayVars,
       ReplayTypeOK, DestinationRoutesTypeOK, archiverVars, ArchiverTypeOK, ShutdownTypeOK
<1>4. CASE ReplayNext /\ UNCHANGED <<workerVars, webhookVars, retryVars, uncreated,
                                      archiverVars, shutdownStep>>
  <2>1. WorkerTypeOK'
    BY <1>4 DEF TypeOK, workerVars, slotVars, WorkerTypeOK
  <2>2. deliveries' = deliveries
    BY <1>4 DEF ReplayNext, ReplayProceed, InsertRequest, SelectEvents, SetTotal,
       ReadDestinations, EnqueueReplay, MarkReplayed, SaveProgress, CompleteReplay, FailEvent,
       InterruptReplay, storeVars
  <2> QED
    BY <1>4, <2>1, <2>2, ReplayType DEF TypeOK, webhookVars, IngestionTypeOK, retryVars,
       DeadLettersTypeOK, DestinationRoutesTypeOK, archiverVars, ArchiverTypeOK, ShutdownTypeOK
<1>5. CASE DestinationRoutesNext /\ UNCHANGED <<workerVars, webhookVars, apiFaults, retryVars,
                                                 replayVars, archiverVars, shutdownStep>>
  <2>1. WorkerTypeOK'
    BY <1>5 DEF TypeOK, workerVars, slotVars, WorkerTypeOK
  <2>2. deliveries' = deliveries
    BY <1>5 DEF DestinationRoutesNext, CreateDestination, DeleteDestination
  <2> QED
    BY <1>5, <2>1, <2>2, DestinationRoutesType DEF TypeOK, webhookVars, IngestionTypeOK,
       RequestsTypeOK, retryVars, DeadLettersTypeOK, replayVars, ReplayTypeOK, archiverVars,
       ArchiverTypeOK, ShutdownTypeOK
<1>6. CASE ArchiverNext /\ UNCHANGED <<workerVars, webhookVars, retryVars, replayVars,
                                        uncreated, shutdownStep>>
  <2>1. WorkerTypeOK'
    BY <1>6 DEF TypeOK, workerVars, slotVars, WorkerTypeOK
  <2>2. deliveries' = deliveries
    BY <1>6 DEF ArchiverNext, GrowOld, CopyToArchive, DeleteArchived, DeleteRefused,
       InterruptArchiver, storeVars
  <2> QED
    BY <1>6, <2>1, <2>2, ArchiverType DEF TypeOK, webhookVars, IngestionTypeOK, retryVars,
       DeadLettersTypeOK, replayVars, ReplayTypeOK, DestinationRoutesTypeOK, ShutdownTypeOK
<1>7. ASSUME UNCHANGED <<vars, webhookVars, retryVars, replayVars, uncreated, archiverVars>>,
             RequestsTypeOK', ShutdownTypeOK'
      PROVE  PipelineTypeOK'
  <2>1. TypeOK'
    BY <1>7, StepType
  <2> QED
    BY <1>7, <2>1 DEF vars, storeVars, webhookVars, IngestionTypeOK, retryVars,
       DeadLettersTypeOK, replayVars, ReplayTypeOK, DestinationRoutesTypeOK, archiverVars,
       ArchiverTypeOK
<1>8. CASE ShutdownNext /\ UNCHANGED <<vars, webhookVars, retryVars, replayVars, uncreated,
                                        archiverVars>>
  BY <1>7, <1>8, ShutdownType
<1>9. CASE UNCHANGED pipelineVars
  BY <1>7, <1>9 DEF pipelineVars, RequestsTypeOK, ShutdownTypeOK
<1> QED
  BY <1>1, <1>2, <1>3, <1>4, <1>5, <1>6, <1>8, <1>9 DEF PipelineNext, ComponentsNext

(* Every variable of every component keeps its type in every reachable     *)
(* state of the whole engine; a retry never holds a row that is not there. *)
THEOREM PipelineTypeCorrect == PipelineSpec => []PipelineTypeOK
BY PipelineInitType, PipelineStepType, PTL DEF PipelineSpec

-----------------------------------------------------------------------------
(* What any step can do to the slots, the rows, the destinations and the   *)
(* events.                                                                 *)
LEMMA PipelineSlot ==
  ASSUME PipelineTypeOK, [PipelineNext]_pipelineVars, NEW v \in Workers
  PROVE  SlotKept(v) \/ (SlotStep(v) /\ [Next]_vars)
<1>1. CASE [Next]_vars
  BY <1>1, KeptOrStep DEF PipelineTypeOK
<1>2. CASE UNCHANGED workerVars
  BY <1>2 DEF workerVars, slotVars, SlotKept
<1> QED
  BY <1>1, <1>2, Components, IngestionKeepsSlots

LEMMA RowSteps ==
  ASSUME PipelineTypeOK, [PipelineNext]_pipelineVars
  PROVE  \/ deliveries' = deliveries
         \/ \E w \in Workers : Record(w)
         \/ \E r \in Retries : ResetDeadLetters(r)
         \/ Sweep
<1>1. CASE [Next]_vars
  BY <1>1, OnlyRecordInserts DEF PipelineTypeOK
<1>2. CASE DeadLettersNext
  BY <1>2 DEF DeadLettersNext, SelectDeadLetters, EnqueueRetries, InterruptRetry, storeVars
<1>3. CASE ReplayNext
  BY <1>3 DEF ReplayNext, ReplayProceed, InsertRequest, SelectEvents, SetTotal,
     ReadDestinations, EnqueueReplay, MarkReplayed, SaveProgress, CompleteReplay, FailEvent,
     InterruptReplay, storeVars
<1>4. CASE DestinationRoutesNext
  BY <1>4 DEF DestinationRoutesNext, CreateDestination, DeleteDestination
<1>5. CASE ArchiverNext
  BY <1>5 DEF ArchiverNext, GrowOld, CopyToArchive, DeleteArchived, DeleteRefused,
     InterruptArchiver, storeVars
<1> QED
  BY <1>1, <1>2, <1>3, <1>4, <1>5, Components, IngestionKeepsSlots

(* A row stays where it is, with its event and destination; what can       *)
(* happen to its status is the business of the retries and the sweep.      *)
LEMMA RowsStay ==
  ASSUME PipelineTypeOK, [PipelineNext]_pipelineVars, NEW i \in DOMAIN deliveries
  PROVE  /\ i \in DOMAIN deliveries'
         /\ deliveries'[i].event = deliveries[i].event
         /\ deliveries'[i].destination = deliveries[i].destination
         /\ \/ deliveries'[i] = deliveries[i]
            \/ \E r \in Retries : /\ ResetDeadLetters(r) /\ i \in retryRows[r]
                                  /\ deliveries'[i].status = "pending"
                                  /\ deliveries'[i].attempt = 1
            \/ /\ Sweep /\ i \in Sweepable
               /\ deliveries'[i].status = "dead_letter"
               /\ deliveries'[i].attempt = deliveries[i].attempt
<1>0. deliveries[i] \in Delivery
  BY RowType DEF PipelineTypeOK, TypeOK
<1>1. CASE deliveries' = deliveries
  BY <1>1
<1>2. ASSUME NEW w \in Workers, Record(w)
      PROVE  i \in DOMAIN deliveries' /\ deliveries'[i] = deliveries[i]
  BY <1>2, AppendRow, SlotRow DEF PipelineTypeOK, TypeOK
<1>3. ASSUME NEW r \in Retries, ResetDeadLetters(r)
      PROVE  /\ i \in DOMAIN deliveries'
             /\ deliveries'[i].event = deliveries[i].event
             /\ deliveries'[i].destination = deliveries[i].destination
             /\ \/ deliveries'[i] = deliveries[i]
                \/ /\ i \in retryRows[r]
                   /\ deliveries'[i].status = "pending"
                   /\ deliveries'[i].attempt = 1
  BY <1>0, <1>3, ResetRows DEF PipelineTypeOK, TypeOK, Delivery
<1>4. ASSUME Sweep
      PROVE  /\ i \in DOMAIN deliveries'
             /\ deliveries'[i].event = deliveries[i].event
             /\ deliveries'[i].destination = deliveries[i].destination
             /\ \/ deliveries'[i] = deliveries[i]
                \/ /\ i \in Sweepable
                   /\ deliveries'[i].status = "dead_letter"
                   /\ deliveries'[i].attempt = deliveries[i].attempt
  BY <1>0, <1>4, SweptRows DEF PipelineTypeOK, TypeOK, Delivery
<1> QED
  BY <1>1, <1>2, <1>3, <1>4, RowSteps

(* A row that was not there is the one a slot inserts.                     *)
LEMMA NewRow ==
  ASSUME PipelineTypeOK, [PipelineNext]_pipelineVars,
         NEW i \in DOMAIN deliveries', i \notin DOMAIN deliveries
  PROVE  \E w \in Workers : Record(w) /\ deliveries'[i] = RowOf(w)
<1>1. PICK w \in Workers : Record(w)
  BY RowSteps, ResetRows, SweptRows DEF PipelineTypeOK, TypeOK
<1> QED
  BY <1>1, AppendRow, SlotRow DEF PipelineTypeOK, TypeOK

LEMMA DestinationSteps ==
  ASSUME [PipelineNext]_pipelineVars
  PROVE  \/ destinations' = destinations
         \/ \E d \in Late : CreateDestination(d)
         \/ \E d \in Deletable : DeleteDestination(d)
<1>1. CASE [Next]_vars
  BY <1>1 DEF Next, vars, storeVars, WorkerNext, TakeJob, Proceed, Throw, Stall, Load,
     NextAttemptNumber, Deliver, Record, RecordRefused, Reschedule, ReadRequired,
     ReadSuccesses, UpdateEvent, Complete, Promote
<1>2. CASE DeadLettersNext
  BY <1>2 DEF DeadLettersNext, SelectDeadLetters, ResetDeadLetters, EnqueueRetries,
     InterruptRetry, Sweep, storeVars
<1>3. CASE ReplayNext
  BY <1>3 DEF ReplayNext, ReplayProceed, InsertRequest, SelectEvents, SetTotal,
     ReadDestinations, EnqueueReplay, MarkReplayed, SaveProgress, CompleteReplay, FailEvent,
     InterruptReplay, storeVars
<1>4. CASE ArchiverNext
  BY <1>4 DEF ArchiverNext, GrowOld, CopyToArchive, DeleteArchived, DeleteRefused,
     InterruptArchiver, storeVars
<1> QED
  BY <1>1, <1>2, <1>3, <1>4, Components, IngestionKeepsSlots DEF DestinationRoutesNext

(* The only ways in which the status of an event changes.                  *)
LEMMA StatusSteps ==
  ASSUME PipelineTypeOK, [PipelineNext]_pipelineVars, NEW e \in Events
  PROVE  \/ events'[e] = events[e]
         \/ \E w \in Workers : /\ UpdateEvent(w) /\ EventOf(w) = e
                               /\ events[e] # "absent" /\ events'[e] = "delivered"
         \/ \E r \in Webhooks : /\ webhookEvent[r] = e /\ events[e] = "absent"
                                /\ \/ Persist(r) /\ events'[e] = "pending"
                                   \/ PersistRejected(r) /\ events'[e] = "rejected"
         \/ \E r \in Replays : /\ MarkReplayed(r) /\ replayEvent[r] = e
                               /\ events[e] # "absent" /\ events'[e] = "replayed"
         \/ DeleteArchived /\ e \in Archived /\ events'[e] = "absent"
<1> USE DEF PipelineTypeOK, TypeOK, StoreTypeOK
<1>1. CASE [Next]_vars
  <2>1. ASSUME NEW w \in Workers, UpdateEvent(w)
        PROVE  \/ events'[e] = events[e]
               \/ EventOf(w) = e /\ events[e] # "absent" /\ events'[e] = "delivered"
    BY <2>1 DEF UpdateEvent
  <2> QED
    BY <1>1, <2>1, EventSteps
<1>2. CASE IngestionNext
  <2>1. PICK r \in Webhooks : events' = events \/ Persist(r) \/ PersistRejected(r)
    BY <1>2 DEF IngestionNext, WebhookProceed, CheckDepth, Verify, SelectTargets, AddJob,
       AddFails, InterruptWebhook, storeVars
  <2>2. ASSUME Persist(r)
        PROVE  \/ events'[e] = events[e]
               \/ webhookEvent[r] = e /\ events[e] = "absent" /\ events'[e] = "pending"
    BY <2>2 DEF Persist
  <2>3. ASSUME PersistRejected(r)
        PROVE  \/ events'[e] = events[e]
               \/ webhookEvent[r] = e /\ events[e] = "absent" /\ events'[e] = "rejected"
    BY <2>3 DEF PersistRejected
  <2> QED
    BY <2>1, <2>2, <2>3
<1>3. CASE DeadLettersNext
  BY <1>3 DEF DeadLettersNext, SelectDeadLetters, ResetDeadLetters, EnqueueRetries,
     InterruptRetry, Sweep, storeVars
<1>4. CASE ReplayNext
  <2>1. PICK r \in Replays : events' = events \/ MarkReplayed(r)
    BY <1>4 DEF ReplayNext, ReplayProceed, InsertRequest, SelectEvents, SetTotal,
       ReadDestinations, EnqueueReplay, SaveProgress, CompleteReplay, FailEvent,
       InterruptReplay, storeVars
  <2>2. ASSUME MarkReplayed(r)
        PROVE  \/ events'[e] = events[e]
               \/ replayEvent[r] = e /\ events[e] # "absent" /\ events'[e] = "replayed"
    BY <2>2 DEF MarkReplayed
  <2> QED
    BY <2>1, <2>2
<1>5. CASE DestinationRoutesNext
  BY <1>5 DEF DestinationRoutesNext, CreateDestination, DeleteDestination
<1>6. CASE ArchiverNext
  <2>1. events' = events \/ DeleteArchived
    BY <1>6 DEF ArchiverNext, GrowOld, CopyToArchive, DeleteRefused, InterruptArchiver,
       storeVars
  <2> QED
    BY <2>1 DEF DeleteArchived
<1> QED
  BY <1>1, <1>2, <1>3, <1>4, <1>5, <1>6, Components

-----------------------------------------------------------------------------
(* The archiver.                                                           *)
THEOREM NothingVanishes == PipelineSpec => []NoEventVanishes
<1>1. PipelineInit => NoEventVanishes
  BY PipelineAssumption DEF PipelineInit, NoEventVanishes
<1>2. PipelineTypeOK /\ NoEventVanishes /\ [PipelineNext]_pipelineVars => NoEventVanishes'
  <2> SUFFICES ASSUME PipelineTypeOK, NoEventVanishes, [PipelineNext]_pipelineVars,
                      NEW e \in Preloaded, events'[e] = "absent"
               PROVE  e \in archive'
    BY DEF NoEventVanishes
  <2>1. archive \subseteq archive'
    BY Components DEF archiverVars, ArchiverNext, GrowOld, CopyToArchive, DeleteArchived,
       DeleteRefused, InterruptArchiver, IngestionNext
  <2>2. e \in Events
    BY PipelineAssumption
  <2> QED
    BY <2>1, <2>2, StatusSteps DEF NoEventVanishes, Archived
<1> QED
  BY <1>1, <1>2, PipelineTypeCorrect, PTL DEF PipelineSpec

-----------------------------------------------------------------------------
(* The rows.  What a retry holds was a dead letter when it was selected    *)
(* and is one still, or has been reset since by it or by another retry.    *)
HeldRows ==
  \A r \in Retries : \A i \in retryRows[r] : deliveries[i].status \in {"dead_letter", "pending"}

LEMMA RetryRowSteps ==
  ASSUME PipelineTypeOK, [PipelineNext]_pipelineVars, NEW r \in Retries
  PROVE  \/ retryRows'[r] = {}
         \/ retryRows'[r] = retryRows[r]
         \/ /\ SelectDeadLetters(r) /\ retryStep'[r] = "reset"
            /\ retryRows'[r] \subseteq RowsWith("dead_letter")
<1>1. CASE DeadLettersNext
  BY <1>1 DEF PipelineTypeOK, DeadLettersTypeOK, DeadLettersNext, SelectDeadLetters,
     ResetDeadLetters, EnqueueRetries, InterruptRetry, Sweep, retryVars
<1>2. CASE UNCHANGED retryVars
  BY <1>2 DEF retryVars
<1> QED
  BY <1>1, <1>2, Components

LEMMA HeldRowsStep ==
  PipelineTypeOK /\ HeldRows /\ [PipelineNext]_pipelineVars => HeldRows'
<1> SUFFICES ASSUME PipelineTypeOK, HeldRows, [PipelineNext]_pipelineVars,
                    NEW r \in Retries, NEW i \in retryRows'[r]
             PROVE  deliveries'[i].status \in {"dead_letter", "pending"}
  BY DEF HeldRows
<1>1. i \in DOMAIN deliveries /\ deliveries[i].status \in {"dead_letter", "pending"}
  BY RetryRowSteps DEF HeldRows, RowsWith, PipelineTypeOK, DeadLettersTypeOK
<1> QED
  BY <1>1, RowsStay

LEMMA HeldRowsInvariant == PipelineSpec => []HeldRows
<1>1. PipelineInit => HeldRows
  BY DEF PipelineInit, DeadLettersInit, HeldRows
<1> QED
  BY <1>1, HeldRowsStep, PipelineTypeCorrect, PTL DEF PipelineSpec

(* A failed row, there or about to be inserted, has attempts left.         *)
FailuresBelowMax ==
  /\ \A i \in DOMAIN deliveries : deliveries[i].status = "failed" =>
       deliveries[i].attempt < MaxRetries[deliveries[i].destination]
  /\ \A w \in Workers : pc[w] = "record" /\ outcome[w] = "failed" =>
       attempt[w] < MaxRetries[DestinationOf(w)]

LEMMA FailuresBelowMaxStep ==
  PipelineTypeOK /\ FailuresBelowMax /\ [PipelineNext]_pipelineVars => FailuresBelowMax'
<1> SUFFICES ASSUME PipelineTypeOK, FailuresBelowMax, [PipelineNext]_pipelineVars
             PROVE  FailuresBelowMax'
  OBVIOUS
<1>1. ASSUME NEW i \in DOMAIN deliveries', deliveries'[i].status = "failed"
      PROVE  deliveries'[i].attempt < MaxRetries[deliveries'[i].destination]
  <2>1. CASE i \in DOMAIN deliveries
    BY <1>1, <2>1, RowsStay DEF FailuresBelowMax
  <2>2. CASE i \notin DOMAIN deliveries
    <3>1. PICK w \in Workers : Record(w) /\ deliveries'[i] = RowOf(w)
      BY <2>2, NewRow
    <3>2. pc[w] = "record" /\ outcome[w] = "failed"
      BY <1>1, <3>1 DEF Record, At, RowOf
    <3> QED
      BY <3>1, <3>2 DEF RowOf, FailuresBelowMax
  <2> QED
    BY <2>1, <2>2
<1>2. ASSUME NEW w \in Workers, pc'[w] = "record", outcome'[w] = "failed"
      PROVE  attempt'[w] < MaxRetries[DestinationOf(w)']
  <2>1. CASE SlotKept(w)
    BY <1>2, <2>1 DEF SlotKept, FailuresBelowMax, DestinationOf
  <2>2. CASE SlotStep(w)
    <3>1. Deliver(w) /\ job'[w] = job[w] /\ attempt'[w] = attempt[w]
      BY <1>2, <2>2, Arrivals DEF Deliver, PipelineTypeOK
    <3>2. PICK d \in Destinations, n \in Nat : d = DestinationOf(w) /\ n = attempt[w]
      BY <3>1, SlotJob DEF Deliver, At, PipelineTypeOK, TypeOK, WorkerTypeOK
    <3>3. PICK ok \in BOOLEAN : outcome'[w] = OutcomeOf(ok, n, d)
      BY <3>1, <3>2 DEF Deliver, PipelineTypeOK, TypeOK, WorkerTypeOK
    <3>4. DestinationOf(w)' = d
      BY <3>1, <3>2 DEF DestinationOf
    <3> QED
      BY <1>2, <3>1, <3>2, <3>3, <3>4, StoreAssumption DEF OutcomeOf
  <2> QED
    BY <2>1, <2>2, PipelineSlot
<1> QED
  BY <1>1, <1>2 DEF FailuresBelowMax

LEMMA FailuresBelowMaxInvariant == PipelineSpec => []FailuresBelowMax
<1>1. PipelineInit => FailuresBelowMax
  BY DEF PipelineInit, WorkerInit, FailuresBelowMax
<1> QED
  BY <1>1, FailuresBelowMaxStep, PipelineTypeCorrect, PTL DEF PipelineSpec

LEMMA NothingToSweep == PipelineTypeOK /\ FailuresBelowMax => SweepFindsNothing
<1> SUFFICES ASSUME PipelineTypeOK, FailuresBelowMax, NEW i \in Sweepable PROVE FALSE
  BY DEF SweepFindsNothing
<1>1. /\ i \in DOMAIN deliveries
      /\ deliveries[i].status = "failed"
      /\ deliveries[i].attempt >= MaxRetries[deliveries[i].destination]
  BY DEF Sweepable, RowsWith
<1>2. /\ deliveries[i].attempt \in Nat
      /\ MaxRetries[deliveries[i].destination] \in Nat
  BY <1>1, RowType, StoreAssumption DEF PipelineTypeOK, TypeOK
<1> QED
  BY <1>1, <1>2 DEF FailuresBelowMax

(* The sweep never finds a row, whatever is retried, replayed or           *)
(* interrupted: a failure below max_retries stays below it.                *)
THEOREM SweepIsIdle == PipelineSpec => []SweepFindsNothing
BY PipelineTypeCorrect, FailuresBelowMaxInvariant, NothingToSweep, PTL

(* Pipeline implements DeliveryRows.                                       *)
LEMMA RowsImplemented ==
  PipelineTypeOK /\ HeldRows /\ [PipelineNext]_pipelineVars
    => [Rows!RowsNext]_[i \in DOMAIN deliveries |-> deliveries[i].status]
<1> DEFINE rows == [i \in DOMAIN deliveries |-> deliveries[i].status]
<1> SUFFICES ASSUME PipelineTypeOK, HeldRows, [PipelineNext]_pipelineVars
             PROVE  Rows!RowsNext \/ rows' = rows
  OBVIOUS
<1> USE DEF PipelineTypeOK, TypeOK
<1>1. CASE deliveries' = deliveries
  BY <1>1
<1>2. ASSUME NEW w \in Workers, Record(w) PROVE Rows!Insert
  <2> DEFINE n == Len(deliveries)
  <2>1. /\ n \in Nat
        /\ DOMAIN deliveries = 1..n
        /\ DOMAIN deliveries' = 1..(n + 1)
        /\ deliveries'[n + 1].status = outcome[w]
        /\ \A i \in 1..n : deliveries'[i] = deliveries[i]
    <3>1. /\ n \in Nat
          /\ DOMAIN deliveries = 1..n
          /\ DOMAIN deliveries' = 1..(n + 1)
          /\ deliveries'[n + 1] = RowOf(w)
          /\ \A i \in DOMAIN deliveries : deliveries'[i] = deliveries[i]
      BY <1>2, AppendRow, SlotRow
    <3> QED
      BY <3>1 DEF RowOf
  <2>2. outcome[w] \in {"success", "failed", "dead_letter"}
    BY <1>2 DEF Record, At, WorkerTypeOK, Outcome
  <2>3. \A i \in 1..n : deliveries[i].status \in DeliveryStatus
    BY <2>1, RowType
  <2> HIDE DEF n
  <2>4. rows \in [1..n -> DeliveryStatus]
    BY <2>1, <2>3
  <2>5. rows \in Seq(DeliveryStatus) /\ Len(rows) = n
    BY <2>1, <2>4, SeqDef, LenProperties
  <2>6. Append(rows, outcome[w]) = [i \in 1..(n + 1) |-> IF i = n + 1 THEN outcome[w] ELSE rows[i]]
    BY <2>1, <2>5
  <2>7. rows' = [i \in 1..(n + 1) |-> deliveries'[i].status]
    BY <2>1
  <2>8. \A i \in 1..(n + 1) : deliveries'[i].status = IF i = n + 1 THEN outcome[w] ELSE rows[i]
    BY <2>1
  <2>9. rows' = Append(rows, outcome[w])
    BY <2>6, <2>7, <2>8
  <2> QED
    BY <2>2, <2>9 DEF Rows!Insert
<1>3. ASSUME NEW r \in Retries, ResetDeadLetters(r) PROVE Rows!Reset
  <2>1. retryRows[r] \subseteq DOMAIN deliveries
    BY DEF DeadLettersTypeOK
  <2>2. retryRows[r] \subseteq Rows!RowsAre("dead_letter") \cup Rows!RowsAre("pending")
    BY <2>1 DEF HeldRows, Rows!RowsAre
  <2>3. \A i \in DOMAIN deliveries : deliveries[i] \in Delivery
    BY RowType
  <2>4. rows' = [i \in DOMAIN rows |-> IF i \in retryRows[r] THEN "pending" ELSE rows[i]]
    BY <1>3, <2>3, ResetRows DEF Delivery
  <2>5. Rows!Become(retryRows[r], "pending")
    BY <2>4 DEF Rows!Become
  <2> QED
    BY <2>2, <2>5 DEF Rows!Reset
<1>4. ASSUME Sweep PROVE Rows!Sweep
  <2>1. Sweepable \subseteq Rows!RowsAre("failed")
    BY DEF Sweepable, RowsWith, Rows!RowsAre
  <2>3. \A i \in DOMAIN deliveries : deliveries[i] \in Delivery
    BY RowType
  <2>4. rows' = [i \in DOMAIN rows |-> IF i \in Sweepable THEN "dead_letter" ELSE rows[i]]
    BY <1>4, <2>3, SweptRows DEF Delivery
  <2>5. Rows!Become(Sweepable, "dead_letter")
    BY <2>4 DEF Rows!Become
  <2> QED
    BY <2>1, <2>5 DEF Rows!Sweep
<1> QED
  BY <1>1, <1>2, <1>3, <1>4, RowSteps DEF Rows!RowsNext

(* Whatever runs at once, the deliveries table changes as its readers rely *)
(* on: rows are added with an outcome, dead letters reset, failures swept. *)
THEOREM RowsAreKept == PipelineSpec => KeepsRows
<1>1. PipelineInit => Rows!RowsInit
  BY DEF PipelineInit, Rows!RowsInit
<1> QED
  BY <1>1, RowsImplemented, PipelineTypeCorrect, HeldRowsInvariant, PTL
  DEF PipelineSpec, KeepsRows, Rows!RowsSpec

-----------------------------------------------------------------------------
(* Events and destinations that rows refer to: the foreign keys.           *)
RowsRefer ==
  \A i \in DOMAIN deliveries :
    ReferencesExist(deliveries[i].event, deliveries[i].destination)

LEMMA RowsReferStep ==
  PipelineTypeOK /\ RowsRefer /\ [PipelineNext]_pipelineVars => RowsRefer'
<1> SUFFICES ASSUME PipelineTypeOK, RowsRefer, [PipelineNext]_pipelineVars,
                    NEW i \in DOMAIN deliveries'
             PROVE  /\ events'[deliveries'[i].event] # "absent"
                    /\ deliveries'[i].destination \in destinations'
  BY DEF RowsRefer, ReferencesExist
<1>1. CASE i \notin DOMAIN deliveries
  <2>1. PICK w \in Workers : Record(w) /\ deliveries'[i] = RowOf(w)
    BY <1>1, NewRow
  <2> QED
    BY <2>1 DEF Record, ReferencesExist, RowOf
<1>2. CASE i \in DOMAIN deliveries
  <2>1. PICK e \in Events, d \in Destinations :
          /\ deliveries[i].event = e /\ deliveries'[i].event = e
          /\ deliveries[i].destination = d /\ deliveries'[i].destination = d
    BY <1>2, RowType, RowsStay DEF PipelineTypeOK, TypeOK
  <2>2. events[e] # "absent" /\ d \in destinations
    BY <1>2, <2>1 DEF RowsRefer, ReferencesExist
  <2>3. ~(DeleteArchived /\ e \in Archived)
    BY <1>2, <2>1 DEF DeleteArchived, Delivered
  <2>4. events'[e] # "absent"
    BY <2>2, <2>3, StatusSteps
  <2>5. d \in destinations'
    BY <1>2, <2>1, <2>2, DestinationSteps DEF CreateDestination, DeleteDestination
  <2> QED
    BY <2>1, <2>4, <2>5
<1> QED
  BY <1>1, <1>2

LEMMA RowsReferInvariant == PipelineSpec => []RowsRefer
<1>1. PipelineInit => RowsRefer
  BY DEF PipelineInit, RowsRefer
<1> QED
  BY <1>1, RowsReferStep, PipelineTypeCorrect, PTL DEF PipelineSpec

-----------------------------------------------------------------------------
(* The status "delivered".                                                 *)
LEMMA SuccessKept ==
  ASSUME PipelineTypeOK, HeldRows, [PipelineNext]_pipelineVars, NEW e, NEW d
  PROVE  HasRow(e, d, "success") => HasRow(e, d, "success")'
<1> SUFFICES ASSUME NEW i \in DOMAIN deliveries, deliveries[i].event = e,
                    deliveries[i].destination = d, deliveries[i].status = "success"
             PROVE  HasRow(e, d, "success")'
  BY DEF HasRow, Attempts
<1>1. \A r \in Retries : i \notin retryRows[r]
  BY DEF HeldRows
<1>2. i \notin Sweepable
  BY DEF Sweepable, RowsWith
<1>3. i \in DOMAIN deliveries' /\ deliveries'[i] = deliveries[i]
  BY <1>1, <1>2, RowsStay
<1> QED
  BY <1>3 DEF HasRow, Attempts

LEMMA SuccessesKept ==
  ASSUME PipelineTypeOK, HeldRows, [PipelineNext]_pipelineVars, NEW e
  PROVE  SuccessfulDestinations(e) \subseteq SuccessfulDestinations(e)'
BY SuccessKept DEF SuccessfulDestinations

LEMMA OriginalShrinks ==
  ASSUME [PipelineNext]_pipelineVars, NEW e
  PROVE  Original(e)' \subseteq Original(e)
BY DestinationSteps DEF Original, RequiredDestinations, CreateDestination, DeleteDestination

(* What a slot has read of the destinations and the rows covers those that *)
(* are original: they can only have become fewer, and successes more.      *)
SlotsCoverOriginal ==
  \A w \in Workers :
    /\ pc[w] = "successes" => Original(EventOf(w)) \subseteq required[w]
    /\ pc[w] = "update" => Original(EventOf(w)) \subseteq SuccessfulDestinations(EventOf(w))

LEMMA SlotsCoverStep ==
  PipelineTypeOK /\ HeldRows /\ SlotsCoverOriginal /\ [PipelineNext]_pipelineVars
    => SlotsCoverOriginal'
<1> SUFFICES ASSUME PipelineTypeOK, HeldRows, SlotsCoverOriginal, [PipelineNext]_pipelineVars,
                    NEW w \in Workers
             PROVE  /\ pc'[w] = "successes" => Original(EventOf(w))' \subseteq required'[w]
                    /\ pc'[w] = "update" =>
                         Original(EventOf(w))' \subseteq SuccessfulDestinations(EventOf(w))'
  BY DEF SlotsCoverOriginal
<1> SUFFICES ASSUME pc'[w] \in {"successes", "update"}
             PROVE  /\ pc'[w] = "successes" => Original(EventOf(w))' \subseteq required'[w]
                    /\ pc'[w] = "update" =>
                         Original(EventOf(w))' \subseteq SuccessfulDestinations(EventOf(w))'
  OBVIOUS
<1> USE DEF PipelineTypeOK
<1>1. pc[w] # "idle" /\ job'[w] = job[w]
  BY PipelineSlot, Arrivals DEF SlotKept
<1>2. PICK e \in Events : EventOf(w) = e /\ EventOf(w)' = e
  BY <1>1, SlotJob DEF TypeOK, EventOf
<1>3. Original(e)' \subseteq Original(e)
  BY OriginalShrinks
<1>4. SuccessfulDestinations(e) \subseteq SuccessfulDestinations(e)'
  BY SuccessesKept
<1>5. Original(EventOf(w))' = Original(e)'
  BY <1>2 DEF Original, RequiredDestinations
<1>6. SuccessfulDestinations(EventOf(w))' = SuccessfulDestinations(e)'
  BY <1>2 DEF SuccessfulDestinations, HasRow, Attempts
<1>7. CASE SlotKept(w)
  BY <1>2, <1>3, <1>4, <1>5, <1>6, <1>7 DEF SlotKept, SlotsCoverOriginal
<1>8. CASE pc'[w] = "successes" /\ ReadRequired(w)
  <2>1. required'[w] = RequiredDestinations(e)
    BY <1>2, <1>8 DEF ReadRequired, TypeOK, WorkerTypeOK
  <2> QED
    BY <1>3, <1>5, <1>8, <2>1 DEF Original
<1>9. CASE pc'[w] = "update" /\ ReadSuccesses(w)
  <2>1. Original(e) \subseteq required[w]
    BY <1>2, <1>9 DEF ReadSuccesses, At, SlotsCoverOriginal
  <2>2. required[w] \subseteq SuccessfulDestinations(e)
    BY <1>2, <1>9 DEF ReadSuccesses, Goto, TypeOK, WorkerTypeOK
  <2> QED
    BY <1>3, <1>4, <1>5, <1>6, <1>9, <2>1, <2>2
<1> QED
  BY <1>7, <1>8, <1>9, PipelineSlot, Arrivals

LEMMA DeliveredCoversStep ==
  PipelineTypeOK /\ HeldRows /\ SlotsCoverOriginal /\ DeliveredCoversOriginal
    /\ [PipelineNext]_pipelineVars => DeliveredCoversOriginal'
<1> SUFFICES ASSUME PipelineTypeOK, HeldRows, SlotsCoverOriginal, DeliveredCoversOriginal,
                    [PipelineNext]_pipelineVars, NEW e \in Events, events'[e] = "delivered"
             PROVE  Original(e)' \subseteq SuccessfulDestinations(e)'
  BY DEF DeliveredCoversOriginal
<1>1. events[e] = "delivered" \/ \E w \in Workers : UpdateEvent(w) /\ EventOf(w) = e
  BY StatusSteps
<1>2. Original(e) \subseteq SuccessfulDestinations(e)
  BY <1>1 DEF DeliveredCoversOriginal, UpdateEvent, At, SlotsCoverOriginal
<1> QED
  BY <1>2, OriginalShrinks, SuccessesKept

(* While destinations come and go and rows are retried and swept, an event *)
(* is marked delivered only if it has succeeded at all that stayed.        *)
THEOREM DeliveredCovers == PipelineSpec => []DeliveredCoversOriginal
<1>1. PipelineInit => SlotsCoverOriginal /\ DeliveredCoversOriginal
  BY DEF PipelineInit, WorkerInit, SlotsCoverOriginal, DeliveredCoversOriginal
<1> QED
  BY <1>1, SlotsCoverStep, DeliveredCoversStep, PipelineTypeCorrect, HeldRowsInvariant, PTL
  DEF PipelineSpec

-----------------------------------------------------------------------------
(* Ingestion.  A request keeps its local state unless the step is its own. *)
WebhookKept(r) ==
  /\ webhookStep'[r] = webhookStep[r]
  /\ webhookTargets'[r] = webhookTargets[r]
  /\ answer'[r] = answer[r]

WebhookActs(r) == WebhookProceed(r) \/ AddFails(r) \/ InterruptWebhook(r)

LEMMA WebhookSteps ==
  ASSUME PipelineTypeOK, [PipelineNext]_pipelineVars, NEW r \in Webhooks
  PROVE  /\ WebhookKept(r) \/ WebhookActs(r)
         /\ webhookEvent' = webhookEvent
<1>1. CASE UNCHANGED webhookVars
  BY <1>1 DEF webhookVars, WebhookKept
<1>2. ASSUME NEW s \in Webhooks, WebhookActs(s)
      PROVE  (r # s => WebhookKept(r)) /\ webhookEvent' = webhookEvent
  BY <1>2 DEF PipelineTypeOK, IngestionTypeOK, WebhookActs, WebhookProceed, CheckDepth, Verify,
     PersistRejected, Persist, SelectTargets, AddJob, AddFails, InterruptWebhook, Reply,
     WebhookGoto, WebhookKept
<1> QED
  BY <1>1, <1>2, Components DEF IngestionNext, WebhookActs

(* What a step of a request does to it.                                    *)
LEMMA WebhookActions ==
  ASSUME PipelineTypeOK, NEW r \in Webhooks, WebhookActs(r)
  PROVE  /\ webhookStep[r] # "done" /\ webhookStep'[r] # "new"
         /\ answer'[r] = "overloaded" => CheckDepth(r) \/ answer[r] = "overloaded"
         /\ webhookStep'[r] = "select" => Persist(r)
         /\ webhookStep'[r] = "enqueue" =>
              \/ SelectTargets(r)
              \/ AddJob(r) /\ answer'[r] = answer[r]
         /\ answer'[r] = "accepted" =>
              \/ SelectTargets(r) /\ webhookStep'[r] = "done"
              \/ AddJob(r) /\ webhookStep'[r] = "done"
              \/ answer[r] = "accepted"
         /\ webhookStep'[r] = "done" => webhookTargets'[r] = {}
         /\ webhookStep'[r] # "done" => answer'[r] = answer[r]
BY DEF PipelineTypeOK, IngestionTypeOK, WebhookActs, WebhookProceed, CheckDepth, Verify,
   PersistRejected, Persist, SelectTargets, AddJob, AddFails, InterruptWebhook, Reply,
   WebhookGoto, WebhookAt

(* A request is answered when it is done, and then holds no target.        *)
AnsweredWhenDone ==
  \A r \in Webhooks :
    /\ webhookStep[r] # "done" => answer[r] = "none"
    /\ webhookStep[r] = "done" => webhookTargets[r] = {}

LEMMA AnsweredInvariant == PipelineSpec => []AnsweredWhenDone
<1>1. PipelineInit => AnsweredWhenDone
  BY DEF PipelineInit, IngestionInit, AnsweredWhenDone
<1>2. PipelineTypeOK /\ AnsweredWhenDone /\ [PipelineNext]_pipelineVars => AnsweredWhenDone'
  BY WebhookSteps, WebhookActions DEF AnsweredWhenDone, WebhookKept
<1> QED
  BY <1>1, <1>2, PipelineTypeCorrect, PTL DEF PipelineSpec

(* With requests about, keys are not archived: a stored event stays.       *)
LEMMA StoredStays ==
  ASSUME PipelineTypeOK, [PipelineNext]_pipelineVars, Aged = {},
         NEW e \in Events, events[e] # "absent"
  PROVE  events'[e] # "absent"
<1>1. e \notin Archived
  BY DEF Archived, Archivable, PipelineTypeOK, ArchiverTypeOK
<1> QED
  BY <1>1, StatusSteps

(* Every stored event was there before, or has a request that is past the  *)
(* check of the queue's depth.                                             *)
StoredHasRequest ==
  \A e \in Events : events[e] # "absent" =>
    \/ e \in Preloaded
    \/ \E r \in Webhooks : /\ webhookEvent[r] = e /\ webhookStep[r] # "new"
                           /\ answer[r] # "overloaded"

LEMMA StoredHasRequestStep ==
  PipelineTypeOK /\ AnsweredWhenDone /\ StoredHasRequest /\ [PipelineNext]_pipelineVars
    => StoredHasRequest'
<1> SUFFICES ASSUME PipelineTypeOK, AnsweredWhenDone, StoredHasRequest,
                    [PipelineNext]_pipelineVars,
                    NEW e \in Events, events'[e] # "absent", e \notin Preloaded
             PROVE  \E r \in Webhooks : /\ webhookEvent'[r] = e /\ webhookStep'[r] # "new"
                                        /\ answer'[r] # "overloaded"
  BY DEF StoredHasRequest
<1>1. CASE events[e] # "absent"
  <2>1. PICK r \in Webhooks : /\ webhookEvent[r] = e /\ webhookStep[r] # "new"
                              /\ answer[r] # "overloaded"
    BY <1>1 DEF StoredHasRequest
  <2>2. webhookEvent'[r] = e
    BY <2>1, WebhookSteps
  <2>3. CASE WebhookKept(r)
    BY <2>1, <2>2, <2>3 DEF WebhookKept
  <2>4. CASE WebhookActs(r)
    BY <2>1, <2>2, <2>4, WebhookActions DEF CheckDepth, WebhookAt
  <2> QED
    BY <2>3, <2>4, WebhookSteps
<1>2. CASE events[e] = "absent"
  <2>1. PICK r \in Webhooks : webhookEvent[r] = e /\ (Persist(r) \/ PersistRejected(r))
    BY <1>2, StatusSteps
  <2>2. webhookEvent'[r] = e /\ webhookStep'[r] # "new"
    BY <2>1, WebhookSteps, WebhookActions DEF WebhookActs, WebhookProceed
  <2>3. answer[r] = "none" /\ ~CheckDepth(r)
    BY <2>1 DEF Persist, PersistRejected, CheckDepth, WebhookAt, AnsweredWhenDone
  <2>4. answer'[r] # "overloaded"
    BY <2>1, <2>3, WebhookActions DEF WebhookActs, WebhookProceed
  <2> QED
    BY <2>2, <2>4
<1> QED
  BY <1>1, <1>2

(* A sender told only to back off has left nothing that would turn its     *)
(* retry into a duplicate, for any number of requests and keys.            *)
THEOREM RefusalLeavesNoTrace == PipelineSpec => []RefusedLeavesNoTrace
<1>1. PipelineInit => StoredHasRequest
  BY DEF PipelineInit, StoredHasRequest
<1>2. StoredHasRequest => RefusedLeavesNoTrace
  BY DEF StoredHasRequest, RefusedLeavesNoTrace, WebhookAt
<1> QED
  BY <1>1, <1>2, StoredHasRequestStep, AnsweredInvariant, PipelineTypeCorrect, PTL
  DEF PipelineSpec

(* A request that fans out has stored its event.                           *)
FansOut(r) == WebhookAt(r, "select") \/ WebhookAt(r, "enqueue") \/ answer[r] = "accepted"

FanOutStored == \A r \in Webhooks : FansOut(r) => events[webhookEvent[r]] # "absent"

LEMMA FanOutSteps ==
  ASSUME PipelineTypeOK, AnsweredWhenDone, [PipelineNext]_pipelineVars,
         NEW r \in Webhooks, FansOut(r)'
  PROVE  \/ FansOut(r)
         \/ /\ Persist(r)
            /\ events[webhookEvent[r]] = "absent" /\ events'[webhookEvent[r]] # "absent"
<1>1. CASE WebhookKept(r)
  BY <1>1 DEF FansOut, WebhookKept, WebhookAt
<1>2. CASE WebhookActs(r) /\ ~FansOut(r)
  <2>1. Persist(r) /\ webhookStep'[r] = "select"
    BY <1>2, WebhookActions DEF FansOut, WebhookAt, SelectTargets, AddJob
  <2>2. webhookEvent[r] \in Events
    BY DEF PipelineTypeOK, IngestionTypeOK
  <2> QED
    BY <2>1, <2>2 DEF Persist, Reply, WebhookGoto, PipelineTypeOK, IngestionTypeOK, TypeOK,
       StoreTypeOK
<1> QED
  BY <1>1, <1>2, WebhookSteps

LEMMA FanOutStoredStep ==
  PipelineTypeOK /\ AnsweredWhenDone /\ FanOutStored /\ [PipelineNext]_pipelineVars
    => FanOutStored'
<1> SUFFICES ASSUME PipelineTypeOK, AnsweredWhenDone, FanOutStored,
                    [PipelineNext]_pipelineVars, NEW r \in Webhooks, FansOut(r)'
             PROVE  events'[webhookEvent'[r]] # "absent"
  BY DEF FanOutStored
<1>1. webhookEvent' = webhookEvent /\ webhookEvent[r] \in Events
  BY WebhookSteps DEF PipelineTypeOK, IngestionTypeOK
<1>2. Aged = {}
  BY PipelineAssumption
<1> QED
  BY <1>1, <1>2, FanOutSteps, StoredStays DEF FanOutStored

LEMMA OneFanOutStep ==
  PipelineTypeOK /\ AnsweredWhenDone /\ FanOutStored /\ OneFanOut /\ [PipelineNext]_pipelineVars
    => OneFanOut'
<1> SUFFICES ASSUME PipelineTypeOK, AnsweredWhenDone, FanOutStored, OneFanOut,
                    [PipelineNext]_pipelineVars,
                    NEW r \in Webhooks, NEW s \in Webhooks, webhookEvent'[r] = webhookEvent'[s],
                    FansOut(r)', FansOut(s)'
             PROVE  r = s
  BY DEF OneFanOut, FansOut
<1>1. webhookEvent[r] = webhookEvent[s]
  BY WebhookSteps
<1>2. CASE FansOut(r) /\ FansOut(s)
  BY <1>1, <1>2 DEF OneFanOut, FansOut
<1>3. ASSUME NEW a \in Webhooks, NEW b \in Webhooks, Persist(a),
             events[webhookEvent[a]] = "absent", a # b
      PROVE  ~Persist(b)
  BY <1>3 DEF Persist, WebhookAt, WebhookGoto, Reply, PipelineTypeOK, IngestionTypeOK
<1> QED
  BY <1>1, <1>2, <1>3, FanOutSteps DEF FanOutStored

(* Requests with the same idempotency key never fan out twice, however     *)
(* many there are and wherever they are interrupted.                       *)
THEOREM FansOutOnce == PipelineSpec => []OneFanOut
<1>1. PipelineInit => FanOutStored /\ OneFanOut
  BY DEF PipelineInit, IngestionInit, FanOutStored, FansOut, OneFanOut, WebhookAt
<1> QED
  BY <1>1, FanOutStoredStep, OneFanOutStep, AnsweredInvariant, PipelineTypeCorrect, PTL
  DEF PipelineSpec

-----------------------------------------------------------------------------
(* Replays.  A replay keeps its local state and its row unless the step is *)
(* its own.                                                                *)
ReplayKept(r) ==
  /\ replayRow'[r] = replayRow[r]
  /\ replayStep'[r] = replayStep[r]
  /\ replayTodo'[r] = replayTodo[r]
  /\ replayEvent'[r] = replayEvent[r]
  /\ replayTargets'[r] = replayTargets[r]
  /\ replayCount'[r] = replayCount[r]

ReplayActs(r) == InsertRequest(r) \/ ReplayProceed(r) \/ FailEvent(r) \/ InterruptReplay(r)

LEMMA ReplaySteps ==
  ASSUME PipelineTypeOK, [PipelineNext]_pipelineVars, NEW r \in Replays
  PROVE  ReplayKept(r) \/ ReplayActs(r)
<1>1. CASE UNCHANGED replayVars
  BY <1>1 DEF replayVars, ReplayKept
<1>2. ASSUME NEW s \in Replays, ReplayActs(s), r # s
      PROVE  ReplayKept(r)
  BY <1>2 DEF PipelineTypeOK, ReplayTypeOK, ReplayActs, ReplayProceed, InsertRequest,
     SelectEvents, SetTotal, ReadDestinations, EnqueueReplay, MarkReplayed, SaveProgress,
     CompleteReplay, FailEvent, InterruptReplay, NextEvent, ReplayGoto, ReplayKept
<1> QED
  BY <1>1, <1>2, Components DEF ReplayNext, ReplayActs

(* The events a replay has handled, those to come and the one it is at are *)
(* its total; before the total is known nothing has been counted.          *)
Handling(r) == IF replayStep[r] \in {"enqueue", "mark"} THEN 1 ELSE 0

Counted(r) ==
  /\ replayStep[r] \in {"new", "select", "total"} =>
       /\ replayRow[r].processed = 0 /\ replayRow[r].failed = 0
       /\ replayCount[r].processed = 0 /\ replayCount[r].failed = 0
  /\ replayStep[r] \in {"read", "enqueue", "mark", "progress", "complete"} =>
       replayRow[r].total = replayCount[r].processed + replayCount[r].failed
                              + Cardinality(replayTodo[r]) + Handling(r)
  /\ replayStep[r] = "complete" => replayTodo[r] = {}
  /\ replayRow[r].processed + replayRow[r].failed <= replayRow[r].total
  /\ replayRow[r].status = "completed" =>
       /\ replayStep[r] = "done"
       /\ replayRow[r].processed + replayRow[r].failed = replayRow[r].total

LEMMA TodoSize ==
  ASSUME ReplayTypeOK, NEW r \in Replays
  PROVE  /\ Cardinality(replayTodo[r]) \in Nat
         /\ replayTodo[r] = {} => Cardinality(replayTodo[r]) = 0
         /\ \A e \in replayTodo[r] :
              /\ Cardinality(replayTodo[r] \ {e}) \in Nat
              /\ Cardinality(replayTodo[r]) = Cardinality(replayTodo[r] \ {e}) + 1
<1>1. IsFiniteSet(replayTodo[r])
  BY ReplayAssumption, FS_Subset DEF ReplayTypeOK
<1>2. \A e \in replayTodo[r] : Cardinality(replayTodo[r] \ {e}) = Cardinality(replayTodo[r]) - 1
  BY <1>1, FS_RemoveElement
<1>3. \A e : IsFiniteSet(replayTodo[r] \ {e})
  BY <1>1, FS_Subset
<1>4. Cardinality(replayTodo[r]) \in Nat
  BY <1>1, FS_CardinalityType
<1>5. \A e \in replayTodo[r] : Cardinality(replayTodo[r] \ {e}) \in Nat
  BY <1>3, FS_CardinalityType
<1>6. replayTodo[r] = {} => Cardinality(replayTodo[r]) = 0
  BY FS_EmptySet
<1> QED
  BY <1>2, <1>4, <1>5, <1>6

LEMMA CountedStep ==
  ASSUME PipelineTypeOK, NEW r \in Replays, Counted(r), ReplayActs(r)
  PROVE  Counted(r)'
<1> USE DEF PipelineTypeOK, ReplayTypeOK
<1>t. /\ replayRow[r] \in [status: RowStatus, total: Nat, processed: Nat, failed: Nat]
      /\ replayCount[r] \in [processed: Nat, failed: Nat]
  OBVIOUS
<1>1. CASE InsertRequest(r)
  BY <1>1 DEF InsertRequest, ReplayAt, ReplayGoto, Counted
<1>2. CASE SelectEvents(r)
  BY <1>2 DEF SelectEvents, ReplayAt, ReplayGoto, Counted
<1>3. CASE SetTotal(r)
  <2>1. /\ replayStep'[r] = IF replayTodo[r] = {} THEN "complete" ELSE "read"
        /\ replayTodo'[r] = replayTodo[r] /\ replayCount'[r] = replayCount[r]
        /\ replayRow'[r].total = Cardinality(replayTodo[r])
        /\ replayRow'[r].processed = 0 /\ replayRow'[r].failed = 0
        /\ replayCount[r].processed = 0 /\ replayCount[r].failed = 0
        /\ replayRow'[r].status = "processing"
    BY <1>3 DEF SetTotal, ReplayAt, ReplayGoto, Counted
  <2> QED
    BY <2>1, TodoSize DEF Counted, Handling
<1>4. CASE ReadDestinations(r)
  <2>1. PICK e \in replayTodo[r] : replayTodo'[r] = replayTodo[r] \ {e}
    BY <1>4 DEF ReadDestinations
  <2>2. /\ replayStep[r] = "read" /\ replayStep'[r] \in {"mark", "enqueue"}
        /\ replayRow'[r] = replayRow[r] /\ replayCount'[r] = replayCount[r]
    BY <1>4 DEF ReadDestinations, ReplayAt, ReplayGoto
  <2> QED
    BY <1>t, <2>1, <2>2, TodoSize DEF Counted, Handling
<1>5. CASE EnqueueReplay(r)
  BY <1>5 DEF EnqueueReplay, ReplayAt, ReplayGoto, Counted, Handling
<1>6. CASE MarkReplayed(r)
  <2>1. /\ replayStep[r] = "mark" /\ replayStep'[r] \in {"progress", "read"}
        /\ replayRow'[r] = replayRow[r] /\ replayTodo'[r] = replayTodo[r]
        /\ replayCount'[r].processed = replayCount[r].processed + 1
        /\ replayCount'[r].failed = replayCount[r].failed
    BY <1>6 DEF MarkReplayed, NextEvent, ReplayAt, ReplayGoto
  <2>2. Handling(r) = 1 /\ Handling(r)' = 0
    BY <2>1 DEF Handling
  <2>3. replayRow[r].total = replayCount[r].processed + replayCount[r].failed
                               + Cardinality(replayTodo[r]) + 1
    BY <2>1, <2>2 DEF Counted
  <2>4. replayRow'[r].total = replayCount'[r].processed + replayCount'[r].failed
                                + Cardinality(replayTodo'[r]) + Handling(r)'
    BY <1>t, <2>1, <2>2, <2>3, TodoSize
  <2> QED
    BY <2>1, <2>4 DEF Counted
<1>7. CASE FailEvent(r)
  <2>1. /\ replayStep'[r] \in {"progress", "read"} /\ replayRow'[r] = replayRow[r]
        /\ replayCount'[r].processed = replayCount[r].processed
        /\ replayCount'[r].failed = replayCount[r].failed + 1
    BY <1>7 DEF FailEvent, NextEvent, ReplayGoto
  <2>2. CASE replayStep[r] \in {"enqueue", "mark"} /\ replayTodo'[r] = replayTodo[r]
    BY <1>t, <2>1, <2>2, TodoSize DEF Counted, Handling
  <2>3. ASSUME NEW e \in replayTodo[r], replayStep[r] = "read",
               replayTodo'[r] = replayTodo[r] \ {e}
        PROVE  Counted(r)'
    <3>2. Handling(r) = 0 /\ Handling(r)' = 0
      BY <2>1, <2>3 DEF Handling
    <3>3. replayRow[r].total = replayCount[r].processed + replayCount[r].failed
                                 + Cardinality(replayTodo[r])
      BY <1>t, <2>3, <3>2, TodoSize DEF Counted
    <3>4. replayRow'[r].total = replayCount'[r].processed + replayCount'[r].failed
                                  + Cardinality(replayTodo'[r]) + Handling(r)'
      BY <1>t, <2>1, <2>3, <3>2, <3>3, TodoSize
    <3> QED
      BY <2>1, <2>3, <3>4 DEF Counted
  <2> QED
    BY <1>7, <2>2, <2>3 DEF FailEvent, ReplayAt
<1>8. CASE SaveProgress(r)
  <2>1. /\ replayStep[r] = "progress"
        /\ replayStep'[r] = IF replayTodo[r] = {} THEN "complete" ELSE "read"
        /\ replayTodo'[r] = replayTodo[r] /\ replayCount'[r] = replayCount[r]
        /\ replayRow'[r].total = replayRow[r].total
        /\ replayRow'[r].status = replayRow[r].status
        /\ replayRow'[r].processed = replayCount[r].processed
        /\ replayRow'[r].failed = replayCount[r].failed
    BY <1>8 DEF SaveProgress, ReplayAt, ReplayGoto
  <2> QED
    BY <1>t, <2>1, TodoSize DEF Counted, Handling
<1>9. CASE CompleteReplay(r)
  <2>1. /\ replayStep[r] = "complete" /\ replayStep'[r] = "done"
        /\ replayTodo'[r] = replayTodo[r] /\ replayCount'[r] = replayCount[r]
        /\ replayRow'[r].total = replayRow[r].total
        /\ replayRow'[r].processed = replayCount[r].processed
        /\ replayRow'[r].failed = replayCount[r].failed
    BY <1>9 DEF CompleteReplay, ReplayAt, ReplayGoto
  <2> QED
    BY <1>t, <2>1, TodoSize DEF Counted, Handling
<1>10. CASE InterruptReplay(r)
  BY <1>10 DEF InterruptReplay, ReplayGoto, Counted
<1> QED
  BY <1>1, <1>2, <1>3, <1>4, <1>5, <1>6, <1>7, <1>8, <1>9, <1>10 DEF ReplayActs, ReplayProceed

LEMMA CountedKept ==
  ASSUME NEW r, Counted(r), ReplayKept(r)
  PROVE  Counted(r)'
BY DEF Counted, Handling, ReplayKept

(* The counters of a replay never exceed its total and add up to it when   *)
(* it is completed, for any batch size and any number of failing events.   *)
THEOREM CountsAddUp == PipelineSpec => []ReplayCountsAddUp
<1> DEFINE Inv == \A r \in Replays : Counted(r)
<1>1. PipelineInit => Inv
  BY DEF PipelineInit, ReplayInit, Counted
<1>2. PipelineTypeOK /\ Inv /\ [PipelineNext]_pipelineVars => Inv'
  BY ReplaySteps, CountedStep, CountedKept
<1>3. Inv => ReplayCountsAddUp
  BY DEF Counted, ReplayCountsAddUp
<1> HIDE DEF Inv
<1> QED
  BY <1>1, <1>2, <1>3, PipelineTypeCorrect, PTL DEF PipelineSpec

-----------------------------------------------------------------------------
(* Nothing goes out of sight.  Jobs are only added by the components other *)
(* than the worker.                                                        *)
LEMMA QueueGrows ==
  ASSUME PipelineTypeOK, [PipelineNext]_pipelineVars
  PROVE  \/ [Next]_vars
         \/ /\ UNCHANGED <<delayed, failed, workerVars>>
            /\ \A j \in Job : waiting'[j] >= waiting[j]
<1> USE DEF PipelineTypeOK, TypeOK, StoreTypeOK
<1>e. \A pairs : \A j \in Job : Enqueued(waiting, pairs)[j] >= waiting[j]
  BY DEF Enqueued
<1>n. \A j \in Job : waiting[j] >= waiting[j]
  OBVIOUS
<1>1. CASE IngestionNext
  <2>1. UNCHANGED <<delayed, failed, workerVars>>
    BY <1>1 DEF IngestionNext, WebhookProceed, CheckDepth, Verify, PersistRejected, Persist,
       SelectTargets, AddJob, AddFails, InterruptWebhook, storeVars, queueVars
  <2>2. waiting' = waiting \/ \E pairs : waiting' = Enqueued(waiting, pairs)
    BY <1>1 DEF IngestionNext, WebhookProceed, CheckDepth, Verify, PersistRejected, Persist,
       SelectTargets, AddJob, AddFails, InterruptWebhook, storeVars, queueVars
  <2> QED
    BY <1>e, <1>n, <2>1, <2>2
<1>2. CASE DeadLettersNext /\ UNCHANGED workerVars
  <2>1. UNCHANGED <<delayed, failed>>
    BY <1>2 DEF DeadLettersNext, SelectDeadLetters, ResetDeadLetters, EnqueueRetries,
       InterruptRetry, Sweep, storeVars, queueVars
  <2>2. waiting' = waiting \/ \E r \in Retries : EnqueueRetries(r)
    BY <1>2 DEF DeadLettersNext, SelectDeadLetters, ResetDeadLetters, InterruptRetry, Sweep,
       storeVars, queueVars
  <2>3. ASSUME NEW r \in Retries, EnqueueRetries(r), NEW j \in Job
        PROVE  waiting'[j] >= waiting[j]
    <3>1. Cardinality(retryRows[r] \cap Attempts(j.event, j.destination)) \in Nat
      BY RetryCounts
    <3> QED
      BY <2>3, <3>1 DEF EnqueueRetries
  <2> QED
    BY <1>2, <1>n, <2>1, <2>2, <2>3
<1>3. CASE ReplayNext /\ UNCHANGED workerVars
  <2>1. UNCHANGED <<delayed, failed>>
    BY <1>3 DEF ReplayNext, ReplayProceed, InsertRequest, SelectEvents, SetTotal,
       ReadDestinations, EnqueueReplay, MarkReplayed, SaveProgress, CompleteReplay, FailEvent,
       InterruptReplay, storeVars, queueVars
  <2>2. waiting' = waiting \/ \E pairs : waiting' = Enqueued(waiting, pairs)
    BY <1>3 DEF ReplayNext, ReplayProceed, InsertRequest, SelectEvents, SetTotal,
       ReadDestinations, EnqueueReplay, MarkReplayed, SaveProgress, CompleteReplay, FailEvent,
       InterruptReplay, storeVars, queueVars
  <2> QED
    BY <1>3, <1>e, <1>n, <2>1, <2>2
<1>4. CASE DestinationRoutesNext /\ UNCHANGED workerVars
  BY <1>4, <1>n DEF DestinationRoutesNext, CreateDestination, DeleteDestination, queueVars
<1>5. CASE ArchiverNext /\ UNCHANGED workerVars
  BY <1>5, <1>n DEF ArchiverNext, GrowOld, CopyToArchive, DeleteArchived, DeleteRefused,
     InterruptArchiver, storeVars, queueVars
<1> QED
  BY <1>1, <1>2, <1>3, <1>4, <1>5, Components

(* A retry keeps its rows until they are queued, unless it is interrupted. *)
LEMMA RetryStepSteps ==
  ASSUME PipelineTypeOK, [PipelineNext]_pipelineVars, NEW r \in Retries,
         retryStep[r] = "enqueue"
  PROVE  \/ retryStep'[r] = "enqueue" /\ retryRows'[r] = retryRows[r]
         \/ EnqueueRetries(r)
         \/ InterruptRetry(r)
<1>1. CASE DeadLettersNext
  BY <1>1 DEF PipelineTypeOK, DeadLettersTypeOK, DeadLettersNext, SelectDeadLetters,
     ResetDeadLetters, EnqueueRetries, InterruptRetry, Sweep, retryVars
<1>2. CASE UNCHANGED retryVars
  BY <1>2 DEF retryVars
<1> QED
  BY <1>1, <1>2, Components

LEMMA RetryQueued ==
  ASSUME PipelineTypeOK, NEW e \in Events, NEW d \in Destinations,
         NEW r \in Retries, EnqueueRetries(r), retryRows[r] \cap Attempts(e, d) # {}
  PROVE  Queued(waiting, e, d)'
<1> DEFINE j == [event |-> e, destination |-> d, stalled |-> FALSE]
           rows == retryRows[r] \cap Attempts(e, d)
<1>1. j \in Job /\ j.event = e /\ j.destination = d /\ ~j.stalled
  BY DEF Job
<1>2. IsFiniteSet(rows)
  <2>1. DOMAIN deliveries = 1..Len(deliveries) /\ Len(deliveries) \in Nat
    BY DEF PipelineTypeOK, TypeOK, StoreTypeOK
  <2>2. IsFiniteSet(DOMAIN deliveries)
    BY <2>1, FS_Interval
  <2> QED
    BY <2>2, FS_Subset DEF Attempts
<1>3. Cardinality(rows) \in Nat /\ Cardinality(rows) # 0
  BY <1>2, FS_CardinalityType, FS_EmptySet
<1>4. waiting'[j] = waiting[j] + Cardinality(rows)
  BY <1>1 DEF EnqueueRetries
<1>5. waiting'[j] > 0
  BY <1>1, <1>3, <1>4 DEF PipelineTypeOK, TypeOK, StoreTypeOK
<1> QED
  BY <1>1, <1>5 DEF Queued

(* A pair that is settled, on its way, failed or held by a retry is so     *)
(* after any step, unless the step interrupts a retry or takes the event   *)
(* or the destination away.                                                *)
LEMMA TrackedKept ==
  ASSUME PipelineTypeOK, HeldRows, [PipelineNext]_pipelineVars,
         \A r \in Retries : ~InterruptRetry(r),
         NEW e \in Events, NEW d \in Destinations, ReferencesExist(e, d), Tracked(e, d)
  PROVE  Tracked(e, d)'
<1>1. CASE HasRow(e, d, "success")
  BY <1>1, SuccessKept DEF Tracked, Settled
<1>2. CASE HasRow(e, d, "dead_letter")
  <2>1. PICK i \in DOMAIN deliveries : /\ deliveries[i].event = e
                                       /\ deliveries[i].destination = d
                                       /\ deliveries[i].status = "dead_letter"
    BY <1>2 DEF HasRow, Attempts
  <2>2. i \in Attempts(e, d)'
    BY <2>1, RowsStay DEF Attempts
  <2>3. ASSUME NEW r \in Retries, ResetDeadLetters(r), i \in retryRows[r]
        PROVE  HeldByRetry(e, d)'
    BY <2>2, <2>3 DEF ResetDeadLetters, HeldByRetry, PipelineTypeOK, DeadLettersTypeOK
  <2>4. CASE deliveries'[i] = deliveries[i]
    BY <2>1, <2>2, <2>4 DEF Tracked, Settled, HasRow
  <2> QED
    BY <2>1, <2>3, <2>4, RowsStay DEF Sweepable, RowsWith, Tracked
<1>3. CASE Queued(failed, e, d)
  <2>1. CASE [Next]_vars
    BY <1>3, <2>1, FailedKept DEF PipelineTypeOK, Tracked
  <2>2. CASE failed' = failed
    BY <1>3, <2>2 DEF Queued, Tracked
  <2> QED
    BY <2>1, <2>2, QueueGrows
<1>4. CASE HeldByRetry(e, d)
  <2>1. PICK r \in Retries : retryStep[r] = "enqueue" /\ retryRows[r] \cap Attempts(e, d) # {}
    BY <1>4 DEF HeldByRetry
  <2>2. CASE EnqueueRetries(r)
    BY <2>1, <2>2, RetryQueued DEF Tracked, InFlight
  <2>3. CASE retryStep'[r] = "enqueue" /\ retryRows'[r] = retryRows[r]
    <3>1. Attempts(e, d) \subseteq Attempts(e, d)'
      BY RowsStay DEF Attempts
    <3> QED
      BY <2>1, <2>3, <3>1 DEF HeldByRetry, Tracked
  <2> QED
    BY <2>1, <2>2, <2>3, RetryStepSteps
<1>5. CASE InFlight(e, d)
  <2>1. CASE [Next]_vars
    BY <1>5, <2>1, InFlightStep, RecordSettles DEF PipelineTypeOK, Tracked
  <2>2. CASE /\ UNCHANGED <<delayed, failed, workerVars>>
             /\ \A j \in Job : waiting'[j] >= waiting[j]
    <3>0. \A j \in Job : waiting[j] \in Nat /\ waiting'[j] \in Nat
      BY PipelineStepType DEF PipelineTypeOK, TypeOK, StoreTypeOK
    <3>1. Queued(waiting, e, d) => Queued(waiting, e, d)'
      BY <2>2, <3>0 DEF Queued
    <3>2. Queued(delayed, e, d) => Queued(delayed, e, d)'
      BY <2>2 DEF Queued
    <3>3. Delivering(e, d) => Delivering(e, d)'
      BY <2>2 DEF workerVars, slotVars, Delivering, InAttempt, EventOf, DestinationOf
    <3> QED
      BY <1>5, <3>1, <3>2, <3>3 DEF InFlight, Tracked
  <2> QED
    BY <2>1, <2>2, QueueGrows
<1> QED
  BY <1>1, <1>2, <1>3, <1>4, <1>5 DEF Tracked, Settled

(* Without a retry that is interrupted between the reset of its rows and   *)
(* the jobs.  RetryInterrupted shows that the theorems need it.            *)
RetriesUninterrupted == [][\A r \in Retries : ~InterruptRetry(r)]_pipelineVars

LEMMA EnqueuedPair ==
  ASSUME PipelineTypeOK, NEW e \in Events, NEW d \in Destinations,
         NEW pairs, <<e, d>> \in pairs, waiting' = Enqueued(waiting, pairs)
  PROVE  Tracked(e, d)'
<1> DEFINE j == [event |-> e, destination |-> d, stalled |-> FALSE]
<1>1. j \in Job /\ j.event = e /\ j.destination = d /\ ~j.stalled
  BY DEF Job
<1> HIDE DEF j
<1>2. waiting'[j] = waiting[j] + 1
  BY <1>1 DEF Enqueued
<1>3. waiting'[j] > 0
  BY <1>1, <1>2 DEF PipelineTypeOK, TypeOK, StoreTypeOK
<1> QED
  BY <1>1, <1>3 DEF Queued, InFlight, Tracked

LEMMA OriginalExists ==
  ASSUME PipelineTypeOK, NEW e, NEW d \in Original(e), events[e] # "absent"
  PROVE  d \in Destinations /\ ReferencesExist(e, d)
BY DEF Original, RequiredDestinations, ReferencesExist, PipelineTypeOK, TypeOK, StoreTypeOK

(* Only old events are archived, and an archived one is not stored again.  *)
ArchiveIsAged == archive \subseteq Aged

LEMMA ArchiveIsAgedInvariant == PipelineSpec => []ArchiveIsAged
<1>1. PipelineInit => ArchiveIsAged
  BY DEF PipelineInit, ArchiverInit, ArchiveIsAged
<1>2. PipelineTypeOK /\ ArchiveIsAged /\ [PipelineNext]_pipelineVars => ArchiveIsAged'
  <2> SUFFICES ASSUME PipelineTypeOK, ArchiveIsAged, [PipelineNext]_pipelineVars
               PROVE  ArchiveIsAged'
    OBVIOUS
  <2>1. Archivable \subseteq Aged
    BY DEF Archivable, PipelineTypeOK, ArchiverTypeOK
  <2>2. CASE ArchiverNext
    BY <2>1, <2>2 DEF ArchiverNext, GrowOld, CopyToArchive, DeleteArchived, DeleteRefused,
       InterruptArchiver, ArchiveIsAged
  <2>3. CASE UNCHANGED archiverVars
    BY <2>3 DEF archiverVars, ArchiveIsAged
  <2> QED
    BY <2>2, <2>3, Components
<1> QED
  BY <1>1, <1>2, PipelineTypeCorrect, PTL DEF PipelineSpec

LEMMA Appears ==
  ASSUME PipelineTypeOK, [PipelineNext]_pipelineVars, NEW e \in Events,
         events[e] = "absent", events'[e] # "absent"
  PROVE  Aged = {}
BY StatusSteps, PipelineAssumption

LEMMA RetryKeepsTrackStep ==
  PipelineTypeOK /\ HeldRows /\ ArchiveIsAged /\ NoEventVanishes /\ RetryKeepsTrack
    /\ [PipelineNext]_pipelineVars /\ [\A r \in Retries : ~InterruptRetry(r)]_pipelineVars
    => RetryKeepsTrack'
<1> SUFFICES ASSUME PipelineTypeOK, HeldRows, ArchiveIsAged, NoEventVanishes, RetryKeepsTrack,
                    [PipelineNext]_pipelineVars,
                    [\A r \in Retries : ~InterruptRetry(r)]_pipelineVars,
                    NEW e \in Preloaded, events'[e] # "absent", NEW d \in Original(e)'
             PROVE  Tracked(e, d)'
  BY DEF RetryKeepsTrack
<1>0. \A r \in Retries : ~InterruptRetry(r)
  BY DEF InterruptRetry, Interruption, pipelineVars, PipelineTypeOK, RequestsTypeOK
<1>1. e \in Events /\ d \in Original(e)
  BY PipelineAssumption, OriginalShrinks
<1>2. events[e] # "absent"
  BY <1>1, Appears DEF NoEventVanishes, ArchiveIsAged
<1> QED
  BY <1>0, <1>1, <1>2, OriginalExists, TrackedKept DEF RetryKeepsTrack

(* Retrying dead letters, any number of them at once and beside everything *)
(* else, loses sight of no delivery unless a retry is interrupted.         *)
THEOREM RetriesKeepTrack == PipelineSpec /\ RetriesUninterrupted => []RetryKeepsTrack
<1>1. PipelineInit => RetryKeepsTrack
  <2> SUFFICES ASSUME PipelineInit, NEW e \in Preloaded, NEW d \in Original(e)
               PROVE  Tracked(e, d)
    BY DEF RetryKeepsTrack
  <2> DEFINE j == [event |-> e, destination |-> d, stalled |-> FALSE]
  <2>1. e \in Events /\ d \in Destinations /\ d \in destinations /\ d \in Matched[e]
    BY PipelineAssumption DEF Original, RequiredDestinations, PipelineInit
  <2>2. j \in Job /\ j.event = e /\ j.destination = d /\ ~j.stalled
    BY <2>1 DEF Job
  <2>3. <<e, d>> \in {p \in Preloaded \X destinations : p[2] \in Matched[p[1]]}
    BY <2>1
  <2>4. waiting[j] > 0
    BY <2>2, <2>3 DEF PipelineInit, Enqueued, NoJobs
  <2> QED
    BY <2>2, <2>4 DEF Queued, InFlight, Tracked
<1> QED
  BY <1>1, RetryKeepsTrackStep, PipelineTypeCorrect, HeldRowsInvariant, ArchiveIsAgedInvariant,
     NothingVanishes, PTL DEF PipelineSpec, RetriesUninterrupted

(* Of the destinations of its event, a request that has begun to queue     *)
(* jobs still holds those whose job it has not queued.                     *)
FanOutTracked ==
  \A r \in Webhooks :
    WebhookAt(r, "enqueue") \/ answer[r] = "accepted" =>
      \A d \in Original(webhookEvent[r]) \ webhookTargets[r] : Tracked(webhookEvent[r], d)

LEMMA FanOutTrackedStep ==
  PipelineTypeOK /\ HeldRows /\ AnsweredWhenDone /\ FanOutStored /\ FanOutTracked
    /\ [PipelineNext]_pipelineVars /\ [\A r \in Retries : ~InterruptRetry(r)]_pipelineVars
    => FanOutTracked'
<1> SUFFICES ASSUME PipelineTypeOK, HeldRows, AnsweredWhenDone, FanOutStored, FanOutTracked,
                    [PipelineNext]_pipelineVars,
                    [\A r \in Retries : ~InterruptRetry(r)]_pipelineVars,
                    NEW r \in Webhooks,
                    webhookStep'[r] = "enqueue" \/ answer'[r] = "accepted",
                    NEW d \in Original(webhookEvent[r])', d \notin webhookTargets'[r]
             PROVE  Tracked(webhookEvent[r], d)'
  BY DEF FanOutTracked, WebhookAt
<1>0. \A s \in Retries : ~InterruptRetry(s)
  BY DEF InterruptRetry, Interruption, pipelineVars, PipelineTypeOK, RequestsTypeOK
<1>1. PICK e \in Events : webhookEvent[r] = e /\ webhookEvent'[r] = e
  BY WebhookSteps DEF PipelineTypeOK, IngestionTypeOK
<1>2. d \in Original(e)' /\ (Tracked(webhookEvent[r], d)' <=> Tracked(e, d)')
  BY <1>1 DEF Original, RequiredDestinations, Tracked, Settled, HasRow, Attempts, InFlight,
     Queued, Delivering, InAttempt, HeldByRetry
<1>3. d \in Original(e)
  BY <1>2, OriginalShrinks
<1>4. ASSUME WebhookAt(r, "enqueue") \/ answer[r] = "accepted", d \notin webhookTargets[r]
      PROVE  Tracked(e, d)'
  <2>1. events[e] # "absent"
    BY <1>1, <1>4 DEF FanOutStored, FansOut
  <2>2. Tracked(e, d)
    BY <1>1, <1>3, <1>4 DEF FanOutTracked
  <2> QED
    BY <1>0, <1>3, <2>1, <2>2, OriginalExists, TrackedKept
<1>5. CASE WebhookKept(r)
  BY <1>2, <1>4, <1>5 DEF WebhookKept, WebhookAt
<1>6. CASE AddJob(r)
  <2>1. PICK c \in webhookTargets[r] :
          /\ waiting' = Enqueued(waiting, {<<e, c>>})
          /\ webhookTargets'[r] = webhookTargets[r] \ {c}
    BY <1>1, <1>6 DEF AddJob, Reply, PipelineTypeOK, IngestionTypeOK
  <2>2. CASE d = c
    <3>1. d \in Destinations
      BY <2>2 DEF PipelineTypeOK, IngestionTypeOK
    <3> QED
      BY <1>2, <2>1, <2>2, <3>1, EnqueuedPair
  <2>3. CASE d # c
    BY <1>2, <1>4, <1>6, <2>1, <2>3 DEF AddJob
  <2> QED
    BY <2>2, <2>3
<1>7. CASE SelectTargets(r)
  <2>1. webhookTargets'[r] = RequiredDestinations(e)
    BY <1>1, <1>7 DEF SelectTargets, Reply, PipelineTypeOK, IngestionTypeOK
  <2> QED
    BY <1>3, <2>1 DEF Original
<1>8. CASE WebhookActs(r) /\ answer[r] = "accepted"
  BY <1>8, WebhookActions DEF AnsweredWhenDone
<1> QED
  BY <1>5, <1>6, <1>7, <1>8, WebhookSteps, WebhookActions

(* A sender told "accepted" can forget the event: at every destination of  *)
(* its scope it is delivered, dead-lettered, failed or on its way.         *)
THEOREM AcceptedStaysTracked == PipelineSpec /\ RetriesUninterrupted => []AcceptedIsTracked
<1>1. PipelineInit => FanOutStored /\ FanOutTracked
  BY DEF PipelineInit, IngestionInit, FanOutStored, FansOut, FanOutTracked, WebhookAt
<1>2. AnsweredWhenDone /\ FanOutTracked => AcceptedIsTracked
  BY DEF AnsweredWhenDone, FanOutTracked, AcceptedIsTracked
<1> QED
  BY <1>1, <1>2, FanOutTrackedStep, FanOutStoredStep, PipelineTypeCorrect, HeldRowsInvariant,
     AnsweredInvariant, PTL DEF PipelineSpec, RetriesUninterrupted

(* Where a step of a replay leads, and from which steps.                   *)
LEMMA ReplayActions ==
  ASSUME PipelineTypeOK, NEW r \in Replays, ReplayActs(r)
  PROVE  /\ replayStep'[r] = "enqueue" => ReadDestinations(r)
         /\ replayStep'[r] = "mark" =>
              \/ EnqueueReplay(r) /\ replayEvent'[r] = replayEvent[r]
              \/ ReadDestinations(r) /\ destinations = {}
         /\ replayEvent'[r] = replayEvent[r] \/ replayEvent'[r] = NoEvent
              \/ replayEvent'[r] \in replayTodo[r]
         /\ replayTodo'[r] \subseteq replayTodo[r]
              \/ replayTodo'[r] \subseteq {e \in Events : events[e] # "absent"}
BY DEF PipelineTypeOK, ReplayTypeOK, ReplayActs, ReplayProceed, InsertRequest, SelectEvents,
   SetTotal, ReadDestinations, EnqueueReplay, MarkReplayed, SaveProgress, CompleteReplay,
   FailEvent, InterruptReplay, NextEvent, ReplayGoto, ReplayAt

(* While no event is archived, what a replay has selected is still stored. *)
ReplaysStored ==
  Aged = {} => \A r \in Replays :
    /\ \A e \in replayTodo[r] : events[e] # "absent"
    /\ replayEvent[r] # NoEvent => events[replayEvent[r]] # "absent"

LEMMA ReplaysStoredInvariant == PipelineSpec => []ReplaysStored
<1>1. PipelineInit => ReplaysStored
  BY DEF PipelineInit, ReplayInit, ReplaysStored
<1>2. PipelineTypeOK /\ ReplaysStored /\ [PipelineNext]_pipelineVars => ReplaysStored'
  <2> SUFFICES ASSUME PipelineTypeOK, ReplaysStored, [PipelineNext]_pipelineVars, Aged = {},
                      NEW r \in Replays
               PROVE  /\ \A e \in replayTodo'[r] : events'[e] # "absent"
                      /\ replayEvent'[r] # NoEvent => events'[replayEvent'[r]] # "absent"
    BY DEF ReplaysStored
  <2>1. \A e \in Events : events[e] # "absent" => events'[e] # "absent"
    BY StoredStays
  <2>2. /\ replayTodo[r] \subseteq Events
        /\ replayEvent[r] # NoEvent => replayEvent[r] \in Events
    BY DEF PipelineTypeOK, ReplayTypeOK
  <2>3. CASE ReplayKept(r)
    BY <2>1, <2>2, <2>3 DEF ReplayKept, ReplaysStored
  <2>4. CASE ReplayActs(r)
    BY <2>1, <2>2, <2>4, ReplayActions DEF ReplaysStored
  <2> QED
    BY <2>3, <2>4, ReplaySteps
<1> QED
  BY <1>1, <1>2, PipelineTypeCorrect, PTL DEF PipelineSpec

(* A replay is at an event while it queues and marks it.                   *)
ReplaysHold == \A r \in Replays : replayStep[r] \in {"enqueue", "mark"} => replayEvent[r] # NoEvent

LEMMA ReplaysHoldInvariant == PipelineSpec => []ReplaysHold
<1>1. PipelineInit => ReplaysHold
  BY DEF PipelineInit, ReplayInit, ReplaysHold
<1>2. PipelineTypeOK /\ ReplaysHold /\ [PipelineNext]_pipelineVars => ReplaysHold'
  <2> SUFFICES ASSUME PipelineTypeOK, ReplaysHold, [PipelineNext]_pipelineVars,
                      NEW r \in Replays, replayStep'[r] \in {"enqueue", "mark"}
               PROVE  replayEvent'[r] # NoEvent
    BY DEF ReplaysHold
  <2>1. CASE ReplayKept(r)
    BY <2>1 DEF ReplayKept, ReplaysHold
  <2>2. CASE ReadDestinations(r)
    BY <2>2, ReplayAssumption DEF ReadDestinations, PipelineTypeOK, ReplayTypeOK
  <2>3. CASE EnqueueReplay(r) /\ replayEvent'[r] = replayEvent[r]
    BY <2>3 DEF EnqueueReplay, ReplayAt, ReplaysHold
  <2> QED
    BY <2>1, <2>2, <2>3, ReplaySteps, ReplayActions
<1> QED
  BY <1>1, <1>2, PipelineTypeCorrect, PTL DEF PipelineSpec

(* What a replay is about to queue covers the destinations that stay, and  *)
(* once it has queued an event, the event is tracked at all of them.       *)
ReplaysTracked ==
  \A r \in Replays :
    /\ replayStep[r] = "enqueue" => destinations \ Late \subseteq replayTargets[r]
    /\ replayStep[r] = "mark" /\ events[replayEvent[r]] # "absent" =>
         \A d \in destinations \ Late : Tracked(replayEvent[r], d)

LEMMA StayedDestinations ==
  ASSUME [PipelineNext]_pipelineVars
  PROVE  destinations' \ Late \subseteq destinations \ Late
BY DestinationSteps DEF CreateDestination, DeleteDestination

LEMMA ReplaysTrackedStep ==
  PipelineTypeOK /\ HeldRows /\ ReplaysStored /\ ReplaysHold /\ ReplaysTracked
    /\ [PipelineNext]_pipelineVars /\ [\A r \in Retries : ~InterruptRetry(r)]_pipelineVars
    => ReplaysTracked'
<1> SUFFICES ASSUME PipelineTypeOK, HeldRows, ReplaysStored, ReplaysHold, ReplaysTracked,
                    [PipelineNext]_pipelineVars,
                    [\A r \in Retries : ~InterruptRetry(r)]_pipelineVars,
                    NEW r \in Replays
             PROVE  /\ replayStep'[r] = "enqueue" =>
                         destinations' \ Late \subseteq replayTargets'[r]
                    /\ replayStep'[r] = "mark" /\ events'[replayEvent'[r]] # "absent" =>
                         \A d \in destinations' \ Late : Tracked(replayEvent[r], d)'
  BY DEF ReplaysTracked
<1>0. \A s \in Retries : ~InterruptRetry(s)
  BY DEF InterruptRetry, Interruption, pipelineVars, PipelineTypeOK, RequestsTypeOK
<1>1. destinations' \ Late \subseteq destinations \ Late
  BY StayedDestinations
<1>2. CASE replayStep'[r] = "enqueue"
  <2>1. CASE ReplayKept(r)
    BY <1>1, <1>2, <2>1 DEF ReplayKept, ReplaysTracked
  <2>2. CASE ReadDestinations(r)
    BY <1>1, <1>2, <2>2 DEF ReadDestinations, PipelineTypeOK, ReplayTypeOK
  <2> QED
    BY <1>2, <2>1, <2>2, ReplaySteps, ReplayActions
<1>3. CASE replayStep'[r] = "mark" /\ events'[replayEvent'[r]] # "absent"
  <2> SUFFICES ASSUME NEW d \in destinations', d \notin Late
               PROVE  Tracked(replayEvent[r], d)'
    BY <1>3
  <2>1. d \in destinations /\ d \in Destinations
    BY <1>1 DEF PipelineTypeOK, TypeOK, StoreTypeOK
  <2>2. ~(ReadDestinations(r) /\ destinations = {})
    BY <2>1
  <2>3. /\ replayStep[r] \in {"enqueue", "mark"} /\ replayEvent'[r] = replayEvent[r]
        /\ ReplayKept(r) \/ EnqueueReplay(r)
    BY <1>3, <2>2, ReplaySteps, ReplayActions DEF ReplayKept, EnqueueReplay, ReplayAt
  <2>4. PICK e \in Events : replayEvent[r] = e /\ replayEvent'[r] = e
    BY <2>3 DEF ReplaysHold, PipelineTypeOK, ReplayTypeOK
  <2>5. Tracked(replayEvent[r], d)' <=> Tracked(e, d)'
    BY <2>4 DEF Tracked, Settled, HasRow, Attempts, InFlight, Queued, Delivering, InAttempt,
       HeldByRetry
  <2>6. CASE EnqueueReplay(r)
    <3>1. d \in replayTargets[r]
      BY <2>1, <2>6 DEF EnqueueReplay, ReplayAt, ReplaysTracked
    <3>2. /\ waiting' = Enqueued(waiting, {e} \X replayTargets[r])
          /\ <<e, d>> \in {e} \X replayTargets[r]
      BY <2>4, <2>6, <3>1 DEF EnqueueReplay
    <3> QED
      BY <2>1, <2>5, <3>2, EnqueuedPair
  <2>7. CASE ReplayKept(r)
    <3>1. replayStep[r] = "mark" /\ events'[e] # "absent"
      BY <1>3, <2>4, <2>7 DEF ReplayKept
    <3>2. events[e] # "absent"
      BY <2>4, <3>1, Appears, ReplayAssumption DEF ReplaysStored
    <3>3. Tracked(e, d)
      BY <2>1, <2>4, <3>1, <3>2 DEF ReplaysTracked
    <3> QED
      BY <1>0, <2>1, <2>5, <3>2, <3>3, TrackedKept DEF ReferencesExist
  <2> QED
    BY <2>3, <2>6, <2>7
<1> QED
  BY <1>2, <1>3

LEMMA ReplayedStep ==
  PipelineTypeOK /\ HeldRows /\ ReplaysTracked /\ ReplayedIsTracked
    /\ [PipelineNext]_pipelineVars /\ [\A r \in Retries : ~InterruptRetry(r)]_pipelineVars
    => ReplayedIsTracked'
<1> SUFFICES ASSUME PipelineTypeOK, HeldRows, ReplaysTracked, ReplayedIsTracked,
                    [PipelineNext]_pipelineVars,
                    [\A r \in Retries : ~InterruptRetry(r)]_pipelineVars,
                    NEW e \in Events, events'[e] = "replayed",
                    NEW d \in destinations', d \notin Late
             PROVE  Tracked(e, d)'
  BY DEF ReplayedIsTracked
<1>0. \A s \in Retries : ~InterruptRetry(s)
  BY DEF InterruptRetry, Interruption, pipelineVars, PipelineTypeOK, RequestsTypeOK
<1>1. d \in destinations /\ d \in Destinations
  BY StayedDestinations DEF PipelineTypeOK, TypeOK, StoreTypeOK
<1>2. events[e] # "absent" /\ Tracked(e, d)
  <2>1. CASE events[e] = "replayed"
    BY <1>1, <2>1 DEF ReplayedIsTracked
  <2>2. ASSUME NEW r \in Replays, MarkReplayed(r), replayEvent[r] = e, events[e] # "absent"
        PROVE  Tracked(e, d)
    BY <1>1, <2>2 DEF MarkReplayed, ReplayAt, ReplaysTracked
  <2> QED
    BY <2>1, <2>2, StatusSteps
<1> QED
  BY <1>0, <1>1, <1>2, TrackedKept DEF ReferencesExist

(* An event marked replayed has been queued for every destination of its   *)
(* source, for any number of replays that overlap.                         *)
THEOREM ReplayedStaysTracked == PipelineSpec /\ RetriesUninterrupted => []ReplayedIsTracked
<1>1. PipelineInit => ReplaysTracked /\ ReplayedIsTracked
  BY DEF PipelineInit, ReplayInit, ReplaysTracked, ReplayedIsTracked
<1> QED
  BY <1>1, ReplaysTrackedStep, ReplayedStep, PipelineTypeCorrect, HeldRowsInvariant,
     ReplaysStoredInvariant, ReplaysHoldInvariant, PTL DEF PipelineSpec, RetriesUninterrupted
-----------------------------------------------------------------------------
(* Shutdown.  While the worker is being closed no handler is in progress,  *)
(* and once it is drained no slot is.                                      *)
ClosedInOrder ==
  /\ WorkerClosing => HandlersIdle
  /\ (\E s \in Signals : shutdownStep[s] = "drained") => \A w \in Workers : At(w, "idle")

(* Where the requests that act begin, and that they have begun after it.   *)
LEMMA RetryActions ==
  ASSUME PipelineTypeOK, DeadLettersNext
  PROVE  Sweep \/ \E r \in Retries : retryStep[r] # "done" /\ retryStep'[r] # "new"
BY DEF DeadLettersNext, SelectDeadLetters, ResetDeadLetters, EnqueueRetries, InterruptRetry,
   PipelineTypeOK, DeadLettersTypeOK

LEMMA ReplayBegun ==
  ASSUME PipelineTypeOK, NEW r \in Replays, ReplayActs(r)
  PROVE  replayStep[r] # "done" /\ replayStep'[r] # "new"
BY DEF PipelineTypeOK, ReplayTypeOK, ReplayActs, ReplayProceed, InsertRequest, SelectEvents,
   SetTotal, ReadDestinations, EnqueueReplay, MarkReplayed, SaveProgress, CompleteReplay,
   FailEvent, InterruptReplay, NextEvent, ReplayGoto, ReplayAt

(* While the server is closing and no handler is in progress, no request   *)
(* acts.                                                                   *)
LEMMA NobodyActs ==
  ASSUME PipelineTypeOK, HandlersIdle, NoRequestStarts
  PROVE  ~IngestionNext /\ (DeadLettersNext => Sweep) /\ ~ReplayNext
<1>1. ~IngestionNext
  BY WebhookActions DEF IngestionNext, WebhookActs, HandlersIdle, NoRequestStarts
<1>2. DeadLettersNext => Sweep
  BY RetryActions DEF HandlersIdle, NoRequestStarts
<1>3. ~ReplayNext
  BY ReplayBegun DEF ReplayNext, ReplayActs, HandlersIdle, NoRequestStarts
<1> QED
  BY <1>1, <1>2, <1>3

LEMMA NoSlotActs ==
  ASSUME PipelineTypeOK, \A w \in Workers : At(w, "idle"), NoJobStarts
  PROVE  ~WorkerNext
<1>1. ASSUME NEW w \in Workers PROVE ~(TakeJob(w) \/ Proceed(w) \/ Throw(w) \/ Stall(w))
  BY <1>1 DEF NoJobStarts, TakeJob, Proceed, Throw, Stall, Load, NextAttemptNumber, Deliver,
     Reschedule, ReadRequired, ReadSuccesses, UpdateEvent, Complete, At, Goto, PipelineTypeOK,
     TypeOK, WorkerTypeOK
<1>2. ASSUME NEW j \in Job PROVE ~Promote(j)
  BY <1>2 DEF NoJobStarts, Promote, PipelineTypeOK, TypeOK, StoreTypeOK
<1> QED
  BY <1>1, <1>2 DEF WorkerNext

LEMMA ClosedInOrderStep ==
  PipelineTypeOK /\ ClosedInOrder /\ [PipelineNext]_pipelineVars => ClosedInOrder'
<1> SUFFICES ASSUME PipelineTypeOK, ClosedInOrder, [PipelineNext]_pipelineVars
             PROVE  ClosedInOrder'
  OBVIOUS
<1>1. CASE ComponentsNext /\ UNCHANGED shutdownStep /\ (ServerClosing => NoRequestStarts)
             /\ (WorkerClosing => NoJobStarts)
  <2>1. ASSUME WorkerClosing PROVE HandlersIdle'
    <3>1. HandlersIdle /\ NoRequestStarts
      BY <1>1, <2>1 DEF ClosedInOrder, WorkerClosing, ServerClosing
    <3>2. UNCHANGED <<webhookVars, retryVars, replayVars>>
      BY <1>1, <3>1, NobodyActs DEF ComponentsNext, Sweep
    <3> QED
      BY <3>1, <3>2 DEF HandlersIdle, webhookVars, retryVars, replayVars
  <2>2. ASSUME NEW s \in Signals, shutdownStep[s] = "drained", NEW w \in Workers
        PROVE  pc'[w] = "idle"
    <3>1. NoJobStarts /\ At(w, "idle")
      BY <1>1, <2>2 DEF ClosedInOrder, WorkerClosing
    <3> QED
      BY <3>1 DEF NoJobStarts
  <2> QED
    BY <1>1, <2>1, <2>2 DEF ClosedInOrder, WorkerClosing, At
<1>2. ASSUME UNCHANGED <<vars, webhookVars, retryVars, replayVars>>
      PROVE  /\ HandlersIdle => HandlersIdle'
             /\ (\A w \in Workers : At(w, "idle")) => \A w \in Workers : At(w, "idle")'
  BY <1>2 DEF vars, workerVars, slotVars, webhookVars, retryVars, replayVars, HandlersIdle, At
<1>3. CASE ShutdownNext /\ UNCHANGED <<vars, webhookVars, retryVars, replayVars>>
  <2>1. PICK s \in Signals : Signal(s) \/ ServerClosed(s) \/ WorkerClosed(s) \/ WorkerCloseFails(s)
    BY <1>3 DEF ShutdownNext, ShutdownProceed
  <2>2. \A t \in Signals : t # s => shutdownStep'[t] = shutdownStep[t]
    BY <2>1 DEF Signal, ServerClosed, WorkerClosed, WorkerCloseFails, ShutdownGoto,
       PipelineTypeOK, ShutdownTypeOK
  <2>3. shutdownStep \in [Signals -> {"none", "server", "worker", "drained", "abandoned"}]
    BY DEF PipelineTypeOK, ShutdownTypeOK
  <2>4. WorkerClosing' => WorkerClosing \/ HandlersIdle
    BY <2>1, <2>2, <2>3 DEF WorkerClosing, Signal, ServerClosed, WorkerClosed,
       WorkerCloseFails, ShutdownGoto
  <2>5. ASSUME NEW t \in Signals, shutdownStep'[t] = "drained"
        PROVE  \A w \in Workers : At(w, "idle")
    BY <2>1, <2>2, <2>3, <2>5 DEF ClosedInOrder, Signal, ServerClosed, WorkerClosed,
       WorkerCloseFails, ShutdownGoto
  <2> QED
    BY <1>2, <1>3, <2>4, <2>5 DEF ClosedInOrder
<1>4. CASE UNCHANGED pipelineVars
  BY <1>2, <1>4 DEF pipelineVars, ClosedInOrder, WorkerClosing
<1> QED
  BY <1>1, <1>3, <1>4 DEF PipelineNext

LEMMA QuietStep ==
  ASSUME PipelineTypeOK, ClosedInOrder, SweepFindsNothing, [PipelineNext]_pipelineVars,
         NEW s \in Signals, shutdownStep[s] = "drained"
  PROVE  UNCHANGED storeVars \/ DeleteArchived
<1>1. CASE ShutdownNext /\ UNCHANGED vars
  BY <1>1 DEF vars
<1>2. CASE UNCHANGED pipelineVars
  BY <1>2 DEF pipelineVars, vars
<1>3. CASE ComponentsNext /\ (ServerClosing => NoRequestStarts) /\ (WorkerClosing => NoJobStarts)
  <2>1. HandlersIdle /\ NoRequestStarts /\ NoJobStarts /\ \A w \in Workers : At(w, "idle")
    BY <1>3 DEF ClosedInOrder, WorkerClosing, ServerClosing
  <2>2. CASE DestinationRoutesNext
    BY <2>1, <2>2 DEF NoRequestStarts, DestinationRoutesNext, CreateDestination,
       DeleteDestination, storeVars, queueVars
  <2>3. CASE ArchiverNext
    BY <2>3 DEF ArchiverNext, GrowOld, CopyToArchive, DeleteRefused, InterruptArchiver
  <2>4. CASE Sweep
    <3>1. deliveries' = [i \in DOMAIN deliveries |-> deliveries[i]]
      BY <2>4 DEF Sweep, SweepFindsNothing
    <3>2. deliveries' = deliveries
      BY <3>1 DEF PipelineTypeOK, TypeOK, StoreTypeOK
    <3> QED
      BY <2>4, <3>2 DEF Sweep, storeVars, queueVars
  <2> QED
    BY <1>3, <2>1, <2>2, <2>3, <2>4, NobodyActs, NoSlotActs DEF ComponentsNext
<1> QED
  BY <1>1, <1>2, <1>3 DEF PipelineNext

(* After a shutdown that has drained the worker, whichever signal reports  *)
(* it and whatever the other one does, the process writes nothing.         *)
THEOREM QuietOnceDrained == PipelineSpec => QuietAfterShutdown
<1>1. PipelineInit => ClosedInOrder
  BY DEF PipelineInit, ShutdownInit, ClosedInOrder, WorkerClosing
<1>2. PipelineTypeOK /\ ClosedInOrder /\ SweepFindsNothing /\ [PipelineNext]_pipelineVars
        => [(\E s \in Signals : shutdownStep[s] = "drained") =>
              UNCHANGED storeVars \/ DeleteArchived]_pipelineVars
  BY QuietStep
<1> QED
  BY <1>1, <1>2, ClosedInOrderStep, PipelineTypeCorrect, SweepIsIdle, PTL
  DEF PipelineSpec, QuietAfterShutdown

-----------------------------------------------------------------------------
(* Pairs nobody has come to yet.  Nothing in the queue, the slots or the   *)
(* rows is about the pair.                                                 *)
Fresh(e, d) ==
  /\ \A j \in Job : j.event = e /\ j.destination = d =>
       waiting[j] = 0 /\ delayed[j] = 0 /\ failed[j] = 0
  /\ \A w \in Workers : pc[w] # "idle" => ~(EventOf(w) = e /\ DestinationOf(w) = d)
  /\ Attempts(e, d) = {}

(* The worker only touches what is queued already.                         *)
LEMMA WorkerLeavesFresh ==
  ASSUME PipelineTypeOK, [Next]_vars, NEW e \in Events, NEW d \in Destinations, Fresh(e, d)
  PROVE  Fresh(e, d)'
<1> USE DEF PipelineTypeOK
<1>1. ASSUME NEW w \in Workers, pc'[w] # "idle"
      PROVE  ~(EventOf(w)' = e /\ DestinationOf(w)' = d)
  <2>1. CASE TakeJob(w)
    <3>1. PICK j \in Job : waiting[j] > 0 /\ job' = [job EXCEPT ![w] = j]
      BY <2>1 DEF TakeJob
    <3> QED
      BY <3>1 DEF Fresh, EventOf, DestinationOf, TypeOK, WorkerTypeOK
  <2>2. CASE SlotKept(w)
    BY <1>1, <2>2 DEF SlotKept, Fresh, EventOf, DestinationOf
  <2>3. CASE pc[w] # "idle" /\ job'[w] = job[w]
    BY <2>3 DEF Fresh, EventOf, DestinationOf
  <2> QED
    BY <1>1, <2>1, <2>2, <2>3, KeptOrStep, Arrivals
<1>2. ASSUME NEW i \in DOMAIN deliveries', deliveries'[i].event = e,
             deliveries'[i].destination = d
      PROVE  FALSE
  <2>1. ASSUME NEW w \in Workers, Record(w) PROVE FALSE
    <3>1. ~(RowOf(w).event = e /\ RowOf(w).destination = d)
      BY <2>1 DEF Record, At, RowOf, Fresh
    <3> QED
      BY <1>2, <2>1, <3>1, AppendRow, SlotRow DEF TypeOK, Fresh, Attempts
  <2> QED
    BY <1>2, <2>1, OnlyRecordInserts DEF Fresh, Attempts
<1>3. ASSUME NEW j \in Job, j.event = e, j.destination = d
      PROVE  waiting'[j] = 0 /\ delayed'[j] = 0
  <2>0. waiting[j] = 0 /\ delayed[j] = 0
    BY <1>3 DEF Fresh
  <2>1. ASSUME NEW w \in Workers, TakeJob(w) PROVE waiting'[j] = 0 /\ delayed'[j] = 0
    BY <2>0, <2>1 DEF TakeJob, TypeOK, StoreTypeOK
  <2>2. ASSUME NEW w \in Workers, Reschedule(w) PROVE waiting'[j] = 0 /\ delayed'[j] = 0
    BY <1>3, <2>0, <2>2 DEF Reschedule, At, Enqueued, Fresh
  <2>3. ASSUME NEW w \in Workers, Stall(w) PROVE waiting'[j] = 0 /\ delayed'[j] = 0
    <3>1. ~(job[w].event = e /\ job[w].destination = d)
      BY <2>3 DEF Stall, At, Fresh, EventOf, DestinationOf
    <3>2. StalledJob(job[w]) # j
      BY <1>3, <3>1 DEF StalledJob
    <3> QED
      BY <2>0, <2>3, <3>2 DEF Stall, TypeOK, StoreTypeOK
  <2>4. ASSUME NEW k \in Job, Promote(k) PROVE waiting'[j] = 0 /\ delayed'[j] = 0
    BY <2>0, <2>4 DEF Promote, TypeOK, StoreTypeOK
  <2> QED
    BY <2>0, <2>1, <2>2, <2>3, <2>4, QueueSteps
<1>4. ASSUME NEW j \in Job, j.event = e, j.destination = d PROVE failed'[j] = 0
  <2>1. ASSUME NEW w \in Workers, FailJob(w) PROVE failed'[j] = 0
    <3>1. job[w] # j
      BY <1>4, WorkerAssumption DEF Fresh, EventOf, DestinationOf, TypeOK, WorkerTypeOK
    <3> QED
      BY <1>4, <2>1, <3>1 DEF FailJob, Fresh, TypeOK, StoreTypeOK
  <2> QED
    BY <1>4, <2>1, FailedSteps DEF Fresh
<1> QED
  BY <1>1, <1>2, <1>3, <1>4 DEF Fresh, Attempts

(* Who, apart from the worker, adds jobs of a pair.                        *)
Queues(e, d) ==
  \/ \E r \in Webhooks : /\ webhookEvent[r] = e
                         /\ d \in webhookTargets[r] \ webhookTargets'[r]
                         /\ AddJob(r) \/ AddFails(r)
  \/ \E r \in Retries : EnqueueRetries(r) /\ retryRows[r] \cap Attempts(e, d) # {}
  \/ \E r \in Replays : EnqueueReplay(r) /\ replayEvent[r] = e

LEMMA PairQueued ==
  ASSUME PipelineTypeOK, [PipelineNext]_pipelineVars, NEW e \in Events, NEW d \in Destinations
  PROVE  \/ [Next]_vars
         \/ Queues(e, d)
         \/ \A j \in Job : j.event = e /\ j.destination = d => waiting'[j] = waiting[j]
<1> SUFFICES ASSUME ~Queues(e, d), NEW j \in Job, j.event = e, j.destination = d
             PROVE  [Next]_vars \/ waiting'[j] = waiting[j]
  OBVIOUS
<1> USE DEF PipelineTypeOK, TypeOK, StoreTypeOK
<1>1. CASE IngestionNext
  <2>1. waiting' = waiting \/ \E r \in Webhooks : AddJob(r) \/ AddFails(r)
    BY <1>1 DEF IngestionNext, WebhookProceed, CheckDepth, Verify, PersistRejected, Persist,
       SelectTargets, InterruptWebhook, storeVars, queueVars
  <2>2. ASSUME NEW r \in Webhooks, AddJob(r) PROVE waiting'[j] = waiting[j]
    <3>1. PICK c \in webhookTargets[r] : /\ waiting' = Enqueued(waiting, {<<webhookEvent[r], c>>})
                                         /\ c \notin webhookTargets'[r]
      BY <2>2 DEF AddJob, Reply, IngestionTypeOK
    <3>2. <<j.event, j.destination>> # <<webhookEvent[r], c>>
      BY <2>2, <3>1 DEF Queues
    <3> QED
      BY <3>1, <3>2 DEF Enqueued
  <2>3. ASSUME NEW r \in Webhooks, AddFails(r) PROVE waiting'[j] = waiting[j]
    <3>1. PICK done \in SUBSET webhookTargets[r] :
            /\ waiting' = Enqueued(waiting, {webhookEvent[r]} \X done)
            /\ webhookTargets'[r] = {}
      BY <2>3 DEF AddFails, Reply, IngestionTypeOK
    <3>2. <<j.event, j.destination>> \notin {webhookEvent[r]} \X done
      BY <2>3, <3>1 DEF Queues
    <3> QED
      BY <3>1, <3>2 DEF Enqueued
  <2> QED
    BY <2>1, <2>2, <2>3
<1>2. CASE DeadLettersNext
  <2>1. waiting' = waiting \/ \E r \in Retries : EnqueueRetries(r)
    BY <1>2 DEF DeadLettersNext, SelectDeadLetters, ResetDeadLetters, InterruptRetry, Sweep,
       storeVars, queueVars
  <2>2. ASSUME NEW r \in Retries, EnqueueRetries(r) PROVE waiting'[j] = waiting[j]
    <3>1. retryRows[r] \cap Attempts(e, d) = {}
      BY <2>2 DEF Queues
    <3>2. Cardinality(retryRows[r] \cap Attempts(j.event, j.destination)) = 0
      BY <3>1, FS_EmptySet
    <3>3. waiting'[j] = (IF j.stalled THEN waiting[j]
            ELSE waiting[j] + Cardinality(retryRows[r] \cap Attempts(j.event, j.destination)))
      BY <2>2 DEF EnqueueRetries
    <3>4. waiting[j] \in Nat
      OBVIOUS
    <3> QED
      BY <3>2, <3>3, <3>4
  <2> QED
    BY <2>1, <2>2
<1>3. CASE ReplayNext
  <2>1. waiting' = waiting \/ \E r \in Replays : EnqueueReplay(r)
    BY <1>3 DEF ReplayNext, ReplayProceed, InsertRequest, SelectEvents, SetTotal,
       ReadDestinations, MarkReplayed, SaveProgress, CompleteReplay, FailEvent,
       InterruptReplay, storeVars, queueVars
  <2> QED
    BY <2>1 DEF Queues, EnqueueReplay, Enqueued
<1>4. CASE DestinationRoutesNext
  BY <1>4 DEF DestinationRoutesNext, CreateDestination, DeleteDestination, queueVars
<1>5. CASE ArchiverNext
  BY <1>5 DEF ArchiverNext, GrowOld, CopyToArchive, DeleteArchived, DeleteRefused,
     InterruptArchiver, storeVars, queueVars
<1> QED
  BY <1>1, <1>2, <1>3, <1>4, <1>5, Components

LEMMA FreshKept ==
  ASSUME PipelineTypeOK, [PipelineNext]_pipelineVars, NEW e \in Events, NEW d \in Destinations,
         Fresh(e, d), ~Queues(e, d)
  PROVE  Fresh(e, d)'
<1>1. CASE [Next]_vars
  BY <1>1, WorkerLeavesFresh
<1>2. CASE /\ UNCHANGED <<delayed, failed, workerVars>>
           /\ \A j \in Job : j.event = e /\ j.destination = d => waiting'[j] = waiting[j]
  <2>1. \A w \in Workers : ~Record(w)
    BY <1>2 DEF Record, Goto, At, AfterRecord, workerVars, slotVars, PipelineTypeOK, TypeOK,
       WorkerTypeOK
  <2>2. Attempts(e, d)' = {}
    BY <2>1, NewRow, RowsStay DEF Fresh, Attempts
  <2> QED
    BY <1>2, <2>2 DEF Fresh, workerVars, slotVars, EventOf, DestinationOf
<1> QED
  BY <1>1, <1>2, QueueGrows, PairQueued

-----------------------------------------------------------------------------
(* Rejected events.  An event that was stored as rejected, or that no      *)
(* request has stored yet (an archived one is gone too, but it may have    *)
(* been delivered before).                                                 *)
Unaccepted(e) == events[e] = "rejected" \/ (events[e] = "absent" /\ Aged = {})

UnacceptedFresh == \A e \in Events : Unaccepted(e) => \A d \in Destinations : Fresh(e, d)

(* A request that fans out has inserted its event as pending.              *)
FanOutAccepted == \A r \in Webhooks : FansOut(r) => ~Unaccepted(webhookEvent[r])

(* A replay may select rejected events too, and then queues jobs for them  *)
(* until it marks them replayed: without one that does.                    *)
RejectedNotReplayed ==
  [][\A r \in Replays : EnqueueReplay(r) => events[replayEvent[r]] # "rejected"]_pipelineVars

LEMMA UnacceptedBefore ==
  ASSUME PipelineTypeOK, [PipelineNext]_pipelineVars, NEW e \in Events, Unaccepted(e)'
  PROVE  Unaccepted(e)
BY StatusSteps, PipelineAssumption, StoredStays DEF Unaccepted

LEMMA FanOutAcceptedStep ==
  PipelineTypeOK /\ AnsweredWhenDone /\ FanOutAccepted /\ [PipelineNext]_pipelineVars
    => FanOutAccepted'
<1> SUFFICES ASSUME PipelineTypeOK, AnsweredWhenDone, FanOutAccepted,
                    [PipelineNext]_pipelineVars, NEW r \in Webhooks, FansOut(r)',
                    Unaccepted(webhookEvent[r])'
             PROVE  FALSE
  BY DEF FanOutAccepted
<1>1. PICK e \in Events : webhookEvent[r] = e /\ webhookEvent'[r] = e
  BY WebhookSteps DEF PipelineTypeOK, IngestionTypeOK
<1>2. Unaccepted(e)'
  BY <1>1 DEF Unaccepted
<1>3. Unaccepted(e)
  BY <1>2, UnacceptedBefore
<1>4. Persist(r) /\ events[e] = "absent" /\ events'[e] # "absent"
  BY <1>1, <1>3, FanOutSteps DEF FanOutAccepted
<1>5. events'[e] = "pending"
  BY <1>1, <1>4 DEF Persist, PipelineTypeOK, TypeOK, StoreTypeOK
<1> QED
  BY <1>2, <1>5 DEF Unaccepted

LEMMA UnacceptedFreshStep ==
  PipelineTypeOK /\ ReplaysStored /\ FanOutAccepted /\ UnacceptedFresh
    /\ [PipelineNext]_pipelineVars
    /\ [\A r \in Replays : EnqueueReplay(r) => events[replayEvent[r]] # "rejected"]_pipelineVars
    => UnacceptedFresh'
<1> SUFFICES ASSUME PipelineTypeOK, ReplaysStored, FanOutAccepted, UnacceptedFresh,
                    [PipelineNext]_pipelineVars,
                    [\A r \in Replays :
                       EnqueueReplay(r) => events[replayEvent[r]] # "rejected"]_pipelineVars,
                    NEW e \in Events, Unaccepted(e)', NEW d \in Destinations
             PROVE  Fresh(e, d)'
  BY DEF UnacceptedFresh
<1>1. Unaccepted(e) /\ Fresh(e, d)
  BY UnacceptedBefore DEF UnacceptedFresh
<1>2. ~Queues(e, d)
  <2>1. ASSUME NEW r \in Webhooks, webhookEvent[r] = e PROVE ~AddJob(r) /\ ~AddFails(r)
    BY <1>1, <2>1 DEF AddJob, AddFails, FanOutAccepted, FansOut
  <2>2. ASSUME NEW r \in Replays, EnqueueReplay(r) PROVE replayEvent[r] # e
    <3>1. events[replayEvent[r]] # "rejected"
      BY <2>2 DEF EnqueueReplay, ReplayAt, ReplayGoto, pipelineVars, replayVars,
         PipelineTypeOK, ReplayTypeOK
    <3> QED
      BY <1>1, <3>1, ReplayAssumption DEF ReplaysStored, Unaccepted
  <2>3. Attempts(e, d) = {}
    BY <1>1 DEF Fresh
  <2> QED
    BY <2>1, <2>2, <2>3 DEF Queues
<1> QED
  BY <1>1, <1>2, FreshKept

LEMMA UnacceptedFreshInit == PipelineInit => FanOutAccepted /\ UnacceptedFresh
<1> SUFFICES ASSUME PipelineInit PROVE FanOutAccepted /\ UnacceptedFresh
  OBVIOUS
<1>1. FanOutAccepted
  BY DEF PipelineInit, IngestionInit, FanOutAccepted, FansOut, WebhookAt
<1>2. ASSUME NEW e \in Events, Unaccepted(e), NEW d \in Destinations PROVE Fresh(e, d)
  <2>1. e \notin Preloaded
    BY <1>2 DEF PipelineInit, Unaccepted
  <2> QED
    BY <2>1 DEF PipelineInit, WorkerInit, Fresh, Enqueued, NoJobs, Attempts
<1> QED
  BY <1>1, <1>2 DEF UnacceptedFresh

(* An event stored as rejected is never queued or delivered, however its   *)
(* requests interleave with others of the same key, unless it is replayed. *)
THEOREM RejectedStaysUndelivered ==
  PipelineSpec /\ RejectedNotReplayed => []RejectedIsNotDelivered
<1>1. PipelineTypeOK /\ UnacceptedFresh => RejectedIsNotDelivered
  BY DEF UnacceptedFresh, Unaccepted, Fresh, RejectedIsNotDelivered, InFlight, Queued,
     Delivering, InAttempt, PipelineTypeOK
<1> QED
  BY <1>1, UnacceptedFreshInit, UnacceptedFreshStep, FanOutAcceptedStep, PipelineTypeCorrect,
     AnsweredInvariant, ReplaysStoredInvariant, PTL DEF PipelineSpec, RejectedNotReplayed

-----------------------------------------------------------------------------
(* Why an event stays pending.  An id that no row has had yet names no     *)
(* destination, and faults are not forgotten.                              *)
UncreatedAbsent == destinations \cap uncreated = {}

LEMMA UncreatedStep == PipelineTypeOK /\ UncreatedAbsent /\ [PipelineNext]_pipelineVars
                         => UncreatedAbsent' /\ uncreated' \subseteq uncreated
<1> SUFFICES ASSUME PipelineTypeOK, UncreatedAbsent, [PipelineNext]_pipelineVars
             PROVE  UncreatedAbsent' /\ uncreated' \subseteq uncreated
  OBVIOUS
<1>1. CASE DestinationRoutesNext
  BY <1>1 DEF DestinationRoutesNext, CreateDestination, DeleteDestination, UncreatedAbsent
<1>2. CASE UNCHANGED uncreated
  <2>1. CASE \E d \in Late : CreateDestination(d)
    BY <1>1, <2>1 DEF DestinationRoutesNext
  <2> QED
    BY <1>2, <2>1, DestinationSteps DEF DeleteDestination, UncreatedAbsent
<1> QED
  BY <1>1, <1>2, Components

LEMMA FaultsStay ==
  ASSUME PipelineTypeOK, [PipelineNext]_pipelineVars, workerFaults' = 0
  PROVE  workerFaults = 0 /\ \A w \in Workers : ~Throw(w) /\ ~Stall(w)
<1>1. workerFaults \in Nat
  BY WorkerAssumption DEF PipelineTypeOK, TypeOK, WorkerTypeOK
<1>2. \A w \in Workers : ~Throw(w) /\ ~Stall(w)
  BY <1>1 DEF Throw, Stall, Fault
<1>3. CASE [Next]_vars
  BY <1>2, <1>3 DEF Next, WorkerNext, TakeJob, Proceed, Load, NextAttemptNumber, Deliver,
     Record, RecordRefused, Reschedule, ReadRequired, ReadSuccesses, UpdateEvent, Complete,
     Promote, vars, workerVars
<1>4. CASE UNCHANGED workerVars
  BY <1>2, <1>4 DEF workerVars
<1> QED
  BY <1>2, <1>3, <1>4, Components, IngestionKeepsSlots

(* The destinations of the event are the ones it has been ingested with.   *)
RowsUnchanged(e) == Matched[e] \cap Late \subseteq uncreated /\ Matched[e] \ Late \subseteq destinations

(* An event that has succeeded everywhere and is pending: a slot has yet   *)
(* to check it, or has checked it with success.                            *)
AllSucceeded(e) ==
  /\ events[e] = "pending" /\ RowsUnchanged(e)
  /\ Original(e) # {} /\ Original(e) \subseteq SuccessfulDestinations(e)

Closing(w, e) ==
  /\ EventOf(w) = e
  /\ \/ pc[w] \in {"required", "update"}
     \/ pc[w] = "successes" /\ required[w] \subseteq SuccessfulDestinations(e)

CompleteCloses ==
  workerFaults = 0 => \A e \in Events : AllSucceeded(e) => \E w \in Workers : Closing(w, e)

(* The row that makes a pair successful has been inserted by a slot that   *)
(* now goes on to check the event.                                         *)
LEMMA SuccessIsChecked ==
  ASSUME PipelineTypeOK, [PipelineNext]_pipelineVars, NEW e \in Events, NEW d,
         ~HasRow(e, d, "success"), HasRow(e, d, "success")'
  PROVE  events[e] # "absent" /\ \E w \in Workers : Closing(w, e)'
<1>1. PICK i \in DOMAIN deliveries' : /\ deliveries'[i].event = e
                                      /\ deliveries'[i].destination = d
                                      /\ deliveries'[i].status = "success"
  BY DEF HasRow, Attempts
<1>2. i \notin DOMAIN deliveries
  BY <1>1, RowsStay DEF HasRow, Attempts
<1>3. PICK w \in Workers : Record(w) /\ deliveries'[i] = RowOf(w)
  BY <1>1, <1>2, NewRow
<1>4. EventOf(w) = e /\ outcome[w] = "success"
  BY <1>1, <1>3 DEF RowOf
<1>5. pc'[w] = "required" /\ job'[w] = job[w]
  BY <1>3, <1>4 DEF Record, Goto, AfterRecord, PipelineTypeOK, TypeOK, WorkerTypeOK
<1> QED
  BY <1>3, <1>4, <1>5 DEF Closing, EventOf, Record, ReferencesExist

LEMMA ClosingStep ==
  ASSUME PipelineTypeOK, HeldRows, UncreatedAbsent, [PipelineNext]_pipelineVars,
         NEW e \in Events, AllSucceeded(e), RowsUnchanged(e)', workerFaults' = 0,
         NEW w \in Workers, Closing(w, e)
  PROVE  Closing(w, e)' \/ events'[e] = "delivered"
<1> USE DEF PipelineTypeOK
<1>1. SuccessfulDestinations(e) \subseteq SuccessfulDestinations(e)'
  BY SuccessesKept
<1>2. CASE SlotKept(w)
  BY <1>1, <1>2 DEF SlotKept, Closing, EventOf
<1>3. CASE ReadRequired(w)
  <2>1. RequiredDestinations(e) = Original(e)
    BY DEF AllSucceeded, RowsUnchanged, UncreatedAbsent, Original, RequiredDestinations
  <2>2. job'[w] = job[w] /\ pc'[w] = "successes" /\ required'[w] = Original(e)
    BY <1>3, <2>1 DEF ReadRequired, Goto, Closing, AllSucceeded, TypeOK, WorkerTypeOK
  <2> QED
    BY <1>1, <2>2 DEF Closing, AllSucceeded, EventOf
<1>4. CASE ReadSuccesses(w)
  BY <1>4 DEF ReadSuccesses, At, Goto, Closing, EventOf, TypeOK, WorkerTypeOK
<1>5. CASE UpdateEvent(w)
  BY <1>5 DEF UpdateEvent, Closing, AllSucceeded, TypeOK, StoreTypeOK
<1>6. CASE SlotStep(w)
  <2>1. ~Throw(w) /\ ~Stall(w)
    BY FaultsStay
  <2> QED
    BY <1>3, <1>4, <1>5, <1>6, <2>1 DEF SlotStep, TakeJob, Proceed, Load, NextAttemptNumber,
       Deliver, Record, RecordRefused, Reschedule, Complete, At, Closing
<1> QED
  BY <1>2, <1>6, PipelineSlot

LEMMA CompleteClosesStep ==
  PipelineTypeOK /\ HeldRows /\ RowsRefer /\ UncreatedAbsent /\ CompleteCloses
    /\ [PipelineNext]_pipelineVars => CompleteCloses'
<1> SUFFICES ASSUME PipelineTypeOK, HeldRows, RowsRefer, UncreatedAbsent, CompleteCloses,
                    [PipelineNext]_pipelineVars, workerFaults' = 0,
                    NEW e \in Events, AllSucceeded(e)'
             PROVE  \E w \in Workers : Closing(w, e)'
  BY DEF CompleteCloses
<1>1. CASE \E d \in Destinations : ~HasRow(e, d, "success") /\ HasRow(e, d, "success")'
  BY <1>1, SuccessIsChecked
<1>2. CASE \A d \in Destinations : HasRow(e, d, "success")' => HasRow(e, d, "success")
  <2>1. SuccessfulDestinations(e)' \subseteq SuccessfulDestinations(e)
    BY <1>2 DEF SuccessfulDestinations
  <2>2. RowsUnchanged(e)
    BY UncreatedStep, StayedDestinations DEF AllSucceeded, RowsUnchanged
  <2>3. Original(e)' = Original(e)
    BY <2>2 DEF AllSucceeded, RowsUnchanged, Original, RequiredDestinations
  <2>4. events[e] # "absent"
    BY <2>1, <2>3 DEF AllSucceeded, SuccessfulDestinations, HasRow, Attempts, RowsRefer,
       ReferencesExist
  <2>5. AllSucceeded(e)
    BY <2>1, <2>2, <2>3, <2>4, StatusSteps DEF AllSucceeded
  <2>6. PICK w \in Workers : Closing(w, e)
    BY <2>5, FaultsStay DEF CompleteCloses
  <2> QED
    BY <2>5, <2>6, ClosingStep DEF AllSucceeded
<1> QED
  BY <1>1, <1>2

(* Without faults of the worker, an event that has succeeded everywhere    *)
(* and is at rest is marked delivered unless destinations were created or  *)
(* deleted meanwhile, whatever is retried, replayed or interrupted.        *)
THEOREM ClosedUnlessChanged == PipelineSpec => []ClosedUnlessRowsChanged
<1>1. PipelineInit => UncreatedAbsent /\ CompleteCloses
  BY DEF PipelineInit, DestinationRoutesInit, UncreatedAbsent, CompleteCloses, AllSucceeded,
     SuccessfulDestinations, HasRow, Attempts
<1>2. CompleteCloses => ClosedUnlessRowsChanged
  BY DEF CompleteCloses, ClosedUnlessRowsChanged, AllSucceeded, RowsUnchanged, Closing, AtRest,
     Aggregating
<1> QED
  BY <1>1, <1>2, UncreatedStep, CompleteClosesStep, PipelineTypeCorrect, HeldRowsInvariant,
     RowsReferInvariant, PTL DEF PipelineSpec

-----------------------------------------------------------------------------
(* One chain of attempts, then one attempt for each retry.  What the jobs  *)
(* of a request are about nobody has come to before.                       *)
FanOutFresh ==
  \A r \in Webhooks : \A d \in Destinations :
    \/ WebhookAt(r, "select")
    \/ WebhookAt(r, "enqueue") /\ d \in webhookTargets[r]
    => Fresh(webhookEvent[r], d)

(* A replay is a chain of its own: without one that queues a job.          *)
NothingReplayed == [][\A r \in Replays : ~EnqueueReplay(r)]_pipelineVars

LEMMA FanOutFreshStep ==
  PipelineTypeOK /\ AnsweredWhenDone /\ OneFanOut /\ UnacceptedFresh /\ FanOutFresh
    /\ [PipelineNext]_pipelineVars /\ [\A r \in Replays : ~EnqueueReplay(r)]_pipelineVars
    => FanOutFresh'
<1> SUFFICES ASSUME PipelineTypeOK, AnsweredWhenDone, OneFanOut, UnacceptedFresh, FanOutFresh,
                    [PipelineNext]_pipelineVars,
                    [\A r \in Replays : ~EnqueueReplay(r)]_pipelineVars,
                    NEW r \in Webhooks, NEW d \in Destinations,
                    \/ WebhookAt(r, "select")'
                    \/ WebhookAt(r, "enqueue")' /\ d \in webhookTargets'[r]
             PROVE  Fresh(webhookEvent[r], d)'
  BY DEF FanOutFresh
<1>1. PICK e \in Events : webhookEvent[r] = e /\ webhookEvent'[r] = e
  BY WebhookSteps DEF PipelineTypeOK, IngestionTypeOK
<1>2. \/ Persist(r) /\ events[e] = "absent"
      \/ /\ \/ WebhookAt(r, "select")
            \/ WebhookAt(r, "enqueue") /\ d \in webhookTargets[r]
         /\ WebhookKept(r) \/ SelectTargets(r) \/ AddJob(r)
  <2>1. CASE WebhookKept(r)
    BY <2>1 DEF WebhookKept, WebhookAt
  <2>2. CASE WebhookActs(r)
    <3>1. CASE Persist(r)
      BY <1>1, <3>1 DEF Persist, Reply, WebhookGoto, WebhookAt, PipelineTypeOK, IngestionTypeOK
    <3>2. CASE SelectTargets(r)
      BY <3>2 DEF SelectTargets
    <3>3. CASE AddJob(r)
      BY <3>3 DEF AddJob, Reply, WebhookAt, WebhookGoto, PipelineTypeOK, IngestionTypeOK
    <3> QED
      BY <2>2, <3>1, <3>2, <3>3, WebhookActions DEF WebhookAt
  <2> QED
    BY <2>1, <2>2, WebhookSteps
<1>3. Fresh(e, d)
  BY <1>1, <1>2, PipelineAssumption DEF FanOutFresh, UnacceptedFresh, Unaccepted
<1>4. ASSUME NEW s \in Webhooks, AddJob(s) \/ AddFails(s), webhookEvent[s] = e
      PROVE  d \notin webhookTargets[s] \ webhookTargets'[s]
  <2>1. CASE s = r
    <3>1. ~Persist(r) /\ ~SelectTargets(r) /\ WebhookAt(r, "enqueue")
      BY <1>4, <2>1 DEF AddJob, AddFails, Persist, SelectTargets, WebhookAt
    <3>2. webhookStep'[r] # "select"
      BY <1>2, <3>1, WebhookActions DEF WebhookActs, WebhookProceed, WebhookKept, WebhookAt
    <3> QED
      BY <2>1, <3>2 DEF WebhookAt
  <2>2. CASE s # r
    <3>1. FansOut(s)
      BY <1>4 DEF AddJob, AddFails, FansOut
    <3>2. ~FansOut(r)
      BY <1>1, <1>4, <2>2, <3>1 DEF OneFanOut, FansOut
    <3>3. Persist(r)
      BY <1>2, <3>2 DEF FansOut
    <3> QED
      BY <1>4, <2>2, <3>3 DEF Persist, AddJob, AddFails, WebhookGoto, Reply, WebhookAt,
         PipelineTypeOK, IngestionTypeOK
  <2> QED
    BY <2>1, <2>2
<1>5. \A s \in Replays : ~EnqueueReplay(s)
  BY DEF EnqueueReplay, ReplayAt, ReplayGoto, pipelineVars, replayVars, PipelineTypeOK,
     ReplayTypeOK
<1>6. ~Queues(e, d)
  BY <1>3, <1>4, <1>5 DEF Queues, Fresh
<1> QED
  BY <1>1, <1>3, <1>6, FreshKept

(* Attempts are numbered from 1, and only the last one allowed, or one     *)
(* after it, is recorded as a dead letter.                                 *)
SlotsCount ==
  /\ \A i \in DOMAIN deliveries : deliveries[i].attempt >= 1
  /\ \A w \in Workers : pc[w] \in {"deliver", "record"} => attempt[w] >= 1
  /\ \A w \in Workers : pc[w] = "record" /\ outcome[w] = "dead_letter" =>
       attempt[w] >= MaxRetries[DestinationOf(w)]

LEMMA SlotsCountStep ==
  PipelineTypeOK /\ SlotsCount /\ [PipelineNext]_pipelineVars => SlotsCount'
<1> SUFFICES ASSUME PipelineTypeOK, SlotsCount, [PipelineNext]_pipelineVars PROVE SlotsCount'
  OBVIOUS
<1>1. ASSUME NEW i \in DOMAIN deliveries' PROVE deliveries'[i].attempt >= 1
  <2>1. CASE i \in DOMAIN deliveries
    BY <2>1, RowsStay DEF SlotsCount
  <2>2. CASE i \notin DOMAIN deliveries
    <3>1. PICK w \in Workers : Record(w) /\ deliveries'[i] = RowOf(w)
      BY <2>2, NewRow
    <3> QED
      BY <3>1 DEF RowOf, Record, At, SlotsCount
  <2> QED
    BY <2>1, <2>2
<1>2. ASSUME NEW w \in Workers, pc'[w] \in {"deliver", "record"} PROVE attempt'[w] >= 1
  <2>1. CASE SlotKept(w)
    BY <1>2, <2>1 DEF SlotKept, SlotsCount
  <2>2. CASE Deliver(w)
    BY <1>2, <2>2 DEF Deliver, At, SlotsCount
  <2>3. CASE NextAttemptNumber(w)
    <3>1. PICK n : /\ n = 1 \/ \E i \in DOMAIN deliveries : n = deliveries[i].attempt + 1
                   /\ attempt'[w] = n
      BY <2>3 DEF NextAttemptNumber, PipelineTypeOK, TypeOK, WorkerTypeOK
    <3> QED
      BY <3>1, RowType DEF PipelineTypeOK, TypeOK
  <2> QED
    BY <1>2, <2>1, <2>2, <2>3, PipelineSlot, Arrivals DEF PipelineTypeOK
<1>3. ASSUME NEW w \in Workers, pc'[w] = "record", outcome'[w] = "dead_letter"
      PROVE  attempt'[w] >= MaxRetries[DestinationOf(w)']
  <2>1. CASE SlotKept(w)
    BY <1>3, <2>1 DEF SlotKept, SlotsCount, DestinationOf
  <2>2. CASE Deliver(w)
    <3>1. PICK d \in Destinations, n \in Nat : d = DestinationOf(w) /\ n = attempt[w]
      BY <2>2, SlotJob DEF Deliver, At, PipelineTypeOK, TypeOK, WorkerTypeOK
    <3>2. PICK ok \in BOOLEAN : outcome'[w] = OutcomeOf(ok, n, d)
      BY <2>2, <3>1 DEF Deliver, PipelineTypeOK, TypeOK, WorkerTypeOK
    <3>3. DestinationOf(w)' = d /\ attempt'[w] = n
      BY <2>2, <3>1 DEF Deliver, DestinationOf
    <3> QED
      BY <1>3, <3>2, <3>3 DEF OutcomeOf
  <2> QED
    BY <1>3, <2>1, <2>2, PipelineSlot, Arrivals DEF PipelineTypeOK
<1> QED
  BY <1>1, <1>2, <1>3 DEF SlotsCount

(* The chain of a pair goes on, or is over after its last failure.         *)
FailedRow(i, e, d) == i \in Attempts(e, d) /\ deliveries[i].status = "failed"

Exhausted(e, d) ==
  MaxRetries[d] <= 1 \/ \E i \in DOMAIN deliveries :
                          FailedRow(i, e, d) /\ deliveries[i].attempt + 1 >= MaxRetries[d]

(* A slot that knows the number of its attempt and has not recorded it.    *)
Sending(w, e, d) ==
  pc[w] \in {"deliver", "record"} /\ EventOf(w) = e /\ DestinationOf(w) = d

(* Until then there is one chain, which no retry has touched and whose     *)
(* attempts go up; after, whatever is retried, no failure is recorded.     *)
ChainRuns(e, d) ==
  /\ Chain(e, d)
  /\ \A i \in Attempts(e, d) : deliveries[i].status \in {"failed", "success"}
  /\ \A w \in Workers : Sending(w, e, d) =>
       attempt[w] < MaxRetries[d] /\ \A i \in Attempts(e, d) : deliveries[i].attempt < attempt[w]

OneChainThenOneAttempt(e, d) ==
  /\ \A i, k \in DOMAIN deliveries :
       FailedRow(i, e, d) /\ FailedRow(k, e, d) /\ deliveries[i].attempt = deliveries[k].attempt
         => i = k
  /\ IF Exhausted(e, d)
     THEN \A w \in Workers : Sending(w, e, d) => attempt[w] >= MaxRetries[d]
     ELSE ChainRuns(e, d)

(* A failed row is never changed.                                          *)
LEMMA FailuresStay ==
  ASSUME PipelineTypeOK, HeldRows, FailuresBelowMax, [PipelineNext]_pipelineVars,
         NEW i \in DOMAIN deliveries, deliveries[i].status \in {"failed", "success"}
  PROVE  i \in DOMAIN deliveries' /\ deliveries'[i] = deliveries[i]
<1>1. i \notin Sweepable
  BY NothingToSweep DEF SweepFindsNothing
<1>2. \A r \in Retries : i \notin retryRows[r]
  BY DEF HeldRows
<1> QED
  BY <1>1, <1>2, RowsStay

LEMMA FailedRowOrigin ==
  ASSUME PipelineTypeOK, [PipelineNext]_pipelineVars, NEW e \in Events, NEW d \in Destinations,
         NEW i \in DOMAIN deliveries', FailedRow(i, e, d)'
  PROVE  \/ i \in DOMAIN deliveries /\ FailedRow(i, e, d) /\ deliveries'[i] = deliveries[i]
         \/ /\ i \notin DOMAIN deliveries
            /\ \E w \in Workers : /\ Record(w) /\ Sending(w, e, d) /\ outcome[w] = "failed"
                                  /\ deliveries'[i].attempt = attempt[w]
<1>1. CASE i \in DOMAIN deliveries
  BY <1>1, RowsStay DEF FailedRow, Attempts
<1>2. CASE i \notin DOMAIN deliveries
  <2>1. PICK w \in Workers : Record(w) /\ deliveries'[i] = RowOf(w)
    BY <1>2, NewRow
  <2> QED
    BY <1>2, <2>1 DEF FailedRow, Attempts, RowOf, Record, At, Sending
<1> QED
  BY <1>1, <1>2

(* The two ways to come to know a number: from the rows, or before.        *)
LEMMA SendingSteps ==
  ASSUME PipelineTypeOK, [PipelineNext]_pipelineVars, NEW e \in Events, NEW d \in Destinations,
         NEW w \in Workers, Sending(w, e, d)'
  PROVE  \/ /\ Sending(w, e, d) /\ attempt'[w] = attempt[w]
            /\ SlotKept(w) \/ Deliver(w)
         \/ /\ NextAttemptNumber(w) /\ InAttempt(w, e, d)
            /\ IsNextAttempt(e, d, attempt'[w])
<1>1. CASE SlotKept(w)
  BY <1>1 DEF SlotKept, Sending, EventOf, DestinationOf
<1>2. CASE Deliver(w)
  BY <1>2 DEF Deliver, At, Sending, EventOf, DestinationOf
<1>3. CASE NextAttemptNumber(w)
  BY <1>3 DEF NextAttemptNumber, At, Sending, InAttempt, EventOf, DestinationOf,
     PipelineTypeOK, TypeOK, WorkerTypeOK
<1> QED
  BY <1>1, <1>2, <1>3, PipelineSlot, Arrivals DEF Sending, PipelineTypeOK

(* A worker without faults keeps a chain; so does everyone else who does   *)
(* not queue a job of the pair.                                            *)
LEMMA ChainKept ==
  ASSUME PipelineTypeOK, HeldRows, FailuresBelowMax, [PipelineNext]_pipelineVars,
         workerFaults' = 0,
         NEW e \in Events, NEW d \in Destinations, Chain(e, d), ~Queues(e, d)
  PROVE  Chain(e, d)'
<1>0. PipelineTypeOK'
  BY PipelineStepType
<1>1. CASE [Next]_vars
  <2>1. \A w \in Workers : ~Throw(w) /\ ~Stall(w)
    BY FaultsStay
  <2>2. TypeOK /\ TypeOK'
    BY <1>0 DEF PipelineTypeOK
  <2> QED
    BY <1>1, <2>1, <2>2, ChainTake, ChainReschedule, ChainRecord, ChainOther
    DEF Next, WorkerNext, Proceed
<1>2. CASE ~[Next]_vars
  <2>1. /\ UNCHANGED <<delayed, failed, workerVars>>
        /\ \A j \in Job : j.event = e /\ j.destination = d => waiting'[j] = waiting[j]
    BY <1>2, QueueGrows, PairQueued
  <2>2. \A w \in Workers : ~Record(w)
    BY <2>1 DEF Record, Goto, At, AfterRecord, workerVars, slotVars, PipelineTypeOK, TypeOK,
       WorkerTypeOK
  <2>3. Settled(e, d)' => Settled(e, d)
    <3>1. ASSUME NEW i \in Attempts(e, d)', deliveries'[i].status \in {"success", "dead_letter"}
          PROVE  i \in Attempts(e, d) /\ deliveries'[i] = deliveries[i]
      <4>1. i \in DOMAIN deliveries
        BY <2>2, <3>1, NewRow DEF Attempts
      <4>2. i \notin Sweepable
        BY NothingToSweep DEF SweepFindsNothing
      <4> QED
        BY <3>1, <4>1, <4>2, RowsStay DEF Attempts
    <3> QED
      BY <3>1 DEF Settled, HasRow
  <2>4. \A v \in Workers : InAttempt(v, e, d)' => InAttempt(v, e, d)
    BY <2>1 DEF workerVars, slotVars, InAttempt, EventOf, DestinationOf
  <2> QED
    BY <1>0, <2>1, <2>3, <2>4, ChainFrame DEF PipelineTypeOK, TypeOK
<1> QED
  BY <1>1, <1>2

(* The first jobs of a pair are one, and begin its chain.                  *)
LEMMA ChainBegins ==
  ASSUME PipelineTypeOK, [PipelineNext]_pipelineVars, NEW e \in Events, NEW d \in Destinations,
         Fresh(e, d), NEW r \in Webhooks, AddJob(r) \/ AddFails(r)
  PROVE  Chain(e, d)' /\ Attempts(e, d)' = {}
<1>1. UNCHANGED <<deliveries, delayed, workerVars>>
  BY DEF AddJob, AddFails
<1>2. PICK pairs : waiting' = Enqueued(waiting, pairs)
  BY DEF AddJob, AddFails
<1>3. Attempts(e, d)' = {}
  BY <1>1 DEF Fresh, Attempts
<1>4. \A j \in Job : j.event = e /\ j.destination = d =>
        waiting'[j] + delayed'[j] <= (IF j.stalled THEN 0 ELSE 1)
  <2> SUFFICES ASSUME NEW j \in Job, j.event = e, j.destination = d
               PROVE  waiting'[j] + delayed'[j] <= (IF j.stalled THEN 0 ELSE 1)
    OBVIOUS
  <2>1. waiting[j] = 0 /\ delayed'[j] = 0
    BY <1>1 DEF Fresh
  <2>2. waiting'[j] = IF ~j.stalled /\ <<j.event, j.destination>> \in pairs
                      THEN waiting[j] + 1 ELSE waiting[j]
    BY <1>2 DEF Enqueued
  <2> QED
    BY <2>1, <2>2
<1>5. \A w \in Workers : ~InAttempt(w, e, d)'
  BY <1>1 DEF Fresh, InAttempt, workerVars, slotVars, EventOf, DestinationOf
<1> QED
  BY <1>3, <1>4, <1>5 DEF Chain, Delivering, Settled, HasRow

(* Both slots of a running chain would be the same.                        *)
LEMMA ChainHasOneSender ==
  ASSUME NEW e, NEW d, Chain(e, d), NEW w \in Workers, NEW v \in Workers,
         Sending(v, e, d), Sending(w, e, d) \/ InAttempt(w, e, d)
  PROVE  w = v
BY DEF Chain, Sending, InAttempt

(* The number of the next attempt of a chain that goes on, or is over.     *)
LEMMA NextOfChain ==
  ASSUME PipelineTypeOK, SlotsCount, NEW e \in Events, NEW d \in Destinations,
         NEW n \in Nat, IsNextAttempt(e, d, n)
  PROVE  /\ Exhausted(e, d) => n >= MaxRetries[d]
         /\ \A i \in Attempts(e, d) : deliveries[i].attempt < n
         /\ ~Exhausted(e, d) /\ (\A i \in Attempts(e, d) : deliveries[i].status = "failed")
              => n < MaxRetries[d]
<1> DEFINE M == MaxRetries[d]
<1>1. M \in Nat
  BY StoreAssumption
<1>2. \A i \in Attempts(e, d) : deliveries[i].attempt \in Nat /\ i \in DOMAIN deliveries
  BY RowType DEF Attempts, PipelineTypeOK, TypeOK
<1>3. n >= 1 /\ \A i \in Attempts(e, d) : deliveries[i].attempt < n
  <2>1. CASE Attempts(e, d) = {} /\ n = 1
    BY <2>1
  <2>2. CASE \E i \in Attempts(e, d) :
               /\ \A k \in Attempts(e, d) : deliveries[k].attempt <= deliveries[i].attempt
               /\ n = deliveries[i].attempt + 1
    BY <1>2, <2>2
  <2> QED
    BY <2>1, <2>2 DEF IsNextAttempt
<1>4. ASSUME Exhausted(e, d) PROVE n >= M
  <2>1. CASE M <= 1
    BY <1>1, <1>3, <2>1
  <2>2. ASSUME NEW i \in Attempts(e, d), deliveries[i].attempt + 1 >= M PROVE n >= M
    BY <1>1, <1>2, <1>3, <2>2
  <2> QED
    BY <1>4, <2>1, <2>2 DEF Exhausted, FailedRow
<1>5. ASSUME ~Exhausted(e, d), \A i \in Attempts(e, d) : deliveries[i].status = "failed"
      PROVE  n < M
  <2>1. M > 1 /\ \A i \in Attempts(e, d) : deliveries[i].attempt + 1 < M
    <3>1. ~(M <= 1) /\ \A i \in Attempts(e, d) : ~(deliveries[i].attempt + 1 >= M)
      BY <1>2, <1>5 DEF Exhausted, FailedRow
    <3> QED
      BY <1>1, <1>2, <3>1
  <2> QED
    BY <2>1 DEF IsNextAttempt
<1> QED
  BY <1>3, <1>4, <1>5

LEMMA ExhaustedStays ==
  ASSUME PipelineTypeOK, HeldRows, FailuresBelowMax, [PipelineNext]_pipelineVars,
         NEW e \in Events, NEW d \in Destinations, Exhausted(e, d)
  PROVE  Exhausted(e, d)'
<1> USE FailuresStay DEF FailedRow, Attempts, Exhausted
<1>1. CASE MaxRetries[d] <= 1
  BY <1>1
<1>2. CASE \E i \in DOMAIN deliveries :
             FailedRow(i, e, d) /\ deliveries[i].attempt + 1 >= MaxRetries[d]
  BY <1>2
<1> QED
  BY <1>1, <1>2

(* No two failures of a pair have the same number.                         *)
LEMMA FailuresDistinct ==
  ASSUME PipelineTypeOK, FailuresBelowMax, [PipelineNext]_pipelineVars,
         NEW e \in Events, NEW d \in Destinations, OneChainThenOneAttempt(e, d),
         NEW i \in DOMAIN deliveries', NEW k \in DOMAIN deliveries',
         FailedRow(i, e, d)', FailedRow(k, e, d)',
         deliveries'[i].attempt = deliveries'[k].attempt
  PROVE  i = k
<1>1. ASSUME NEW a \in DOMAIN deliveries, FailedRow(a, e, d),
             NEW w \in Workers, Sending(w, e, d), pc[w] = "record", outcome[w] = "failed"
      PROVE  deliveries[a].attempt # attempt[w]
  <2>1. attempt[w] \in Nat /\ MaxRetries[d] \in Nat /\ attempt[w] < MaxRetries[d]
    BY <1>1, StoreAssumption DEF Sending, FailuresBelowMax, PipelineTypeOK, TypeOK, WorkerTypeOK
  <2>2. ~Exhausted(e, d)
    BY <1>1, <2>1 DEF OneChainThenOneAttempt
  <2>3. deliveries[a].attempt < attempt[w] /\ deliveries[a].attempt \in Nat
    BY <1>1, <2>2, RowType DEF OneChainThenOneAttempt, ChainRuns, FailedRow, PipelineTypeOK, TypeOK
  <2> QED
    BY <2>1, <2>3
<1>2. ASSUME NEW a \in DOMAIN deliveries', FailedRow(a, e, d)', a \in DOMAIN deliveries,
             NEW b \in DOMAIN deliveries', FailedRow(b, e, d)', b \notin DOMAIN deliveries
      PROVE  deliveries'[a].attempt # deliveries'[b].attempt
  <2>1. FailedRow(a, e, d) /\ deliveries'[a] = deliveries[a]
    BY <1>2, FailedRowOrigin
  <2>2. PICK w \in Workers : /\ Record(w) /\ Sending(w, e, d) /\ outcome[w] = "failed"
                            /\ deliveries'[b].attempt = attempt[w]
    BY <1>2, FailedRowOrigin
  <2> QED
    BY <1>1, <1>2, <2>1, <2>2 DEF Record, At
<1>3. CASE i \in DOMAIN deliveries /\ k \in DOMAIN deliveries
  BY <1>3, FailedRowOrigin DEF OneChainThenOneAttempt
<1>4. CASE i \notin DOMAIN deliveries /\ k \notin DOMAIN deliveries
  <2>1. PICK w \in Workers : Record(w)
    BY <1>4, NewRow
  <2>2. /\ Len(deliveries) \in Nat /\ DOMAIN deliveries = 1..Len(deliveries)
        /\ DOMAIN deliveries' = 1..(Len(deliveries) + 1)
    BY <2>1, AppendRow, SlotRow DEF PipelineTypeOK, TypeOK
  <2> QED
    BY <1>4, <2>2
<1>5. CASE i \in DOMAIN deliveries /\ k \notin DOMAIN deliveries
  BY <1>2, <1>5
<1>6. CASE i \notin DOMAIN deliveries /\ k \in DOMAIN deliveries
  BY <1>2, <1>6
<1> QED
  BY <1>3, <1>4, <1>5, <1>6

(* The chain that goes on is the chain there was, or has just begun.       *)
LEMMA ChainRunsOn ==
  ASSUME PipelineTypeOK, HeldRows, FailuresBelowMax, SlotsCount, FanOutFresh,
         [PipelineNext]_pipelineVars, workerFaults' = 0, \A r \in Replays : ~EnqueueReplay(r),
         NEW e \in Events, NEW d \in Destinations, ChainRuns(e, d), ~Exhausted(e, d)
  PROVE  ChainRuns(e, d)'
<1>1. CASE Queues(e, d)
  <2>1. ASSUME NEW r \in Retries, retryRows[r] \cap Attempts(e, d) # {} PROVE FALSE
    BY <2>1 DEF HeldRows, ChainRuns
  <2>2. PICK r \in Webhooks : /\ webhookEvent[r] = e /\ d \in webhookTargets[r]
                              /\ AddJob(r) \/ AddFails(r)
    BY <1>1, <2>1 DEF Queues
  <2>3. Fresh(e, d)
    BY <2>2 DEF FanOutFresh, AddJob, AddFails
  <2>4. UNCHANGED workerVars
    BY <2>2 DEF AddJob, AddFails
  <2>5. \A w \in Workers : ~Sending(w, e, d)'
    BY <2>3, <2>4 DEF Sending, Fresh, workerVars, slotVars, EventOf, DestinationOf
  <2> QED
    BY <2>2, <2>3, <2>5, ChainBegins DEF ChainRuns
<1>2. CASE ~Queues(e, d)
  <2>1. Chain(e, d)'
    BY <1>2, ChainKept DEF ChainRuns
  <2>2. ASSUME NEW i \in Attempts(e, d)', i \in DOMAIN deliveries
        PROVE  i \in Attempts(e, d) /\ deliveries'[i] = deliveries[i]
    BY <2>2, RowsStay, FailuresStay DEF Attempts, ChainRuns
  <2>3. ASSUME NEW i \in Attempts(e, d)', i \notin DOMAIN deliveries
        PROVE  \E w \in Workers : Record(w) /\ Sending(w, e, d) /\ deliveries'[i] = RowOf(w)
    <3>1. i \in DOMAIN deliveries' /\ deliveries'[i].event = e /\ deliveries'[i].destination = d
      BY DEF Attempts
    <3>2. PICK w \in Workers : Record(w) /\ deliveries'[i] = RowOf(w)
      BY <2>3, <3>1, NewRow
    <3> QED
      BY <3>1, <3>2 DEF RowOf, Record, At, Sending
  <2>4. ASSUME NEW i \in Attempts(e, d)' PROVE deliveries'[i].status \in {"failed", "success"}
    <3>1. CASE i \in DOMAIN deliveries
      BY <2>2, <3>1 DEF ChainRuns
    <3>2. CASE i \notin DOMAIN deliveries
      <4>1. PICK w \in Workers : Record(w) /\ Sending(w, e, d) /\ deliveries'[i] = RowOf(w)
        BY <2>3, <3>2
      <4>2. /\ pc[w] = "record" /\ outcome[w] \in Outcome \ {"none"}
            /\ attempt[w] \in Nat /\ MaxRetries[d] \in Nat
        BY <4>1, StoreAssumption DEF Record, At, PipelineTypeOK, TypeOK, WorkerTypeOK
      <4>3. attempt[w] < MaxRetries[d]
        BY <4>1 DEF ChainRuns
      <4>4. outcome[w] # "dead_letter"
        BY <4>1, <4>2, <4>3 DEF SlotsCount, Sending
      <4> QED
        BY <4>1, <4>2, <4>4 DEF Outcome, RowOf
    <3> QED
      BY <3>1, <3>2
  <2>5. ASSUME NEW w \in Workers, Sending(w, e, d)'
        PROVE  /\ attempt'[w] < MaxRetries[d]
               /\ \A i \in Attempts(e, d)' : deliveries'[i].attempt < attempt'[w]
    <3>1. \A i \in Attempts(e, d)' : i \in DOMAIN deliveries
      <4>1. InAttempt(w, e, d) /\ ~Record(w)
        BY <2>5, SendingSteps DEF Sending, InAttempt, SlotKept, Deliver, NextAttemptNumber,
           Record, At, Goto, AfterRecord, PipelineTypeOK, TypeOK, WorkerTypeOK
      <4> QED
        BY <2>3, <4>1, ChainHasOneSender DEF ChainRuns
    <3>2. CASE Sending(w, e, d) /\ attempt'[w] = attempt[w]
      BY <2>2, <3>1, <3>2 DEF ChainRuns
    <3>3. CASE NextAttemptNumber(w) /\ InAttempt(w, e, d) /\ IsNextAttempt(e, d, attempt'[w])
      <4>1. ~Settled(e, d)
        BY <3>3 DEF ChainRuns, Chain, InFlight, Delivering
      <4>2. \A i \in Attempts(e, d) : deliveries[i].status = "failed"
        BY <4>1 DEF ChainRuns, Settled, HasRow
      <4>3. attempt'[w] \in Nat
        BY PipelineStepType DEF PipelineTypeOK, TypeOK, WorkerTypeOK
      <4> QED
        BY <2>2, <3>1, <3>3, <4>2, <4>3, NextOfChain
    <3> QED
      BY <2>5, <3>2, <3>3, SendingSteps
  <2> QED
    BY <2>1, <2>4, <2>5 DEF ChainRuns
<1> QED
  BY <1>1, <1>2

LEMMA OneAttemptStep ==
  ASSUME PipelineTypeOK, HeldRows, FailuresBelowMax, SlotsCount, FanOutFresh,
         [PipelineNext]_pipelineVars, workerFaults' = 0, \A r \in Replays : ~EnqueueReplay(r),
         NEW e \in Events, NEW d \in Destinations, OneChainThenOneAttempt(e, d)
  PROVE  OneChainThenOneAttempt(e, d)'
<1>1. ASSUME NEW i \in DOMAIN deliveries', NEW k \in DOMAIN deliveries',
             FailedRow(i, e, d)', FailedRow(k, e, d)',
             deliveries'[i].attempt = deliveries'[k].attempt
      PROVE  i = k
  BY <1>1, FailuresDistinct
<1>2. ASSUME Exhausted(e, d)', NEW w \in Workers, Sending(w, e, d)'
      PROVE  attempt'[w] >= MaxRetries[d]
  <2>1. CASE Exhausted(e, d)
    <3>1. attempt'[w] \in Nat
      BY PipelineStepType DEF PipelineTypeOK, TypeOK, WorkerTypeOK
    <3> QED
      BY <1>2, <2>1, <3>1, SendingSteps, NextOfChain DEF OneChainThenOneAttempt
  <2>2. CASE ~Exhausted(e, d)
    <3>1. PICK i \in DOMAIN deliveries' :
            FailedRow(i, e, d)' /\ deliveries'[i].attempt + 1 >= MaxRetries[d]
      BY <1>2, <2>2 DEF Exhausted
    <3>2. PICK v \in Workers : Record(v) /\ Sending(v, e, d)
      BY <2>2, <3>1, FailedRowOrigin DEF Exhausted
    <3>3. Sending(w, e, d) \/ InAttempt(w, e, d)
      BY <1>2, SendingSteps
    <3>4. w = v
      BY <2>2, <3>2, <3>3, ChainHasOneSender DEF OneChainThenOneAttempt, ChainRuns
    <3> QED
      BY <1>2, <3>2, <3>4 DEF Record, At, Goto, AfterRecord, Sending, PipelineTypeOK, TypeOK,
         WorkerTypeOK
  <2> QED
    BY <2>1, <2>2
<1>3. ~Exhausted(e, d)' => ChainRuns(e, d)'
  BY ExhaustedStays, ChainRunsOn DEF OneChainThenOneAttempt
<1> QED
  BY <1>1, <1>2, <1>3 DEF OneChainThenOneAttempt

OneAttemptUnlessFaults ==
  workerFaults = 0 => \A e \in Events, d \in Destinations : OneChainThenOneAttempt(e, d)

LEMMA OneAttemptInit == PipelineInit => OneAttemptUnlessFaults /\ FanOutFresh /\ SlotsCount
<1> SUFFICES ASSUME PipelineInit PROVE OneAttemptUnlessFaults /\ FanOutFresh /\ SlotsCount
  OBVIOUS
<1>1. FanOutFresh /\ SlotsCount
  BY DEF PipelineInit, IngestionInit, WorkerInit, FanOutFresh, WebhookAt, SlotsCount
<1>2. ASSUME NEW e \in Events, NEW d \in Destinations PROVE OneChainThenOneAttempt(e, d)
  <2>1. Attempts(e, d) = {} /\ \A w \in Workers : pc[w] = "idle"
    BY DEF PipelineInit, WorkerInit, Attempts
  <2>2. ASSUME NEW j \in Job PROVE waiting[j] + delayed[j] <= (IF j.stalled THEN 0 ELSE 1)
    <3>1. NoJobs[j] = 0 /\ delayed[j] = 0
      BY DEF PipelineInit, NoJobs
    <3>2. PICK pairs : waiting = Enqueued(NoJobs, pairs)
      BY DEF PipelineInit
    <3>3. waiting[j] = IF ~j.stalled /\ <<j.event, j.destination>> \in pairs
                       THEN NoJobs[j] + 1 ELSE NoJobs[j]
      BY <3>2 DEF Enqueued
    <3> QED
      BY <3>1, <3>3
  <2>3. Chain(e, d)
    BY <2>1, <2>2 DEF Chain, Delivering, InAttempt, Settled, HasRow
  <2> QED
    BY <2>1, <2>3 DEF OneChainThenOneAttempt, ChainRuns, FailedRow, Sending
<1> QED
  BY <1>1, <1>2 DEF OneAttemptUnlessFaults

(* Distinct numbers from 1 to max_retries - 1 are fewer than max_retries.  *)
LEMMA FailuresCounted ==
  PipelineTypeOK /\ FailuresBelowMax /\ SlotsCount /\ OneAttemptUnlessFaults /\ workerFaults = 0
    => RetryIsOneAttempt
<1> SUFFICES ASSUME PipelineTypeOK, FailuresBelowMax, SlotsCount, OneAttemptUnlessFaults,
                    workerFaults = 0, NEW e \in Events, NEW d \in Destinations
             PROVE  Cardinality({i \in Attempts(e, d) : deliveries[i].status = "failed"}) <
                      (IF MaxRetries[d] = 0 THEN 1 ELSE MaxRetries[d])
  BY DEF RetryIsOneAttempt
<1> DEFINE rows == {i \in Attempts(e, d) : deliveries[i].status = "failed"}
           numbers == 1..(MaxRetries[d] - 1)
           number == [i \in rows |-> deliveries[i].attempt]
<1>1. MaxRetries[d] \in Nat
  BY StoreAssumption
<1>2. ASSUME NEW i \in rows PROVE deliveries[i].attempt \in numbers
  <2>1. /\ deliveries[i].attempt \in Nat /\ deliveries[i].attempt >= 1
        /\ deliveries[i].attempt < MaxRetries[d]
    BY RowType DEF Attempts, SlotsCount, FailuresBelowMax, PipelineTypeOK, TypeOK
  <2> QED
    BY <1>1, <2>1
<1>3. ASSUME NEW i \in rows, NEW k \in rows, deliveries[i].attempt = deliveries[k].attempt
      PROVE  i = k
  <2>1. OneChainThenOneAttempt(e, d)
    BY DEF OneAttemptUnlessFaults
  <2> QED
    BY <1>3, <2>1 DEF OneChainThenOneAttempt, FailedRow, Attempts
<1>4. number \in Injection(rows, numbers)
  BY <1>2, <1>3 DEF Injection, IsInjective
<1>5. IsFiniteSet(numbers)
      /\ Cardinality(numbers) = IF 1 > MaxRetries[d] - 1 THEN 0 ELSE MaxRetries[d] - 1
  <2>1. 1 \in Int /\ MaxRetries[d] - 1 \in Int
    BY <1>1
  <2>2. (MaxRetries[d] - 1) - 1 + 1 = MaxRetries[d] - 1
    BY <1>1
  <2> QED
    BY <2>1, <2>2, FS_Interval
<1>6. IsFiniteSet(rows) /\ Cardinality(rows) <= Cardinality(numbers)
  BY <1>4, <1>5, FS_Injection
<1>7. Cardinality(rows) \in Nat
  BY <1>6, FS_CardinalityType
<1> QED
  BY <1>1, <1>5, <1>6, <1>7

(* Without faults of the worker and without replays, a retry costs one     *)
(* attempt: whatever dead letters are retried, how often, by how many      *)
(* requests at once and wherever one of these is interrupted, a pair never *)
(* has more failed rows than its first chain may have.                     *)
THEOREM RetriesAreOneAttempt ==
  PipelineSpec /\ NothingReplayed => [](workerFaults = 0 => RetryIsOneAttempt)
<1> DEFINE Inv == OneAttemptUnlessFaults /\ FanOutFresh /\ SlotsCount
<1>1. PipelineTypeOK /\ HeldRows /\ FailuresBelowMax /\ Inv /\ [PipelineNext]_pipelineVars
        /\ [\A r \in Replays : ~EnqueueReplay(r)]_pipelineVars
        => OneAttemptUnlessFaults'
  <2> SUFFICES ASSUME PipelineTypeOK, HeldRows, FailuresBelowMax, Inv,
                      [PipelineNext]_pipelineVars,
                      [\A r \in Replays : ~EnqueueReplay(r)]_pipelineVars,
                      workerFaults' = 0, NEW e \in Events, NEW d \in Destinations
               PROVE  OneChainThenOneAttempt(e, d)'
    BY DEF OneAttemptUnlessFaults
  <2>1. OneChainThenOneAttempt(e, d)
    BY FaultsStay DEF OneAttemptUnlessFaults
  <2>2. \A r \in Replays : ~EnqueueReplay(r)
    BY DEF EnqueueReplay, ReplayAt, ReplayGoto, pipelineVars, replayVars, PipelineTypeOK,
       ReplayTypeOK
  <2> QED
    BY <2>1, <2>2, OneAttemptStep
<1>2. [\A r \in Replays : ~EnqueueReplay(r)]_pipelineVars
        => [\A r \in Replays : EnqueueReplay(r) => events[replayEvent[r]] # "rejected"]_pipelineVars
  OBVIOUS
<1> QED
  BY <1>1, <1>2, OneAttemptInit, FanOutFreshStep, SlotsCountStep, FailuresCounted,
     UnacceptedFreshInit, UnacceptedFreshStep, FanOutAcceptedStep, FansOutOnce,
     PipelineTypeCorrect, HeldRowsInvariant, FailuresBelowMaxInvariant, AnsweredInvariant,
     ReplaysStoredInvariant, PTL DEF PipelineSpec, NothingReplayed
=============================================================================
