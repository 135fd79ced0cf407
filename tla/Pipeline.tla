------------------------------ MODULE Pipeline ------------------------------
(***************************************************************************)
(* The engine: ingestion, the delivery worker, retries of dead letters,    *)
(* replays, changes of destinations and the archiver, over the tables and  *)
(* the queue they share.  A component without actors (no Webhooks, no      *)
(* Retries, ...) takes no part.                                            *)
(***************************************************************************)
EXTENDS Shutdown, DestinationRoutes, Archiver

CONSTANT Preloaded     \* events stored and queued before the engine is observed

(* Archived keys are not ingested again: a key names one row of events.    *)
ASSUME PipelineAssumption ==
  /\ Preloaded \subseteq Events
  /\ Aged = {} \/ Webhooks = {}

pipelineVars == <<vars, webhookVars, apiFaults, retryVars, replayVars, uncreated, archiverVars,
                  shutdownStep>>

PipelineTypeOK ==
  /\ TypeOK
  /\ RequestsTypeOK
  /\ IngestionTypeOK
  /\ DeadLettersTypeOK
  /\ ReplayTypeOK
  /\ DestinationRoutesTypeOK
  /\ ArchiverTypeOK
  /\ ShutdownTypeOK

-----------------------------------------------------------------------------
PipelineInit ==
  /\ events = [e \in Events |-> IF e \in Preloaded THEN "pending" ELSE "absent"]
  /\ destinations = Destinations \ Late
  /\ deliveries = << >>
  /\ waiting = Enqueued(NoJobs, {p \in Preloaded \X destinations : p[2] \in Matched[p[1]]})
  /\ delayed = NoJobs
  /\ failed = NoJobs
  /\ WorkerInit
  /\ RequestsInit
  /\ IngestionInit
  /\ DeadLettersInit
  /\ ReplayInit
  /\ DestinationRoutesInit
  /\ ArchiverInit
  /\ ShutdownInit

ComponentsNext ==
  \/ /\ WorkerNext
     /\ UNCHANGED <<webhookVars, apiFaults, retryVars, replayVars, uncreated, archiverVars>>
  \/ /\ IngestionNext
     /\ UNCHANGED <<retryVars, replayVars, uncreated, archiverVars>>
  \/ /\ DeadLettersNext
     /\ UNCHANGED <<workerVars, webhookVars, replayVars, uncreated, archiverVars>>
  \/ /\ ReplayNext
     /\ UNCHANGED <<workerVars, webhookVars, retryVars, uncreated, archiverVars>>
  \/ /\ DestinationRoutesNext
     /\ UNCHANGED <<workerVars, webhookVars, apiFaults, retryVars, replayVars, archiverVars>>
  \/ /\ ArchiverNext
     /\ UNCHANGED <<workerVars, webhookVars, retryVars, replayVars, uncreated>>

PipelineNext ==
  \/ /\ ComponentsNext
     /\ ServerClosing => NoRequestStarts
     /\ WorkerClosing => NoJobStarts
     /\ UNCHANGED shutdownStep
  \/ /\ ShutdownNext
     /\ UNCHANGED <<vars, webhookVars, retryVars, replayVars, uncreated, archiverVars>>

PipelineSpec == PipelineInit /\ [][PipelineNext]_pipelineVars

(* The worker goes on until it is closed, HTTP requests excepted, a        *)
(* handler that has begun goes on to its reply, and so does a shutdown:    *)
(* the event loop runs their continuations.  Nobody is bound to send a request or a signal, and the  *)
(* sweep and the archiver need not run.                                    *)
PipelineFairness ==
  /\ \A w \in Workers :
       /\ WF_vars(~At(w, "deliver") /\ Proceed(w))
       /\ WF_vars(~WorkerClosing /\ TakeJob(w))
  /\ \A j \in Job : WF_vars(~WorkerClosing /\ Promote(j))
  /\ \A r \in Webhooks :
       WF_<<vars, webhookVars, apiFaults>>(WebhookProceed(r) /\ ~WebhookAt(r, "new"))
  /\ \A r \in Retries :
       WF_<<storeVars, retryVars, apiFaults>>(ResetDeadLetters(r) \/ EnqueueRetries(r))
  /\ \A r \in Replays : WF_<<storeVars, replayVars, apiFaults>>(ReplayProceed(r))
  /\ \A s \in Signals : WF_<<shutdownStep, apiFaults>>(ShutdownProceed(s))

PipelineFairSpec == PipelineSpec /\ PipelineFairness

-----------------------------------------------------------------------------
(* A retry has reset rows of the pair and is about to queue their jobs.    *)
HeldByRetry(e, d) ==
  \E r \in Retries : retryStep[r] = "enqueue" /\ retryRows[r] \cap Attempts(e, d) # {}

Tracked(e, d) ==
  Settled(e, d) \/ InFlight(e, d) \/ Queued(failed, e, d) \/ HeldByRetry(e, d)

(* Destinations that were there before any request and still are.          *)
Original(e) == RequiredDestinations(e) \ Late

(* A sender told "accepted" can forget the event: at every destination of  *)
(* its scope it is delivered, dead-lettered, or still on its way, though   *)
(* the jobs were queued one by one after the insert, while workers ran.    *)
AcceptedIsTracked ==
  \A r \in Webhooks : answer[r] = "accepted" =>
    \A d \in Original(webhookEvent[r]) : Tracked(webhookEvent[r], d)

(* Of the requests that carry the same idempotency key one at most fans    *)
(* out, however they interleave and wherever they are interrupted.         *)
OneFanOut ==
  \A r, s \in Webhooks :
    /\ webhookEvent[r] = webhookEvent[s]
    /\ WebhookAt(r, "select") \/ WebhookAt(r, "enqueue") \/ answer[r] = "accepted"
    /\ WebhookAt(s, "select") \/ WebhookAt(s, "enqueue") \/ answer[s] = "accepted"
    => r = s

(* An event stored as rejected has no job and no delivery, also when a     *)
(* request with a good signature carries the same key.                     *)
RejectedIsNotDelivered ==
  \A e \in Events : events[e] = "rejected" =>
    \A d \in Destinations : ~InFlight(e, d) /\ ~Queued(failed, e, d) /\ Attempts(e, d) = {}

(* A sender that was only ever told to back off can send the event again:  *)
(* nothing has been stored that would make its retry a duplicate.          *)
RefusedLeavesNoTrace ==
  \A e \in Events \ Preloaded :
    (\A r \in Webhooks :
       webhookEvent[r] = e => answer[r] = "overloaded" \/ WebhookAt(r, "new"))
    => events[e] = "absent"

(* A sender told "accepted" has its event settled in the end at every      *)
(* destination that is not deleted meanwhile, unless a response without    *)
(* end holds it up.                                                        *)
AcceptedSettles ==
  \A r \in Webhooks : \A d \in Destinations \ Late :
    \/ answer[r] = "accepted" /\ d \in Matched[webhookEvent[r]] ~>
         \/ Settled(webhookEvent[r], d)
         \/ Queued(failed, webhookEvent[r], d)
         \/ d \notin destinations
    \/ <>[]HeldByResponse(webhookEvent[r], d)

-----------------------------------------------------------------------------
(* Retrying dead letters, also the same one twice and while the worker     *)
(* runs, never takes a pair out of sight: between the reset of its row and *)
(* the new job the request holds it.  Only the archiver may take an event  *)
(* away from under its jobs.                                               *)
RetryKeepsTrack ==
  \A e \in Preloaded : events[e] # "absent" => \A d \in Original(e) : Tracked(e, d)

(* The worker never leaves a row for the sweep, which would dead-letter it *)
(* while its next attempt is queued; resets do not make such rows either.  *)
SweepFindsNothing == Sweepable = {}

(* A retried pair is attempted once and dead-lettered again on failure,    *)
(* not backed off anew: the reset row's attempt number starts over but     *)
(* MAX(attempt) still finds the last failed one.                           *)
RetryIsOneAttempt ==
  \A e \in Events, d \in Destinations :
    Cardinality({i \in Attempts(e, d) : deliveries[i].status = "failed"}) <
      (IF MaxRetries[d] = 0 THEN 1 ELSE MaxRetries[d])

(* A delivery that was reset is attempted again and ends delivered,        *)
(* dead-lettered, or with its job in the failed set, unless a response     *)
(* without end holds it up.                                                *)
RetriesSettle ==
  \A e \in Events, d \in Destinations :
    \/ HasRow(e, d, "pending") ~> Settled(e, d) \/ Queued(failed, e, d)
    \/ <>[]HeldByResponse(e, d)

-----------------------------------------------------------------------------
(* The counters of a replay never exceed its total, and add up to it when  *)
(* it is reported completed, whatever fails between its batches.           *)
ReplayCountsAddUp ==
  \A r \in Replays :
    LET row == replayRow[r]
    IN  /\ row.processed + row.failed <= row.total
        /\ row.status = "completed" => row.processed + row.failed = row.total

(* An event marked replayed has been queued again for every destination of *)
(* its source, also those its payload is not scoped to.                    *)
ReplayedIsTracked ==
  \A e \in Events : events[e] = "replayed" =>
    \A d \in destinations \ Late : Tracked(e, d)

(* A replay that has been requested is completed, also when some of its    *)
(* events fail; only an interruption of the whole request leaves it open.  *)
ReplayFinishes ==
  \A r \in Replays :
    replayRow[r].status = "pending" ~>
      replayRow[r].status = "completed" \/ (ReplayAt(r, "done") /\ apiFaults > 0)

-----------------------------------------------------------------------------
(* Once a signal reports the worker drained, nothing in the process writes *)
(* to the database or the queue any more: no replay is still queueing, no  *)
(* slot still recording, also when the two signals overlap.  Only the      *)
(* archiver, which another process runs, may go on.                        *)
QuietAfterShutdown ==
  [][(\E s \in Signals : shutdownStep[s] = "drained") =>
       UNCHANGED storeVars \/ DeleteArchived]_pipelineVars

(* A signal is served: neither a replay in progress nor a full queue, nor  *)
(* the other signal, keeps the process from ending.  Only a response       *)
(* without end does, for the job that waits for it is waited for.          *)
ShutdownCompletes ==
  \A s \in Signals :
    \/ shutdownStep[s] = "server" ~> shutdownStep[s] \in {"drained", "abandoned"}
    \/ <>[](\E w \in Workers : At(w, "deliver"))

-----------------------------------------------------------------------------
(* While destinations come and go, an event that is marked delivered has   *)
(* succeeded at every destination that was there all along: the required   *)
(* set is read in full, and the foreign key keeps what has been attempted. *)
DeliveredCoversOriginal ==
  \A e \in Events : events[e] = "delivered" => Original(e) \subseteq SuccessfulDestinations(e)

(* No more faults, jobs or requests are at work on the event.              *)
AtRest(e) ==
  /\ ~Aggregating(e)
  /\ \A d \in Destinations :
       ~InFlight(e, d) /\ ~Queued(failed, e, d) /\ ~HeldByRetry(e, d)

(* An event at rest that has succeeded at every destination still there    *)
(* from the start is marked delivered, unless a destination of its scope   *)
(* was created or deleted meanwhile: the check requires a success of the   *)
(* former, though no job was queued for it, and nobody repeats the check   *)
(* after the latter.  Retries and the archiver never leave it pending; a   *)
(* fault of the worker can (LastRecorderAggregates).                       *)
ClosedUnlessRowsChanged ==
  workerFaults = 0 => \A e \in Events :
    /\ events[e] = "pending" /\ AtRest(e)
    /\ Original(e) # {} /\ Original(e) \subseteq SuccessfulDestinations(e)
    => Matched[e] \cap (Late \ uncreated) # {} \/ ~(Matched[e] \ Late \subseteq destinations)

(* What readers of the deliveries table can rely on while all of these run *)
(* at once: attempts are added with their outcome, dead letters are reset, *)
(* failures swept, and a success stays.                                    *)
Rows == INSTANCE DeliveryRows WITH rows <- [i \in DOMAIN deliveries |-> deliveries[i].status]
KeepsRows == Rows!RowsSpec

(* The archiver may fail or be interrupted between copying and deleting,   *)
(* and the worker and replays write meanwhile: no stored event vanishes    *)
(* from both tables.                                                       *)
NoEventVanishes == \A e \in Preloaded : events[e] # "absent" \/ e \in archive

-----------------------------------------------------------------------------
(* What the documentation, the comments and the tests say and the code     *)
(* does not keep.  A run of its own refutes each, and RetryKeepsTrack when *)
(* a retry can be interrupted.                                             *)

(* "Event already processed": the event of a request answered as a         *)
(* duplicate is on its way or arrived, or the first request is still       *)
(* queueing it.  An interruption between insert and queue refutes it.      *)
DuplicateWasProcessed ==
  \A r \in Webhooks : answer[r] = "duplicate" =>
    \/ events[webhookEvent[r]] = "rejected"
    \/ \E s \in Webhooks : /\ webhookEvent[s] = webhookEvent[r]
                           /\ WebhookAt(s, "select") \/ WebhookAt(s, "enqueue")
    \/ \A d \in Original(webhookEvent[r]) : Tracked(webhookEvent[r], d)

(* Archiving moves events: when the job is not running, none is in both    *)
(* tables.  An event that has deliveries refutes it.                       *)
ArchivedIsMoved ==
  archiverStep = "idle" => \A e \in archive : events[e] = "absent"

=============================================================================
