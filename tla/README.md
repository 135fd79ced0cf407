# A verification model of the webhook ingestion and replay engine

TLA+ modules, TLC configurations and TLAPS proofs for the engine under `src/`.
Paths below are relative to that directory (`src/delivery/worker.ts` is the
delivery worker). `PROJECT.json` lists the components, runs, findings, hazards,
theorems and, for every definition that models code, the lines it stands for.

## 1. The system

A sender posts a webhook to `/webhooks/:slug`. The ingestion handler looks the
source up, verifies the signature, inserts an `events` row under an idempotency
key (a hash of the body), selects the source's enabled destinations and adds one
BullMQ job per destination to the queue `deliver`. A BullMQ worker with several
concurrent slots takes a job, loads its rows, computes the attempt number, sends
the HTTP request, inserts a `deliveries` row, schedules a delayed retry job or
dead-letters, and after a success checks whether the event is delivered
everywhere. Operators retry dead letters and replay stored events through the
management API; jobs sweep, archive and aggregate. All of them run in separate
handlers, slots or processes and meet only in PostgreSQL and Redis; no
operation uses a transaction over more than one statement, and Redis and
PostgreSQL are never updated together.

| component | state | operations | what is hard | what makes it correct |
|---|---|---|---|---|
| delivery worker, queue | `deliveries`, `events.status`, jobs waiting, delayed, active, failed | take, load, number, deliver, record, reschedule, aggregate | slots race on one event and on one pair; throw or die between steps; stalled jobs run twice | nothing lost; no early dead letter; event status right; attempts bounded; settles |
| ingestion | `events`, queue | depth check, verify, reject, persist, select, add | concurrent requests with one key; interruption between insert and queue | one fan-out per key; what the sender is told is what is stored |
| dead-letter retry and sweep | `deliveries.status` and `attempt`, queue | select, reset, enqueue; one UPDATE | overlapping retries; interruption after the reset | a retried delivery is queued; the sweep takes nothing in flight |
| replay engine | `replay_requests`, `events.status`, queue | select, total, per event read, enqueue, mark, then progress, complete | one event failing; interference with the worker's status | counters add up; a replayed event was queued; it completes |
| destination routes | `destinations` | create, delete | changes between the reads of a worker or a request | no early "delivered" |
| event archiver | `events`, `events_archive` | copy, delete | two statements; foreign key; events aging meanwhile | nothing vanishes |
| source cache and updates | Redis entry per slug, `sources` | get, select, set, expire; read, write, invalidate | fill racing update, renames | staleness only by overlap and bounded by the TTL |
| HTTP client | one call's budget, redirects, timer | resolve, send, abort, follow, read the body | one budget over several requests; silent hosts, redirect loops, slow bodies | headers within the budget; only a body without end keeps the call |
| URL checks | none | resolve twice, compare with ranges | the ranges' boundaries; time spent on DNS | the documented ranges; the budget survives |
| signature | none | strip prefix, check the timestamp, compare | header formats, boundaries | a genuine header is accepted |
| payload depth | none | one scan over the text | escapes, quotes, brackets inside strings | refuses what is nested too deep, and nothing else |
| listing endpoints | none | offset pages of events, deliveries and dead letters; keyset pages of sources | rows that come and go between pages; truncated cursors | a row is listed once unless the rows in between changed |
| statistics job | Redis hash per source | count, write | overlapping runs | published successes go back only when a run is overtaken |
| tenants | `tenants` | check, insert (endpoint and seed script) | the check and the insert are two statements | one tenant per name unless they overlap |
| shutdown | process | close the server, then the worker, on each signal | a second signal; handlers in the middle of queueing | waits for what is in progress, and only for that |
| rate limits, errors, health, logging, scheduler, alerting | none | | | not modelled, section 6 |

## 2. Modules

    Store                   tables and queue, queries on them
      DeliveryWorker        one action per round trip of processDeliveryJob
        DeliveryWorkerProofs   its theorems
        MCDeliveryWorker       constants for TLC
      Requests              interruptions of handlers and jobs
        Ingestion           (with DeliveryWorker, whose active slots it counts,
                            and Signature, from which it takes the verdicts)
        DeadLetters         retry and sweep
        Replay              executeReplay
          Shutdown          graceful shutdown around these three
        Archiver            the archiver job
      DestinationRoutes     create and delete
      Pipeline              composes all of them; MCPipeline gives it constants
        PipelineProofs         theorems about the composition
    ReliableDelivery        the abstract specification the worker implements
    DeliveryRows            the abstract table of deliveries Pipeline implements
      OffsetListing         pages of dead letters, over that table
      Statistics            the statistics job, over that table
    SourceCache             the cache; MCSourceCache adds a history variable
      SourceCacheProofs     their theorems
    SourceListing           pages of sources
      SourceListingProofs   its theorem
    Tenants                 registration and seeding
      MCManagement          composes the five, of which a behaviour observes one
        ManagementProofs    theorems about Tenants, Statistics and OffsetListing
    Signature               verifySignature; MCSignature runs it by itself
    HttpClient              one call of deliverWebhook, by itself
      HttpClientProofs      its theorems
    UrlValidator            the address ranges, with their theorems
    JsonDepth               the depth scanner beside a writer of JSON
      JsonDepthProofs       its theorem

**Store.** `events` maps an idempotency key to the status of its row, or
`absent`; `destinations` is the set of enabled rows (nothing disables one);
`deliveries` is the table in insertion order. The queue is three functions from
jobs to multiplicities: jobs carry no identity besides their data and whether
they have stalled. `Matched[e]` is the payload's scope, the meaning of
`_matched_destination_ids`.

**DeliveryWorker.** A slot is an invocation of `processDeliveryJob`: a program
counter and the locals that survive a round trip. `TakeJob`, `Load`,
`NextAttemptNumber`, `Deliver`, `Record`, `Reschedule`, `ReadRequired`,
`ReadSuccesses`, `UpdateEvent`, `Complete` are its awaits in order. A response is
a 2xx or not, chosen freely. `Throw` is any exception (the job has one attempt in
BullMQ and goes to the failed set), `RecordRefused` the foreign key violation,
`Stall` the death of the process (BullMQ queues the job again once, then fails
it). At most `WorkerFaults` of `Throw` and `Stall` happen.

**Ingestion** has one action per step comment of the handler. `AddJob` is one
`queue.add`; they are added in any order. `AddFails` and `InterruptWebhook` are
rejected calls, thrown statements and process death, with or without an answer
reaching the sender. **DeadLetters** treats the single retry as a bulk retry of
one row. **Replay** has one action per statement of `executeReplay`; `FailEvent`
is its catch block, `InterruptReplay` what the catch block does not cover.
**Archiver** models the `ON CONFLICT` insert, the skipped delete when nothing was
inserted, and the delete refused as a whole by the foreign key of `deliveries`.
Archived keys are not ingested again in the model (events are named by their
key), hence the assumption that a configuration ages events or ingests them.
**Pipeline** lets every component step while the private state of the others is
unchanged; a component without actors takes no part. The jobs (sweep, archiver)
may run at any time: `startScheduler` has no caller in the source, so somebody
else runs them.

**Shutdown.** Every signal runs `performShutdown`: `ServerClosed` waits for the
handlers in progress, `WorkerClosed` for the slots, and `WorkerCloseFails` is the
rejected `worker.close()` that is logged and passed over. `NoRequestStarts` and
`NoJobStarts` say what Fastify and BullMQ no longer do once they are closing;
`Pipeline` conjoins them to the steps of the others. Nothing keeps a second
signal from starting the sequence again. `startRuntime` passes neither the SQL nor
the Redis client, so the third and fourth step of the sequence close nothing.

**DeliveryRows** is what the readers of `deliveries` may rely on: rows are
inserted, never removed, and change only from dead letter to pending (a retry) or
from failed to dead letter (the sweep). `Pipeline` implements it (`KeepsRows`), and
that is what justifies modelling `OffsetListing` and `Statistics` over it instead
of over the whole pipeline.

**OffsetListing** stands for the three offset listings, which differ in table and
filter: a COUNT, a SELECT with LIMIT and OFFSET, and a cursor that is an offset.
**SourceListing** is the keyset pagination of sources. A source's `created_at` is
the time its transaction began, so a row may appear behind the cursor; the cursor
is truncated to milliseconds (`Milliseconds`), the comparison is not.
**Statistics** is one source's counts with any number of overlapping runs.
**Tenants** has the endpoint and the seed script as applicants that check and
insert. **MCManagement** observes one of these four or the source cache: they
share no state that a property mentions, and exploring their product would say
nothing more. Which one is observed is chosen initially.

**Signature** models a header by its prefix, its timestamp field and whether its
digest matches, and translates `verifySignature` over that; `Ingestion` draws the
outcome of a request's check from its values. **JsonDepth** lets a writer produce
any text that `JSON.parse` accepts, token by token with strings and escapes
character by character, while the scanner reads it; the scanner's variables are
those of the source, the writer's stack is the reference. **UrlValidator** translates
the comparisons of `isPrivateIpv4` and `isPrivateIpv6` and states the documented
blocks beside them.

History variables (`overlapped`, `overlapping`, `overtaken`, `gained`, `lost`,
`slipped`, `lastOfPage`, `firstMatch`, `firstSources`) are read by no action; they
let a property say that an anomaly needs a particular overlap.

**SourceCache** follows one source through lookups and updates with their own
steps: `ReadOldSlug`, `WriteSource`, `InvalidateOld`, `InvalidateNew` are the
update handler, whose slug is optional (`NoSlug`): without one the row keeps its slug
and only the slug read first is invalidated. `Get`, `Select`, `Set` are the lookup,
`Expire` the TTL.

**HttpClient** refines what `Deliver` does in one step: one call with a discrete
clock (`elapsed`, stopped at `Horizon`), the timer of the current request
(`deadline`) and the redirect count. The check of the address is three steps, the
parse, which takes no time, and the two DNS queries, whose time counts against the
budget though no timer runs yet. A host may never answer, answer with a redirect, or answer and then
send its body at any pace, or without end. A status code matters only as 2xx or not.

Definitions whose comment begins "Mutant of" are not part of the model: each
changes one definition the way a plausible bug would, and shows that the property
it is paired with in `PROJECT.json` notices.

## 3. Runs

| run | instance | question |
|---|---|---|
| Worker | 1 event, 2 destinations (2 and 1 attempts), 2 slots, 2 faults | invariants of the worker, a second chain only after a fault, the refinement of `ReliableDelivery`; deliveries settle, events close, also after a crash |
| Ingestion | 2 events, 2 requests, 2 destinations of which one may be deleted, 1 slot, depth 1, 1 interruption | what the sender was told holds; accepted events settle |
| Retry | 2 retries, 2 destinations (2 and 1 attempts), 2 slots, the sweep | retries lose nothing, are one attempt, settle; the sweep finds nothing |
| Replay | 1 replay of up to 3 events in batches of 2, 1 slot, 2 interruptions or failing events, 2 signals | counters, completion, what "replayed" means; the shutdown is quiet and completes |
| RowsChange | 2 events, 1 slot, 3 destinations of which one is deleted and one created at any moment, 1 retry, sweep, archiver, 1 interruption | the composition; "delivered" under change, and why an event stays pending; nothing vanishes; the refinement of `DeliveryRows` |
| Management | cache: 2 slugs, 2 lookups, 2 updates, 1 interruption; tenants: 3 registrations, 1 seed run, 2 names; sources: 3 ids, pages of 1, 2 microseconds to the millisecond, clock up to 3; dead letters: 4 rows, pages of 2; statistics: 2 runs, 4 rows | when, and how long, the cache can be stale; when names repeat, listings leave out or repeat, counts go back |
| Http | timeout 4, 3 redirects, clock up to 7 | the time budget; only a body without end keeps the call |
| DuplicateLost, RetryInterrupted, ArchiveRefused, BodyNotTimed, TimestampRefused | the smallest that show it | section 4 |

Deadlock is not checked: every instance ends when its requests and jobs are done.

Why the bounds are enough to be interesting: two slots suffice for every race on
an event's status and on one pair's attempt number; with two attempts a pair can
be between them when a fault starts a second chain; two faults let a stalled job
stall again (failed set) and let two chains coexist; two destinations give
fan-out and aggregation, and the third one change; three events in batches of two
give a full and a partial batch, and the events of that run are scoped to no
destination, so that every job is one the replay has queued. A timeout of 4 with
3 redirects lets a chain end by either limit. Two signals let the second arrive at
each step of the first. Two microseconds to the millisecond and a clock of 3 put
sources both in one millisecond and in different ones; pages of one make every
source a cursor. Four rows and pages of two give a second page that insertions and
removals on the first can shift. TLC places the interruptions at every point.

The worker's invariants mention what faults leave behind (the failed set)
explicitly, so the bound on faults is a bound on the instance and not an
assumption hidden in the property. `RetryKeepsTrack` holds only while retries are
not interrupted, which is what Retry checks; RetryInterrupted shows the rest. The
archiver is the one component that takes rows away and that another process runs:
`RetryKeepsTrack` asks about events that are still stored, and
`QuietAfterShutdown` lets `DeleteArchived` go on.

**Fairness.** `Fairness` of the worker: a slot in the middle of an invocation
goes on, an idle slot takes a waiting job, BullMQ promotes a delayed job when its
delay has passed. Weak fairness is enough as none of these is disabled again by
somebody else for ever. One step is not fair, `Deliver`: `http-client.ts:94` clears
the timer when the headers have come and `:127` reads the body without one, so that
a destination that goes on sending keeps the slot for ever. Every liveness property
of deliveries therefore says "or such a response holds it" (`HeldByResponse`: a
request to the pair's destination, or one in each slot, is in progress from some
time on), and `ShutdownCompletes` says it of any slot, since `worker.close()` waits
for all of them without a limit.
`PipelineFairness` asks for this only while the worker is not closing, and adds
that a handler which has begun goes on, which is the event loop running its
continuations, and that a shutdown which can proceed does. No request is bound to
be sent, and neither faults nor the sweep nor the archiver are fair.
`CacheFairness`: requests go on, and Redis expires entries; it is the only fairness
of `ManagementSpec`. `HttpFairness`: time passes, timers fire and the resolver gives
up. Nothing makes a host answer, and nothing makes a body end: `ReturnsUnlessBodyEndless`
says that this is the only way in which a call lasts for ever.

## 4. Findings

Each is a run that TLC must refute, stating what a document or comment says;
`PROJECT.json` quotes the line.

- DuplicateLost: interrupted between insert and fan-out, an event is never
  delivered and the sender's retry is told "Event already processed".
- RetryInterrupted: a retry that resets the row and is interrupted before it
  queues the job takes the delivery out of sight.
- ArchiveRefused: an event with deliveries is archived but cannot be deleted.
- BodyNotTimed: the timer of a delivery ends with the headers of the response. The
  liveness properties name what follows from it, a slot that is never free again.
- TimestampRefused: a header with a timestamp, in the format the README of the
  engine shows, is refused however genuine it is, because only the prefixes
  `sha256=` and `sha1=` are stripped before the comparison.

Met while modelling and visible in the model, without a run of their own:

- a rejected row makes a later request with the same key and a good signature a
  duplicate (`Persist`), and a second bad signature fails on the unique key with
  a 500 instead of a 401 (`PersistRejected`);
- an exception in the worker ends in BullMQ's failed set, not in the dead letters
  (`FailJob`; the properties name `failed` for that reason);
- two chains of attempts on one pair can schedule a retry after the other has
  dead-lettered it (`Reschedule`);
- two concurrent retries of one dead letter both pass the status check
  (`SelectDeadLetters`, `ResetDeadLetters`) and queue two jobs;
- no filter of a replay names a status, so that it may select events stored as
  rejected, queue jobs for them and mark them replayed (`SelectEvents`): `RejectedIsNotDelivered`
  holds of what requests do, and of replays only as long as they select none;
- when an invocation is cut short between recording the last success and the
  status check, only its job, run again, repeats the check: after an exception,
  which fails the job for good, or when the job run again ends in a dead letter, the
  event stays pending (`LastRecorderAggregates` excepts these two, by `failed` and
  `GivenUpAfterSuccess`, and nothing else);
- a fill that read a source before an update restores the old configuration after
  the invalidation (`StaleNeedsOverlap` says exactly when);
- a cursor of the source listing is truncated to milliseconds, so that sources
  created earlier in the millisecond of a page's last source are left out
  (`KeysetListsOnce`);
- the statistics job's "last writer wins, same data" (`src/jobs/stats-aggregator.ts:6`)
  fails when runs overlap: the one that counted earlier may write last
  (`StatsRegressOnlyOvertaken` says that nothing else takes successes back);
- two registrations that overlap, or one and the "idempotent" seed script
  (`src/seed.ts:5`), insert two tenants of one name (`DuplicateNamesOverlapped` says that
  nothing else does);
- offset listings repeat rows when newer ones appear and pass over rows when newer
  ones are retried (`OffsetListsOnce`);
- the textual comparison of `isPrivateIpv6` covers all of `fc00::/7`, and besides
  it refuses addresses whose first group is short, such as `fc::1`
  (`UniqueLocalRefused`).

## 5. Proofs

Every invariant and action property that a run checks is also a theorem, for every
value of the constants that the named assumptions of the modules allow. These give
the constants their types, say that a table (`Events`) and the updates of a source
are finite, and keep ageing and ingestion apart (`PipelineAssumption`, section 2).

**The worker by itself.** `DeliveryWorkerProofs` proves, for every set of events,
destinations and slots, every `max_retries`, every scope and every number of
faults: type correctness (`TypeCorrect`), `NothingLost`, `NeverEarly`,
`DeliveredIsDelivered`, `LastRecorder`, `OneChain`, `AttemptsLimited`, and that the
worker implements `ReliableDelivery` (`Implements`).

None of the invariants is inductive by itself. `IInv` adds

- `Static`: the destinations do not change and events are not deleted (this is
  the worker alone, as `Spec` has it);
- `JobsScoped`: jobs, slots and rows only concern pairs in the scope of the event;
- `RowsNumbered`: below the number of any row every number has been used, and a
  dead letter's number has reached `max_retries`;
- `SlotsNumbered`: the number a slot holds continues the rows, though other slots
  have inserted since it read them, because rows are never removed;
- `SlotsRead`: what a slot has read of destinations and successes still holds,
  because destinations are static and successes only grow.

`LastRecorderAggregates` is inductive with these: a success row is inserted by a
slot that is then at `required`, and its later reads see every row inserted
before it; a slot that leaves without updating does so because some pair has no
success yet, and then `AllDelivered` is false. A job run again after a crash ends in
a success and its check, in a retry, or in a dead letter after the success, which
is `GivenUpAfterSuccess`. `OneChain` needs an invariant of its
own, `Chain`, inductive as long as no fault has happened: the jobs and slots of a
pair are at most one together, and a settled pair has none. `Implements` maps
`Record` to Succeed, Fail or GiveUp, `UpdateEvent` to Close, and everything else to
a stutter.

`AttemptsLimited` counts. Two chains on a pair can insert rows of one number, and
every row from `max_retries` on ends its chain, so the rows fall into `max_retries`
classes: one for each smaller number, and one for all the rest. `ClassBounded` says
of a class that its rows, the slots that may still add one, and the jobs, as long
as the class is still open to a slot that has yet to read its number, are together at
most the faults plus one: a row takes the place of its slot, a retry that of the
slot that queued it, and only a fault makes a new one. A failed row cannot be
followed by another of its class in the same chain, since the slot's next number
is larger. The bound on all rows follows by an injection into classes and
positions (`ClassesCounted`).

**The composition.** `PipelineProofs` proves the same kind of facts with all
components running at once: for any numbers of requests, retries, replays, signals,
slots and faults, destinations that come and go, the sweep and the archiver. It
first says, once for all theorems, what any step can do to each table and to each
actor: `Components` (whose step it is), `RowSteps` (a row is inserted by `Record`,
reset by a retry, swept, or unchanged), `StatusSteps` and the lemmas about slots,
requests, replays and retries that a step of another leaves as they are. What is
proved, and what each needs besides:

- `PipelineTypeCorrect`; the type of a retry says that the rows it holds exist,
  which is inductive because no component deletes rows.
- `SweepIsIdle` (`SweepFindsNothing`): `FailuresBelowMax`, for rows and for the
  outcome a slot is about to record; a reset leaves failed rows alone because a
  retry holds dead letters (`HeldRows`).
- `RowsAreKept`: the refinement of `DeliveryRows`, step by step. That is what
  justifies `OffsetListing` and `Statistics` being modelled over it.
- `NothingVanishes`: with the archiver's two statements in any order with
  everything else.
- `DeliveredCovers`: `SlotsCoverOriginal`, what a slot has read covers the
  destinations that were there from the start and still are; that set only shrinks
  and successes are only added, which makes the three unlocked statements safe.
- `RefusalLeavesNoTrace` and `FansOutOnce`: `StoredHasRequest`, `FanOutStored`. A
  request that fans out has inserted the row, so no other one can any more.
- `RejectedStaysUndelivered`: `UnacceptedFresh`, an event that nobody has accepted has
  no job, slot or row, and `FanOutAccepted`.
- `AcceptedStaysTracked`, `RetriesKeepTrack`, `ReplayedStaysTracked`: one lemma,
  `TrackedKept`, follows a pair through its job, slot, row and retry across every step
  of every component, and the three differ in what makes the pair tracked in the
  first place (`AnsweredWhenDone` and `FanOutTracked`; the preloaded rows;
  `ReplaysStored`, `ReplaysHold` and `ReplaysTracked`).
- `CountsAddUp`: `Counted`, the counters and the events not yet handled make the total
  at every statement of a replay.
- `ClosedUnlessChanged`: `UncreatedAbsent` and `CompleteCloses`, as long as
  the destinations of an event that has succeeded everywhere are unchanged, it is
  delivered or a slot will find out.
- `RetriesAreOneAttempt`: until a pair has a chain's worth of failures its jobs
  and slots are one chain whose failed rows have the numbers below the next one;
  once it is exhausted every attempt, of which there may now be several, has a number
  from `max_retries` on and adds no failed row (`OneChainThenOneAttempt`, with
  `FanOutFresh` for the first job and `SlotsCount` for the number a slot has read).
- `QuietOnceDrained`: `ClosedInOrder`, which of the two signals' sequences has got
  how far, and what that stops.

Four hypotheses appear in these theorems, each a fact about a behaviour that the
model shows to be necessary. `RetriesUninterrupted`, no retry dies between its
reset and its jobs: RetryInterrupted is the counterexample otherwise.
`RejectedNotReplayed`, no replay queues an event stored as rejected: one that does
delivers it (section 4). `NothingReplayed`, for `RetriesAreOneAttempt`: a replay
starts a chain beside the one a pair may have, and two chains can fail twice at one
number. And `workerFaults = 0`, inside `ClosedUnlessChanged` and
`RetriesAreOneAttempt`: a job that is run again can do what a replay does, or die
before the status check.

**The rest.** `ManagementProofs` proves, for any number of registrations and seed
runs, that duplicate names overlapped (`DuplicatesOverlapped`): an applicant about
to insert has found no tenant of its name, or the tenant inserted since and the
pair is in the history. `StatsOvertaken` holds for every table and number of runs:
a run that has not been overtaken has counted after the last write, and the number
of successes never falls (`DeliveryRows`), so what it writes is no less than what is
published. `OffsetPages` (`OffsetListsOnce`) speaks of the rank of a row, the number of
newer rows that match. A row on an earlier page has a rank below the offset, unless a
newer one has come to match (`ListedPassed`); one not yet listed has a rank from
there on, unless a newer one has ceased to (`UnlistedAhead`). The next offset is the
old one plus the rows of the page, so this rests on the page's size and reach, both
shown by injections into an interval of ranks (`PageSize`, `PageReaches`).

`HttpClientProofs` proves `HeadersInTime` and `HttpTypeCorrect` for every timeout,
redirect limit and horizon from `HttpAssumption`. The invariant adds that the
pending timer is not set beyond the timeout and has not been passed
(`ArmedWithinBudget`), which is what makes the budget survive a redirect, and that
a request is only sent while redirects are left (`RedirectsLeft`).

`SourceCacheProofs` proves `CacheTypeCorrect`, `VerifiedUnderOwn` and
`StaleOverlapped` for any number of lookups, updates, slugs and interruptions. That
the version stays within its type needs `VersionCounts`, the number of updates that
have written; that a signature is checked with the right configuration needs that
entries are stored under the slug they have (`CachedUnderOwnSlug`), which a rename
does not disturb. Staleness follows from `InOrder`: as long as nothing has
overlapped, a fill stores the row as it is, an update that is about to write knows
the slug the row has, and whatever is stale lies under the old slug of an update
that removes it next.

`SourceListingProofs` proves `KeysetIsSound`: what has been listed lies before the
cursor, and what has not lies beyond it or was cut off in the millisecond of a
page's last source. It rests on two lemmas about a page, that its rows come before
all others beyond the cursor (`PageIsFirst`) and that it is full if any is left out
(`PageIsFull`, by the well-founded minimum of a rank), and on one about
truncation (`MillisecondsBetween`).

`JsonDepthProofs` proves `ScannerAgrees`: for every text the writer can produce
and every limit, the scanner refuses exactly when the nesting exceeds the limit.
The invariant `InStep` relates the two character by character: the scanner is in
a string, or behind a backslash, when the writer is, and its depth is the height of
the writer's stack until it refuses. `UrlValidator` proves that the
comparisons of `isPrivateIpv4` are the documented blocks (`Ipv4AsDocumented`) and
what the prefix test of `isPrivateIpv6` covers (`UniqueLocalRefused`). These two
modules have no run: their theorems quantify over every input.

Only model-checked is liveness, which is out of the prover's reach:
`EveryDeliverySettles`, `EventsClose`, `AcceptedSettles`, `RetriesSettle`,
`ReplayFinishes`, `ShutdownCompletes`, `CacheCatchesUp` and `ReturnsUnlessBodyEndless`.

## 6. Not modelled, and what comes next

- The length of a retry's delay: a delayed job is promoted at some time
  (`Promote`), and no property depends on when.
- The scheduler, which nothing in the source starts, and the alert check, which
  reads and logs; the jobs are modelled as running at any time.
- Rate limiting, the mapping of errors to replies, health probes, logging and the
  reading of the configuration: plugins and pure plumbing, without state that the
  other parts read.
- `GET /api/stats` and the detail endpoints: single reads.
- The lookup of an API key: one read per request of a row nothing changes.
- Two tenants that use one slug: the request names no tenant, so that there is
  nothing to compare the outcome with.
- The encryption of stored secrets, the HMAC itself, header filtering, the
  validation of filters and bodies: data no property tells apart.
- Eviction of old failed jobs (`removeOnFail`): the failed set only serves to say
  where a job has gone.
- The overshoot of the backpressure limit, which is a soft one.

Still to do, in order:

1. abstract specifications of ingestion (an event is accepted once or not at all)
   and of the source cache (a register that may lag), with their refinements and
   the proofs of these;
2. what makes the hypotheses of section 5 weaker: how many failed rows a pair can
   have when replays run too, and where a delivery is while a retry that was
   interrupted holds it.
