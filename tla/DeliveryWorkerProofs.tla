------------------------ MODULE DeliveryWorkerProofs ------------------------
(***************************************************************************)
(* Proofs about the delivery worker by itself, for any numbers of events,  *)
(* destinations, slots and faults.                                         *)
(***************************************************************************)
EXTENDS DeliveryWorker, SequenceTheorems, FiniteSetTheorems, TLAPS

-----------------------------------------------------------------------------
(* The job of a busy slot.                                                 *)
LEMMA SlotJob ==
  ASSUME WorkerTypeOK, NEW w \in Workers, pc[w] # "idle"
  PROVE  /\ job[w] \in Job
         /\ EventOf(w) \in Events
         /\ DestinationOf(w) \in Destinations
BY WorkerAssumption DEF WorkerTypeOK, Job, EventOf, DestinationOf

LEMMA EnqueuedType ==
  ASSUME NEW queue \in [Job -> Nat], NEW pairs
  PROVE  Enqueued(queue, pairs) \in [Job -> Nat]
BY DEF Enqueued

LEMMA StalledJobType == \A j \in Job : StalledJob(j) \in Job
BY DEF Job, StalledJob

LEMMA RowType ==
  ASSUME StoreTypeOK, NEW i \in DOMAIN deliveries
  PROVE  /\ deliveries[i] \in Delivery
         /\ deliveries[i].event \in Events
         /\ deliveries[i].destination \in Destinations
         /\ deliveries[i].attempt \in Nat
         /\ deliveries[i].status \in DeliveryStatus
<1>1. deliveries[i] \in Delivery
  BY ElementOfSeq DEF StoreTypeOK
<1> QED
  BY <1>1 DEF Delivery

(* Rows are only ever added.                                               *)
LEMMA AppendRow ==
  ASSUME StoreTypeOK, NEW row \in Delivery, deliveries' = Append(deliveries, row)
  PROVE  /\ deliveries' \in Seq(Delivery)
         /\ Len(deliveries) \in Nat
         /\ DOMAIN deliveries = 1..Len(deliveries)
         /\ DOMAIN deliveries' = 1..(Len(deliveries) + 1)
         /\ deliveries'[Len(deliveries) + 1] = row
         /\ \A i \in DOMAIN deliveries : deliveries'[i] = deliveries[i]
BY DEF StoreTypeOK

(* The row a slot inserts.                                                 *)
RowOf(w) == [event |-> EventOf(w), destination |-> DestinationOf(w),
             attempt |-> attempt[w], status |-> outcome[w]]

LEMMA SlotRow ==
  ASSUME WorkerTypeOK, NEW w \in Workers, Record(w)
  PROVE  RowOf(w) \in Delivery /\ deliveries' = Append(deliveries, RowOf(w))
BY SlotJob DEF Record, RowOf, At, WorkerTypeOK, Outcome, Delivery, DeliveryStatus

-----------------------------------------------------------------------------
(* Every variable keeps its type: in particular a slot holds a job exactly *)
(* while it is busy.                                                       *)
LEMMA InitType == Init => TypeOK
<1> SUFFICES ASSUME Init PROVE TypeOK
  OBVIOUS
<1>1. NoJobs \in [Job -> Nat]
  BY DEF NoJobs
<1>2. waiting \in [Job -> Nat]
  BY <1>1, EnqueuedType DEF Init
<1>3. StoreTypeOK
  BY <1>1, <1>2 DEF Init, StoreTypeOK, EventStatus
<1>4. WorkerTypeOK
  BY WorkerAssumption DEF Init, WorkerInit, WorkerTypeOK, WorkerPc, Outcome
<1> QED
  BY <1>3, <1>4 DEF TypeOK

(* A busy slot that moves on to another step keeps its job and outcome.    *)
LEMMA GotoType ==
  ASSUME WorkerTypeOK, NEW w \in Workers, NEW step \in WorkerPc \ {"idle", "record"},
         ~At(w, "idle"), Goto(w, step), UNCHANGED <<job, outcome>>,
         attempt' \in [Workers -> Nat],
         required' \in [Workers -> SUBSET Destinations],
         UNCHANGED workerFaults
  PROVE  WorkerTypeOK'
<1>1. \A v \in Workers : pc'[v] = IF v = w THEN step ELSE pc[v]
  BY DEF WorkerTypeOK, Goto
<1> QED
  BY <1>1 DEF WorkerTypeOK, Goto, At

LEMMA ReleaseType ==
  ASSUME WorkerTypeOK, NEW w \in Workers, Release(w), workerFaults' \in 0..WorkerFaults
  PROVE  WorkerTypeOK'
BY WorkerAssumption DEF WorkerTypeOK, Release, Goto, WorkerPc, Outcome

LEMMA StepType == TypeOK /\ [Next]_vars => TypeOK'
<1> SUFFICES ASSUME TypeOK, [Next]_vars PROVE TypeOK'
  OBVIOUS
<1> USE DEF TypeOK
<1>1. ASSUME NEW w \in Workers, TakeJob(w) PROVE TypeOK'
  <2>1. PICK j \in Job : /\ waiting[j] > 0
                         /\ waiting' = [waiting EXCEPT ![j] = @ - 1]
                         /\ job' = [job EXCEPT ![w] = j]
    BY <1>1 DEF TakeJob
  <2>2. waiting' \in [Job -> Nat]
    BY <2>1 DEF StoreTypeOK
  <2>3. WorkerTypeOK'
    BY <1>1, <2>1, WorkerAssumption DEF TakeJob, WorkerTypeOK, Goto, At, WorkerPc
  <2> QED
    BY <1>1, <2>2, <2>3 DEF TakeJob, StoreTypeOK
<1>2. ASSUME NEW j \in Job, Promote(j) PROVE TypeOK'
  <2>1. WorkerTypeOK'
    BY <1>2 DEF Promote, WorkerTypeOK, workerVars, slotVars
  <2> QED
    BY <1>2, <2>1 DEF Promote, StoreTypeOK
<1>3. ASSUME NEW w \in Workers, Load(w) PROVE TypeOK'
  <2>1. WorkerTypeOK'
    BY <1>3, GotoType DEF Load, WorkerTypeOK, At, WorkerPc
  <2> QED
    BY <1>3, <2>1 DEF Load, storeVars, StoreTypeOK
<1>4. ASSUME NEW w \in Workers, NextAttemptNumber(w) PROVE TypeOK'
  <2>1. PICK n \in {1} \cup {deliveries[i].attempt + 1 : i \in DOMAIN deliveries} :
          attempt' = [attempt EXCEPT ![w] = n]
    BY <1>4 DEF NextAttemptNumber
  <2>2. \A i \in DOMAIN deliveries : deliveries[i].attempt \in Nat
    BY RowType
  <2>3. attempt' \in [Workers -> Nat]
    BY <2>1, <2>2 DEF WorkerTypeOK
  <2>4. WorkerTypeOK'
    BY <1>4, <2>3, GotoType DEF NextAttemptNumber, WorkerTypeOK, At, WorkerPc
  <2> QED
    BY <1>4, <2>4 DEF NextAttemptNumber, storeVars, StoreTypeOK
<1>5. ASSUME NEW w \in Workers, Deliver(w) PROVE TypeOK'
  <2>1. /\ outcome' \in [Workers -> Outcome]
        /\ \A v \in Workers : pc'[v] = "record" => outcome'[v] # "none"
    BY <1>5 DEF Deliver, OutcomeOf, Outcome, WorkerTypeOK, Goto
  <2>2. WorkerTypeOK'
    BY <1>5, <2>1 DEF Deliver, WorkerTypeOK, Goto, At, WorkerPc
  <2> QED
    BY <1>5, <2>2 DEF Deliver, storeVars, StoreTypeOK
<1>6. ASSUME NEW w \in Workers, Record(w) PROVE TypeOK'
  <2>2. deliveries' \in Seq(Delivery)
    BY <1>6, SlotRow, AppendRow
  <2>3. WorkerTypeOK'
    BY <1>6, GotoType DEF Record, AfterRecord, WorkerTypeOK, At, WorkerPc
  <2> QED
    BY <1>6, <2>2, <2>3 DEF Record, queueVars, StoreTypeOK
<1>7. ASSUME NEW w \in Workers, Reschedule(w) PROVE TypeOK'
  <2>1. delayed' \in [Job -> Nat]
    BY <1>7, EnqueuedType DEF Reschedule, StoreTypeOK
  <2>2. WorkerTypeOK'
    BY <1>7, GotoType DEF Reschedule, WorkerTypeOK, At, WorkerPc
  <2> QED
    BY <1>7, <2>1, <2>2 DEF Reschedule, StoreTypeOK
<1>8. ASSUME NEW w \in Workers, ReadRequired(w) PROVE TypeOK'
  <2>1. RequiredDestinations(EventOf(w)) \in SUBSET Destinations
    BY DEF RequiredDestinations, StoreTypeOK
  <2>2. required' \in [Workers -> SUBSET Destinations]
    BY <1>8, <2>1 DEF ReadRequired, WorkerTypeOK
  <2>3. WorkerTypeOK'
    BY <1>8, <2>2, GotoType DEF ReadRequired, WorkerTypeOK, At, WorkerPc
  <2> QED
    BY <1>8, <2>3 DEF ReadRequired, storeVars, StoreTypeOK
<1>9. ASSUME NEW w \in Workers, ReadSuccesses(w) PROVE TypeOK'
  <2>1. WorkerTypeOK'
    BY <1>9, GotoType DEF ReadSuccesses, WorkerTypeOK, At, WorkerPc
  <2> QED
    BY <1>9, <2>1 DEF ReadSuccesses, storeVars, StoreTypeOK
<1>10. ASSUME NEW w \in Workers, UpdateEvent(w) PROVE TypeOK'
  <2>1. events' \in [Events -> EventStatus]
    BY <1>10 DEF UpdateEvent, StoreTypeOK, EventStatus
  <2>2. WorkerTypeOK'
    BY <1>10, GotoType DEF UpdateEvent, WorkerTypeOK, At, WorkerPc
  <2> QED
    BY <1>10, <2>1, <2>2 DEF UpdateEvent, queueVars, StoreTypeOK
<1>11. ASSUME NEW w \in Workers, Complete(w) PROVE TypeOK'
  <2>1. WorkerTypeOK'
    BY <1>11, ReleaseType DEF Complete, WorkerTypeOK
  <2> QED
    BY <1>11, <2>1 DEF Complete, storeVars, StoreTypeOK
<1>12. ASSUME NEW w \in Workers, job[w] \in Job, FailJob(w),
              UNCHANGED <<events, destinations, deliveries, waiting, delayed>>,
              workerFaults' \in 0..WorkerFaults
       PROVE  TypeOK'
  <2>1. failed' \in [Job -> Nat]
    BY <1>12 DEF FailJob, StoreTypeOK
  <2>2. WorkerTypeOK'
    BY <1>12, ReleaseType DEF FailJob
  <2> QED
    BY <1>12, <2>1, <2>2 DEF StoreTypeOK
<1>13. ASSUME NEW w \in Workers, RecordRefused(w) PROVE TypeOK'
  BY <1>13, <1>12, SlotJob DEF RecordRefused, At, WorkerTypeOK
<1>f. Fault => workerFaults' \in 0..WorkerFaults
  BY WorkerAssumption DEF Fault, WorkerTypeOK
<1>14. ASSUME NEW w \in Workers, Throw(w) PROVE TypeOK'
  BY <1>14, <1>12, <1>f, SlotJob DEF Throw
<1>15. ASSUME NEW w \in Workers, Stall(w) PROVE TypeOK'
  <2>1. job[w] \in Job /\ workerFaults' \in 0..WorkerFaults
    BY <1>15, <1>f, SlotJob DEF Stall, At
  <2>2. CASE FailJob(w) /\ UNCHANGED waiting
    BY <1>15, <2>1, <2>2, <1>12 DEF Stall
  <2>3. CASE /\ waiting' = [waiting EXCEPT ![StalledJob(job[w])] = @ + 1]
             /\ Release(w)
             /\ UNCHANGED failed
    <3>1. waiting' \in [Job -> Nat]
      BY <2>1, <2>3, StalledJobType DEF StoreTypeOK
    <3>2. WorkerTypeOK'
      BY <2>1, <2>3, ReleaseType
    <3> QED
      BY <1>15, <2>3, <3>1, <3>2 DEF Stall, StoreTypeOK
  <2> QED
    BY <1>15, <2>2, <2>3 DEF Stall
<1>16. CASE UNCHANGED vars
  BY <1>16 DEF vars, storeVars, queueVars, workerVars, slotVars, StoreTypeOK, WorkerTypeOK
<1> QED
  BY <1>1, <1>2, <1>3, <1>4, <1>5, <1>6, <1>7, <1>8, <1>9, <1>10, <1>11, <1>13,
     <1>14, <1>15, <1>16 DEF Next, WorkerNext, Proceed

(* In every reachable state every variable has its type.                   *)
THEOREM TypeCorrect == Spec => []TypeOK
BY InitType, StepType, PTL DEF Spec

-----------------------------------------------------------------------------
(* The inductive invariant.  The destinations and events the worker starts *)
(* with stay.                                                              *)
Static == destinations = Destinations /\ \A e \in Events : events[e] # "absent"

(* Every job is for a destination its event is scoped to.                  *)
JobsScoped ==
  /\ \A j \in Job : waiting[j] > 0 \/ delayed[j] > 0 => j.destination \in Matched[j.event]
  /\ \A w \in Workers : pc[w] # "idle" => DestinationOf(w) \in Matched[EventOf(w)]

(* Every number below n is that of a row of the pair.                      *)
RecordedBelow(e, d, n) ==
  \A m \in 1..(n - 1) : \E k \in Attempts(e, d) : deliveries[k].attempt = m

RowsNumbered ==
  \A i \in DOMAIN deliveries :
    /\ deliveries[i].attempt >= 1
    /\ deliveries[i].destination \in Matched[deliveries[i].event]
    /\ RecordedBelow(deliveries[i].event, deliveries[i].destination,
                     deliveries[i].attempt)
    /\ deliveries[i].status = "dead_letter" =>
         deliveries[i].attempt >= MaxRetries[deliveries[i].destination]

(* The number a slot has read is still preceded by all smaller ones when   *)
(* the slot uses it, though other slots have inserted rows in between.     *)
SlotsNumbered ==
  \A w \in Workers :
    /\ pc[w] \in {"deliver", "record"} =>
         attempt[w] >= 1 /\ RecordedBelow(EventOf(w), DestinationOf(w), attempt[w])
    /\ pc[w] = "record" =>
         /\ outcome[w] = "failed" => attempt[w] < MaxRetries[DestinationOf(w)]
         /\ outcome[w] = "dead_letter" => attempt[w] >= MaxRetries[DestinationOf(w)]

(* What a slot has read of the destinations and successes is still so.     *)
SlotsRead ==
  \A w \in Workers :
    /\ pc[w] \in {"successes", "update"} =>
         required[w] = Matched[EventOf(w)] /\ required[w] # {}
    /\ pc[w] = "update" => AllDelivered(EventOf(w))

IInv ==
  /\ TypeOK
  /\ Static
  /\ JobsScoped
  /\ RowsNumbered
  /\ SlotsNumbered
  /\ SlotsRead
  /\ DeliveredMeansAll
  /\ NoDeliveryLost
  /\ LastRecorderAggregates

-----------------------------------------------------------------------------
(* What a step does to the slots and rows it is not about.                 *)
SlotStep(w) == TakeJob(w) \/ Proceed(w) \/ Throw(w) \/ Stall(w)

SlotKept(w) ==
  /\ pc'[w] = pc[w]
  /\ job'[w] = job[w]
  /\ attempt'[w] = attempt[w]
  /\ outcome'[w] = outcome[w]
  /\ required'[w] = required[w]

LEMMA OtherSlots ==
  ASSUME WorkerTypeOK, NEW w \in Workers, SlotStep(w), NEW v \in Workers, v # w
  PROVE  SlotKept(v)
BY DEF WorkerTypeOK, SlotKept, SlotStep, TakeJob, Proceed, Throw, Stall, Load,
       NextAttemptNumber, Deliver, Record, RecordRefused, Reschedule, ReadRequired,
       ReadSuccesses, UpdateEvent, Complete, FailJob, Release, Goto

(* A slot keeps its local state unless the step is its own.                *)
LEMMA KeptOrStep ==
  ASSUME TypeOK, [Next]_vars, NEW v \in Workers
  PROVE  SlotKept(v) \/ SlotStep(v)
<1>1. CASE \E w \in Workers : SlotStep(w)
  BY <1>1, OtherSlots DEF TypeOK
<1>2. CASE \E j \in Job : Promote(j)
  BY <1>2 DEF Promote, workerVars, slotVars, SlotKept
<1>3. CASE UNCHANGED vars
  BY <1>3 DEF vars, workerVars, slotVars, SlotKept
<1> QED
  BY <1>1, <1>2, <1>3 DEF Next, WorkerNext, SlotStep

(* The step at which a slot arrives tells which action brought it there.   *)
LEMMA Arrivals ==
  ASSUME TypeOK, NEW w \in Workers, SlotStep(w)
  PROVE  /\ pc'[w] = "load"      => TakeJob(w)
         /\ pc'[w] = "deliver"   => NextAttemptNumber(w)
         /\ pc'[w] = "record"    => Deliver(w)
         /\ pc'[w] = "successes" => ReadRequired(w)
         /\ pc'[w] = "update"    => ReadSuccesses(w)
         /\ pc'[w] # "idle" /\ pc'[w] # "load" => pc[w] # "idle" /\ job'[w] = job[w]
BY DEF TypeOK, WorkerTypeOK, SlotStep, TakeJob, Proceed, Throw, Stall, Load,
       NextAttemptNumber, Deliver, Record, RecordRefused, Reschedule, ReadRequired,
       ReadSuccesses, UpdateEvent, Complete, FailJob, Release, Goto, At, AfterRecord

(* Only Record changes the rows, and it keeps those that are there.        *)
LEMMA OnlyRecordInserts ==
  ASSUME TypeOK, [Next]_vars
  PROVE  deliveries' = deliveries \/ \E w \in Workers : Record(w)
BY DEF Next, vars, storeVars, WorkerNext, TakeJob, Proceed, Throw, Stall, Load,
       NextAttemptNumber, Deliver, RecordRefused, Reschedule, ReadRequired,
       ReadSuccesses, UpdateEvent, Complete, Promote

LEMMA RowsKept ==
  ASSUME TypeOK, [Next]_vars
  PROVE  \A i \in DOMAIN deliveries : i \in DOMAIN deliveries' /\ deliveries'[i] = deliveries[i]
<1>1. CASE deliveries' = deliveries
  BY <1>1
<1>2. ASSUME NEW w \in Workers, Record(w)
      PROVE  \A i \in DOMAIN deliveries : i \in DOMAIN deliveries' /\ deliveries'[i] = deliveries[i]
  BY <1>2, AppendRow, SlotRow DEF TypeOK
<1> QED
  BY <1>1, <1>2, OnlyRecordInserts

(* The same about the rows of a pair, and about its successes.             *)
LEMMA HistoryKept ==
  ASSUME TypeOK, [Next]_vars, NEW e, NEW d
  PROVE  /\ \A i \in Attempts(e, d) : i \in Attempts(e, d)' /\ deliveries'[i] = deliveries[i]
         /\ \A status : HasRow(e, d, status) => HasRow(e, d, status)'
         /\ Settled(e, d) => Settled(e, d)'
         /\ \A n : RecordedBelow(e, d, n) => RecordedBelow(e, d, n)'
<1>1. \A i \in Attempts(e, d) : i \in Attempts(e, d)' /\ deliveries'[i] = deliveries[i]
  BY RowsKept DEF Attempts
<1>2. \A status : HasRow(e, d, status) => HasRow(e, d, status)'
  BY <1>1 DEF HasRow
<1>3. \A n : RecordedBelow(e, d, n) => RecordedBelow(e, d, n)'
  BY <1>1 DEF RecordedBelow
<1> QED
  BY <1>1, <1>2, <1>3 DEF Settled

LEMMA AllDeliveredKept ==
  ASSUME TypeOK, [Next]_vars, NEW e \in Events, AllDelivered(e)
  PROVE  AllDelivered(e)'
<1>1. SuccessfulDestinations(e) \subseteq SuccessfulDestinations(e)'
  BY HistoryKept DEF SuccessfulDestinations
<1> QED
  BY <1>1 DEF AllDelivered

(* Only UpdateEvent changes the status of an event.                        *)
LEMMA EventSteps ==
  ASSUME [Next]_vars
  PROVE  events' = events \/ \E w \in Workers : UpdateEvent(w)
BY DEF Next, vars, storeVars, WorkerNext, TakeJob, Proceed, Throw, Stall, Load,
       NextAttemptNumber, Deliver, Record, RecordRefused, Reschedule, ReadRequired,
       ReadSuccesses, Complete, Promote

(* The steps that change the queued jobs.                                  *)
LEMMA QueueSteps ==
  ASSUME [Next]_vars
  PROVE  \/ UNCHANGED <<waiting, delayed>>
         \/ \E w \in Workers : TakeJob(w) \/ Reschedule(w) \/ Stall(w)
         \/ \E j \in Job : Promote(j)
<1>1. ASSUME NEW w \in Workers, SlotStep(w)
      PROVE  UNCHANGED <<waiting, delayed>> \/ TakeJob(w) \/ Reschedule(w) \/ Stall(w)
  BY <1>1 DEF SlotStep, storeVars, queueVars, Proceed, Throw, Load,
              NextAttemptNumber, Deliver, Record, RecordRefused, ReadRequired,
              ReadSuccesses, UpdateEvent, Complete
<1>2. CASE UNCHANGED vars
  BY <1>2 DEF vars, storeVars, queueVars
<1> QED
  BY <1>1, <1>2 DEF Next, WorkerNext, SlotStep

(* The failed set changes only when a slot's job is moved there.           *)
LEMMA FailedSteps ==
  ASSUME [Next]_vars
  PROVE  failed' = failed \/ \E w \in Workers : FailJob(w)
<1>1. ASSUME NEW w \in Workers, SlotStep(w) PROVE failed' = failed \/ FailJob(w)
  BY <1>1 DEF SlotStep, storeVars, queueVars, TakeJob, Proceed, Throw, Stall, Load,
              NextAttemptNumber, Deliver, Record, RecordRefused, Reschedule,
              ReadRequired, ReadSuccesses, UpdateEvent, Complete
<1>2. ASSUME NEW j \in Job, Promote(j) PROVE failed' = failed
  BY <1>2 DEF Promote
<1>3. CASE UNCHANGED vars
  BY <1>3 DEF vars, storeVars
<1> QED
  BY <1>1, <1>2, <1>3 DEF Next, WorkerNext, SlotStep

(* By itself the worker has both rows that a slot refers to.               *)
LEMMA StaticReferences ==
  ASSUME Static, NEW e \in Events, NEW d \in Destinations
  PROVE  ReferencesExist(e, d)
BY DEF Static, ReferencesExist

-----------------------------------------------------------------------------
LEMMA StaticStep == TypeOK /\ Static /\ [Next]_vars => Static'
<1> SUFFICES ASSUME TypeOK, Static, [Next]_vars PROVE Static'
  OBVIOUS
<1>1. destinations' = destinations
  BY DEF Next, vars, storeVars, WorkerNext, TakeJob, Proceed, Throw, Stall, Load,
         NextAttemptNumber, Deliver, Record, RecordRefused, Reschedule, ReadRequired,
         ReadSuccesses, UpdateEvent, Complete, Promote
<1>2. ASSUME NEW w \in Workers, UpdateEvent(w) PROVE \A e \in Events : events'[e] # "absent"
  BY <1>2 DEF UpdateEvent, Static, TypeOK, StoreTypeOK
<1> QED
  BY <1>1, <1>2, EventSteps DEF Static

LEMMA JobsScopedStep == TypeOK /\ JobsScoped /\ [Next]_vars => JobsScoped'
<1> SUFFICES ASSUME TypeOK, JobsScoped, [Next]_vars PROVE JobsScoped'
  OBVIOUS
<1>1. ASSUME NEW v \in Workers, pc'[v] # "idle"
      PROVE  (DestinationOf(v) \in Matched[EventOf(v)])'
  <2>1. CASE SlotKept(v)
    BY <1>1, <2>1 DEF SlotKept, JobsScoped, EventOf, DestinationOf
  <2>2. CASE SlotStep(v) /\ pc'[v] # "load"
    BY <1>1, <2>2, Arrivals DEF JobsScoped, EventOf, DestinationOf
  <2>3. CASE TakeJob(v)
    <3>1. PICK j \in Job : waiting[j] > 0 /\ job' = [job EXCEPT ![v] = j]
      BY <2>3 DEF TakeJob
    <3>2. job'[v] = j
      BY <3>1 DEF TypeOK, WorkerTypeOK
    <3> QED
      BY <3>1, <3>2 DEF JobsScoped, EventOf, DestinationOf
  <2> QED
    BY <2>1, <2>2, <2>3, KeptOrStep, Arrivals
<1>2. ASSUME NEW j \in Job, waiting'[j] > 0 \/ delayed'[j] > 0
      PROVE  j.destination \in Matched[j.event]
  <2>1. CASE UNCHANGED <<waiting, delayed>>
    BY <1>2, <2>1 DEF JobsScoped
  <2>2. ASSUME NEW w \in Workers, TakeJob(w) PROVE j.destination \in Matched[j.event]
    <3>1. (waiting'[j] > 0 => waiting[j] > 0) /\ delayed' = delayed
      BY <2>2 DEF TakeJob, TypeOK, StoreTypeOK
    <3> QED
      BY <1>2, <3>1 DEF JobsScoped
  <2>3. ASSUME NEW k \in Job, Promote(k) PROVE j.destination \in Matched[j.event]
    BY <1>2, <2>3 DEF Promote, JobsScoped, TypeOK, StoreTypeOK
  <2>4. ASSUME NEW w \in Workers, Reschedule(w) PROVE j.destination \in Matched[j.event]
    BY <1>2, <2>4 DEF Reschedule, Enqueued, At, JobsScoped, TypeOK, StoreTypeOK
  <2>5. ASSUME NEW w \in Workers, Stall(w) PROVE j.destination \in Matched[j.event]
    <3>1. CASE UNCHANGED waiting
      BY <2>5, <3>1, <2>1 DEF Stall
    <3>2. CASE waiting' = [waiting EXCEPT ![StalledJob(job[w])] = @ + 1]
      <4>1. CASE j = StalledJob(job[w])
        <5>1. j.event = EventOf(w) /\ j.destination = DestinationOf(w)
          BY <4>1 DEF StalledJob, EventOf, DestinationOf
        <5> QED
          BY <2>5, <5>1 DEF Stall, At, JobsScoped
      <4>2. CASE j # StalledJob(job[w])
        BY <1>2, <2>5, <3>2, <4>2 DEF Stall, JobsScoped, TypeOK, StoreTypeOK
      <4> QED
        BY <4>1, <4>2
    <3> QED
      BY <2>5, <3>1, <3>2 DEF Stall
  <2> QED
    BY <2>1, <2>2, <2>3, <2>4, <2>5, QueueSteps
<1> QED
  BY <1>1, <1>2 DEF JobsScoped

LEMMA RowsNumberedStep ==
  TypeOK /\ JobsScoped /\ RowsNumbered /\ SlotsNumbered /\ [Next]_vars => RowsNumbered'
<1> SUFFICES ASSUME TypeOK, JobsScoped, RowsNumbered, SlotsNumbered, [Next]_vars,
                    NEW i \in DOMAIN deliveries'
             PROVE  /\ deliveries'[i].attempt >= 1
                    /\ deliveries'[i].destination \in Matched[deliveries'[i].event]
                    /\ RecordedBelow(deliveries[i].event, deliveries[i].destination,
                                     deliveries[i].attempt)'
                    /\ deliveries'[i].status = "dead_letter" =>
                         deliveries'[i].attempt >= MaxRetries[deliveries'[i].destination]
  BY DEF RowsNumbered
<1>1. CASE i \in DOMAIN deliveries
  <2>1. deliveries'[i] = deliveries[i]
    BY <1>1, RowsKept
  <2> QED
    BY <1>1, <2>1, HistoryKept DEF RowsNumbered
<1>2. CASE i \notin DOMAIN deliveries
  <2>1. PICK w \in Workers : Record(w)
    BY <1>2, OnlyRecordInserts
  <2>2. deliveries'[i] = RowOf(w)
    BY <1>2, <2>1, SlotRow, AppendRow DEF TypeOK
  <2>3. /\ deliveries'[i].event = EventOf(w)
        /\ deliveries'[i].destination = DestinationOf(w)
        /\ deliveries'[i].attempt = attempt[w]
        /\ deliveries'[i].status = outcome[w]
    BY <2>2 DEF RowOf
  <2>4. RecordedBelow(EventOf(w), DestinationOf(w), attempt[w])
    BY <2>1 DEF Record, At, SlotsNumbered
  <2>5. RecordedBelow(deliveries[i].event, deliveries[i].destination,
                      deliveries[i].attempt)'
    BY <2>3, <2>4, HistoryKept
  <2> QED
    BY <2>1, <2>3, <2>5 DEF Record, At, SlotsNumbered, JobsScoped
<1> QED
  BY <1>1, <1>2

LEMMA SlotsNumberedStep ==
  TypeOK /\ Static /\ RowsNumbered /\ SlotsNumbered /\ [Next]_vars => SlotsNumbered'
<1> SUFFICES ASSUME TypeOK, Static, RowsNumbered, SlotsNumbered, [Next]_vars,
                    NEW v \in Workers
             PROVE  /\ pc'[v] \in {"deliver", "record"} =>
                         /\ attempt'[v] >= 1
                         /\ RecordedBelow(EventOf(v), DestinationOf(v), attempt[v])'
                    /\ pc'[v] = "record" =>
                         /\ outcome'[v] = "failed" =>
                              attempt'[v] < MaxRetries[DestinationOf(v)']
                         /\ outcome'[v] = "dead_letter" =>
                              attempt'[v] >= MaxRetries[DestinationOf(v)']
  BY DEF SlotsNumbered
<1>1. CASE SlotKept(v)
  BY <1>1, HistoryKept DEF SlotKept, SlotsNumbered, EventOf, DestinationOf
<1>2. CASE SlotStep(v) /\ pc'[v] = "deliver"
  <2>1. NextAttemptNumber(v) /\ job'[v] = job[v]
    BY <1>2, Arrivals
  <2>p. PICK e \in Events, d \in Destinations : e = EventOf(v) /\ d = DestinationOf(v)
    BY <2>1, SlotJob DEF NextAttemptNumber, At, TypeOK
  <2>q. EventOf(v)' = e /\ DestinationOf(v)' = d
    BY <2>1, <2>p DEF EventOf, DestinationOf
  <2>2. PICK n \in {1} \cup {deliveries[i].attempt + 1 : i \in DOMAIN deliveries} :
          IsNextAttempt(e, d, n) /\ attempt' = [attempt EXCEPT ![v] = n]
    BY <2>1, <2>p DEF NextAttemptNumber
  <2>3. attempt'[v] = n
    BY <2>2 DEF TypeOK, WorkerTypeOK
  <2>4. n >= 1 /\ RecordedBelow(e, d, n)
    <3>1. CASE n = 1
      BY <3>1 DEF RecordedBelow
    <3>2. ASSUME NEW i \in Attempts(e, d), n = deliveries[i].attempt + 1
          PROVE  n >= 1 /\ RecordedBelow(e, d, n)
      <4>1. /\ i \in DOMAIN deliveries
            /\ deliveries[i].event = e
            /\ deliveries[i].destination = d
        BY <3>2 DEF Attempts
      <4>2. /\ deliveries[i].attempt \in Nat
            /\ RecordedBelow(e, d, deliveries[i].attempt)
        BY <4>1, RowType DEF TypeOK, RowsNumbered
      <4>3. \A m \in 1..(n - 1) : m \in 1..(deliveries[i].attempt - 1) \/ m = deliveries[i].attempt
        BY <3>2, <4>2
      <4> QED
        BY <3>2, <4>2, <4>3 DEF RecordedBelow
    <3> QED
      BY <2>2, <3>1, <3>2 DEF IsNextAttempt
  <2>5. RecordedBelow(e, d, n)'
    BY <2>4, HistoryKept
  <2>6. RecordedBelow(EventOf(v), DestinationOf(v), attempt[v])'
    BY <2>q, <2>3, <2>5
  <2> QED
    BY <1>2, <2>3, <2>4, <2>6
<1>3. CASE SlotStep(v) /\ pc'[v] = "record"
  <2>1. Deliver(v) /\ job'[v] = job[v] /\ attempt'[v] = attempt[v]
    BY <1>3, Arrivals DEF Deliver
  <2>2. PICK e \in Events, d \in Destinations, n \in Nat :
          e = EventOf(v) /\ d = DestinationOf(v) /\ n = attempt[v]
    BY <2>1, SlotJob DEF Deliver, At, TypeOK, WorkerTypeOK
  <2>3. EventOf(v)' = e /\ DestinationOf(v)' = d
    BY <2>1, <2>2 DEF EventOf, DestinationOf
  <2>4. n >= 1 /\ RecordedBelow(e, d, n)
    BY <2>1, <2>2 DEF Deliver, At, SlotsNumbered
  <2>5. PICK ok \in BOOLEAN : outcome'[v] = OutcomeOf(ok, n, d)
    BY <2>1, <2>2 DEF Deliver, TypeOK, WorkerTypeOK
  <2>6. MaxRetries[d] \in Nat
    BY StoreAssumption
  <2>7. RecordedBelow(e, d, n)'
    BY <2>4, HistoryKept
  <2>8. RecordedBelow(EventOf(v), DestinationOf(v), attempt[v])'
    BY <2>1, <2>2, <2>3, <2>7
  <2>9. outcome'[v] = "failed" => n < MaxRetries[d]
    BY <2>5, <2>6 DEF OutcomeOf
  <2>10. outcome'[v] = "dead_letter" => n >= MaxRetries[d]
    BY <2>5, <2>6 DEF OutcomeOf
  <2> QED
    BY <1>3, <2>1, <2>2, <2>3, <2>4, <2>8, <2>9, <2>10
<1> QED
  BY <1>1, <1>2, <1>3, KeptOrStep

LEMMA SlotsReadStep ==
  TypeOK /\ Static /\ SlotsRead /\ [Next]_vars => SlotsRead'
<1> SUFFICES ASSUME TypeOK, Static, SlotsRead, [Next]_vars, NEW v \in Workers
             PROVE  /\ pc'[v] \in {"successes", "update"} =>
                         required'[v] = Matched[EventOf(v)'] /\ required'[v] # {}
                    /\ pc'[v] = "update" => AllDelivered(EventOf(v))'
  BY DEF SlotsRead
<1>1. CASE SlotKept(v)
  <2>1. EventOf(v)' = EventOf(v)
    BY <1>1 DEF SlotKept, EventOf
  <2>2. pc'[v] = "update" => EventOf(v) \in Events /\ AllDelivered(EventOf(v))
    BY <1>1, SlotJob DEF SlotKept, SlotsRead, TypeOK
  <2> QED
    BY <1>1, <2>1, <2>2, AllDeliveredKept DEF SlotKept, SlotsRead, AllDelivered
<1>2. CASE SlotStep(v) /\ pc'[v] = "successes"
  <2>1. ReadRequired(v) /\ job'[v] = job[v]
    BY <1>2, Arrivals
  <2>2. EventOf(v) \in Events
    BY <2>1, SlotJob DEF ReadRequired, At, TypeOK
  <2>3. RequiredDestinations(EventOf(v)) = Matched[EventOf(v)]
    BY <2>2, StoreAssumption DEF Static, RequiredDestinations
  <2>4. required'[v] = Matched[EventOf(v)] /\ required'[v] # {}
    BY <1>2, <2>1, <2>3 DEF ReadRequired, Goto, TypeOK, WorkerTypeOK
  <2> QED
    BY <1>2, <2>1, <2>4 DEF EventOf
<1>3. CASE SlotStep(v) /\ pc'[v] = "update"
  <2>1. ReadSuccesses(v) /\ job'[v] = job[v] /\ required'[v] = required[v]
    BY <1>3, Arrivals DEF ReadSuccesses
  <2>2. PICK e \in Events : e = EventOf(v)
    BY <2>1, SlotJob DEF ReadSuccesses, At, TypeOK
  <2>3. required[v] = Matched[e] /\ required[v] # {}
    BY <2>1, <2>2 DEF ReadSuccesses, At, SlotsRead
  <2>4. required[v] \subseteq SuccessfulDestinations(e)
    BY <1>3, <2>1, <2>2 DEF ReadSuccesses, Goto, TypeOK, WorkerTypeOK
  <2>5. AllDelivered(e)'
    BY <2>3, <2>4, AllDeliveredKept DEF AllDelivered
  <2>6. EventOf(v)' = e
    BY <2>1, <2>2 DEF EventOf
  <2>7. AllDelivered(EventOf(v))'
    BY <2>5, <2>6
  <2> QED
    BY <1>3, <2>1, <2>3, <2>6, <2>7
<1> QED
  BY <1>1, <1>2, <1>3, KeptOrStep

LEMMA DeliveredMeansAllStep ==
  TypeOK /\ SlotsRead /\ DeliveredMeansAll /\ [Next]_vars => DeliveredMeansAll'
<1> SUFFICES ASSUME TypeOK, SlotsRead, DeliveredMeansAll, [Next]_vars,
                    NEW e \in Events, events'[e] = "delivered"
             PROVE  AllDelivered(e)'
  BY DEF DeliveredMeansAll
<1>1. CASE events[e] = "delivered"
  BY <1>1, AllDeliveredKept DEF DeliveredMeansAll
<1>2. ASSUME NEW w \in Workers, UpdateEvent(w), events[e] # "delivered"
      PROVE  AllDelivered(e)'
  <2>1. EventOf(w) = e
    BY <1>2 DEF UpdateEvent, TypeOK, StoreTypeOK
  <2> QED
    BY <1>2, <2>1, AllDeliveredKept DEF UpdateEvent, At, SlotsRead
<1> QED
  BY <1>1, <1>2, EventSteps

-----------------------------------------------------------------------------
(* A job in flight stays in flight, ends in the failed set, or is settled  *)
(* by the row its slot inserts.                                            *)
LEMMA FailedKept ==
  ASSUME TypeOK, [Next]_vars, NEW e, NEW d, Queued(failed, e, d)
  PROVE  Queued(failed, e, d)'
<1>1. ASSUME NEW j \in Job, failed[j] > 0 PROVE failed'[j] > 0
  <2>1. ASSUME NEW w \in Workers, FailJob(w) PROVE failed'[j] > 0
    BY <1>1, <2>1 DEF FailJob, TypeOK, StoreTypeOK
  <2>2. CASE failed' = failed
    BY <1>1, <2>2
  <2> QED
    BY <2>1, <2>2, FailedSteps
<1> QED
  BY <1>1 DEF Queued

LEMMA ThrownFailed ==
  ASSUME TypeOK, NEW w \in Workers, pc[w] # "idle", FailJob(w),
         NEW e, NEW d, EventOf(w) = e, DestinationOf(w) = d
  PROVE  Queued(failed, e, d)'
<1>1. job[w] \in Job /\ job[w].event = e /\ job[w].destination = d
  BY SlotJob DEF TypeOK, EventOf, DestinationOf
<1>2. failed'[job[w]] > 0
  BY <1>1 DEF FailJob, TypeOK, StoreTypeOK
<1> QED
  BY <1>1, <1>2 DEF Queued

LEMMA StalledRequeued ==
  ASSUME TypeOK, NEW w \in Workers, Stall(w),
         NEW e, NEW d, EventOf(w) = e, DestinationOf(w) = d
  PROVE  Queued(waiting, e, d)' \/ Queued(failed, e, d)'
<1>1. CASE FailJob(w)
  BY <1>1, ThrownFailed DEF Stall, At
<1>2. CASE waiting' = [waiting EXCEPT ![StalledJob(job[w])] = @ + 1]
  <2>1. /\ StalledJob(job[w]) \in Job
        /\ StalledJob(job[w]).event = e
        /\ StalledJob(job[w]).destination = d
    BY SlotJob, StalledJobType DEF Stall, At, TypeOK, StalledJob, EventOf, DestinationOf
  <2>2. waiting'[StalledJob(job[w])] > 0
    BY <1>2, <2>1 DEF TypeOK, StoreTypeOK
  <2> QED
    BY <2>1, <2>2 DEF Queued
<1> QED
  BY <1>1, <1>2 DEF Stall

LEMMA InFlightStep ==
  ASSUME TypeOK, [Next]_vars, NEW e, NEW d, ReferencesExist(e, d), InFlight(e, d)
  PROVE  \/ InFlight(e, d)' \/ Queued(failed, e, d)'
         \/ \E w \in Workers : Record(w) /\ EventOf(w) = e /\ DestinationOf(w) = d
<1>1. ASSUME NEW j \in Job, waiting[j] > 0, j.event = e, j.destination = d
      PROVE  InFlight(e, d)'
  <2>1. CASE waiting'[j] > 0
    BY <1>1, <2>1 DEF InFlight, Queued
  <2>2. ASSUME NEW w \in Workers, TakeJob(w), ~(waiting'[j] > 0) PROVE InFlight(e, d)'
    <3>1. pc'[w] = "load" /\ job'[w] = j
      BY <1>1, <2>2 DEF TakeJob, Goto, TypeOK, WorkerTypeOK, StoreTypeOK
    <3> QED
      BY <1>1, <3>1 DEF InFlight, Delivering, InAttempt, EventOf, DestinationOf
  <2>3. ASSUME NEW w \in Workers, Stall(w) PROVE waiting'[j] > 0
    <3>1. PICK k \in Job : k = StalledJob(job[w])
      BY <2>3, SlotJob, StalledJobType DEF Stall, At, TypeOK
    <3>2. waiting' = waiting \/ waiting' = [waiting EXCEPT ![k] = @ + 1]
      BY <2>3, <3>1 DEF Stall
    <3>3. waiting[j] \in Nat /\ j \in DOMAIN waiting
      BY DEF TypeOK, StoreTypeOK
    <3>4. waiting'[j] = waiting[j] \/ waiting'[j] = waiting[j] + 1
      BY <3>2, <3>3
    <3> QED
      BY <1>1, <3>3, <3>4
  <2>4. ASSUME NEW k \in Job, Promote(k) PROVE waiting'[j] > 0
    BY <1>1, <2>4 DEF Promote, TypeOK, StoreTypeOK
  <2>5. ASSUME NEW w \in Workers, Reschedule(w) PROVE waiting'[j] > 0
    BY <1>1, <2>5 DEF Reschedule
  <2> QED
    BY <1>1, <2>1, <2>2, <2>3, <2>4, <2>5, QueueSteps
<1>2. ASSUME NEW j \in Job, delayed[j] > 0, j.event = e, j.destination = d
      PROVE  InFlight(e, d)'
  <2>1. CASE delayed'[j] > 0
    BY <1>2, <2>1 DEF InFlight, Queued
  <2>2. ASSUME NEW k \in Job, Promote(k), ~(delayed'[j] > 0) PROVE waiting'[j] > 0
    BY <1>2, <2>2 DEF Promote, TypeOK, StoreTypeOK
  <2>3. ASSUME NEW w \in Workers, TakeJob(w) \/ Stall(w) PROVE delayed'[j] > 0
    BY <1>2, <2>3 DEF TakeJob, Stall
  <2>4. ASSUME NEW w \in Workers, Reschedule(w) PROVE delayed'[j] > 0
    BY <1>2, <2>4 DEF Reschedule, Enqueued, TypeOK, StoreTypeOK
  <2> QED
    BY <1>2, <2>1, <2>2, <2>3, <2>4, QueueSteps DEF InFlight, Queued
<1>3. ASSUME NEW w \in Workers, EventOf(w) = e, DestinationOf(w) = d,
             pc[w] \in {"load", "number", "deliver", "record", "reschedule"}
      PROVE  \/ InFlight(e, d)' \/ Queued(failed, e, d)'
             \/ \E v \in Workers : Record(v) /\ EventOf(v) = e /\ DestinationOf(v) = d
  <2>1. CASE SlotKept(w)
    BY <1>3, <2>1 DEF SlotKept, InFlight, Delivering, InAttempt, EventOf, DestinationOf
  <2>2. CASE Load(w) \/ NextAttemptNumber(w) \/ Deliver(w)
    <3>1. pc'[w] \in {"number", "deliver", "record"} /\ job'[w] = job[w]
      BY <1>3, <2>2
      DEF Load, NextAttemptNumber, Deliver, At, Goto, TypeOK, WorkerTypeOK
    <3> QED
      BY <1>3, <3>1 DEF InFlight, Delivering, InAttempt, EventOf, DestinationOf
  <2>3. CASE RecordRefused(w) \/ Throw(w)
    BY <1>3, <2>3, ThrownFailed DEF RecordRefused, Throw
  <2>4. CASE Reschedule(w)
    <3> DEFINE j == [event |-> e, destination |-> d, stalled |-> FALSE]
    <3>1. j \in Job /\ j.event = e /\ j.destination = d
      BY <1>3, SlotJob DEF Job, TypeOK
    <3>2. delayed'[j] > 0
      BY <1>3, <2>4, <3>1 DEF Reschedule, Enqueued, TypeOK, StoreTypeOK
    <3> QED
      BY <3>1, <3>2 DEF InFlight, Queued
  <2>5. CASE Stall(w)
    BY <1>3, <2>5, StalledRequeued DEF InFlight
  <2>6. SlotStep(w) => \/ Load(w) \/ NextAttemptNumber(w) \/ Deliver(w) \/ Record(w)
                       \/ RecordRefused(w) \/ Throw(w) \/ Reschedule(w) \/ Stall(w)
    BY <1>3 DEF SlotStep, Proceed, TakeJob, ReadRequired, ReadSuccesses, UpdateEvent,
                Complete, At
  <2> QED
    BY <1>3, <2>1, <2>2, <2>3, <2>4, <2>5, <2>6, KeptOrStep
<1> QED
  BY <1>1, <1>2, <1>3 DEF InFlight, Queued, Delivering, InAttempt

(* A row that does not settle its pair leaves its slot to queue the retry. *)
LEMMA RecordSettles ==
  ASSUME TypeOK, NEW e, NEW d, NEW w \in Workers, Record(w),
         EventOf(w) = e, DestinationOf(w) = d
  PROVE  Settled(e, d)' \/ InFlight(e, d)'
<1>1. PICK i \in DOMAIN deliveries' : deliveries'[i] = RowOf(w)
  BY SlotRow, AppendRow DEF TypeOK
<1>2. i \in Attempts(e, d)' /\ deliveries'[i].status = outcome[w]
  BY <1>1 DEF RowOf, Attempts
<1>3. CASE outcome[w] = "failed"
  <2>1. pc'[w] = "reschedule" /\ job'[w] = job[w]
    BY <1>3 DEF Record, AfterRecord, Goto, TypeOK, WorkerTypeOK
  <2> QED
    BY <2>1 DEF InFlight, Delivering, InAttempt, EventOf, DestinationOf
<1>4. CASE outcome[w] \in {"success", "dead_letter"}
  BY <1>2, <1>4 DEF Settled, HasRow
<1> QED
  BY <1>3, <1>4 DEF Record, At, TypeOK, WorkerTypeOK, Outcome

LEMMA NoDeliveryLostStep ==
  TypeOK /\ Static /\ NoDeliveryLost /\ [Next]_vars => NoDeliveryLost'
<1> SUFFICES ASSUME TypeOK, Static, NoDeliveryLost, [Next]_vars,
                    NEW e \in Events, NEW d \in Matched[e]
             PROVE  (Settled(e, d) \/ InFlight(e, d) \/ Queued(failed, e, d))'
  BY DEF NoDeliveryLost
<1>1. CASE Settled(e, d)
  BY <1>1, HistoryKept
<1>2. CASE Queued(failed, e, d)
  BY <1>2, FailedKept
<1>3. ReferencesExist(e, d)
  BY StaticReferences, StoreAssumption
<1> QED
  BY <1>1, <1>2, <1>3, RecordSettles, InFlightStep DEF NoDeliveryLost

-----------------------------------------------------------------------------
(* A dead letter of an event that was delivered everywhere comes after a   *)
(* success of its pair.                                                    *)
LEMMA DeadLetterAgain ==
  ASSUME TypeOK, JobsScoped, NEW e \in Events, AllDelivered(e),
         NEW w \in Workers, Record(w), EventOf(w) = e, outcome[w] = "dead_letter"
  PROVE  GivenUpAfterSuccess(e)'
<1>1. DestinationOf(w) \in SuccessfulDestinations(e)
  BY DEF JobsScoped, AllDelivered, Record, At
<1>2. PICK i \in DOMAIN deliveries :
        /\ deliveries[i].event = e
        /\ deliveries[i].destination = DestinationOf(w)
        /\ deliveries[i].status = "success"
  BY <1>1 DEF SuccessfulDestinations, HasRow, Attempts
<1>3. /\ Len(deliveries) \in Nat
      /\ DOMAIN deliveries = 1..Len(deliveries)
      /\ DOMAIN deliveries' = 1..(Len(deliveries) + 1)
      /\ deliveries'[Len(deliveries) + 1] = RowOf(w)
      /\ deliveries'[i] = deliveries[i]
  BY SlotRow, AppendRow DEF TypeOK
<1>4. /\ i < Len(deliveries) + 1
      /\ i \in DOMAIN deliveries'
      /\ Len(deliveries) + 1 \in DOMAIN deliveries'
  BY <1>3
<1>5. /\ deliveries'[Len(deliveries) + 1].event = e
      /\ deliveries'[Len(deliveries) + 1].status = "dead_letter"
      /\ deliveries'[Len(deliveries) + 1].destination = deliveries'[i].destination
  BY <1>2, <1>3 DEF RowOf
<1> QED
  BY <1>2, <1>3, <1>4, <1>5 DEF GivenUpAfterSuccess

(* Any other row leaves its slot to aggregate or to queue the retry.       *)
LEMMA RecordAgain ==
  ASSUME TypeOK, JobsScoped, NEW e \in Events, NEW d \in Destinations, AllDelivered(e),
         NEW w \in Workers, Record(w), EventOf(w) = e, DestinationOf(w) = d,
         ~GivenUpAfterSuccess(e)'
  PROVE  Aggregating(e)' \/ InFlight(e, d)'
<1>1. outcome[w] # "dead_letter"
  BY DeadLetterAgain
<1>2. CASE outcome[w] = "success"
  <2>1. pc'[w] = "required" /\ job'[w] = job[w]
    BY <1>2 DEF Record, AfterRecord, Goto, TypeOK, WorkerTypeOK
  <2> QED
    BY <2>1 DEF Aggregating, EventOf
<1>3. CASE outcome[w] = "failed"
  <2>1. pc'[w] = "reschedule" /\ job'[w] = job[w]
    BY <1>3 DEF Record, AfterRecord, Goto, TypeOK, WorkerTypeOK
  <2> QED
    BY <2>1 DEF InFlight, Delivering, InAttempt, EventOf, DestinationOf
<1> QED
  BY <1>1, <1>2, <1>3 DEF Record, At, TypeOK, WorkerTypeOK, Outcome

LEMMA GivenUpKept ==
  ASSUME TypeOK, [Next]_vars, NEW e, GivenUpAfterSuccess(e)
  PROVE  GivenUpAfterSuccess(e)'
<1>1. PICK i \in DOMAIN deliveries, k \in DOMAIN deliveries :
        /\ i < k
        /\ deliveries[i].event = e /\ deliveries[i].status = "success"
        /\ deliveries[k].event = e /\ deliveries[k].status = "dead_letter"
        /\ deliveries[k].destination = deliveries[i].destination
  BY DEF GivenUpAfterSuccess
<1>2. /\ i \in DOMAIN deliveries' /\ deliveries'[i] = deliveries[i]
      /\ k \in DOMAIN deliveries' /\ deliveries'[k] = deliveries[k]
  BY RowsKept
<1> QED
  BY <1>1, <1>2 DEF GivenUpAfterSuccess

(* A slot that has begun to aggregate an event delivered everywhere marks  *)
(* it, or is interrupted.                                                  *)
LEMMA AggregatingStep ==
  ASSUME TypeOK, Static, SlotsRead, [Next]_vars,
         NEW e \in Events, AllDelivered(e), Aggregating(e)
  PROVE  \/ events'[e] = "delivered"
         \/ Aggregating(e)'
         \/ \E d \in Destinations : InFlight(e, d)' \/ Queued(failed, e, d)'
<1>1. PICK w \in Workers : /\ pc[w] \in {"required", "successes", "update"}
                           /\ EventOf(w) = e
  BY DEF Aggregating
<1>2. CASE SlotKept(w)
  BY <1>1, <1>2 DEF SlotKept, Aggregating, EventOf
<1>3. CASE ReadRequired(w)
  <2>1. RequiredDestinations(e) # {}
    BY StoreAssumption DEF Static, RequiredDestinations, AllDelivered
  <2>2. pc'[w] = "successes" /\ job'[w] = job[w]
    BY <1>1, <1>3, <2>1 DEF ReadRequired, Goto, TypeOK, WorkerTypeOK
  <2> QED
    BY <1>1, <2>2 DEF Aggregating, EventOf
<1>4. CASE ReadSuccesses(w)
  <2>1. required[w] \subseteq SuccessfulDestinations(e)
    BY <1>1, <1>4 DEF ReadSuccesses, At, SlotsRead, AllDelivered
  <2>2. pc'[w] = "update" /\ job'[w] = job[w]
    BY <1>1, <1>4, <2>1 DEF ReadSuccesses, Goto, TypeOK, WorkerTypeOK
  <2> QED
    BY <1>1, <2>2 DEF Aggregating, EventOf
<1>5. CASE UpdateEvent(w)
  BY <1>1, <1>5 DEF UpdateEvent, Static, TypeOK, StoreTypeOK
<1>6. PICK d \in Destinations : DestinationOf(w) = d
  BY <1>1, SlotJob DEF TypeOK
<1>7. CASE Throw(w)
  BY <1>1, <1>6, <1>7, ThrownFailed DEF Throw
<1>8. CASE Stall(w)
  BY <1>1, <1>6, <1>8, StalledRequeued DEF InFlight
<1>9. SlotStep(w) =>
        ReadRequired(w) \/ ReadSuccesses(w) \/ UpdateEvent(w) \/ Throw(w) \/ Stall(w)
  BY <1>1 DEF SlotStep, Proceed, TakeJob, Load, NextAttemptNumber, Deliver, Record,
              RecordRefused, Reschedule, Complete, At
<1> QED
  BY <1>2, <1>3, <1>4, <1>5, <1>7, <1>8, <1>9, KeptOrStep

LEMMA LastRecorderStep ==
  TypeOK /\ Static /\ JobsScoped /\ SlotsRead /\ LastRecorderAggregates /\ [Next]_vars
    => LastRecorderAggregates'
<1> SUFFICES ASSUME TypeOK, Static, JobsScoped, SlotsRead, LastRecorderAggregates,
                    [Next]_vars, NEW e \in Events, AllDelivered(e)',
                    ~GivenUpAfterSuccess(e)'
             PROVE  \/ events'[e] = "delivered"
                    \/ Aggregating(e)'
                    \/ \E d \in Destinations : InFlight(e, d)' \/ Queued(failed, e, d)'
  BY DEF LastRecorderAggregates
<1>1. CASE AllDelivered(e)
  <2>1. ~GivenUpAfterSuccess(e)
    BY GivenUpKept
  <2>2. CASE events[e] = "delivered"
    BY <2>2, EventSteps DEF UpdateEvent, TypeOK, StoreTypeOK
  <2>3. CASE Aggregating(e)
    BY <1>1, <2>3, AggregatingStep
  <2>4. ASSUME NEW d \in Destinations, InFlight(e, d)
        PROVE  InFlight(e, d)' \/ Queued(failed, e, d)' \/ Aggregating(e)'
    BY <1>1, <2>4, StaticReferences, InFlightStep, RecordAgain
  <2>5. ASSUME NEW d \in Destinations, Queued(failed, e, d)
        PROVE  Queued(failed, e, d)'
    BY <2>5, FailedKept
  <2> QED
    BY <1>1, <2>1, <2>2, <2>3, <2>4, <2>5 DEF LastRecorderAggregates
<1>2. CASE ~AllDelivered(e)
  <2>1. PICK w \in Workers : Record(w)
    BY <1>2, OnlyRecordInserts DEF AllDelivered, SuccessfulDestinations, HasRow, Attempts
  <2>2. PICK d \in Matched[e] : HasRow(e, d, "success")' /\ ~HasRow(e, d, "success")
    BY <1>2, StoreAssumption DEF AllDelivered, SuccessfulDestinations
  <2>3. PICK i \in DOMAIN deliveries' :
          /\ i \notin DOMAIN deliveries
          /\ deliveries'[i].event = e
          /\ deliveries'[i].status = "success"
    BY <2>2, RowsKept DEF HasRow, Attempts
  <2>4. deliveries'[i] = RowOf(w)
    BY <2>1, <2>3, SlotRow, AppendRow DEF TypeOK
  <2>5. EventOf(w) = e /\ outcome[w] = "success"
    BY <2>3, <2>4 DEF RowOf
  <2>6. pc'[w] = "required" /\ job'[w] = job[w]
    BY <2>1, <2>5 DEF Record, AfterRecord, Goto, TypeOK, WorkerTypeOK
  <2> QED
    BY <2>5, <2>6 DEF Aggregating, EventOf
<1> QED
  BY <1>1, <1>2

-----------------------------------------------------------------------------
LEMMA InitIInv == Init => IInv
<1> SUFFICES ASSUME Init PROVE IInv
  OBVIOUS
<1>1. TypeOK
  BY InitType
<1>2. Static
  BY DEF Init, Static
<1>3. \A w \in Workers : pc[w] = "idle"
  BY DEF Init, WorkerInit
<1>4. DOMAIN deliveries = {}
  BY DEF Init
<1>5. \A j \in Job : /\ waiting[j] > 0 => j.destination \in Matched[j.event]
                     /\ ~(delayed[j] > 0)
  BY DEF Init, Enqueued, NoJobs, Job
<1>6. JobsScoped
  BY <1>3, <1>5 DEF JobsScoped
<1>7. RowsNumbered /\ SlotsNumbered /\ SlotsRead
  BY <1>3, <1>4 DEF RowsNumbered, SlotsNumbered, SlotsRead
<1>8. DeliveredMeansAll
  BY DEF Init, DeliveredMeansAll
<1>9. NoDeliveryLost
  <2> SUFFICES ASSUME NEW e \in Events, NEW d \in Matched[e] PROVE InFlight(e, d)
    BY DEF NoDeliveryLost
  <2> DEFINE j == [event |-> e, destination |-> d, stalled |-> FALSE]
  <2>1. d \in Destinations
    BY StoreAssumption
  <2>2. j \in Job /\ j.event = e /\ j.destination = d /\ ~j.stalled
    BY <2>1 DEF Job
  <2>3. waiting[j] > 0
    BY <2>1, <2>2 DEF Init, Enqueued, NoJobs
  <2> QED
    BY <2>2, <2>3 DEF InFlight, Queued
<1>10. LastRecorderAggregates
  BY <1>4 DEF LastRecorderAggregates, AllDelivered, SuccessfulDestinations, HasRow, Attempts
<1> QED
  BY <1>1, <1>2, <1>6, <1>7, <1>8, <1>9, <1>10 DEF IInv

LEMMA StepIInv == IInv /\ [Next]_vars => IInv'
BY StepType, StaticStep, JobsScopedStep, RowsNumberedStep, SlotsNumberedStep,
   SlotsReadStep, DeliveredMeansAllStep, NoDeliveryLostStep, LastRecorderStep DEF IInv

THEOREM Inductive == Spec => []IInv
BY InitIInv, StepIInv, PTL DEF Spec

(* Whatever throws or crashes, an event queued for a destination is        *)
(* delivered, dead-lettered, still queued or running, or in the failed set. *)
THEOREM NothingLost == Spec => []NoDeliveryLost
BY Inductive, PTL DEF IInv

(* A pair is dead-lettered only after every number below max_retries has   *)
(* been recorded, also when several retry chains of it interleave.         *)
THEOREM NeverEarly == Spec => []NeverGivesUpEarly
<1>1. IInv => NeverGivesUpEarly
  BY DEF IInv, RowsNumbered, RecordedBelow, NeverGivesUpEarly
<1> QED
  BY <1>1, Inductive, PTL

(* An event marked delivered has a success at every destination.           *)
THEOREM DeliveredIsDelivered == Spec => []DeliveredMeansAll
BY Inductive, PTL DEF IInv

(* The slot that records the last success of an event sees all of them.    *)
THEOREM LastRecorder == Spec => []LastRecorderAggregates
BY Inductive, PTL DEF IInv

-----------------------------------------------------------------------------
(* One chain of attempts per pair while nothing fails.                     *)
Chain(e, d) ==
  /\ \A w, v \in Workers : InAttempt(w, e, d) /\ InAttempt(v, e, d) => w = v
  /\ \A j \in Job : j.event = e /\ j.destination = d =>
       waiting[j] + delayed[j] <= (IF j.stalled \/ Delivering(e, d) THEN 0 ELSE 1)
  /\ Settled(e, d) => ~InFlight(e, d)

(* A step that brings no slot and no job to a pair, nor settles it, keeps  *)
(* its chain.                                                              *)
LEMMA ChainFrame ==
  ASSUME StoreTypeOK, StoreTypeOK', NEW e, NEW d, Chain(e, d),
         \A v \in Workers : InAttempt(v, e, d)' => InAttempt(v, e, d),
         \A j \in Job : j.event = e /\ j.destination = d =>
           waiting'[j] + delayed'[j] = waiting[j] + delayed[j],
         Settled(e, d)' => Settled(e, d)
  PROVE  Chain(e, d)'
<1>1. Delivering(e, d)' => Delivering(e, d)
  BY DEF Delivering
<1>2. \A j \in Job : /\ waiting[j] \in Nat /\ delayed[j] \in Nat
                     /\ waiting'[j] \in Nat /\ delayed'[j] \in Nat
  BY DEF StoreTypeOK
<1>3. InFlight(e, d)' => InFlight(e, d)
  BY <1>1, <1>2 DEF InFlight, Queued
<1> QED
  BY <1>1, <1>2, <1>3 DEF Chain

(* The job taken was the only one of its pair, and no slot was at it.      *)
LEMMA ChainTake ==
  ASSUME TypeOK, TypeOK', NEW e \in Events, NEW d \in Destinations, Chain(e, d),
         NEW w \in Workers, TakeJob(w)
  PROVE  Chain(e, d)'
<1>1. PICK j \in Job : /\ waiting[j] > 0
                       /\ waiting' = [waiting EXCEPT ![j] = @ - 1]
                       /\ job' = [job EXCEPT ![w] = j]
  BY DEF TakeJob
<1>2. \A k \in Job : /\ waiting[k] \in Nat /\ delayed[k] \in Nat
                     /\ delayed'[k] = delayed[k]
                     /\ waiting'[k] = IF k = j THEN waiting[k] - 1 ELSE waiting[k]
  BY <1>1 DEF TakeJob, TypeOK, StoreTypeOK
<1>3. \A v \in Workers : v # w => (InAttempt(v, e, d)' <=> InAttempt(v, e, d))
  BY <1>1 DEF TakeJob, Goto, TypeOK, WorkerTypeOK, InAttempt, EventOf, DestinationOf
<1>4. job'[w] = j /\ pc'[w] = "load"
  BY <1>1 DEF TakeJob, Goto, TypeOK, WorkerTypeOK
<1>5. Settled(e, d)' <=> Settled(e, d)
  BY DEF TakeJob, Settled, HasRow, Attempts
<1>6. CASE ~(j.event = e /\ j.destination = d)
  <2>1. ~InAttempt(w, e, d)'
    BY <1>4, <1>6 DEF InAttempt, EventOf, DestinationOf
  <2>2. \A k \in Job : k.event = e /\ k.destination = d =>
          waiting'[k] + delayed'[k] = waiting[k] + delayed[k]
    BY <1>2, <1>6
  <2> QED
    BY <1>3, <1>5, <2>1, <2>2, ChainFrame DEF TypeOK
<1>7. CASE j.event = e /\ j.destination = d
  <2>1. ~Delivering(e, d) /\ ~j.stalled /\ waiting[j] + delayed[j] <= 1
    BY <1>1, <1>2, <1>7 DEF Chain
  <2>2. \A k \in Job : k.event = e /\ k.destination = d => k = j \/ k.stalled
    BY <1>7, <2>1 DEF Job
  <2>3. \A k \in Job : k.event = e /\ k.destination = d => waiting'[k] + delayed'[k] <= 0
    BY <1>1, <1>2, <2>1, <2>2 DEF Chain
  <2>4. ~Settled(e, d)
    BY <1>1, <1>7 DEF Chain, InFlight, Queued
  <2>5. \A v \in Workers : InAttempt(v, e, d)' => v = w
    BY <1>3, <2>1 DEF Delivering
  <2> QED
    BY <1>2, <1>5, <2>3, <2>4, <2>5 DEF Chain
<1> QED
  BY <1>6, <1>7

(* The retry is the only job of its pair, and its slot has no more to do.  *)
LEMMA ChainReschedule ==
  ASSUME TypeOK, TypeOK', NEW e \in Events, NEW d \in Destinations, Chain(e, d),
         NEW w \in Workers, Reschedule(w)
  PROVE  Chain(e, d)'
<1>1. \A v \in Workers : v # w => (InAttempt(v, e, d)' <=> InAttempt(v, e, d))
  BY DEF Reschedule, Goto, TypeOK, WorkerTypeOK, InAttempt, EventOf, DestinationOf
<1>2. ~InAttempt(w, e, d)'
  BY DEF Reschedule, Goto, TypeOK, WorkerTypeOK, InAttempt
<1>3. Settled(e, d)' <=> Settled(e, d)
  BY DEF Reschedule, Settled, HasRow, Attempts
<1>4. \A k \in Job :
        /\ waiting[k] \in Nat /\ delayed[k] \in Nat
        /\ waiting'[k] = waiting[k]
        /\ delayed'[k] = IF ~k.stalled /\ k.event = EventOf(w) /\ k.destination = DestinationOf(w)
                         THEN delayed[k] + 1 ELSE delayed[k]
  BY DEF Reschedule, Enqueued, TypeOK, StoreTypeOK
<1>5. CASE ~(EventOf(w) = e /\ DestinationOf(w) = d)
  <2>1. \A k \in Job : k.event = e /\ k.destination = d =>
          waiting'[k] + delayed'[k] = waiting[k] + delayed[k]
    BY <1>4, <1>5
  <2> QED
    BY <1>1, <1>2, <1>3, <2>1, ChainFrame DEF TypeOK
<1>6. CASE EventOf(w) = e /\ DestinationOf(w) = d
  <2>1. InAttempt(w, e, d)
    BY <1>6 DEF Reschedule, At, InAttempt
  <2>2. Delivering(e, d) /\ ~Settled(e, d)
    BY <2>1 DEF Chain, InFlight, Delivering
  <2>3. ~Delivering(e, d)'
    BY <1>1, <1>2, <2>1 DEF Chain, Delivering
  <2>4. \A k \in Job : k.event = e /\ k.destination = d =>
          waiting'[k] + delayed'[k] <= (IF k.stalled THEN 0 ELSE 1)
    BY <1>4, <2>2 DEF Chain
  <2> QED
    BY <1>3, <2>2, <2>3, <2>4 DEF Chain, Delivering
<1> QED
  BY <1>5, <1>6

(* A row that settles its pair ends the chain; a failed one does not.      *)
LEMMA ChainRecord ==
  ASSUME TypeOK, TypeOK', NEW e \in Events, NEW d \in Destinations, Chain(e, d),
         NEW w \in Workers, Record(w)
  PROVE  Chain(e, d)'
<1>1. \A v \in Workers : v # w => (InAttempt(v, e, d)' <=> InAttempt(v, e, d))
  BY DEF Record, Goto, TypeOK, WorkerTypeOK, InAttempt, EventOf, DestinationOf
<1>2. pc'[w] = AfterRecord(outcome[w]) /\ job'[w] = job[w]
  BY DEF Record, Goto, TypeOK, WorkerTypeOK
<1>3. \A k \in Job : waiting'[k] = waiting[k] /\ delayed'[k] = delayed[k]
  BY DEF Record, queueVars
<1>4. InAttempt(w, e, d)' => InAttempt(w, e, d)
  BY <1>2 DEF Record, At, InAttempt, EventOf, DestinationOf
<1>5. /\ DOMAIN deliveries' = DOMAIN deliveries \cup {Len(deliveries) + 1}
      /\ deliveries'[Len(deliveries) + 1] = RowOf(w)
      /\ \A i \in DOMAIN deliveries : deliveries'[i] = deliveries[i]
  <2>1. /\ Len(deliveries) \in Nat
        /\ DOMAIN deliveries = 1..Len(deliveries)
        /\ DOMAIN deliveries' = 1..(Len(deliveries) + 1)
        /\ deliveries'[Len(deliveries) + 1] = RowOf(w)
        /\ \A i \in DOMAIN deliveries : deliveries'[i] = deliveries[i]
    BY SlotRow, AppendRow DEF TypeOK
  <2> QED
    BY <2>1
<1>6. CASE ~(EventOf(w) = e /\ DestinationOf(w) = d) \/ outcome[w] = "failed"
  <2>1. Settled(e, d)' => Settled(e, d)
    BY <1>5, <1>6 DEF Settled, HasRow, Attempts, RowOf
  <2> QED
    BY <1>1, <1>3, <1>4, <2>1, ChainFrame DEF TypeOK
<1>7. CASE EventOf(w) = e /\ DestinationOf(w) = d /\ outcome[w] # "failed"
  <2>1. InAttempt(w, e, d)
    BY <1>7 DEF Record, At, InAttempt
  <2>2. ~InAttempt(w, e, d)'
    BY <1>2, <1>7 DEF AfterRecord, InAttempt
  <2>3. ~Delivering(e, d)'
    BY <1>1, <2>1, <2>2 DEF Chain, Delivering
  <2>4. Delivering(e, d)
    BY <2>1 DEF Delivering
  <2>5. \A k \in Job : /\ waiting[k] \in Nat /\ delayed[k] \in Nat
                       /\ k.event = e /\ k.destination = d => waiting[k] + delayed[k] <= 0
    BY <2>4 DEF Chain, TypeOK, StoreTypeOK
  <2>6. ~InFlight(e, d)'
    BY <1>3, <2>3, <2>5 DEF InFlight, Queued
  <2>7. \A v \in Workers : ~InAttempt(v, e, d)'
    BY <2>3 DEF Delivering
  <2> QED
    BY <1>3, <2>5, <2>6, <2>7 DEF Chain
<1> QED
  BY <1>6, <1>7

(* Every other step that is no fault moves a slot along its pair, lets it  *)
(* go, or promotes a job.                                                  *)
LEMMA ChainOther ==
  ASSUME TypeOK, TypeOK', NEW e \in Events, NEW d \in Destinations, Chain(e, d),
         \/ UNCHANGED vars
         \/ \E j \in Job : Promote(j)
         \/ \E w \in Workers : \/ Load(w) \/ NextAttemptNumber(w) \/ Deliver(w)
                               \/ RecordRefused(w) \/ ReadRequired(w) \/ ReadSuccesses(w)
                               \/ UpdateEvent(w) \/ Complete(w)
  PROVE  Chain(e, d)'
<1>1. Settled(e, d)' <=> Settled(e, d)
  BY DEF vars, storeVars, queueVars, Promote, Load, NextAttemptNumber, Deliver, RecordRefused,
         ReadRequired, ReadSuccesses, UpdateEvent, Complete, Settled, HasRow, Attempts
<1>2. CASE UNCHANGED vars
  <2>1. \A v \in Workers : InAttempt(v, e, d)' => InAttempt(v, e, d)
    BY <1>2 DEF vars, workerVars, slotVars, InAttempt, EventOf, DestinationOf
  <2>2. \A j \in Job : waiting'[j] + delayed'[j] = waiting[j] + delayed[j]
    BY <1>2 DEF vars, storeVars
  <2> QED
    BY <1>1, <2>1, <2>2, ChainFrame DEF TypeOK
<1>3. ASSUME NEW k \in Job, Promote(k) PROVE Chain(e, d)'
  <2>1. \A v \in Workers : InAttempt(v, e, d)' => InAttempt(v, e, d)
    BY <1>3 DEF Promote, workerVars, slotVars, InAttempt, EventOf, DestinationOf
  <2>2. \A j \in Job : waiting'[j] + delayed'[j] = waiting[j] + delayed[j]
    BY <1>3 DEF Promote, TypeOK, StoreTypeOK
  <2> QED
    BY <1>1, <2>1, <2>2, ChainFrame DEF TypeOK
<1>4. ASSUME NEW w \in Workers,
             \/ Load(w) \/ NextAttemptNumber(w) \/ Deliver(w) \/ RecordRefused(w)
             \/ ReadRequired(w) \/ ReadSuccesses(w) \/ UpdateEvent(w) \/ Complete(w)
      PROVE  Chain(e, d)'
  <2>1. \A j \in Job : waiting'[j] + delayed'[j] = waiting[j] + delayed[j]
    BY <1>4 DEF storeVars, queueVars, Load, NextAttemptNumber, Deliver, RecordRefused,
                ReadRequired, ReadSuccesses, UpdateEvent, Complete
  <2>2. \A v \in Workers : v # w => (InAttempt(v, e, d)' => InAttempt(v, e, d))
    BY <1>4, OtherSlots DEF SlotStep, Proceed, RecordRefused, SlotKept, InAttempt, EventOf,
                            DestinationOf, TypeOK
  <2>3. InAttempt(w, e, d)' => InAttempt(w, e, d)
    BY <1>4 DEF TypeOK, WorkerTypeOK, Load, NextAttemptNumber, Deliver, RecordRefused,
                ReadRequired, ReadSuccesses, UpdateEvent, Complete, FailJob, Release, Goto, At,
                InAttempt, EventOf, DestinationOf
  <2> QED
    BY <1>1, <2>1, <2>2, <2>3, ChainFrame DEF TypeOK
<1> QED
  BY <1>2, <1>3, <1>4

LEMMA OneChainStep ==
  TypeOK /\ OneChainUnlessFaults /\ [Next]_vars => OneChainUnlessFaults'
<1> SUFFICES ASSUME TypeOK, OneChainUnlessFaults, [Next]_vars, workerFaults' = 0,
                    NEW e \in Events, NEW d \in Destinations
             PROVE  Chain(e, d)'
  BY DEF OneChainUnlessFaults, Chain
<1>1. TypeOK'
  BY StepType
<1>2. Fault => workerFaults' # 0
  BY DEF Fault, TypeOK, WorkerTypeOK
<1>3. ~(\E w \in Workers : Throw(w) \/ Stall(w))
  BY <1>2 DEF Throw, Stall
<1>4. workerFaults' = workerFaults
  BY <1>3 DEF Next, vars, WorkerNext, Proceed, TakeJob, Promote, Load, NextAttemptNumber,
              Deliver, Record, RecordRefused, Reschedule, ReadRequired, ReadSuccesses,
              UpdateEvent, Complete, workerVars
<1>5. Chain(e, d)
  BY <1>4 DEF OneChainUnlessFaults, Chain
<1> QED
  BY <1>1, <1>3, <1>5, ChainTake, ChainReschedule, ChainRecord, ChainOther
  DEF Next, WorkerNext, Proceed

LEMMA OneChainInit == Init => OneChainUnlessFaults
<1> SUFFICES ASSUME Init, NEW e \in Events, NEW d \in Destinations PROVE Chain(e, d)
  BY DEF OneChainUnlessFaults, Chain
<1>1. \A w \in Workers : ~InAttempt(w, e, d)
  BY DEF Init, WorkerInit, InAttempt
<1>2. ASSUME NEW j \in Job
      PROVE  /\ waiting[j] <= (IF j.stalled THEN 0 ELSE 1)
             /\ waiting[j] \in Nat
             /\ delayed[j] = 0
  <2>1. NoJobs[j] = 0
    BY DEF NoJobs
  <2>2. PICK pairs : waiting = Enqueued(NoJobs, pairs)
    BY DEF Init
  <2>3. waiting[j] = IF ~j.stalled /\ <<j.event, j.destination>> \in pairs
                     THEN NoJobs[j] + 1 ELSE NoJobs[j]
    BY <2>2 DEF Enqueued
  <2> QED
    BY <2>1, <2>3 DEF Init
<1>3. ~Settled(e, d)
  BY DEF Init, Settled, HasRow, Attempts
<1> QED
  BY <1>1, <1>2, <1>3 DEF Chain, Delivering

(* Without faults a pair never has two chains of attempts, and none once   *)
(* it is settled, however many slots there are.                            *)
THEOREM OneChain == Spec => []OneChainUnlessFaults
BY InitType, StepType, OneChainInit, OneChainStep, PTL DEF Spec

-----------------------------------------------------------------------------
(* What the row a slot inserts means in the terms of ReliableDelivery.     *)
LEMMA PairsRecorded ==
  ASSUME TypeOK, NEW w \in Workers, Record(w), NEW e \in Events, NEW d \in Destinations,
         EventOf(w) = e, DestinationOf(w) = d
  PROVE  /\ Tried' = Tried \cup {<<e, d, attempt[w]>>}
         /\ DeliveredPairs' = IF outcome[w] = "success"
                              THEN DeliveredPairs \cup {<<e, d>>} ELSE DeliveredPairs
         /\ AbandonedPairs' = IF outcome[w] = "dead_letter"
                              THEN AbandonedPairs \cup {<<e, d>>} ELSE AbandonedPairs
<1> DEFINE new == Len(deliveries) + 1
<1>1. /\ Len(deliveries) \in Nat
      /\ DOMAIN deliveries = 1..Len(deliveries)
      /\ DOMAIN deliveries' = 1..new
      /\ deliveries'[new] = RowOf(w)
      /\ \A i \in DOMAIN deliveries : deliveries'[i] = deliveries[i]
  <2>1. /\ Len(deliveries) \in Nat
        /\ DOMAIN deliveries = 1..Len(deliveries)
        /\ DOMAIN deliveries' = 1..(Len(deliveries) + 1)
        /\ deliveries'[Len(deliveries) + 1] = RowOf(w)
        /\ \A i \in DOMAIN deliveries : deliveries'[i] = deliveries[i]
    BY SlotRow, AppendRow DEF TypeOK
  <2> QED
    BY <2>1
<1>2. DOMAIN deliveries' = DOMAIN deliveries \cup {new} /\ new \notin DOMAIN deliveries
  BY <1>1
<1>3. /\ deliveries'[new].event = e
      /\ deliveries'[new].destination = d
      /\ deliveries'[new].attempt = attempt[w]
      /\ deliveries'[new].status = outcome[w]
  BY <1>1 DEF RowOf
<1> HIDE DEF new
<1>4. Tried' = Tried \cup {<<e, d, attempt[w]>>}
  BY <1>1, <1>2, <1>3 DEF Tried
<1>5. ASSUME NEW a \in Events, NEW b \in Destinations, NEW status
      PROVE  HasRow(a, b, status)' <=>
               HasRow(a, b, status) \/ (a = e /\ b = d /\ status = outcome[w])
  <2>1. HasRow(a, b, status)' <=>
          \E i \in DOMAIN deliveries \cup {new} :
            /\ deliveries'[i].event = a
            /\ deliveries'[i].destination = b
            /\ deliveries'[i].status = status
    BY <1>2 DEF HasRow, Attempts
  <2>2. HasRow(a, b, status) <=>
          \E i \in DOMAIN deliveries :
            /\ deliveries[i].event = a
            /\ deliveries[i].destination = b
            /\ deliveries[i].status = status
    BY DEF HasRow, Attempts
  <2> QED
    BY <1>1, <1>3, <2>1, <2>2
<1>6. ASSUME NEW p \in Events \X Destinations, NEW status
      PROVE  HasRow(p[1], p[2], status)' <=>
               HasRow(p[1], p[2], status) \/ (p = <<e, d>> /\ status = outcome[w])
  BY <1>5
<1>7. <<e, d>> \in Events \X Destinations
  OBVIOUS
<1>8. DeliveredPairs' = IF outcome[w] = "success"
                        THEN DeliveredPairs \cup {<<e, d>>} ELSE DeliveredPairs
  BY <1>6, <1>7 DEF DeliveredPairs
<1>9. AbandonedPairs' = IF outcome[w] = "dead_letter"
                        THEN AbandonedPairs \cup {<<e, d>>} ELSE AbandonedPairs
  BY <1>6, <1>7 DEF AbandonedPairs
<1> QED
  BY <1>4, <1>8, <1>9

LEMMA AttemptIsPromised ==
  ASSUME IInv, NEW w \in Workers, Record(w)
  PROVE  Promise!Next
<1>1. PICK e \in Events, d \in Destinations, n \in Nat :
        EventOf(w) = e /\ DestinationOf(w) = d /\ attempt[w] = n
  BY SlotJob DEF Record, At, IInv, TypeOK, WorkerTypeOK
<1>2. d \in Matched[e] /\ n >= 1 /\ RecordedBelow(e, d, n)
  BY <1>1 DEF Record, At, IInv, JobsScoped, SlotsNumbered
<1>3. \A m \in 1..(n - 1) : <<e, d, m>> \in Tried
  BY <1>2 DEF RecordedBelow, Attempts, Tried
<1>4. n \in {1} \cup {t[3] + 1 : t \in Tried}
  <2>1. CASE n = 1
    BY <2>1
  <2>2. CASE n # 1
    <3>1. <<e, d, n - 1>> \in Tried
      BY <1>2, <1>3, <2>2
    <3>2. <<e, d, n - 1>>[3] + 1 = n
      OBVIOUS
    <3> QED
      BY <3>1, <3>2
  <2> QED
    BY <2>1, <2>2
<1>5. n \in Promise!Numbers(e, d)
  BY <1>3, <1>4 DEF Promise!Numbers
<1>6. ClosedEvents' = ClosedEvents
  BY DEF Record, ClosedEvents
<1>7. /\ Tried' = Tried \cup {<<e, d, n>>}
      /\ DeliveredPairs' = IF outcome[w] = "success"
                           THEN DeliveredPairs \cup {<<e, d>>} ELSE DeliveredPairs
      /\ AbandonedPairs' = IF outcome[w] = "dead_letter"
                           THEN AbandonedPairs \cup {<<e, d>>} ELSE AbandonedPairs
  BY <1>1, PairsRecorded DEF IInv
<1>8. CASE outcome[w] = "success"
  <2>1. Promise!Succeed(e, d, n)
    BY <1>6, <1>7, <1>8 DEF Promise!Succeed
  <2> QED
    BY <1>2, <1>5, <2>1 DEF Promise!Next
<1>9. CASE outcome[w] = "failed"
  <2>1. n < MaxRetries[d]
    BY <1>1, <1>9 DEF Record, At, IInv, SlotsNumbered
  <2>2. Promise!Fail(e, d, n)
    BY <1>6, <1>7, <1>9, <2>1 DEF Promise!Fail
  <2> QED
    BY <1>2, <1>5, <2>2 DEF Promise!Next
<1>10. CASE outcome[w] = "dead_letter"
  <2>1. n >= MaxRetries[d]
    BY <1>1, <1>10 DEF Record, At, IInv, SlotsNumbered
  <2>2. Promise!GiveUp(e, d, n)
    BY <1>6, <1>7, <1>10, <2>1 DEF Promise!GiveUp
  <2> QED
    BY <1>2, <1>5, <2>2 DEF Promise!Next
<1> QED
  BY <1>8, <1>9, <1>10 DEF Record, At, IInv, TypeOK, WorkerTypeOK, Outcome

LEMMA StepIsPromised ==
  IInv /\ [Next]_vars => [Promise!Next]_(Promise!promiseVars)
<1> SUFFICES ASSUME IInv, [Next]_vars PROVE [Promise!Next]_(Promise!promiseVars)
  OBVIOUS
<1>1. CASE \E w \in Workers : Record(w)
  BY <1>1, AttemptIsPromised
<1>2. CASE deliveries' = deliveries /\ events' = events
  BY <1>2 DEF Promise!promiseVars, Tried, DeliveredPairs, AbandonedPairs, ClosedEvents,
              HasRow, Attempts
<1>3. ASSUME NEW w \in Workers, UpdateEvent(w) PROVE Promise!Next
  <2>1. PICK e \in Events : EventOf(w) = e
    BY <1>3, SlotJob DEF UpdateEvent, At, IInv, TypeOK
  <2>2. Matched[e] # {} /\ \A d \in Matched[e] : <<e, d>> \in DeliveredPairs
    BY <1>3, <2>1 DEF UpdateEvent, At, IInv, SlotsRead, AllDelivered,
                      SuccessfulDestinations, DeliveredPairs
  <2>3. ClosedEvents' = ClosedEvents \cup {e}
    BY <1>3, <2>1 DEF UpdateEvent, ClosedEvents, IInv, TypeOK, StoreTypeOK, Static
  <2>4. UNCHANGED <<Tried, DeliveredPairs, AbandonedPairs>>
    BY <1>3 DEF UpdateEvent, Tried, DeliveredPairs, AbandonedPairs, HasRow, Attempts
  <2>5. Promise!Close(e)
    BY <2>2, <2>3, <2>4 DEF Promise!Close
  <2> QED
    BY <2>5 DEF Promise!Next
<1>4. \/ \E w \in Workers : Record(w)
      \/ deliveries' = deliveries /\ events' = events
      \/ \E w \in Workers : UpdateEvent(w)
  BY OnlyRecordInserts, EventSteps DEF IInv
<1> QED
  BY <1>1, <1>2, <1>3, <1>4

(* The worker implements ReliableDelivery: attempts are numbered without   *)
(* gaps, nothing is given up before max_retries, and an event is closed    *)
(* only when it is delivered everywhere.                                   *)
THEOREM Implements == Spec => KeepsPromise
<1>1. Init => Promise!Init
  BY DEF Init, Promise!Init, Tried, DeliveredPairs, AbandonedPairs, ClosedEvents,
         HasRow, Attempts
<1> QED
  BY <1>1, StepIsPromised, Inductive, PTL DEF Spec, KeepsPromise, Promise!Spec

-----------------------------------------------------------------------------
(* How many attempts faults can cost.  The attempts of a pair are counted  *)
(* by class: each number below max_retries, and all from there on.         *)
PerChain(d) == IF MaxRetries[d] = 0 THEN 1 ELSE MaxRetries[d]

Class(n, d) == IF n < MaxRetries[d] THEN n ELSE PerChain(d)

RowsIn(e, d, k) == {i \in Attempts(e, d) : Class(deliveries[i].attempt, d) = k}

(* The numbers that a slot or job which has yet to read one can be given.  *)
Open(e, d, k) == k = PerChain(d) \/ \A i \in Attempts(e, d) : deliveries[i].attempt < k

(* Slots that may yet record a row of the class, or queue a job that may.  *)
Able(w, e, d, k) ==
  /\ InAttempt(w, e, d)
  /\ IF pc[w] \in {"deliver", "record"} THEN Class(attempt[w], d) <= k ELSE Open(e, d, k)

AbleSlots(e, d, k) == {w \in Workers : Able(w, e, d, k)}

FirstJob(e, d) == [event |-> e, destination |-> d, stalled |-> FALSE]

JobsOf(e, d) ==
  waiting[FirstJob(e, d)] + delayed[FirstJob(e, d)]
    + (waiting[StalledJob(FirstJob(e, d))] + delayed[StalledJob(FirstJob(e, d))])

(* Each chain, the first one and one for each fault, has one row in a      *)
(* class, or can still get there.                                          *)
ClassBounded(e, d, k) ==
  /\ IsFiniteSet(AbleSlots(e, d, k))
  /\ Cardinality(RowsIn(e, d, k)) + Cardinality(AbleSlots(e, d, k))
       + (IF Open(e, d, k) THEN JobsOf(e, d) ELSE 0) <= workerFaults + 1

ClassesBounded ==
  \A e \in Events, d \in Destinations : \A k \in 1..PerChain(d) : ClassBounded(e, d, k)

LEMMA OneMore ==
  ASSUME NEW S, IsFiniteSet(S), NEW x, NEW T, T \subseteq S \cup {x}
  PROVE  /\ IsFiniteSet(T)
         /\ Cardinality(T) <= Cardinality(S) + 1
         /\ Cardinality(S) \in Nat /\ Cardinality(T) \in Nat
<1>1. /\ IsFiniteSet(S \cup {x})
      /\ Cardinality(S \cup {x}) = IF x \in S THEN Cardinality(S) ELSE Cardinality(S) + 1
  BY FS_AddElement
<1>2. IsFiniteSet(T) /\ Cardinality(T) <= Cardinality(S \cup {x})
  BY <1>1, FS_Subset
<1>3. Cardinality(S) \in Nat /\ Cardinality(T) \in Nat
  BY <1>2, FS_CardinalityType
<1> QED
  BY <1>1, <1>2, <1>3

LEMMA OneLess ==
  ASSUME NEW S, IsFiniteSet(S), NEW x \in S, NEW T, T \subseteq S \ {x}
  PROVE  /\ IsFiniteSet(T)
         /\ Cardinality(T) <= Cardinality(S) - 1
         /\ Cardinality(S) \in Nat /\ Cardinality(T) \in Nat
<1>1. IsFiniteSet(S \ {x}) /\ Cardinality(S \ {x}) = Cardinality(S) - 1
  BY FS_RemoveElement
<1>2. IsFiniteSet(T) /\ Cardinality(T) <= Cardinality(S \ {x})
  BY <1>1, FS_Subset
<1>3. Cardinality(S) \in Nat /\ Cardinality(T) \in Nat
  BY <1>2, FS_CardinalityType
<1> QED
  BY <1>1, <1>2, <1>3

LEMMA ClassType ==
  ASSUME TypeOK, NEW e \in Events, NEW d \in Destinations, NEW k
  PROVE  /\ MaxRetries[d] \in Nat /\ PerChain(d) \in Nat
         /\ FirstJob(e, d) \in Job /\ StalledJob(FirstJob(e, d)) \in Job
         /\ FirstJob(e, d) # StalledJob(FirstJob(e, d))
         /\ JobsOf(e, d) \in Nat
         /\ IsFiniteSet(RowsIn(e, d, k)) /\ Cardinality(RowsIn(e, d, k)) \in Nat
         /\ workerFaults \in Nat
<1>1. MaxRetries[d] \in Nat /\ PerChain(d) \in Nat
  BY StoreAssumption DEF PerChain
<1>2. /\ FirstJob(e, d) \in Job /\ StalledJob(FirstJob(e, d)) \in Job
      /\ ~FirstJob(e, d).stalled /\ StalledJob(FirstJob(e, d)).stalled
  BY DEF FirstJob, StalledJob, Job
<1>3. JobsOf(e, d) \in Nat
  <2>1. /\ waiting[FirstJob(e, d)] \in Nat /\ delayed[FirstJob(e, d)] \in Nat
        /\ waiting[StalledJob(FirstJob(e, d))] \in Nat
        /\ delayed[StalledJob(FirstJob(e, d))] \in Nat
    BY <1>2 DEF TypeOK, StoreTypeOK
  <2> QED
    BY <2>1 DEF JobsOf
<1>4. IsFiniteSet(RowsIn(e, d, k)) /\ Cardinality(RowsIn(e, d, k)) \in Nat
  <2>1. DOMAIN deliveries = 1..Len(deliveries) /\ Len(deliveries) \in Nat
    BY DEF TypeOK, StoreTypeOK
  <2>2. IsFiniteSet(DOMAIN deliveries)
    BY <2>1, FS_Interval
  <2>3. RowsIn(e, d, k) \subseteq DOMAIN deliveries
    BY DEF RowsIn, Attempts
  <2> QED
    BY <2>2, <2>3, FS_Subset, FS_CardinalityType
<1>5. workerFaults \in Nat
  BY WorkerAssumption DEF TypeOK, WorkerTypeOK
<1> QED
  BY <1>1, <1>2, <1>3, <1>4, <1>5

LEMMA JobsAfter ==
  ASSUME TypeOK, TypeOK', NEW e \in Events, NEW d \in Destinations
  PROVE  JobsOf(e, d)' \in Nat /\ workerFaults' \in Nat
<1>1. FirstJob(e, d) \in Job /\ StalledJob(FirstJob(e, d)) \in Job
  BY ClassType
<1>2. /\ waiting'[FirstJob(e, d)] \in Nat /\ delayed'[FirstJob(e, d)] \in Nat
      /\ waiting'[StalledJob(FirstJob(e, d))] \in Nat
      /\ delayed'[StalledJob(FirstJob(e, d))] \in Nat
  BY <1>1 DEF TypeOK, StoreTypeOK
<1> QED
  BY <1>2, WorkerAssumption DEF JobsOf, FirstJob, StalledJob, TypeOK, WorkerTypeOK

(* The jobs of a pair.                                                     *)
LEMMA TwoJobs ==
  ASSUME NEW e \in Events, NEW d \in Destinations, NEW j \in Job, j.event = e, j.destination = d
  PROVE  j = FirstJob(e, d) \/ j = StalledJob(FirstJob(e, d))
<1>1. j.stalled \in BOOLEAN /\ j = [event |-> e, destination |-> d, stalled |-> j.stalled]
  BY DEF Job
<1> QED
  BY <1>1 DEF FirstJob, StalledJob

(* A class is never opened again.                                          *)
LEMMA OpenBefore ==
  ASSUME TypeOK, [Next]_vars, NEW e \in Events, NEW d \in Destinations, NEW k, Open(e, d, k)'
  PROVE  Open(e, d, k)
BY HistoryKept DEF Open

LEMMA OtherAble ==
  ASSUME TypeOK, [Next]_vars, NEW e \in Events, NEW d \in Destinations, NEW k,
         NEW v \in Workers, SlotKept(v), Able(v, e, d, k)'
  PROVE  Able(v, e, d, k)
BY OpenBefore DEF SlotKept, Able, InAttempt, EventOf, DestinationOf

(* A step that adds no row to the class and makes no slot able, and no     *)
(* more jobs than faults, keeps the bound.                                 *)
LEMMA ClassFrame ==
  ASSUME TypeOK, [Next]_vars, NEW e \in Events, NEW d \in Destinations, NEW k,
         ClassBounded(e, d, k),
         RowsIn(e, d, k)' = RowsIn(e, d, k),
         \A v \in Workers : Able(v, e, d, k)' => Able(v, e, d, k),
         JobsOf(e, d)' + workerFaults <= JobsOf(e, d) + workerFaults',
         workerFaults <= workerFaults'
  PROVE  ClassBounded(e, d, k)'
<1>1. TypeOK'
  BY StepType
<1>2. AbleSlots(e, d, k)' \subseteq AbleSlots(e, d, k)
  BY DEF AbleSlots
<1>3. /\ IsFiniteSet(AbleSlots(e, d, k)')
      /\ Cardinality(AbleSlots(e, d, k)') <= Cardinality(AbleSlots(e, d, k))
      /\ Cardinality(AbleSlots(e, d, k)) \in Nat /\ Cardinality(AbleSlots(e, d, k)') \in Nat
  BY <1>2, FS_Subset, FS_CardinalityType DEF ClassBounded
<1>4. JobsOf(e, d) \in Nat /\ Cardinality(RowsIn(e, d, k)) \in Nat /\ workerFaults \in Nat
  BY ClassType
<1>5. JobsOf(e, d)' \in Nat /\ workerFaults' \in Nat
  BY <1>1, JobsAfter
<1>6. Cardinality(RowsIn(e, d, k))' = Cardinality(RowsIn(e, d, k))
  OBVIOUS
<1> QED
  BY <1>3, <1>4, <1>5, <1>6, OpenBefore DEF ClassBounded

(* The job taken becomes a slot that can do what the job could.            *)
LEMMA ClassTake ==
  ASSUME TypeOK, [Next]_vars, NEW e \in Events, NEW d \in Destinations, NEW k,
         ClassBounded(e, d, k), NEW w \in Workers, TakeJob(w)
  PROVE  ClassBounded(e, d, k)'
<1>0. TypeOK'
  BY StepType
<1>1. PICK j \in Job : /\ waiting[j] > 0
                       /\ waiting' = [waiting EXCEPT ![j] = @ - 1]
                       /\ job' = [job EXCEPT ![w] = j]
  BY DEF TakeJob
<1>2. /\ UNCHANGED <<deliveries, delayed, workerFaults>>
      /\ pc'[w] = "load" /\ job'[w] = j
  BY <1>1 DEF TakeJob, Goto, TypeOK, WorkerTypeOK
<1>3. RowsIn(e, d, k)' = RowsIn(e, d, k) /\ (Open(e, d, k)' <=> Open(e, d, k))
  BY <1>2 DEF RowsIn, Open, Attempts
<1>4. \A v \in Workers : v # w /\ Able(v, e, d, k)' => Able(v, e, d, k)
  BY OtherSlots, OtherAble DEF SlotStep, TypeOK
<1> DEFINE first == FirstJob(e, d)
           again == StalledJob(first)
<1>6. /\ first \in Job /\ again \in Job /\ first # again
      /\ waiting[first] \in Nat /\ waiting[again] \in Nat /\ waiting[j] \in Nat
      /\ delayed[first] \in Nat /\ delayed[again] \in Nat
      /\ waiting'[first] = IF j = first THEN waiting[first] - 1 ELSE waiting[first]
      /\ waiting'[again] = IF j = again THEN waiting[again] - 1 ELSE waiting[again]
  BY <1>1, ClassType DEF TypeOK, StoreTypeOK
<1>7. CASE j.event = e /\ j.destination = d
  <2>1. JobsOf(e, d)' = JobsOf(e, d) - 1
    <3>1. j = first \/ j = again
      BY <1>7, TwoJobs
    <3> QED
      BY <1>1, <1>2, <1>6, <3>1 DEF JobsOf, FirstJob, StalledJob
  <2>2. CASE Open(e, d, k)
    <3>1. AbleSlots(e, d, k)' \subseteq AbleSlots(e, d, k) \cup {w}
      BY <1>4 DEF AbleSlots
    <3>3. /\ IsFiniteSet(AbleSlots(e, d, k)')
          /\ Cardinality(AbleSlots(e, d, k)') <= Cardinality(AbleSlots(e, d, k)) + 1
          /\ Cardinality(AbleSlots(e, d, k)) \in Nat /\ Cardinality(AbleSlots(e, d, k)') \in Nat
      BY <3>1, OneMore DEF ClassBounded
    <3>4. JobsOf(e, d) \in Nat /\ Cardinality(RowsIn(e, d, k)) \in Nat /\ workerFaults \in Nat
      BY ClassType
    <3>5. Cardinality(RowsIn(e, d, k))' = Cardinality(RowsIn(e, d, k))
      BY <1>3
    <3> QED
      BY <1>2, <1>3, <2>1, <2>2, <3>3, <3>4, <3>5 DEF ClassBounded
  <2>3. CASE ~Open(e, d, k)
    <3>1. ~Able(w, e, d, k)'
      BY <1>2, <1>3, <2>3 DEF Able
    <3>2. JobsOf(e, d)' + workerFaults <= JobsOf(e, d) + workerFaults' /\ workerFaults <= workerFaults'
      BY <1>2, <2>1, ClassType
    <3>3. \A v \in Workers : Able(v, e, d, k)' => Able(v, e, d, k)
      BY <1>4, <3>1
    <3> QED
      BY <1>3, <3>2, <3>3, ClassFrame
  <2> QED
    BY <2>2, <2>3
<1>8. CASE ~(j.event = e /\ j.destination = d)
  <2>1. ~Able(w, e, d, k)'
    BY <1>2, <1>8 DEF Able, InAttempt, EventOf, DestinationOf
  <2>2. j # first /\ j # again
    BY <1>8 DEF FirstJob, StalledJob
  <2>3. JobsOf(e, d)' = JobsOf(e, d)
    BY <1>2, <1>6, <2>2 DEF JobsOf, FirstJob, StalledJob
  <2>4. JobsOf(e, d)' + workerFaults <= JobsOf(e, d) + workerFaults' /\ workerFaults <= workerFaults'
    BY <1>2, <2>3, ClassType
  <2>5. \A v \in Workers : Able(v, e, d, k)' => Able(v, e, d, k)
    BY <1>4, <2>1
  <2> QED
    BY <1>3, <2>4, <2>5, ClassFrame
<1> QED
  BY <1>7, <1>8

(* The retry can do what its slot could.                                   *)
LEMMA ClassReschedule ==
  ASSUME TypeOK, [Next]_vars, NEW e \in Events, NEW d \in Destinations, NEW k,
         ClassBounded(e, d, k), NEW w \in Workers, Reschedule(w)
  PROVE  ClassBounded(e, d, k)'
<1> DEFINE first == FirstJob(e, d)
           again == StalledJob(first)
<1>1. /\ UNCHANGED <<deliveries, waiting, workerFaults>>
      /\ delayed' = Enqueued(delayed, {<<EventOf(w), DestinationOf(w)>>})
      /\ pc[w] = "reschedule" /\ pc'[w] = "complete"
  BY DEF Reschedule, At, Goto, TypeOK, WorkerTypeOK
<1>2. RowsIn(e, d, k)' = RowsIn(e, d, k) /\ (Open(e, d, k)' <=> Open(e, d, k))
  BY <1>1 DEF RowsIn, Open, Attempts
<1>3. ~Able(w, e, d, k)' /\ \A v \in Workers : Able(v, e, d, k)' => Able(v, e, d, k)
  <2>1. ~Able(w, e, d, k)'
    BY <1>1 DEF Able, InAttempt
  <2> QED
    BY <2>1, OtherSlots, OtherAble DEF SlotStep, Proceed, TypeOK
<1>4. /\ first \in Job /\ again \in Job
      /\ waiting[first] \in Nat /\ waiting[again] \in Nat
      /\ delayed[first] \in Nat /\ delayed[again] \in Nat
  BY ClassType DEF TypeOK, StoreTypeOK
<1>5. /\ delayed'[again] = delayed[again]
      /\ delayed'[first] = IF EventOf(w) = e /\ DestinationOf(w) = d
                           THEN delayed[first] + 1 ELSE delayed[first]
  BY <1>1, <1>4 DEF Enqueued, FirstJob, StalledJob
<1>6. JobsOf(e, d)' = IF EventOf(w) = e /\ DestinationOf(w) = d
                      THEN JobsOf(e, d) + 1 ELSE JobsOf(e, d)
  BY <1>1, <1>4, <1>5 DEF JobsOf, FirstJob, StalledJob
<1>7. /\ JobsOf(e, d) \in Nat /\ Cardinality(RowsIn(e, d, k)) \in Nat /\ workerFaults \in Nat
      /\ Cardinality(RowsIn(e, d, k))' = Cardinality(RowsIn(e, d, k))
  BY <1>2, ClassType
<1>8. CASE Open(e, d, k) /\ EventOf(w) = e /\ DestinationOf(w) = d
  <2>1. w \in AbleSlots(e, d, k)
    BY <1>1, <1>8 DEF AbleSlots, Able, InAttempt
  <2>2. AbleSlots(e, d, k)' \subseteq AbleSlots(e, d, k) \ {w}
    BY <1>3 DEF AbleSlots
  <2>3. /\ IsFiniteSet(AbleSlots(e, d, k)')
        /\ Cardinality(AbleSlots(e, d, k)') <= Cardinality(AbleSlots(e, d, k)) - 1
        /\ Cardinality(AbleSlots(e, d, k)) \in Nat /\ Cardinality(AbleSlots(e, d, k)') \in Nat
    BY <2>1, <2>2, OneLess DEF ClassBounded
  <2> QED
    BY <1>1, <1>2, <1>6, <1>7, <1>8, <2>3 DEF ClassBounded
<1>9. CASE EventOf(w) # e \/ DestinationOf(w) # d
  BY <1>1, <1>2, <1>3, <1>6, <1>7, <1>9, ClassFrame
<1>10. CASE ~Open(e, d, k)
  <2>1. AbleSlots(e, d, k)' \subseteq AbleSlots(e, d, k) \cup {}
    BY <1>3 DEF AbleSlots
  <2>2. /\ IsFiniteSet(AbleSlots(e, d, k)')
        /\ Cardinality(AbleSlots(e, d, k)') <= Cardinality(AbleSlots(e, d, k))
        /\ Cardinality(AbleSlots(e, d, k)) \in Nat /\ Cardinality(AbleSlots(e, d, k)') \in Nat
    BY <2>1, FS_Subset, FS_CardinalityType DEF ClassBounded
  <2> QED
    BY <1>1, <1>2, <1>7, <1>10, <2>2 DEF ClassBounded
<1> QED
  BY <1>8, <1>9, <1>10

(* The row counts in its class, and its slot no longer does.               *)
LEMMA ClassRecord ==
  ASSUME TypeOK, SlotsNumbered, [Next]_vars, NEW e \in Events, NEW d \in Destinations,
         NEW k \in 1..PerChain(d), ClassBounded(e, d, k), NEW w \in Workers, Record(w)
  PROVE  ClassBounded(e, d, k)'
<1> DEFINE new == Len(deliveries) + 1
<1>1. /\ UNCHANGED <<waiting, delayed, workerFaults>>
      /\ pc[w] = "record" /\ pc'[w] = AfterRecord(outcome[w])
      /\ job'[w] = job[w] /\ attempt'[w] = attempt[w]
  BY DEF Record, At, Goto, queueVars, TypeOK, WorkerTypeOK
<1>2. /\ new \notin DOMAIN deliveries
      /\ DOMAIN deliveries' = DOMAIN deliveries \cup {new}
      /\ deliveries'[new] = RowOf(w)
      /\ \A i \in DOMAIN deliveries : deliveries'[i] = deliveries[i]
  <2>1. /\ Len(deliveries) \in Nat /\ DOMAIN deliveries = 1..Len(deliveries)
        /\ DOMAIN deliveries' = 1..(Len(deliveries) + 1)
        /\ deliveries'[new] = RowOf(w)
        /\ \A i \in DOMAIN deliveries : deliveries'[i] = deliveries[i]
    BY SlotRow, AppendRow DEF TypeOK
  <2> QED
    BY <2>1
<1>3. \A v \in Workers : v # w /\ Able(v, e, d, k)' => Able(v, e, d, k)
  <2>1. SlotStep(w)
    BY <1>1 DEF SlotStep, Proceed, At
  <2> QED
    BY <2>1, OtherSlots, OtherAble DEF TypeOK
<1>4. JobsOf(e, d)' = JobsOf(e, d)
  BY <1>1 DEF JobsOf, FirstJob, StalledJob
<1>5. /\ JobsOf(e, d) \in Nat /\ Cardinality(RowsIn(e, d, k)) \in Nat /\ workerFaults \in Nat
      /\ IsFiniteSet(RowsIn(e, d, k)) /\ MaxRetries[d] \in Nat /\ PerChain(d) \in Nat
      /\ attempt[w] \in Nat /\ k \in Nat
  BY ClassType DEF TypeOK, WorkerTypeOK
<1>6. CASE EventOf(w) = e /\ DestinationOf(w) = d /\ Class(attempt[w], d) = k
  <2>1. w \in AbleSlots(e, d, k)
    BY <1>1, <1>5, <1>6 DEF AbleSlots, Able, InAttempt
  <2>2. new \in Attempts(e, d)' /\ deliveries'[new].attempt = attempt[w]
    BY <1>2, <1>6 DEF Attempts, RowOf
  <2>3. ~Able(w, e, d, k)'
    <3> SUFFICES ASSUME Able(w, e, d, k)' PROVE FALSE
      OBVIOUS
    <3>1. pc'[w] = "reschedule" /\ outcome[w] = "failed"
      BY <1>1 DEF Able, InAttempt, AfterRecord
    <3>2. attempt[w] < MaxRetries[d]
      BY <1>1, <1>6, <3>1 DEF SlotsNumbered
    <3>3. k = attempt[w] /\ k # PerChain(d)
      BY <1>5, <1>6, <3>2 DEF Class, PerChain
    <3>4. Open(e, d, k)'
      BY <3>1 DEF Able
    <3> QED
      BY <1>5, <2>2, <3>3, <3>4 DEF Open, PerChain
  <2>4. AbleSlots(e, d, k)' \subseteq AbleSlots(e, d, k) \ {w}
    BY <1>3, <2>3 DEF AbleSlots
  <2>5. /\ IsFiniteSet(AbleSlots(e, d, k)')
        /\ Cardinality(AbleSlots(e, d, k)') <= Cardinality(AbleSlots(e, d, k)) - 1
        /\ Cardinality(AbleSlots(e, d, k)) \in Nat /\ Cardinality(AbleSlots(e, d, k)') \in Nat
    BY <2>1, <2>4, OneLess DEF ClassBounded
  <2>6. RowsIn(e, d, k)' \subseteq RowsIn(e, d, k) \cup {new}
    BY <1>2 DEF RowsIn, Attempts, Class, PerChain
  <2>7. /\ Cardinality(RowsIn(e, d, k)') <= Cardinality(RowsIn(e, d, k)) + 1
        /\ Cardinality(RowsIn(e, d, k)') \in Nat
    BY <1>5, <2>6, OneMore
  <2> QED
    BY <1>1, <1>4, <1>5, <2>5, <2>7, OpenBefore DEF ClassBounded
<1>7. CASE ~(EventOf(w) = e /\ DestinationOf(w) = d /\ Class(attempt[w], d) = k)
  <2>1. RowsIn(e, d, k)' = RowsIn(e, d, k)
    BY <1>2, <1>7 DEF RowsIn, Attempts, Class, PerChain, RowOf
  <2>2. ASSUME Able(w, e, d, k)' PROVE Able(w, e, d, k)
    <3>1. pc'[w] = "reschedule" /\ outcome[w] = "failed"
      BY <1>1, <2>2 DEF Able, InAttempt, AfterRecord
    <3>2. EventOf(w) = e /\ DestinationOf(w) = d
      BY <1>1, <2>2 DEF Able, InAttempt, EventOf, DestinationOf
    <3>3. attempt[w] < MaxRetries[d]
      BY <1>1, <3>1, <3>2 DEF SlotsNumbered
    <3>4. Class(attempt[w], d) = attempt[w] /\ attempt[w] <= PerChain(d)
      BY <1>5, <3>3 DEF Class, PerChain
    <3>5. Open(e, d, k)'
      BY <2>2, <3>1 DEF Able
    <3>6. k = PerChain(d) \/ deliveries'[new].attempt < k
      BY <1>2, <3>2, <3>5 DEF Open, Attempts, RowOf, PerChain
    <3>7. Class(attempt[w], d) <= k
      BY <1>2, <1>5, <3>4, <3>6 DEF RowOf
    <3> QED
      BY <1>1, <3>2, <3>7 DEF Able, InAttempt
  <2>3. JobsOf(e, d)' + workerFaults <= JobsOf(e, d) + workerFaults' /\ workerFaults <= workerFaults'
    BY <1>1, <1>4, <1>5
  <2>4. \A v \in Workers : Able(v, e, d, k)' => Able(v, e, d, k)
    BY <1>3, <2>2
  <2> QED
    BY <2>1, <2>3, <2>4, ClassFrame
<1> QED
  BY <1>6, <1>7

(* Every other step moves a slot along its pair or lets it go; one that    *)
(* queues its job again is a fault.                                        *)
LEMMA ClassOther ==
  ASSUME TypeOK, [Next]_vars, NEW e \in Events, NEW d \in Destinations, NEW k \in 1..PerChain(d),
         ClassBounded(e, d, k),
         \/ UNCHANGED vars
         \/ \E j \in Job : Promote(j)
         \/ \E w \in Workers : \/ Load(w) \/ NextAttemptNumber(w) \/ Deliver(w)
                               \/ RecordRefused(w) \/ ReadRequired(w) \/ ReadSuccesses(w)
                               \/ UpdateEvent(w) \/ Complete(w) \/ Throw(w) \/ Stall(w)
  PROVE  ClassBounded(e, d, k)'
<1> DEFINE first == FirstJob(e, d)
           again == StalledJob(first)
<1>1. UNCHANGED deliveries
  BY DEF vars, storeVars, Promote, Load, NextAttemptNumber, Deliver, RecordRefused,
     ReadRequired, ReadSuccesses, UpdateEvent, Complete, Throw, Stall
<1>2. RowsIn(e, d, k)' = RowsIn(e, d, k)
  BY <1>1 DEF RowsIn, Attempts
<1>3. /\ first \in Job /\ again \in Job /\ first # again
      /\ waiting[first] \in Nat /\ waiting[again] \in Nat
      /\ delayed[first] \in Nat /\ delayed[again] \in Nat
      /\ workerFaults \in Nat /\ MaxRetries[d] \in Nat /\ PerChain(d) \in Nat /\ k \in Nat
  <2>1. /\ first \in Job /\ again \in Job /\ first # again
        /\ workerFaults \in Nat /\ MaxRetries[d] \in Nat /\ PerChain(d) \in Nat
    BY ClassType
  <2>2. /\ waiting[first] \in Nat /\ waiting[again] \in Nat
        /\ delayed[first] \in Nat /\ delayed[again] \in Nat
    BY <2>1 DEF TypeOK, StoreTypeOK
  <2>3. k \in Nat
    BY <2>1
  <2> QED
    BY <2>1, <2>2, <2>3
<1>4. /\ JobsOf(e, d) = waiting[first] + delayed[first] + (waiting[again] + delayed[again])
      /\ JobsOf(e, d)' = waiting'[first] + delayed'[first] + (waiting'[again] + delayed'[again])
  BY DEF JobsOf, FirstJob, StalledJob
<1>5. CASE UNCHANGED vars
  <2>1. \A v \in Workers : Able(v, e, d, k)' => Able(v, e, d, k)
    BY <1>1, <1>5, OpenBefore DEF vars, workerVars, slotVars, Able, InAttempt, EventOf,
       DestinationOf
  <2>2. JobsOf(e, d)' = JobsOf(e, d) /\ workerFaults' = workerFaults
    BY <1>4, <1>5 DEF vars, storeVars, workerVars
  <2> QED
    BY <1>2, <1>3, <1>4, <2>1, <2>2, ClassFrame
<1>6. ASSUME NEW j \in Job, Promote(j) PROVE ClassBounded(e, d, k)'
  <2>1. \A v \in Workers : Able(v, e, d, k)' => Able(v, e, d, k)
    BY <1>6, OpenBefore DEF Promote, workerVars, slotVars, Able, InAttempt, EventOf, DestinationOf
  <2>2. /\ waiting'[first] + delayed'[first] = waiting[first] + delayed[first]
        /\ waiting'[again] + delayed'[again] = waiting[again] + delayed[again]
        /\ workerFaults' = workerFaults
    <3>1. /\ waiting' = [waiting EXCEPT ![j] = waiting[j] + 1]
          /\ delayed' = [delayed EXCEPT ![j] = delayed[j] - 1]
          /\ workerFaults' = workerFaults
      BY <1>6 DEF Promote, workerVars
    <3>2. waiting \in [Job -> Nat] /\ delayed \in [Job -> Nat]
      BY DEF TypeOK, StoreTypeOK
    <3>3. ASSUME NEW i \in Job
          PROVE  waiting'[i] + delayed'[i] = waiting[i] + delayed[i]
      BY <3>1, <3>2, <3>3
    <3> QED
      BY <1>3, <3>1, <3>3
  <2>3. JobsOf(e, d)' + workerFaults <= JobsOf(e, d) + workerFaults' /\ workerFaults <= workerFaults'
    BY <1>3, <1>4, <2>2
  <2> QED
    BY <1>2, <2>1, <2>3, ClassFrame
<1>7. ASSUME NEW w \in Workers,
             \/ Load(w) \/ NextAttemptNumber(w) \/ Deliver(w) \/ RecordRefused(w)
             \/ ReadRequired(w) \/ ReadSuccesses(w) \/ UpdateEvent(w) \/ Complete(w)
             \/ Throw(w) \/ Stall(w)
      PROVE  ClassBounded(e, d, k)'
  <2>1. SlotStep(w)
    BY <1>7 DEF SlotStep, Proceed, RecordRefused
  <2>2. \A v \in Workers : v # w => (Able(v, e, d, k)' => Able(v, e, d, k))
    BY <2>1, OtherSlots, OtherAble DEF TypeOK
  <2>3. ASSUME Able(w, e, d, k)' PROVE Able(w, e, d, k)
    <3>1. CASE Load(w)
      BY <2>3, <3>1, OpenBefore DEF Load, At, Goto, Able, InAttempt, EventOf, DestinationOf,
         TypeOK, WorkerTypeOK
    <3>2. CASE Deliver(w)
      BY <2>3, <3>2 DEF Deliver, At, Goto, Able, InAttempt, EventOf, DestinationOf,
         TypeOK, WorkerTypeOK
    <3>3. CASE NextAttemptNumber(w)
      <4>1. /\ pc[w] = "number" /\ pc'[w] = "deliver" /\ job'[w] = job[w]
            /\ IsNextAttempt(EventOf(w), DestinationOf(w), attempt'[w])
        BY <3>3 DEF NextAttemptNumber, At, Goto, TypeOK, WorkerTypeOK
      <4>2. /\ EventOf(w) = e /\ DestinationOf(w) = d
            /\ Class(attempt'[w], d) <= k
        BY <2>3, <4>1 DEF Able, InAttempt, EventOf, DestinationOf, Class, PerChain
      <4>3. attempt'[w] \in Nat
        BY StepType DEF TypeOK, WorkerTypeOK
      <4>4. ASSUME k # PerChain(d), NEW i \in Attempts(e, d) PROVE deliveries[i].attempt < k
        <5>1. deliveries[i].attempt \in Nat
          BY RowType DEF Attempts, TypeOK
        <5>2. deliveries[i].attempt < attempt'[w]
          <6>1. PICK m \in Attempts(e, d) :
                  /\ \A n \in Attempts(e, d) : deliveries[n].attempt <= deliveries[m].attempt
                  /\ attempt'[w] = deliveries[m].attempt + 1
            BY <4>1, <4>2, <4>4 DEF IsNextAttempt
          <6>2. deliveries[m].attempt \in Nat /\ deliveries[i].attempt <= deliveries[m].attempt
            BY <6>1, RowType DEF Attempts, TypeOK
          <6> QED
            BY <5>1, <6>1, <6>2
        <5>3. k < PerChain(d)
          BY <1>3, <4>4
        <5>4. attempt'[w] <= k
          BY <1>3, <4>2, <4>3, <5>3 DEF Class
        <5> QED
          BY <1>3, <4>3, <5>1, <5>2, <5>4
      <4> QED
        BY <4>1, <4>2, <4>4 DEF Able, InAttempt, Open
    <3> QED
      BY <1>7, <2>3, <3>1, <3>2, <3>3 DEF RecordRefused, ReadRequired, ReadSuccesses, UpdateEvent,
         Complete, Throw, Stall, FailJob, Release, Goto, Able, InAttempt, TypeOK, WorkerTypeOK
  <2>4. JobsOf(e, d)' + workerFaults <= JobsOf(e, d) + workerFaults' /\ workerFaults <= workerFaults'
    <3>1. CASE UNCHANGED <<waiting, delayed>>
      <4>1. JobsOf(e, d)' = JobsOf(e, d)
        BY <1>4, <3>1
      <4>2. workerFaults' = workerFaults \/ workerFaults' = workerFaults + 1
        BY <1>7 DEF Load, NextAttemptNumber, Deliver, RecordRefused, ReadRequired, ReadSuccesses,
           UpdateEvent, Complete, Throw, Stall, Fault
      <4> QED
        BY <1>3, <1>4, <4>1, <4>2
    <3>2. CASE Stall(w) /\ ~job[w].stalled
      <4>1. workerFaults' = workerFaults + 1 /\ delayed' = delayed
        BY <3>2 DEF Stall, Fault
      <4>2. waiting' = [waiting EXCEPT ![StalledJob(job[w])] = @ + 1]
        BY <3>2 DEF Stall
      <4>3. /\ waiting'[first] = waiting[first] + (IF first = StalledJob(job[w]) THEN 1 ELSE 0)
            /\ waiting'[again] = waiting[again] + (IF again = StalledJob(job[w]) THEN 1 ELSE 0)
        BY <1>3, <4>2 DEF TypeOK, StoreTypeOK
      <4> QED
        BY <1>3, <1>4, <4>1, <4>3
    <3> QED
      BY <1>7, <3>1, <3>2 DEF Load, NextAttemptNumber, Deliver, RecordRefused, ReadRequired,
         ReadSuccesses, UpdateEvent, Complete, Throw, Stall, storeVars, queueVars
  <2>5. \A v \in Workers : Able(v, e, d, k)' => Able(v, e, d, k)
    BY <2>2, <2>3
  <2> QED
    BY <1>2, <2>4, <2>5, ClassFrame
<1> QED
  BY <1>5, <1>6, <1>7

LEMMA ClassesStep == TypeOK /\ SlotsNumbered /\ ClassesBounded /\ [Next]_vars => ClassesBounded'
<1> SUFFICES ASSUME TypeOK, SlotsNumbered, ClassesBounded, [Next]_vars,
                    NEW e \in Events, NEW d \in Destinations, NEW k \in 1..PerChain(d)
             PROVE  ClassBounded(e, d, k)'
  BY DEF ClassesBounded, PerChain
<1>1. ClassBounded(e, d, k)
  BY DEF ClassesBounded
<1> QED
  BY <1>1, ClassTake, ClassReschedule, ClassRecord, ClassOther DEF Next, WorkerNext, Proceed

LEMMA ClassesInit == Init => ClassesBounded
<1> SUFFICES ASSUME Init, NEW e \in Events, NEW d \in Destinations, NEW k \in 1..PerChain(d)
             PROVE  ClassBounded(e, d, k)
  BY DEF ClassesBounded
<1> DEFINE first == FirstJob(e, d)
           again == StalledJob(first)
<1>1. TypeOK
  BY InitType
<1>2. AbleSlots(e, d, k) = {} /\ RowsIn(e, d, k) = {}
  BY DEF Init, WorkerInit, AbleSlots, Able, InAttempt, RowsIn, Attempts
<1>3. first \in Job /\ again \in Job /\ again.stalled
  BY <1>1, ClassType DEF StalledJob
<1>4. JobsOf(e, d) <= 1
  <2>1. NoJobs[first] = 0 /\ NoJobs[again] = 0
    BY <1>3 DEF NoJobs
  <2>2. PICK pairs : waiting = Enqueued(NoJobs, pairs)
    BY DEF Init
  <2>3. waiting[again] = 0 /\ (waiting[first] = 0 \/ waiting[first] = 1)
    BY <1>3, <2>1, <2>2 DEF Enqueued
  <2>4. delayed[first] = 0 /\ delayed[again] = 0
    BY <2>1 DEF Init
  <2> QED
    BY <2>3, <2>4 DEF JobsOf
<1>5. IsFiniteSet({}) /\ Cardinality({}) = 0
  BY FS_EmptySet
<1>6. JobsOf(e, d) \in Nat /\ workerFaults = 0
  BY <1>1, ClassType DEF Init, WorkerInit
<1> QED
  BY <1>2, <1>4, <1>5, <1>6 DEF ClassBounded

(* The rows of its class that are no newer than row i.                     *)
UpTo(e, d, i) == {k \in RowsIn(e, d, Class(deliveries[i].attempt, d)) : k <= i}

LEMMA UpToType ==
  ASSUME TypeOK, NEW e \in Events, NEW d \in Destinations, NEW i \in Attempts(e, d)
  PROVE  /\ IsFiniteSet(UpTo(e, d, i))
         /\ Cardinality(UpTo(e, d, i)) \in Nat \ {0}
         /\ Cardinality(UpTo(e, d, i)) <=
              Cardinality(RowsIn(e, d, Class(deliveries[i].attempt, d)))
<1> DEFINE rows == RowsIn(e, d, Class(deliveries[i].attempt, d))
<1>1. IsFiniteSet(rows)
  BY ClassType
<1>2. UpTo(e, d, i) \subseteq rows /\ i \in UpTo(e, d, i)
  <2>1. i \in Nat /\ i <= i
    BY DEF Attempts, TypeOK, StoreTypeOK
  <2> QED
    BY <2>1 DEF UpTo, RowsIn
<1> HIDE DEF rows
<1>3. /\ IsFiniteSet(UpTo(e, d, i))
      /\ Cardinality(UpTo(e, d, i)) <= Cardinality(rows)
      /\ Cardinality(UpTo(e, d, i)) \in Nat
  BY <1>1, <1>2, FS_Subset, FS_CardinalityType
<1>4. Cardinality(UpTo(e, d, i)) # 0
  BY <1>2, <1>3, FS_EmptySet
<1> QED
  BY <1>3, <1>4 DEF rows

(* Of two rows of a class the newer has more rows up to it.                *)
LEMMA UpToOrder ==
  ASSUME TypeOK, NEW e \in Events, NEW d \in Destinations,
         NEW i \in Attempts(e, d), NEW k \in Attempts(e, d), i < k,
         Class(deliveries[i].attempt, d) = Class(deliveries[k].attempt, d)
  PROVE  Cardinality(UpTo(e, d, i)) < Cardinality(UpTo(e, d, k))
<1>1. i \in Nat /\ k \in Nat /\ \A m \in RowsIn(e, d, Class(deliveries[k].attempt, d)) : m \in Nat
  BY DEF RowsIn, Attempts, TypeOK, StoreTypeOK
<1>2. k \in UpTo(e, d, k) /\ k \notin UpTo(e, d, i)
  BY <1>1 DEF UpTo, RowsIn
<1>3. UpTo(e, d, i) \subseteq UpTo(e, d, k)
  BY <1>1 DEF UpTo
<1>4. UpTo(e, d, i) \subseteq UpTo(e, d, k) \ {k}
  BY <1>2, <1>3
<1>5. IsFiniteSet(UpTo(e, d, k))
  BY UpToType
<1> QED
  BY <1>2, <1>4, <1>5, OneLess

LEMMA ClassesCounted == TypeOK /\ RowsNumbered /\ ClassesBounded => AttemptsBounded
<1> SUFFICES ASSUME TypeOK, RowsNumbered, ClassesBounded, NEW e \in Events, NEW d \in Destinations
             PROVE  Cardinality(Attempts(e, d)) <= (workerFaults + 1) * PerChain(d)
  BY DEF AttemptsBounded, PerChain
<1> DEFINE classes == 1..PerChain(d)
           ranks == 1..(workerFaults + 1)
           place == [i \in Attempts(e, d) |->
                       <<Class(deliveries[i].attempt, d), Cardinality(UpTo(e, d, i))>>]
<1>1. MaxRetries[d] \in Nat /\ PerChain(d) \in Nat /\ workerFaults \in Nat
  BY ClassType
<1>2. ASSUME NEW i \in Attempts(e, d) PROVE Class(deliveries[i].attempt, d) \in classes
  <2>1. deliveries[i].attempt \in Nat /\ deliveries[i].attempt >= 1
    BY RowType DEF Attempts, TypeOK, RowsNumbered
  <2> QED
    BY <1>1, <2>1 DEF Class, PerChain
<1>3. ASSUME NEW i \in Attempts(e, d) PROVE Cardinality(UpTo(e, d, i)) \in ranks
  <2> DEFINE cls == Class(deliveries[i].attempt, d)
  <2>1. ClassBounded(e, d, cls)
    BY <1>2 DEF ClassesBounded
  <2>2. Cardinality(RowsIn(e, d, cls)) \in Nat /\ JobsOf(e, d) \in Nat
    BY ClassType
  <2>3. Cardinality(AbleSlots(e, d, cls)) \in Nat
    BY <2>1, FS_CardinalityType DEF ClassBounded
  <2>4. /\ Cardinality(UpTo(e, d, i)) \in Nat \ {0}
        /\ Cardinality(UpTo(e, d, i)) <= Cardinality(RowsIn(e, d, cls))
    BY UpToType
  <2> HIDE DEF cls
  <2>5. Cardinality(RowsIn(e, d, cls)) <= workerFaults + 1
    BY <1>1, <2>1, <2>2, <2>3 DEF ClassBounded
  <2> QED
    BY <1>1, <2>2, <2>4, <2>5
<1>4. ASSUME NEW i \in Attempts(e, d), NEW k \in Attempts(e, d), place[i] = place[k]
      PROVE  i = k
  <2>1. i \in Nat /\ k \in Nat
    BY DEF Attempts, TypeOK, StoreTypeOK
  <2>2. /\ Class(deliveries[i].attempt, d) = Class(deliveries[k].attempt, d)
        /\ Cardinality(UpTo(e, d, i)) = Cardinality(UpTo(e, d, k))
    BY <1>4
  <2>3. Cardinality(UpTo(e, d, i)) \in Nat
    BY UpToType
  <2>4. ~(i < k) /\ ~(k < i)
    BY <2>2, <2>3, UpToOrder
  <2> QED
    BY <2>1, <2>4
<1>5. place \in Injection(Attempts(e, d), classes \X ranks)
  BY <1>2, <1>3, <1>4 DEF Injection, IsInjective
<1>6. /\ IsFiniteSet(classes \X ranks)
      /\ Cardinality(classes \X ranks) = PerChain(d) * (workerFaults + 1)
  <2>1. /\ IsFiniteSet(classes) /\ Cardinality(classes) = PerChain(d)
        /\ IsFiniteSet(ranks) /\ Cardinality(ranks) = workerFaults + 1
    <3>1. /\ PerChain(d) \in Int /\ ~(1 > PerChain(d)) /\ PerChain(d) - 1 + 1 = PerChain(d)
          /\ workerFaults + 1 \in Int /\ ~(1 > workerFaults + 1)
          /\ (workerFaults + 1) - 1 + 1 = workerFaults + 1
      BY <1>1 DEF PerChain
    <3> QED
      BY <3>1, FS_Interval
  <2> HIDE DEF classes, ranks
  <2> QED
    BY <2>1, FS_Product
<1> HIDE DEF classes, ranks, place
<1>7. Cardinality(Attempts(e, d)) <= PerChain(d) * (workerFaults + 1)
  BY <1>5, <1>6, FS_Injection
<1> QED
  BY <1>1, <1>7

(* However the slots interleave, a pair is attempted at most max_retries   *)
(* times for its first job, and as often again for each exception or crash *)
(* of the worker.                                                          *)
THEOREM AttemptsLimited == Spec => []AttemptsBounded
<1>1. IInv => TypeOK /\ RowsNumbered /\ SlotsNumbered
  BY DEF IInv
<1> QED
  BY <1>1, ClassesInit, ClassesStep, ClassesCounted, Inductive, PTL DEF Spec
=============================================================================
