------------------------------- MODULE Store -------------------------------
(***************************************************************************)
(* The state the components of the engine share: the PostgreSQL tables     *)
(* events, destinations and deliveries, and the BullMQ queue "deliver"     *)
(* that lives in Redis.  The components run in different handlers, worker  *)
(* invocations or processes and meet only here.                            *)
(*                                                                         *)
(* One tenant and one source are modelled: every query of the delivery     *)
(* pipeline is scoped by them or by an event of theirs.                    *)
(***************************************************************************)
EXTENDS Naturals, Sequences, FiniteSets

CONSTANTS
  Events,        \* events that can be ingested, one per idempotency key
  Destinations,  \* ids a destination row can have
  MaxRetries,    \* destinations.max_retries, fixed when a row is created
  Matched        \* destinations an event's payload is scoped to

(* A payload without _matched_destination_ids is scoped to all             *)
(* Destinations; one that lists only ids of other sources, to none.        *)
ASSUME StoreAssumption ==
  /\ MaxRetries \in [Destinations -> Nat]
  /\ Matched \in [Events -> SUBSET Destinations]

VARIABLES
  events,        \* status of each events row, "absent" when there is none
  destinations,  \* the enabled destinations rows
  deliveries,    \* the deliveries rows in insertion order; never deleted
  waiting,       \* jobs a worker may take, with their multiplicity
  delayed,       \* retry jobs whose delay has not elapsed
  failed         \* jobs BullMQ keeps in the failed set and never runs again

storeVars == <<events, destinations, deliveries, waiting, delayed, failed>>
queueVars == <<waiting, delayed, failed>>

EventStatus    == {"absent", "pending", "rejected", "delivered", "replayed"}
DeliveryStatus == {"pending", "success", "failed", "dead_letter"}

Delivery == [event: Events, destination: Destinations,
             attempt: Nat, status: DeliveryStatus]

(* BullMQ marks a job that was active when its process died; a job that    *)
(* stalls a second time is moved to the failed set.                        *)
Job == [event: Events, destination: Destinations, stalled: BOOLEAN]

StoreTypeOK ==
  /\ events \in [Events -> EventStatus]
  /\ destinations \subseteq Destinations
  /\ deliveries \in Seq(Delivery)
  /\ waiting \in [Job -> Nat]
  /\ delayed \in [Job -> Nat]
  /\ failed \in [Job -> Nat]

-----------------------------------------------------------------------------

StalledJob(j) == [event |-> j.event, destination |-> j.destination, stalled |-> TRUE]

(* Rows of the deliveries table for one event and destination.             *)
Attempts(e, d) ==
  {i \in DOMAIN deliveries :
     deliveries[i].event = e /\ deliveries[i].destination = d}

HasRow(e, d, status) == \E i \in Attempts(e, d) : deliveries[i].status = status

(* SELECT DISTINCT destination_id ... WHERE status = 'success'             *)
SuccessfulDestinations(e) == {d \in Destinations : HasRow(e, d, "success")}

(* The enabled destinations of the source that the payload is scoped to.   *)
RequiredDestinations(e) == destinations \cap Matched[e]

(* The foreign keys of a deliveries row.                                   *)
ReferencesExist(e, d) == events[e] # "absent" /\ d \in destinations

(* The multiplicity of each job after adding one job for every pair of     *)
(* event and destination in a set (queue.add, queue.addBulk).              *)
Enqueued(queue, pairs) ==
  [j \in Job |-> IF ~j.stalled /\ <<j.event, j.destination>> \in pairs
                 THEN queue[j] + 1 ELSE queue[j]]

NoJobs == [j \in Job |-> 0]

=============================================================================
