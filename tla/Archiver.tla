------------------------------ MODULE Archiver ------------------------------
(***************************************************************************)
(* The event archiver job: it copies the events past the cutoff to         *)
(* events_archive and then deletes the copied ones, in two statements.     *)
(***************************************************************************)
EXTENDS Requests

CONSTANT Aged          \* events that may grow older than archiveDays

ASSUME ArchiverAssumption == Aged \subseteq Events

VARIABLES
  old,                 \* events whose received_at is before the cutoff
  archive,             \* events with a row in events_archive
  archiverStep         \* what the job does next

archiverVars == <<old, archive, archiverStep>>

ArchiverTypeOK ==
  /\ old \subseteq Aged
  /\ archive \subseteq Events
  /\ archiverStep \in {"idle", "delete"}

ArchiverInit == old = {} /\ archive = {} /\ archiverStep = "idle"

GrowOld(e) ==
  /\ e \in Aged \ old
  /\ events[e] # "absent"
  /\ old' = old \cup {e}
  /\ UNCHANGED <<storeVars, apiFaults, archive, archiverStep>>

Archivable == {e \in old : events[e] # "absent"}

(* INSERT INTO events_archive SELECT ... ON CONFLICT DO NOTHING.  Only if  *)
(* that inserted a row does the job go on to delete.                       *)
CopyToArchive ==
  /\ archiverStep = "idle"
  /\ archive' = archive \cup Archivable
  /\ archiverStep' = IF Archivable \subseteq archive THEN "idle" ELSE "delete"
  /\ UNCHANGED <<storeVars, apiFaults, old>>

Archived == Archivable \cap archive

Delivered(e) == \E i \in DOMAIN deliveries : deliveries[i].event = e

(* Mutant of DeleteArchived: every event past the cutoff is deleted.       *)
DeleteOld ==
  /\ archiverStep = "delete"
  /\ \A e \in Archivable : ~Delivered(e)
  /\ events' = [e \in Events |-> IF e \in Archivable THEN "absent" ELSE events[e]]
  /\ archiverStep' = "idle"
  /\ UNCHANGED <<destinations, deliveries, queueVars, apiFaults, old, archive>>

DeleteArchived ==
  /\ archiverStep = "delete"
  /\ \A e \in Archived : ~Delivered(e)
  /\ events' = [e \in Events |-> IF e \in Archived THEN "absent" ELSE events[e]]
  /\ archiverStep' = "idle"
  /\ UNCHANGED <<destinations, deliveries, queueVars, apiFaults, old, archive>>

(* One event with deliveries makes the whole DELETE fail on their foreign  *)
(* key, and the job throws.                                                *)
DeleteRefused ==
  /\ archiverStep = "delete"
  /\ \E e \in Archived : Delivered(e)
  /\ archiverStep' = "idle"
  /\ UNCHANGED <<storeVars, apiFaults, old, archive>>

InterruptArchiver ==
  /\ archiverStep = "delete"
  /\ Interruption
  /\ archiverStep' = "idle"
  /\ UNCHANGED <<storeVars, old, archive>>

ArchiverNext ==
  \/ \E e \in Aged : GrowOld(e)
  \/ CopyToArchive
  \/ DeleteArchived
  \/ DeleteRefused
  \/ InterruptArchiver

=============================================================================
