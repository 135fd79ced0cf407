------------------------------ MODULE Requests ------------------------------
(***************************************************************************)
(* What the HTTP handlers and jobs other than the worker have in common: a *)
(* statement can throw, or the process die, between any two of their       *)
(* steps, and nothing rolls back the steps already taken.                  *)
(***************************************************************************)
EXTENDS Store

CONSTANT ApiFaults     \* bound on interrupted handlers and jobs

ASSUME RequestsAssumption == ApiFaults \in Nat

VARIABLE apiFaults     \* interruptions that have happened

RequestsTypeOK == apiFaults \in 0..ApiFaults

RequestsInit == apiFaults = 0

Interruption ==
  /\ apiFaults < ApiFaults
  /\ apiFaults' = apiFaults + 1

=============================================================================
