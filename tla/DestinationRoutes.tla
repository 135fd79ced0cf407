------------------------- MODULE DestinationRoutes -------------------------
(***************************************************************************)
(* Creating and deleting destinations through the API while events are     *)
(* being delivered.  Each is one statement.                                *)
(***************************************************************************)
EXTENDS Store

CONSTANTS
  Late,                \* destinations created while the engine runs
  Deletable            \* destinations somebody may delete

ASSUME DestinationRoutesAssumption == Late \subseteq Destinations /\ Deletable \subseteq Destinations

VARIABLE uncreated     \* ids no row has had yet

DestinationRoutesTypeOK == uncreated \subseteq Late

DestinationRoutesInit == uncreated = Late

CreateDestination(d) ==
  /\ d \in uncreated
  /\ destinations' = destinations \cup {d}
  /\ uncreated' = uncreated \ {d}
  /\ UNCHANGED <<events, deliveries, queueVars>>

(* The foreign key of deliveries refuses to delete a destination that has  *)
(* been attempted: the request fails and nothing changes.                  *)
DeleteDestination(d) ==
  /\ d \in destinations \cap Deletable
  /\ \A i \in DOMAIN deliveries : deliveries[i].destination # d
  /\ destinations' = destinations \ {d}
  /\ UNCHANGED <<events, deliveries, queueVars, uncreated>>

DestinationRoutesNext ==
  \/ \E d \in Late : CreateDestination(d)
  \/ \E d \in Deletable : DeleteDestination(d)

=============================================================================
