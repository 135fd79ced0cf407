----------------------------- MODULE Statistics -----------------------------
(***************************************************************************)
(* The statistics job: one SELECT counts the deliveries of a source, one   *)
(* HSET publishes the counts in Redis.  Runs may overlap, for the job      *)
(* takes no lock.  One source is modelled: its hash is written by itself.  *)
(***************************************************************************)
EXTENDS DeliveryRows, FiniteSets

CONSTANT Aggregators   \* runs of the job that may overlap

VARIABLES
  aggregatorStep,      \* "select", or "write" once it has counted
  counted,             \* the counts each run has read
  published,           \* the fields of stats:source:{sourceId}
  overtaken            \* history: runs since whose SELECT another has written

statisticsVars == <<aggregatorStep, counted, published, overtaken>>

StatisticsInit ==
  /\ aggregatorStep = [a \in Aggregators |-> "select"]
  /\ counted = [a \in Aggregators |-> [success |-> 0, failed |-> 0]]
  /\ published = [success |-> 0, failed |-> 0]
  /\ overtaken = {}

(* Mutant of Counts: the two filters are exchanged.                        *)
CountsExchanged ==
  [success |-> Cardinality(RowsAre("failed") \cup RowsAre("dead_letter")),
   failed |-> Cardinality(RowsAre("success"))]

Counts ==
  [success |-> Cardinality(RowsAre("success")),
   failed |-> Cardinality(RowsAre("failed") \cup RowsAre("dead_letter"))]

(* A source without deliveries is in no group, and nothing is written.     *)
SelectCounts(a) ==
  /\ aggregatorStep[a] = "select"
  /\ rows # << >>
  /\ counted' = [counted EXCEPT ![a] = Counts]
  /\ aggregatorStep' = [aggregatorStep EXCEPT ![a] = "write"]
  /\ overtaken' = overtaken \ {a}
  /\ UNCHANGED <<rows, published>>

WriteCounts(a) ==
  /\ aggregatorStep[a] = "write"
  /\ published' = counted[a]
  /\ aggregatorStep' = [aggregatorStep EXCEPT ![a] = "select"]
  /\ overtaken' = (overtaken \cup {b \in Aggregators : aggregatorStep[b] = "write"}) \ {a}
  /\ UNCHANGED <<rows, counted>>

(* The run fails, or its process dies, between the two.                    *)
AbortCounts(a) ==
  /\ aggregatorStep[a] = "write"
  /\ aggregatorStep' = [aggregatorStep EXCEPT ![a] = "select"]
  /\ UNCHANGED <<rows, counted, published, overtaken>>

StatisticsNext ==
  \E a \in Aggregators : SelectCounts(a) \/ WriteCounts(a) \/ AbortCounts(a)

(* The worker, retries and sweeps go on meanwhile.                         *)
RowsMove == RowsNext /\ UNCHANGED statisticsVars

StatisticsSpec ==
  RowsInit /\ StatisticsInit /\ [][StatisticsNext \/ RowsMove]_<<rows, statisticsVars>>

(* The published number of successes goes down only when a run writes that *)
(* has been overtaken since it counted: "last writer wins, same data"      *)
(* holds without overlap, whatever retries and sweeps do to the rows.      *)
StatsRegressOnlyOvertaken ==
  [][published'.success < published.success =>
       \E a \in overtaken : WriteCounts(a)]_<<rows, statisticsVars>>

=============================================================================
