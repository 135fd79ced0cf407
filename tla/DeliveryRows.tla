---------------------------- MODULE DeliveryRows ----------------------------
(***************************************************************************)
(* The deliveries table as its readers rely on it: rows are added with the *)
(* outcome of an attempt, dead letters can be reset, failures swept to the *)
(* dead letters, and nothing else happens to a row.  Pipeline implements   *)
(* it; the listings and the statistics are checked against it.             *)
(***************************************************************************)
EXTENDS Naturals, Sequences

VARIABLE rows          \* the status of each row, oldest first

RowsInit == rows = << >>

RowsAre(status) == {i \in DOMAIN rows : rows[i] = status}

Become(positions, status) ==
  rows' = [i \in DOMAIN rows |-> IF i \in positions THEN status ELSE rows[i]]

(* The worker records an attempt.                                          *)
Insert == \E status \in {"success", "failed", "dead_letter"} : rows' = Append(rows, status)

(* A retry selected dead letters; others may have reset some meanwhile.    *)
Reset ==
  \E positions \in SUBSET (RowsAre("dead_letter") \cup RowsAre("pending")) :
    Become(positions, "pending")

(* The sweep.                                                              *)
Sweep == \E positions \in SUBSET RowsAre("failed") : Become(positions, "dead_letter")

RowsNext == Insert \/ Reset \/ Sweep

RowsSpec == RowsInit /\ [][RowsNext]_rows

=============================================================================
