-------------------------- MODULE MCDeliveryWorker --------------------------
(* Constants for checking the delivery worker by itself.                   *)
EXTENDS DeliveryWorker

CONSTANTS e1, d1

(* The first destination is attempted twice, the others once.              *)
MCMaxRetries == [d \in Destinations |-> IF d = d1 THEN 2 ELSE 1]

(* The first event goes to every destination, the others to the first one. *)
MCMatched == [e \in Events |-> IF e = e1 THEN Destinations ELSE {d1}]
=============================================================================
