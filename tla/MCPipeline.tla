----------------------------- MODULE MCPipeline -----------------------------
(* Constants for checking the pipeline.                                    *)
EXTENDS Pipeline

CONSTANTS e1, d1, FirstRetries, OtherRetries

MCMaxRetries == [d \in Destinations |-> IF d = d1 THEN FirstRetries ELSE OtherRetries]

(* The first event goes to every destination, the others to the first one, *)
(* or, where d1 is no destination, to none.                                *)
MCMatched == [e \in Events |-> IF e = e1 THEN Destinations ELSE {d1} \cap Destinations]
=============================================================================
