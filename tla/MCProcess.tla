------------------------------- MODULE MCProcess -------------------------------
(* Values for the constants of the run process. *)
EXTENDS ProcessProperties

CONSTANTS n1, n2, n3

\* The node without labels comes first, the one in two partitions in between.
N2First == <<n2, n3, n3, n1>>

\* The status of n1 comes and goes; n2 was never labelled.
OneChanges == [n \in {n1, n2, n3} |-> IF n = n1 THEN {"few", "N/A"} ELSE {"few"}]
=============================================================================
