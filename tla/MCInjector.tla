------------------------------ MODULE MCInjector ------------------------------
(* Values for the constants of the runs. *)
EXTENDS BindingStability

CONSTANTS p1, p2, n1, n2

\* Pods with names of their own.
DistinctNames == [p \in Pods |-> IF p = p1 THEN n1 ELSE n2]

\* Pods for one name: siblings of a ReplicaSet when they are in Generated,
\* otherwise a pod and the one that replaces it.
OneName == [p \in Pods |-> n1]
=============================================================================
