------------------------------ MODULE NodeLabels ------------------------------
(***************************************************************************)
(* The three node labels that the affinity of a GPU pod is matched against *)
(* (updateNodeLabels of internal/watcher, fetchSlurmNodeStatus of          *)
(* internal/slurm_handler).  One JSON patch replaces the three at once, so *)
(* a status is one value here.                                             *)
(***************************************************************************)
EXTENDS Sequences

CONSTANTS
    Sinfo,          \* the nodes sinfo lists, in its order
    KubeNodes,      \* nodes of the Kubernetes cluster
    Prepared,       \* Kubernetes nodes that already have the labels
    Manifold,       \* nodes in several partitions: sinfo prints them several times
    FreeOn,         \* FreeOn[n] : what can be free on node n
    NotALabel,      \* what is no label value: "N/A", a negative number
    Initial         \* what an administrator labelled a node with

SlurmNodes == {Sinfo[i] : i \in DOMAIN Sinfo}

ASSUME NodeLabelsAssumption ==
    /\ Prepared \subseteq KubeNodes
    /\ Manifold \subseteq SlurmNodes
    /\ DOMAIN FreeOn = SlurmNodes

VARIABLES
    status,     \* status[n] : the status of n on Slurm now
    labels      \* labels[n] : the labels of n on Kubernetes

labelVars == <<status, labels>>

NodeStatus == UNION {[node: {n}, free: FreeOn[n]] : n \in SlurmNodes}

LabelsTypeOK ==
    /\ status \in [SlurmNodes -> NodeStatus]
    /\ labels \in [KubeNodes -> NodeStatus \cup {Initial}]

LabelsInit ==
    /\ status \in {s \in [SlurmNodes -> NodeStatus] : \A n \in SlurmNodes : s[n].node = n}
    /\ labels = [n \in KubeNodes |-> Initial]

\* The output of the script of fetchSlurmNodeStatus: a line that does not have four
\* fields is skipped, and so are all lines of a node sinfo prints several times.
GetNodeStatus ==
    LET IsParsed(n) == n \notin Manifold
        parsed == SelectSeq(Sinfo, IsParsed)
    IN  [i \in DOMAIN parsed |-> status[parsed[i]]]

NodeNamed(s) == {n \in KubeNodes : n = s.node}

\* The API server takes a patch whole or not at all: op "replace" needs the labels.
Takes(n, s) == n \in Prepared /\ s.free \notin NotALabel

Patched(s) ==
    labels' = [n \in KubeNodes |->
                  IF n \in NodeNamed(s) /\ Takes(n, s) THEN s ELSE labels[n]]

\* Jobs come and go on the node.
StatusChanges(n) ==
    /\ \E f \in FreeOn[n] : status' = [status EXCEPT ![n].free = f]
    /\ UNCHANGED labels
=============================================================================
