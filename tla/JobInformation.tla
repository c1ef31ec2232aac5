---------------------------- MODULE JobInformation ----------------------------
(***************************************************************************)
(* From the settings of a pod to the arguments of sbatch: what             *)
(* internal/mutation/sidecar reads from the pod, what it writes back, what *)
(* the endpoints make of the query string (internal/http/slurm) and what   *)
(* internal/slurm_handler puts on the command line.                        *)
(*                                                                         *)
(* A text is a model value, or a string where the code compares it with a  *)
(* literal; a number is the integer its text denotes.                      *)
(***************************************************************************)
EXTENDS Integers, Sequences, SequencesExt

CONSTANTS
    KubeNodes,      \* nodes of the Kubernetes cluster
    NodeInfo,       \* sinfo --Node : a sequence of [node, partition]
    Partitions,     \* partitions sinfo lists, those without a node included
    TargetFlag,     \* --target-namespaces : the patterns between its commas
    Matching,       \* Matching[t] : namespaces the pattern t matches
    Undotted,       \* Undotted[x] : the text x without its dots
    Placeholder,    \* "::K8S_SLURM_INJECTOR_NODE::"
    Empty,          \* ""
    Absent          \* the key is not there

SlurmNodes == {NodeInfo[i].node : i \in DOMAIN NodeInfo}
UsedPartitions == {NodeInfo[i].partition : i \in DOMAIN NodeInfo}

ASSUME JobInformationAssumption ==
    /\ UsedPartitions \subseteq Partitions
    /\ Empty \notin Partitions \cup SlurmNodes
    /\ Placeholder \notin SlurmNodes \cup DOMAIN Undotted
    /\ NodeInfo \in Seq([node : SlurmNodes, partition : UsedPartitions])
    /\ Empty \notin DOMAIN Undotted
    /\ \A x \in DOMAIN Undotted : Undotted[x] \notin DOMAIN Undotted
    /\ Absent \notin Int

-----------------------------------------------------------------------------
(* Who is injected.                                                        *)

\* strings.Split makes one empty pattern of the empty flag, and it matches everything.
InTarget(ns) == TargetFlag = <<>> \/ \E t \in Range(TargetFlag) : ns \in Matching[t]

Unknown == [error |-> TRUE, value |-> Empty]
Known(x) == [error |-> FALSE, value |-> x]

\* owners[i] are the namespaces that have a ReplicaSet named like the i-th owner;
\* an owner that is not found is passed over.
getObjectNamespace(obj) ==
    LET Found(o) == o # {}
        found == SelectSeq(obj.owners, Found)
    IN  CASE obj.namespace # Empty -> Known(obj.namespace)
          [] obj.namespace = Empty /\ found # <<>> ->
                 IF \E ns \in Head(found) : Head(found) = {ns}
                 THEN Known(CHOOSE ns \in Head(found) : TRUE) ELSE Unknown
          [] OTHER -> IF obj.labels["namespace"] = Absent THEN Unknown
                      ELSE Known(obj.labels["namespace"])

\* Some container sets K8S_SLURM_INJECTOR_INJECTION to v.
EnvSays(obj, v) == \E i \in DOMAIN obj.containers : obj.containers[i].env["injection"] = v

\* Mutant: the annotation of an earlier injection is not looked at.
EnabledAgain(obj, ns) ==
    /\ obj.labels["injection"] # "disabled" /\ ~EnvSays(obj, "disabled") /\ ~obj.katib
    /\ obj.labels["injection"] = "enabled" \/ EnvSays(obj, "enabled") \/ InTarget(ns)

\* A "no" anywhere wins over a "yes" anywhere.
IsInjectionEnabled(obj, ns) ==
    /\ obj.labels["injection"] # "disabled"
    /\ ~EnvSays(obj, "disabled")
    /\ ~obj.katib
    /\ obj.annotations["status"] # "injected"
    /\ \/ obj.labels["injection"] = "enabled"
       \/ EnvSays(obj, "enabled")
       \/ InTarget(ns)

-----------------------------------------------------------------------------
(* getJobInformation.                                                      *)

Envs(obj) == [i \in DOMAIN obj.containers |-> obj.containers[i].env]
Meta(obj) == <<obj.labels, obj.annotations>>

\* Later sources overwrite earlier ones.
Override(default, sources, key) ==
    LET having == {i \in DOMAIN sources : sources[i][key] # Absent}
    IN  IF having = {} THEN default ELSE sources[Max(having)][key]

\* ParseInt, whose error is ignored.
ParseInt(x) == IF x \in Int THEN x ELSE 0

Number(obj, key, default) == ParseInt(Override(default, Meta(obj) \o Envs(obj), key))

\* The labels' and annotations' mode; an empty one is "auto".
MetaMode(obj) ==
    LET mode == Override(Absent, Meta(obj), "mode")
    IN  CASE mode = Absent -> Empty
          [] mode = Empty  -> "auto"
          [] OTHER         -> mode

Mode(obj) == Override(MetaMode(obj), Envs(obj), "mode")

Partition(obj) ==
    Override(IF MetaMode(obj) = "manual" THEN Override(Empty, Meta(obj), "partition") ELSE Empty,
             Envs(obj), "partition")

NodeName(obj) == IF obj.nodeName # Empty THEN obj.nodeName ELSE Override(Empty, Meta(obj), "node")

\* Mutant: auto mode keeps a node that was named.
NamedNode(obj) ==
    Override(IF MetaMode(obj) = "manual" \/ NodeName(obj) # Empty THEN NodeName(obj) ELSE Placeholder,
             Envs(obj), "node")

\* In auto mode the name of the node is filled in when the pod has one.
Node(obj) ==
    Override(IF MetaMode(obj) = "manual" THEN NodeName(obj) ELSE Placeholder, Envs(obj), "node")

\* Requests and limits of the containers, in whole units, up to the i-th.
Amount(container, field) == IF container[field] = Absent THEN 0 ELSE container[field]

Sums(containers, field) ==
    LET sum[i \in 0 .. Len(containers)] ==
            IF i = 0 THEN 0 ELSE sum[i - 1] + Amount(containers[i], field)
    IN  sum

SumOf(obj, field) == Sums(obj.containers, field)[Len(obj.containers)]

Ncpus(obj) ==
    LET n == Number(obj, "ncpus", 0) + SumOf(obj, "cpu") IN IF n = 0 THEN 1 ELSE n

\* Mutant: the loop assigns where it should add.
LastLimit(obj) ==
    FoldLeft(LAMBDA n, c : IF c.gpu = Absent THEN n ELSE c.gpu, Number(obj, "ngpus", 0), obj.containers)

Ngpus(obj) == Number(obj, "ngpus", 0) + SumOf(obj, "gpu")

Positive(n) == IF n > 0 THEN n ELSE Empty

getJobInformation(obj, ns) ==
    [namespace |-> ns, objectname |-> obj.name, mode |-> Mode(obj), partition |-> Partition(obj),
     node |-> Node(obj), ntasks |-> Positive(Number(obj, "ntasks", 1)), ncpus |-> Ncpus(obj),
     ngpus |-> Ngpus(obj), gres |-> Positive(Ngpus(obj)),
     time |-> Positive(Number(obj, "time", 0)), uuid |-> Override(Empty, Meta(obj), "uuid")]

\* An unrecognized mode, even one that is overwritten, or manual without a node.
Malformed(obj) ==
    \/ \E i \in 1 .. 2 : Meta(obj)[i]["mode"] \notin {Absent, Empty, "auto", "manual"}
    \/ \E i \in DOMAIN obj.containers :
           obj.containers[i].env["mode"] \notin {Absent, "auto", "manual"}
    \/ Mode(obj) = "manual" /\ Node(obj) = Empty

\* A node Slurm does not know is no error: the pod stays as it is.
isInjectable(info) == info.mode = "manual" => info.node \in SlurmNodes

UnrecognizedPartition(info) ==
    /\ info.mode = "manual" /\ info.node \in SlurmNodes
    /\ info.partition \notin Partitions \cup {Empty}

-----------------------------------------------------------------------------
(* mutateObject.                                                           *)

\* A requirement names the nodes a user asked for and the values that the label
\* slurm-num-gpus-free must not have; a node without the label matches.
EnoughGPUs(ngpus) == [nodes |-> KubeNodes, notIn |-> 0 .. ngpus - 1]

\* Mutant: a term of its own, an alternative to those of the user.
AddsTerm(terms, ngpus) == IF ngpus > 0 THEN terms \cup {{EnoughGPUs(ngpus)}} ELSE terms

\* The requirement joins every term: terms are alternatives, and {} is no affinity at all.
NodeAffinity(terms, ngpus) ==
    IF ngpus > 0
    THEN {term \cup {EnoughGPUs(ngpus)} : term \in IF terms = {} THEN {{}} ELSE terms}
    ELSE terms

Annotated(annotations, info) ==
    [key \in DOMAIN annotations |->
        IF key = "status" THEN "injected"
        ELSE IF key \in DOMAIN info THEN info[key] ELSE annotations[key]]

Labelled(labels, info) ==
    [labels EXCEPT !["namespace"] = info.namespace, !["uuid"] = info.uuid]

mutateObject(obj, info) ==
    [obj EXCEPT !.injectors = @ + 1, !.script = info,
                !.terms = NodeAffinity(@, info.ngpus),
                !.containers = [i \in DOMAIN @ |-> [@[i] EXCEPT !.gpu = Absent]],
                !.annotations = Annotated(@, info), !.labels = Labelled(@, info)]

\* ConfigMapNameFromObjectName and the query string drop the same characters.
Filter(x) == IF x \in DOMAIN Undotted THEN Undotted[x] ELSE x

ConfigMapOf(info) ==
    [namespace |-> info.namespace, name |-> Filter(info.objectname), uuid |-> info.uuid]

-----------------------------------------------------------------------------
(* The endpoints and the command line.                                     *)

\* parseQueryParams keeps the digits of a number.
Digits(x) == IF x \in Int /\ x < 0 THEN -x ELSE x

\* The script of slurm-injector puts the pod's node for the placeholder.
parseQueryParams(info, node) ==
    [info EXCEPT !.namespace = Filter(@), !.objectname = Filter(@), !.partition = Filter(@),
                 !.node = Filter(IF @ = Placeholder THEN node ELSE @),
                 !.ntasks = Digits(@), !.ncpus = Digits(@), !.ngpus = Digits(@)]

\* The last partition sinfo lists for a node.
PartitionOf(node) == NodeInfo[Max({i \in DOMAIN NodeInfo : NodeInfo[i].node = node})].partition

\* Mutant: the webhook's mode "" is not taken for auto mode.
OnlyWhenAuto(q) ==
    IF q.mode = "auto" /\ q.partition = Empty /\ q.node \in SlurmNodes
    THEN [q EXCEPT !.partition = PartitionOf(q.node)] ELSE q

\* Outside manual mode, when nobody named a partition.
SelectsPartition(q) ==
    IF q.mode # "manual" /\ q.partition = Empty /\ q.node \in SlurmNodes
    THEN [q EXCEPT !.partition = PartitionOf(q.node)] ELSE q

\* prepareParams: node and partition exist, one by one.
Prepared(q) == q.node \in SlurmNodes /\ SelectsPartition(q).partition \in UsedPartitions

\* constructCommand leaves an empty option away.
constructCommand(q) ==
    [nodelist |-> q.node, partition |-> q.partition, ntasks |-> q.ntasks,
     cpus |-> q.ncpus, gres |-> q.gres, time |-> q.time, jobname |-> q.uuid]
=============================================================================
