------------------------------- MODULE JobRequest -------------------------------
(***************************************************************************)
(* One pod from its CREATE to the sbatch command, with everything that can *)
(* stop it on the way: Inject of internal/mutation/sidecar, the scheduler, *)
(* the script of slurm-injector and the endpoints isinjectable and sbatch. *)
(* What goes wrong in between (crashes, lost answers) is Injector's        *)
(* subject; here it is who is asked for what.                              *)
(***************************************************************************)
EXTENDS JobInformation

CONSTANTS
    CreatedPods,    \* the pods users create
    Namespaces,     \* the namespaces there are, whose names have no dots
    GPUsFree        \* GPUsFree[n] : the label slurm-num-gpus-free of n, or Absent

Fields == {"name", "namespace", "owners", "katib", "labels", "annotations", "nodeName",
           "containers", "terms", "injectors", "script"}

\* A key that is not there is Absent; an amount is a number of whole units.
IsPod(p) ==
    /\ Fields \subseteq DOMAIN p
    /\ {"status", "uuid"} \subseteq DOMAIN p.annotations
    /\ p.containers \in Seq(Range(p.containers))
    /\ \A c \in Range(p.containers) : {"env", "cpu", "gpu"} \subseteq DOMAIN c
                                     /\ {c.cpu, c.gpu} \subseteq Int \cup {Absent}

ASSUME JobRequestAssumption ==
    /\ \A p \in CreatedPods : IsPod(p) /\ p.injectors = 0
    /\ Namespaces \cap DOMAIN Undotted = {}

VARIABLES
    pod,        \* the pod as its user wrote it
    obj,        \* the pod as the API server has it
    stage,      \* how far it has come
    node,       \* the node it was placed on
    cm,         \* the config-map Inject wrote
    command,    \* the options of sbatch
    recreated   \* bound: a pod is created again once

vars == <<pod, obj, stage, node, cm, command, recreated>>

Stages == {"create", "denied", "admitted", "isinjectable", "sbatch", "refused", "submitted",
           "running"}

Init ==
    /\ pod \in CreatedPods
    /\ obj = pod
    /\ stage = "create"
    /\ node = Absent /\ cm = Absent /\ command = Absent
    /\ recreated = FALSE

-----------------------------------------------------------------------------
(* Inject.                                                                 *)

OptedOut == obj.labels["injection"] = "disabled"

Namespace == getObjectNamespace(obj)

Enabled == ~OptedOut /\ ~Namespace.error /\ IsInjectionEnabled(obj, Namespace.value)

Info == getJobInformation(obj, Namespace.value)

\* An error of Inject denies the CREATE: also that of a pod that asks for nothing.
Denies ==
    /\ stage = "create"
    /\ ~OptedOut
    /\ Namespace.error \/ (Enabled /\ (Malformed(obj) \/ UnrecognizedPartition(Info)))
    /\ stage' = "denied"
    /\ UNCHANGED <<pod, obj, node, cm, command, recreated>>

LeavesAlone ==
    /\ stage = "create"
    /\ OptedOut \/ ~Namespace.error
    /\ Enabled => ~Malformed(obj) /\ ~isInjectable(Info)
    /\ stage' = "admitted"
    /\ UNCHANGED <<pod, obj, node, cm, command, recreated>>

\* The UUID is a fresh one, whatever the user wrote.
FreshUUID == obj.injectors + 1

\* Mutant: the config-map is made from the pod as it was before.
ConfigMapFirst ==
    /\ stage = "create" /\ Enabled /\ ~Malformed(obj)
    /\ isInjectable(Info) /\ ~UnrecognizedPartition(Info) /\ Namespace.value \in Namespaces
    /\ obj' = mutateObject(obj, [Info EXCEPT !.uuid = FreshUUID])
    /\ cm' = ConfigMapOf(Info)
    /\ stage' = "admitted"
    /\ UNCHANGED <<pod, node, command, recreated>>

\* createConfigMap reads the job information once more, from the mutated object.
Injects ==
    /\ stage = "create" /\ Enabled /\ ~Malformed(obj)
    /\ isInjectable(Info) /\ ~UnrecognizedPartition(Info) /\ Namespace.value \in Namespaces
    /\ obj' = mutateObject(obj, [Info EXCEPT !.uuid = FreshUUID])
    /\ cm' = ConfigMapOf(getJobInformation(obj', Namespace.value))
    /\ stage' = "admitted"
    /\ UNCHANGED <<pod, node, command, recreated>>

\* A config-map that cannot be written denies the CREATE, as one in no namespace always is.
ConfigMapFails ==
    /\ stage = "create" /\ Enabled /\ ~Malformed(obj)
    /\ isInjectable(Info) /\ ~UnrecognizedPartition(Info)
    /\ stage' = "denied"
    /\ UNCHANGED <<pod, obj, node, cm, command, recreated>>

-----------------------------------------------------------------------------
(* The scheduler, and the kubelet of a node the user named.                *)

Meets(n, requirement) == n \in requirement.nodes /\ GPUsFree[n] \notin requirement.notIn

Matches(n, terms) ==
    terms # {} => \E term \in terms : \A requirement \in term : Meets(n, requirement)

Placed(n) ==
    /\ stage = "admitted"
    /\ obj.nodeName \in {Empty, n} /\ Matches(n, obj.terms)
    /\ node' = n
    /\ stage' = IF obj.injectors = 0 THEN "running" ELSE "isinjectable"
    /\ UNCHANGED <<pod, obj, cm, command, recreated>>

-----------------------------------------------------------------------------
(* The script of slurm-injector and the endpoints it calls.                *)

Query == parseQueryParams(obj.script, node)

\* Not a Slurm node: the containers start without a job.
AsksIsInjectable ==
    /\ stage = "isinjectable"
    /\ stage' = IF Query.node \in SlurmNodes THEN "sbatch" ELSE "running"
    /\ UNCHANGED <<pod, obj, node, cm, command, recreated>>

CallsSbatch ==
    /\ stage = "sbatch"
    /\ IF Prepared(Query)
       THEN stage' = "submitted" /\ command' = constructCommand(SelectsPartition(Query))
       ELSE stage' = "refused" /\ UNCHANGED command
    /\ UNCHANGED <<pod, obj, node, cm, recreated>>

\* The user deletes the pod and creates it again from the manifest it has by now.
Recreates ==
    /\ stage \in {"running", "refused", "submitted"} /\ ~recreated
    /\ obj' = [obj EXCEPT !.nodeName = node]
    /\ stage' = "create" /\ recreated' = TRUE
    /\ node' = Absent /\ cm' = Absent /\ command' = Absent
    /\ UNCHANGED pod

Next ==
    \/ Denies \/ LeavesAlone \/ Injects \/ ConfigMapFails
    \/ \E n \in KubeNodes : Placed(n)
    \/ AsksIsInjectable \/ CallsSbatch
    \/ Recreates

Spec == Init /\ [][Next]_vars

-----------------------------------------------------------------------------
(* Properties.                                                             *)

\* A pod carries at most one slurm-injector, however often its manifest is used again
\* (the annotation mutateObject leaves and IsInjectionEnabled reads).
InjectedOnce == obj.injectors <= 1

\* The config-map Inject creates, from a second reading of the mutated pod, is the one
\* the sbatch endpoint looks for by what arrives in the query: the same name and UUID
\* (createConfigMap; parseQueryParams and ConfigMapNameFromObjectName filter twice).
SameConfigMap ==
    stage \in {"isinjectable", "sbatch"} /\ cm # Absent => cm = ConfigMapOf(Query)

\* A pod that needs GPUs never lands on a node whose label says that there are fewer,
\* and always on one its own affinity allows, whichever terms that has (the requirement
\* mutateObject adds to alternatives).
PlacedWell ==
    node # Absent /\ obj.injectors > 0 =>
        /\ obj.script.ngpus > 0 => GPUsFree[node] \notin 0 .. obj.script.ngpus - 1
        /\ Matches(node, pod.terms)

\* Slurm is asked for at least the CPUs and GPUs the containers were going to get, of
\* which Kubernetes is then asked for no GPU: nobody else accounts for them.  Unless the
\* user corrects the sum with a negative number.
Corrected == \E key \in {"ncpus", "ngpus"} : Number(pod, key, 0) < 0
AsksForContainers ==
    stage = "submitted" /\ ~Corrected =>
        /\ command.cpus >= SumOf(pod, "cpu")
        /\ SumOf(pod, "gpu") > 0 => command.gres >= SumOf(pod, "gpu")
        /\ SumOf(obj, "gpu") = 0

\* In auto mode the job is on the pod's own node and in one of that node's partitions,
\* unless the environment says otherwise: labels do not move it (the reset in
\* getJobInformation, the placeholder, prepareParams).  A variable does by naming a node or
\* a partition, or by turning to auto a pod labelled manual, whose node and partition were
\* not reset when the variables are read.
Overridden ==
    \/ \E i \in DOMAIN Envs(pod) : \E k \in {"node", "partition"} : Envs(pod)[i][k] # Absent
    \/ MetaMode(pod) = "manual" /\ Mode(pod) # "manual"
AutoFollowsPod ==
    stage = "submitted" /\ obj.script.mode # "manual" /\ ~Overridden =>
        /\ command.nodelist = node
        /\ \E i \in DOMAIN NodeInfo :
               NodeInfo[i] = [node |-> node, partition |-> command.partition]

\* What the webhook let through is not refused by sbatch for ever after, except where
\* the two tables differ: manual mode without a partition or with one that has no node,
\* and a partition nobody checked, in an auto mode the environment overrides (isInjectable
\* of sidecar.go against prepareParams).
Unchecked(p) == p = Empty \/ p \notin UsedPartitions
RefusedWithReason ==
    stage = "refused" =>
        Unchecked(Filter(obj.script.partition)) /\ (obj.script.mode = "manual" \/ Overridden)

\* README.md: "Slurm jobs are injected only if resources have this label" (or, one may
\* add, the environment variable, or a namespace the administrator named).
InjectedWhereAsked ==
    obj.injectors > 0 =>
        \/ pod.labels["injection"] = "enabled" \/ EnvSays(pod, "enabled")
        \/ \E t \in Range(TargetFlag) : getObjectNamespace(pod).value \in Matching[t]

-----------------------------------------------------------------------------
(* The invariant behind them: where a pod may be placed (PInv), and what   *)
(* its script says (RInv).                                                 *)

\* An injected pod carries the annotation; any other has room for it.
Marked ==
    /\ obj.injectors = 0 => "status" \in DOMAIN obj.annotations
    /\ obj.injectors = 1 => obj.annotations["status"] = "injected"

\* The affinity is the user's, with the requirement joined when the pod was injected.
Joined ==
    /\ obj.injectors = 0 => obj.terms = pod.terms
    /\ obj.injectors = 1 => obj.terms = NodeAffinity(pod.terms, obj.script.ngpus)

PInv ==
    /\ IsPod(obj)
    /\ obj.injectors \in {0, 1}
    /\ Marked
    /\ Joined
    /\ node # Absent => node \in KubeNodes /\ Matches(node, obj.terms)
    /\ stage = "create" => node = Absent

InfoFields == {"namespace", "objectname", "mode", "partition", "node", "ntasks", "ncpus",
               "ngpus", "gres", "time", "uuid"}

\* What the script carries of its user's settings.
ScriptSays ==
    /\ InfoFields \subseteq DOMAIN obj.script
    /\ obj.script.ncpus = Ncpus(pod)
    /\ obj.script.gres = Positive(Ngpus(pod))
    /\ obj.script.mode # "manual" /\ ~Overridden =>
           obj.script.node = Placeholder /\ obj.script.partition = Empty

\* A config-map is made for the script's job, in a namespace there is.
Matched ==
    cm # Absent =>
        /\ obj.injectors = 1
        /\ obj.script.namespace \in Namespaces
        /\ cm = ConfigMapOf(obj.script)

RInv ==
    /\ IsPod(pod) /\ IsPod(obj)
    /\ obj.injectors = 0 =>
           /\ obj.labels = pod.labels /\ obj.annotations = pod.annotations
           /\ obj.containers = pod.containers
    /\ obj.injectors # 0 =>
           /\ ScriptSays
           /\ \A i \in DOMAIN obj.containers : obj.containers[i].gpu = Absent
    /\ Matched
    /\ stage \in {"isinjectable", "sbatch", "refused", "submitted"} =>
           obj.injectors # 0 /\ node \in KubeNodes
    /\ stage \in {"sbatch", "refused"} => Query.node \in SlurmNodes
    /\ stage = "refused" => ~Prepared(Query)
    /\ stage = "submitted" =>
           Prepared(Query) /\ command = constructCommand(SelectsPartition(Query))

\* Whatever a pod has become, script, config-map and command line say what its user wrote.
RequestInv == PInv /\ RInv
=============================================================================
