------------------------------- MODULE Cluster -------------------------------
(***************************************************************************)
(* The world k8s-slurm-injector works on: the pods and config-maps held by *)
(* the Kubernetes API server and the job queue of the Slurm controller,    *)
(* with the calls the program makes on them (internal/config_map and       *)
(* internal/slurm_handler).                                                *)
(*                                                                         *)
(* A member of Pods is one pod CREATE request.  mutateObject gives every   *)
(* request a fresh UUID, so the request stands for its UUID as well: it is *)
(* the value of the label k8s-slurm-injector/uuid on the pod and on the    *)
(* config-map, and the 32 first characters of the Slurm job's name.        *)
(***************************************************************************)
EXTENDS Integers, FiniteSets

CONSTANTS
    Pods,        \* pod CREATE requests, identified with their UUIDs
    Names,       \* config-map names (with their namespace)
    ObjName,     \* ObjName[p] : the config-map name computed for request p
    Generated,   \* requests that carry generateName, hence no name yet
    Reqs,        \* goroutines of the slurm HTTP server
    MaxJobs,     \* bound: jobs the Slurm controller can number
    NoPod,       \* "no pod"
    NoCM,        \* "no config-map of that name"
    Faults       \* the failures and outside interventions of an instance

JobIds == 1 .. MaxJobs
NoJob == 0              \* an empty or non-numeric job id
NotSlurm == -1          \* the text "none" in the file jobid
ToBeSet == -2           \* the text "to-be-set" in a fresh config-map

\* The objects with label app=k8s-slurm-injector.  readers is the optimistic
\* lock: the goroutines whose copy still has the current resourceVersion.
ConfigMaps == [uuid: Pods, jobid: JobIds \cup {NoJob, ToBeSet},
               env: JobIds \cup {NoJob}, readers: SUBSET Reqs]

PodPhases == {"absent", "Pending", "Running", "Succeeded", "Failed", "deleted"}
JobStates == {"unused", "PENDING", "RUNNING", "CANCELLED", "ENDED"}

FaultKinds ==
    {"api",       \* a call of the webhook or an endpoint to the Kubernetes API fails
     "blind",     \* a call of the watcher to the Kubernetes API fails
     "ssh",       \* an ssh command fails and does nothing
     "lost",      \* sbatch queues the job, its reply is lost
     "masked",    \* sbatch fails, and the writer of its script may overwrite the error
     "reject",    \* a pod is refused after the webhook admitted it
     "delete",    \* a user or a controller deletes a pod
     "kill",      \* an init container is killed (OOM, node trouble)
     "jobend",    \* Slurm ends or an operator cancels a job
     "params"}    \* sbatch is asked for an unknown node or partition

ASSUME ClusterAssumption ==
    /\ ObjName \in [Pods -> Names]
    /\ Generated \subseteq Pods
    /\ MaxJobs \in Nat
    /\ NoPod \notin Pods
    /\ NoCM \notin ConfigMaps
    /\ Faults \subseteq FaultKinds

VARIABLES
    phase,      \* phase[p]    : the pod's status.phase, or why there is none
    deleting,   \* deleting[p] : metadata.deletionTimestamp is set
    env,        \* env[p]      : the job whose variables p's containers got
    cms,        \* cms[n]      : the config-map named n, or NoCM
    owner,      \* owner[j]    : the UUID in job j's name, or NoPod
    jobState    \* jobState[j] : the job's state in Slurm

clusterVars == <<phase, deleting, env, cms, owner, jobState>>
podVars == <<phase, deleting, env>>
jobVars == <<owner, jobState>>

ClusterTypeOK ==
    /\ phase \in [Pods -> PodPhases]
    /\ deleting \in [Pods -> BOOLEAN]
    /\ env \in [Pods -> JobIds \cup {NoJob}]
    /\ cms \in [Names -> ConfigMaps \cup {NoCM}]
    /\ owner \in [JobIds -> Pods \cup {NoPod}]
    /\ jobState \in [JobIds -> JobStates]

ClusterInit ==
    /\ phase = [p \in Pods |-> "absent"]
    /\ deleting = [p \in Pods |-> FALSE]
    /\ env = [p \in Pods |-> NoJob]
    /\ cms = [n \in Names |-> NoCM]
    /\ owner = [j \in JobIds |-> NoPod]
    /\ jobState = [j \in JobIds |-> "unused"]

-----------------------------------------------------------------------------
(* Pods: what pods List returns and what pods Delete does.                 *)

Exists(p) == phase[p] \in {"Pending", "Running", "Succeeded", "Failed"}
Live(p) == phase[p] \in {"Pending", "Running"}

\* A pod that was given a name shares it with the other requests for that name;
\* the API server appends a fresh suffix to a generateName.
SameName(p, q) ==
    \/ p = q
    \/ p \notin Generated /\ q \notin Generated /\ ObjName[p] = ObjName[q]

\* Delete by (namespace, name): the pod of that name now, whatever its UUID.  A
\* pod that still runs is only marked; the kubelet removes it later.
DeletePodNamed(p) ==
    /\ deleting' = [q \in Pods |-> deleting[q] \/ (Live(q) /\ SameName(p, q))]
    /\ phase' = [q \in Pods |->
                    IF Exists(q) /\ ~Live(q) /\ SameName(p, q)
                    THEN "deleted" ELSE phase[q]]
    /\ UNCHANGED env

-----------------------------------------------------------------------------
(* Config-maps: the five calls of internal/config_map.                     *)

\* The object built by createConfigMap and by the sbatch handler.
FreshCM(p) == [uuid |-> p, jobid |-> ToBeSet, env |-> NoJob, readers |-> {}]

\* Create, and Update of an object without resourceVersion: overwrites.
PutCM(n, cm) == cms' = [cms EXCEPT ![n] = cm]

\* Get by goroutine r: its copy is current until somebody writes.
FetchCM(n, r) == cms' = [cms EXCEPT ![n].readers = @ \cup {r}]

\* Update of the copy goroutine r fetched succeeds unless it is out of date.
Current(n, r) == cms[n] # NoCM /\ r \in cms[n].readers

\* Delete by (namespace, name), whatever the UUID; a missing name is an error.
DeleteCM(n) == cms' = [cms EXCEPT ![n] = NoCM]

-----------------------------------------------------------------------------
(* Slurm: sbatch, scancel, squeue, and what the controller does by itself. *)

Active(j) == jobState[j] \in {"PENDING", "RUNNING"}

\* sbatch --job-name=<UUID>-... : the controller numbers jobs in order.
QueueJob(p, j) ==
    /\ jobState[j] = "unused"
    /\ \A i \in JobIds : i < j => jobState[i] # "unused"
    /\ jobState' = [jobState EXCEPT ![j] = "PENDING"]
    /\ owner' = [owner EXCEPT ![j] = p]

\* scancel <jobid>
SCancel(j) ==
    /\ jobState' = [jobState EXCEPT ![j] = IF Active(j) THEN "CANCELLED" ELSE @]
    /\ UNCHANGED owner

\* Mutants of ListUUIDsAndJobIDs: squeue -t RUNNING, and sacct for squeue.
ListsOnlyRunning == {j \in JobIds : jobState[j] = "RUNNING"}
ListsEndedToo == {j \in JobIds : jobState[j] # "unused"}

\* squeue -o "%32j:::sep:::%i", parsed by ListUUIDsAndJobIDs.
ListUUIDsAndJobIDs == {j \in JobIds : Active(j)}

JobStarts(j) ==
    /\ jobState[j] = "PENDING"
    /\ jobState' = [jobState EXCEPT ![j] = "RUNNING"]
    /\ UNCHANGED <<podVars, cms, owner>>

JobEnds(j) ==
    /\ "jobend" \in Faults
    /\ Active(j)
    /\ \E s \in {"CANCELLED", "ENDED"} : jobState' = [jobState EXCEPT ![j] = s]
    /\ UNCHANGED <<podVars, cms, owner>>

-----------------------------------------------------------------------------
(* Users, controllers and the workload itself.                             *)

UserDeletesPod(p) ==
    /\ "delete" \in Faults
    /\ Exists(p) /\ ~deleting[p]
    /\ DeletePodNamed(p)
    /\ UNCHANGED <<cms, jobVars>>

WorkloadExits(p) ==
    /\ phase[p] = "Running" /\ ~deleting[p]
    /\ \E s \in {"Succeeded", "Failed"} : phase' = [phase EXCEPT ![p] = s]
    /\ UNCHANGED <<deleting, env, cms, jobVars>>

ClusterNext ==
    \/ \E j \in JobIds : JobStarts(j) \/ JobEnds(j)
    \/ \E p \in Pods : UserDeletesPod(p) \/ WorkloadExits(p)
=============================================================================
