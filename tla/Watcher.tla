------------------------------- MODULE Watcher -------------------------------
(***************************************************************************)
(* The watcher (internal/watcher): every ten seconds, one goroutine lists  *)
(* the Slurm queue, then the pods, then the config-maps, and removes what  *)
(* it finds on one side only.  Every list and every delete is a call of    *)
(* its own, so what it acts on is a snapshot of three different instants.  *)
(***************************************************************************)
EXTENDS InitContainers

CONSTANT Annotated  \* pods whose creator set annotation k8s-slurm-injector/jobid

ASSUME WatcherAssumption == Annotated \subseteq Pods

VARIABLE w  \* the watcher's goroutine

WatcherSteps == {"idle", "pods", "cms", "sweep", "cancel", "evict",
                 "evictPod", "evictList", "evictCm"}

WatcherStates ==
    [step: WatcherSteps,
     jobs: SUBSET JobIds,           \* jobStatesOnSlurm
     pods: SUBSET Pods,             \* pods listed and not finished
     strays: SUBSET Pods,           \* pods to delete: no config-map
     stale: SUBSET Names,           \* config-maps to delete: no pod
     cancel: SUBSET JobIds,         \* jobs only on Slurm
     evict: SUBSET Pods,            \* UUIDs only on Kubernetes
     target: Pods \cup {NoPod}]     \* the UUID being evicted

WatcherTypeOK == w \in WatcherStates

WatcherIdle == [step |-> "idle", jobs |-> {}, pods |-> {}, strays |-> {}, stale |-> {},
                cancel |-> {}, evict |-> {}, target |-> NoPod]

WatcherInit == w = WatcherIdle

\* fetchJobStateOnSlurm; on an error the routine returns.
FetchesJobsOnSlurm ==
    /\ up /\ w.step = "idle"
    /\ w' = [w EXCEPT !.step = "pods", !.jobs = ListUUIDsAndJobIDs]
    /\ UNCHANGED <<clusterVars, wh, req, up, initVars>>

\* Pods List with label status=injected, finished pods skipped.
ListsPods ==
    /\ w.step = "pods"
    /\ \/ w' = [w EXCEPT !.step = "cms", !.pods = {p \in Pods : Live(p)}]
       \/ "blind" \in Faults /\ w' = WatcherIdle
    /\ UNCHANGED <<clusterVars, wh, req, up, initVars>>

Listed == {n \in Names : cms[n] # NoCM}

\* jobStatesOnKubernetes: config-maps with a listed pod or still "to-be-set".
OnKubernetes == {n \in Listed : cms[n].uuid \in w.pods \/ cms[n].jobid = ToBeSet}

\* Mutant: matches config-maps by object name.
NamesOnKubernetes == {p \in Pods : ObjName[p] \in OnKubernetes}

UUIDsOnKubernetes == {cms[n].uuid : n \in OnKubernetes}
UUIDsOnSlurm == {owner[j] : j \in w.jobs}

\* Mutant: takes any config-map of the pod's name for its own.
StraysByName == {p \in w.pods \cap Annotated : ObjName[p] \notin Listed}

\* Pods without a config-map, which count only with the annotation jobid:
\* mutateObject does not set it.
Strays == {p \in w.pods \cap Annotated : \A n \in Listed : cms[n].uuid # p}

\* Mutant: reads the queue after Kubernetes.
OnlyOnSlurmNow == {j \in ListUUIDsAndJobIDs : owner[j] \notin UUIDsOnKubernetes}

\* The two comparisons of routine.
OnlyOnSlurm == {j \in w.jobs : owner[j] \notin UUIDsOnKubernetes}

\* Mutant: without the test for "to-be-set".
OnlyOnKubernetesOrInitializing == UUIDsOnKubernetes \ UUIDsOnSlurm

OnlyOnKubernetes ==
    {cms[n].uuid : n \in {m \in OnKubernetes : cms[m].jobid # ToBeSet}} \ UUIDsOnSlurm

\* ConfigMaps List, and from the three snapshots everything the routine will do.
ListsConfigMaps ==
    /\ w.step = "cms"
    /\ \/ w' = [WatcherIdle EXCEPT !.step = "sweep", !.strays = Strays,
                     !.stale = Listed \ OnKubernetes,
                     !.cancel = OnlyOnSlurm, !.evict = OnlyOnKubernetes]
       \/ "blind" \in Faults /\ w' = WatcherIdle
    /\ UNCHANGED <<clusterVars, wh, req, up, initVars>>

\* The two loops of fetchJobStateOnKubernetes; errors are only logged.
SweepsPod ==
    /\ w.step = "sweep"
    /\ \E p \in w.strays :
         /\ w' = [w EXCEPT !.strays = @ \ {p}]
         /\ DeletePodNamed(p) \/ ("blind" \in Faults /\ UNCHANGED podVars)
    /\ UNCHANGED <<cms, jobVars, up, wh, req, initVars>>

SweepsConfigMap ==
    /\ w.step = "sweep" /\ w.strays = {}
    /\ \E n \in w.stale :
         /\ w' = [w EXCEPT !.stale = @ \ {n}]
         /\ DeleteCM(n) \/ ("blind" \in Faults /\ UNCHANGED cms)
    /\ UNCHANGED <<podVars, jobVars, up, wh, req, initVars>>

SweepEnds ==
    /\ w.step = "sweep" /\ w.strays = {} /\ w.stale = {}
    /\ w' = [w EXCEPT !.step = "cancel"]
    /\ UNCHANGED <<clusterVars, up, wh, req, initVars>>

\* "In case the job only exists on slurm"; errors are only logged.
CancelsJob ==
    /\ w.step = "cancel"
    /\ \E j \in w.cancel :
         /\ w' = [w EXCEPT !.cancel = @ \ {j}]
         /\ SCancel(j) \/ ("ssh" \in Faults /\ UNCHANGED jobVars)
    /\ UNCHANGED <<podVars, cms, up, wh, req, initVars>>

CancelEnds ==
    /\ w.step = "cancel" /\ w.cancel = {}
    /\ w' = [w EXCEPT !.step = "evict"]
    /\ UNCHANGED <<clusterVars, up, wh, req, initVars>>

\* deleteKubernetesResourcesOfUUID: lists the pods of the UUID, finished ones
\* included, deletes them by name, lists the config-maps, deletes them by name;
\* any error or an empty list abandons this UUID.
NextUUID(u) == [w EXCEPT !.step = "evict", !.evict = @ \ {u}, !.target = NoPod]

EvictionBegins ==
    /\ w.step = "evict"
    /\ \E u \in w.evict :
         \/ Exists(u) /\ w' = [w EXCEPT !.step = "evictPod", !.target = u]
         \/ (~Exists(u) \/ "blind" \in Faults) /\ w' = NextUUID(u)
    /\ UNCHANGED <<clusterVars, up, wh, req, initVars>>

EvictsPod ==
    /\ w.step = "evictPod"
    /\ LET gone == \A q \in Pods : ~(SameName(w.target, q) /\ Exists(q))
       IN  \/ ~gone /\ DeletePodNamed(w.target) /\ w' = [w EXCEPT !.step = "evictList"]
           \/ (gone \/ "blind" \in Faults) /\ UNCHANGED podVars /\ w' = NextUUID(w.target)
    /\ UNCHANGED <<cms, jobVars, up, wh, req, initVars>>

EvictionListsConfigMap ==
    /\ w.step = "evictList"
    /\ LET found == \E n \in Listed : cms[n].uuid = w.target
       IN  \/ found /\ w' = [w EXCEPT !.step = "evictCm"]
           \/ (~found \/ "blind" \in Faults) /\ w' = NextUUID(w.target)
    /\ UNCHANGED <<clusterVars, up, wh, req, initVars>>

EvictsConfigMap ==
    /\ w.step = "evictCm"
    /\ DeleteCM(ObjName[w.target]) \/ ("blind" \in Faults /\ UNCHANGED cms)
    /\ w' = NextUUID(w.target)
    /\ UNCHANGED <<podVars, jobVars, up, wh, req, initVars>>

RoutineEnds ==
    /\ w.step = "evict" /\ w.evict = {}
    /\ w' = WatcherIdle
    /\ UNCHANGED <<clusterVars, up, wh, req, initVars>>

WatcherNext ==
    \/ FetchesJobsOnSlurm \/ ListsPods \/ ListsConfigMaps
    \/ SweepsPod \/ SweepsConfigMap \/ SweepEnds
    \/ CancelsJob \/ CancelEnds
    \/ EvictionBegins \/ EvictsPod \/ EvictionListsConfigMap \/ EvictsConfigMap
    \/ RoutineEnds
=============================================================================
