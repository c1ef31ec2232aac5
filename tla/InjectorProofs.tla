---------------------------- MODULE InjectorProofs ----------------------------
(***************************************************************************)
(* Machine-checked proofs, for every set of pods, names and goroutines,    *)
(* every number of jobs and crashes and every set of faults.               *)
(***************************************************************************)
EXTENDS InjectorProperties, TLAPS

USE DEF JobIds, NoJob, ToBeSet, NotSlurm

-----------------------------------------------------------------------------
(* Type correctness.                                                       *)

\* What the calls on config-maps do to their type: the object both writers build.
LEMMA FreshCMType ==
    ASSUME NEW p \in Pods
    PROVE  FreshCM(p) \in ConfigMaps
BY DEF FreshCM, ConfigMaps

\* Create and Update store a config-map under an existing name.
LEMMA PutCMType ==
    ASSUME cms \in [Names -> ConfigMaps \cup {NoCM}],
           NEW n, NEW cm \in ConfigMaps \cup {NoCM}, PutCM(n, cm)
    PROVE  cms' \in [Names -> ConfigMaps \cup {NoCM}]
BY DEF PutCM

\* Get only adds a reader.
LEMMA FetchCMType ==
    ASSUME cms \in [Names -> ConfigMaps \cup {NoCM}],
           NEW n \in Names, NEW r \in Reqs, cms[n] # NoCM, FetchCM(n, r)
    PROVE  cms' \in [Names -> ConfigMaps \cup {NoCM}]
BY DEF FetchCM, ConfigMaps

\* Delete leaves no config-map under the name.
LEMMA DeleteCMType ==
    ASSUME cms \in [Names -> ConfigMaps \cup {NoCM}], NEW n, DeleteCM(n)
    PROVE  cms' \in [Names -> ConfigMaps \cup {NoCM}]
BY DEF DeleteCM

\* Deleting pods by name keeps phases and marks in their types.
LEMMA DeletePodNamedType ==
    ASSUME ClusterTypeOK, NEW p, DeletePodNamed(p)
    PROVE  /\ phase' \in [Pods -> PodPhases]
           /\ deleting' \in [Pods -> BOOLEAN]
           /\ env' \in [Pods -> JobIds \cup {NoJob}]
BY DEF ClusterTypeOK, DeletePodNamed, PodPhases, Live, Exists, SameName

\* scancel keeps the job table in its type.
LEMMA SCancelType ==
    ASSUME ClusterTypeOK, NEW j, SCancel(j)
    PROVE  /\ jobState' \in [JobIds -> JobStates]
           /\ owner' \in [JobIds -> Pods \cup {NoPod}]
BY DEF ClusterTypeOK, SCancel, JobStates

\* sbatch keeps the job table in its type.
LEMMA QueueJobType ==
    ASSUME ClusterTypeOK, NEW p \in Pods, NEW j \in JobIds, QueueJob(p, j)
    PROVE  /\ jobState' \in [JobIds -> JobStates]
           /\ owner' \in [JobIds -> Pods \cup {NoPod}]
BY DEF ClusterTypeOK, QueueJob, JobStates

\* A served request is a request.
LEMMA ServeType ==
    ASSUME EndpointsTypeOK, NEW r \in Reqs, NEW step \in {"get", "srun"}, NEW p \in Pods,
           NEW j \in JobIds \cup {NoJob}, Serve(r, step, p, j)
    PROVE  EndpointsTypeOK'
BY DEF EndpointsTypeOK, Serve, Requests, ReqSteps, SbatchSteps, EnvSteps

\* A goroutine that goes on keeps its request.
LEMMA GotoType ==
    ASSUME EndpointsTypeOK, NEW r \in Reqs, NEW step \in ReqSteps, Goto(r, step)
    PROVE  EndpointsTypeOK'
BY DEF EndpointsTypeOK, Goto, Requests

\* The record of an idle goroutine is a request.
LEMMA IdleType == Idle \in Requests
BY DEF Idle, Requests, ReqSteps

\* An answer, or the end of a goroutine nobody waits for, is a request.
LEMMA ReplyType ==
    ASSUME EndpointsTypeOK, NEW r \in Reqs, NEW outcome \in {"answered", "refused"},
           NEW j \in JobIds \cup {NoJob}, Reply(r, outcome, j)
    PROVE  EndpointsTypeOK'
BY IdleType DEF EndpointsTypeOK, Reply, Requests, ReqSteps

\* A client that dies leaves requests behind.
LEMMA DisconnectedType ==
    ASSUME EndpointsTypeOK, NEW p \in Pods, req' = Disconnected(p)
    PROVE  EndpointsTypeOK'
BY IdleType DEF EndpointsTypeOK, Disconnected, Requests, ReqSteps

\* One lemma per component: its steps keep every variable in its type.  The cluster.
LEMMA ClusterStepType ==
    ASSUME TypeOK, ClusterNext, UNCHANGED <<up, wh, req, initVars, w, crashes, told>>
    PROVE  TypeOK'
<1> USE DEF TypeOK
<1>1. ClusterTypeOK'
  <2>1. ASSUME NEW j \in JobIds, JobStarts(j) PROVE ClusterTypeOK'
    BY <2>1 DEF JobStarts, podVars, ClusterTypeOK, JobStates
  <2>2. ASSUME NEW j \in JobIds, JobEnds(j) PROVE ClusterTypeOK'
    BY <2>2 DEF JobEnds, podVars, ClusterTypeOK, JobStates
  <2>3. ASSUME NEW p \in Pods, UserDeletesPod(p) PROVE ClusterTypeOK'
    BY <2>3, DeletePodNamedType DEF UserDeletesPod, jobVars, ClusterTypeOK
  <2>4. ASSUME NEW p \in Pods, WorkloadExits(p) PROVE ClusterTypeOK'
    BY <2>4 DEF WorkloadExits, jobVars, ClusterTypeOK, PodPhases
  <2> QED BY <2>1, <2>2, <2>3, <2>4 DEF ClusterNext
<1> QED BY <1>1 DEF WebhookTypeOK, EndpointsTypeOK, InitContainersTypeOK, WatcherTypeOK, initVars

\* The admission webhook's steps keep the types.
LEMMA WebhookStepType ==
    ASSUME TypeOK, WebhookNext, UNCHANGED <<req, initVars, w, crashes, told>>
    PROVE  TypeOK'
<1> USE DEF TypeOK
<1>1. PICK p \in Pods : Inject(p) \/ InjectGetsConfigMap(p) \/ InjectWritesConfigMap(p) \/ PodCreated(p)
  BY DEF WebhookNext
<1>2. ClusterTypeOK' /\ WebhookTypeOK'
  <2>1. CASE Inject(p)
    BY <2>1 DEF Inject, clusterVars, ClusterTypeOK, WebhookTypeOK, WebhookStates
  <2>2. CASE InjectGetsConfigMap(p)
    BY <2>2 DEF InjectGetsConfigMap, clusterVars, ClusterTypeOK, WebhookTypeOK, WebhookStates
  <2>3. CASE InjectWritesConfigMap(p)
    <3>1. cms' \in [Names -> ConfigMaps \cup {NoCM}]
      BY <2>3, FreshCMType, PutCMType DEF InjectWritesConfigMap, ClusterTypeOK
    <3> QED
      BY <2>3, <3>1
      DEF InjectWritesConfigMap, podVars, jobVars, ClusterTypeOK, WebhookTypeOK, WebhookStates
  <2>4. CASE PodCreated(p)
    BY <2>4 DEF PodCreated, jobVars, ClusterTypeOK, PodPhases, WebhookTypeOK, WebhookStates
  <2> QED BY <1>1, <2>1, <2>2, <2>3, <2>4
<1> QED BY <1>2 DEF EndpointsTypeOK, InitContainersTypeOK, WatcherTypeOK, initVars

\* A goroutine that serves a pod works on an existing name.
LEMMA NameOfType ==
    ASSUME NEW r \in Reqs, req[r].pod \in Pods
    PROVE  NameOf(r) \in Names
BY ClusterAssumption DEF NameOf

\* The endpoints' steps keep the types.
LEMMA EndpointsStepType ==
    ASSUME TypeOK, RequestsOwnJob, EndpointsNext, Remembers,
           UNCHANGED <<initVars, w, crashes>>
    PROVE  TypeOK'
<1> USE DEF TypeOK
<1>1. PICK r \in Reqs :
        \/ SbatchGetsConfigMap(r) \/ SbatchWritesConfigMap(r) \/ SbatchSubmits(r)
        \/ SbatchRefetches(r) \/ SbatchBinds(r) \/ SbatchDeletesConfigMap(r)
        \/ EnvRuns(r) \/ EnvFetches(r) \/ EnvStores(r)
  BY DEF EndpointsNext
<1>2. req[r] \in Requests /\ req[r].job \in JobIds \cup {NoJob}
  BY DEF EndpointsTypeOK, Requests
<1>3. \A s \in SbatchSteps \cup EnvSteps :
         s \in ReqSteps /\ (req[r].step = s => req[r].pod \in Pods /\ NameOf(r) \in Names)
  BY NameOfType DEF RequestsOwnJob, ReqSteps, SbatchSteps, EnvSteps
<1>4. ClusterTypeOK' /\ EndpointsTypeOK' /\ UNCHANGED <<up, wh>>
  <2> USE DEF SbatchSteps, EnvSteps
  <2>1. CASE SbatchGetsConfigMap(r)
    BY <2>1, <1>3, GotoType, ReplyType DEF SbatchGetsConfigMap, clusterVars, ClusterTypeOK
  <2>2. CASE SbatchWritesConfigMap(r)
    <3>1. cms' \in [Names -> ConfigMaps \cup {NoCM}]
      BY <2>2, <1>3, FreshCMType, PutCMType DEF SbatchWritesConfigMap, ClusterTypeOK
    <3>2. EndpointsTypeOK'
      BY <2>2, <1>3, GotoType, ReplyType DEF SbatchWritesConfigMap
    <3> QED BY <2>2, <3>1, <3>2 DEF SbatchWritesConfigMap, podVars, jobVars, ClusterTypeOK
  <2>3. CASE SbatchSubmits(r)
    <3>1. EndpointsTypeOK'
      <4>1. ASSUME NEW j \in JobIds, req' = [req EXCEPT ![r].step = "reget", ![r].job = j]
            PROVE  EndpointsTypeOK'
        BY <4>1 DEF EndpointsTypeOK, Requests, ReqSteps
      <4> QED BY <2>3, <1>3, <4>1, GotoType DEF SbatchSubmits, SbatchFailed
    <3>2. jobState' \in [JobIds -> JobStates] /\ owner' \in [JobIds -> Pods \cup {NoPod}]
      BY <2>3, <1>3, QueueJobType DEF SbatchSubmits, jobVars, ClusterTypeOK
    <3> QED BY <2>3, <3>1, <3>2 DEF SbatchSubmits, podVars, ClusterTypeOK
  <2>4. CASE SbatchRefetches(r)
    <3>1. cms' \in [Names -> ConfigMaps \cup {NoCM}]
      BY <2>4, <1>3, FetchCMType DEF SbatchRefetches, ClusterTypeOK
    <3>2. EndpointsTypeOK'
      BY <2>4, <1>2, <1>3, GotoType, ReplyType DEF SbatchRefetches
    <3> QED BY <2>4, <3>1, <3>2 DEF SbatchRefetches, podVars, jobVars, ClusterTypeOK
  <2>5. CASE SbatchBinds(r)
    <3>1. cms' \in [Names -> ConfigMaps \cup {NoCM}]
      <4>1. cms[NameOf(r)] # NoCM =>
              [cms[NameOf(r)] EXCEPT !.jobid = req[r].job, !.readers = {}] \in ConfigMaps
        BY <2>5, <1>2, <1>3 DEF SbatchBinds, ClusterTypeOK, ConfigMaps
      <4> QED BY <2>5, <4>1, PutCMType DEF SbatchBinds, Current, ClusterTypeOK
    <3>2. EndpointsTypeOK'
      BY <2>5, <1>2, ReplyType DEF SbatchBinds
    <3> QED BY <2>5, <3>1, <3>2 DEF SbatchBinds, podVars, jobVars, ClusterTypeOK
  <2>6. CASE SbatchDeletesConfigMap(r)
    BY <2>6, DeleteCMType, ReplyType DEF SbatchDeletesConfigMap, podVars, jobVars, ClusterTypeOK
  <2>7. CASE EnvRuns(r)
    BY <2>7, <1>3, GotoType, ReplyType DEF EnvRuns, clusterVars, ClusterTypeOK
  <2>8. CASE EnvFetches(r)
    <3>1. cms' \in [Names -> ConfigMaps \cup {NoCM}]
      BY <2>8, <1>3, FetchCMType DEF EnvFetches, ClusterTypeOK
    <3>2. EndpointsTypeOK'
      BY <2>8, <1>3, GotoType, ReplyType DEF EnvFetches
    <3> QED BY <2>8, <3>1, <3>2 DEF EnvFetches, podVars, jobVars, ClusterTypeOK
  <2>9. CASE EnvStores(r)
    <3>1. cms' \in [Names -> ConfigMaps \cup {NoCM}]
      <4>1. cms[NameOf(r)] # NoCM =>
              [cms[NameOf(r)] EXCEPT !.jobid = req[r].job, !.env = req[r].job, !.readers = {}]
                \in ConfigMaps
        BY <2>9, <1>2, <1>3 DEF EnvStores, ClusterTypeOK, ConfigMaps
      <4> QED BY <2>9, <4>1, PutCMType DEF EnvStores, Current, ClusterTypeOK
    <3>2. EndpointsTypeOK'
      BY <2>9, <1>2, ReplyType DEF EnvStores
    <3> QED BY <2>9, <3>1, <3>2 DEF EnvStores, podVars, jobVars, ClusterTypeOK
  <2> QED BY <1>1, <2>1, <2>2, <2>3, <2>4, <2>5, <2>6, <2>7, <2>8, <2>9
<1>5. told' \subseteq Pods
  BY DEF Remembers
<1> QED BY <1>4, <1>5 DEF WebhookTypeOK, InitContainersTypeOK, WatcherTypeOK, initVars

\* The init containers' and the kubelet's steps keep the types.
LEMMA InitContainersStepType ==
    ASSUME TypeOK, InitContainersNext, UNCHANGED <<w, crashes, told>>
    PROVE  TypeOK'
<1> USE DEF TypeOK
<1>1. PICK p \in Pods :
        \/ FirstContainerStarts(p) \/ AsksIsInjectable(p) \/ CallsSbatch(p)
        \/ SbatchAnswered(p) \/ Polls(p) \/ CallsEnvToConfigMap(p) \/ EnvAnswered(p)
        \/ RollsBack(p) \/ KubeletHandlesFailure(p) \/ ContainersStart(p)
        \/ ContainersRestart(p) \/ InitContainerKilled(p) \/ KubeletRemoves(p)
  BY DEF InitContainersNext
<1>2. ASSUME NEW from, NEW to \in InitSteps, Step(p, from, to)
      PROVE  ic' \in [Pods -> InitSteps]
  BY <1>2 DEF Step, InitContainersTypeOK
<1>3. ASSUME NEW r \in Reqs, req' = [req EXCEPT ![r] = Idle]
      PROVE  EndpointsTypeOK'
  BY <1>3, IdleType DEF EndpointsTypeOK
<1>4. ClusterTypeOK' /\ EndpointsTypeOK' /\ InitContainersTypeOK' /\ UNCHANGED <<up, wh>>
  <2> USE DEF InitSteps, InitContainersTypeOK
  <2>1. CASE FirstContainerStarts(p)
    BY <2>1, <1>2 DEF FirstContainerStarts, clusterVars, ClusterTypeOK, EndpointsTypeOK
  <2>2. CASE AsksIsInjectable(p)
    BY <2>2, <1>2 DEF AsksIsInjectable, clusterVars, ClusterTypeOK, EndpointsTypeOK
  <2>3. CASE CallsSbatch(p)
    <3>1. EndpointsTypeOK'
      BY <2>3, ServeType DEF CallsSbatch, EndpointsTypeOK
    <3> QED BY <2>3, <3>1, <1>2 DEF CallsSbatch, clusterVars, ClusterTypeOK
  <2>4. CASE SbatchAnswered(p)
    <3>1. file' \in [Pods -> JobIds \cup {NoJob, NotSlurm}]
      BY <2>4 DEF SbatchAnswered, EndpointsTypeOK, Requests
    <3> QED BY <2>4, <3>1, <1>2, <1>3 DEF SbatchAnswered, clusterVars, ClusterTypeOK
  <2>5. CASE Polls(p)
    BY <2>5, <1>2 DEF Polls, clusterVars, ClusterTypeOK, EndpointsTypeOK
  <2>6. CASE CallsEnvToConfigMap(p)
    <3>1. EndpointsTypeOK'
      BY <2>6, ServeType DEF CallsEnvToConfigMap, EndpointsTypeOK
    <3> QED BY <2>6, <3>1, <1>2 DEF CallsEnvToConfigMap, clusterVars, ClusterTypeOK
  <2>7. CASE EnvAnswered(p)
    BY <2>7, <1>2, <1>3 DEF EnvAnswered, clusterVars, ClusterTypeOK
  <2>8. CASE RollsBack(p)
    BY <2>8, <1>2, SCancelType DEF RollsBack, podVars, jobVars, ClusterTypeOK, EndpointsTypeOK
  <2>9. CASE KubeletHandlesFailure(p)
    BY <2>9 DEF KubeletHandlesFailure, jobVars, ClusterTypeOK, PodPhases, EndpointsTypeOK
  <2>10. CASE ContainersStart(p) \/ ContainersRestart(p)
    <3>1. env' \in [Pods -> JobIds \cup {NoJob}]
      BY <2>10, ClusterAssumption
      DEF ContainersStart, ContainersRestart, EnvFrom, ClusterTypeOK, ConfigMaps
    <3> QED
      BY <2>10, <3>1
      DEF ContainersStart, ContainersRestart, jobVars, initVars, ClusterTypeOK, PodPhases,
          EndpointsTypeOK
  <2>11. CASE InitContainerKilled(p)
    BY <2>11, DisconnectedType DEF InitContainerKilled, clusterVars, ClusterTypeOK
  <2>12. CASE KubeletRemoves(p)
    <3>1. jobState' \in [JobIds -> JobStates] /\ owner' \in [JobIds -> Pods \cup {NoPod}]
      BY <2>12, SCancelType DEF KubeletRemoves, jobVars, ClusterTypeOK
    <3> QED
      BY <2>12, <3>1, DisconnectedType DEF KubeletRemoves, initVars, ClusterTypeOK, PodPhases
  <2> QED
    BY <1>1, <2>1, <2>2, <2>3, <2>4, <2>5, <2>6, <2>7, <2>8, <2>9, <2>10, <2>11, <2>12
<1> QED BY <1>4 DEF WebhookTypeOK, WatcherTypeOK

\* Leaving a UUID behind is a state of the watcher.
LEMMA NextUUIDType ==
    ASSUME WatcherTypeOK, NEW u
    PROVE  NextUUID(u) \in WatcherStates
BY DEF WatcherTypeOK, NextUUID, WatcherStates, WatcherSteps

\* What ListsConfigMaps works out from its three snapshots.
LEMMA SnapshotsType ==
    ASSUME ClusterTypeOK, WatcherTypeOK
    PROVE  /\ Strays \subseteq Pods
           /\ Listed \ OnKubernetes \subseteq Names
           /\ OnlyOnSlurm \subseteq JobIds
           /\ OnlyOnKubernetes \subseteq Pods
BY DEF ClusterTypeOK, ConfigMaps, WatcherTypeOK, WatcherStates, Strays, Listed, OnKubernetes,
       OnlyOnSlurm, OnlyOnKubernetes

\* The watcher's steps keep the types.
LEMMA WatcherStepType ==
    ASSUME TypeOK, WatcherNext, UNCHANGED <<crashes, told>>
    PROVE  TypeOK'
<1> USE DEF TypeOK
<1>1. WatcherIdle \in WatcherStates
  BY DEF WatcherIdle, WatcherStates, WatcherSteps
<1>2. ClusterTypeOK' /\ WatcherTypeOK' /\ UNCHANGED <<up, wh, req, ic, file>>
  <2> USE DEF WatcherTypeOK, WatcherSteps, initVars
  <2>1. CASE FetchesJobsOnSlurm
    BY <2>1 DEF FetchesJobsOnSlurm, ListUUIDsAndJobIDs, WatcherStates, clusterVars, ClusterTypeOK
  <2>2. CASE ListsPods
    <3>1. w' \in WatcherStates
      BY <2>2, <1>1 DEF ListsPods, WatcherStates
    <3> QED BY <2>2, <3>1 DEF ListsPods, clusterVars, ClusterTypeOK
  <2>3. CASE ListsConfigMaps
    <3>1. w' \in WatcherStates
      BY <2>3, <1>1, SnapshotsType DEF ListsConfigMaps, WatcherStates
    <3> QED BY <2>3, <3>1 DEF ListsConfigMaps, clusterVars, ClusterTypeOK
  <2>4. CASE SweepsPod
    <3>1. w' \in WatcherStates
      BY <2>4 DEF SweepsPod, WatcherStates
    <3> QED BY <2>4, <3>1, DeletePodNamedType DEF SweepsPod, podVars, jobVars, ClusterTypeOK
  <2>5. CASE SweepsConfigMap
    <3>1. w' \in WatcherStates
      BY <2>5 DEF SweepsConfigMap, WatcherStates
    <3> QED BY <2>5, <3>1, DeleteCMType DEF SweepsConfigMap, podVars, jobVars, ClusterTypeOK
  <2>6. CASE SweepEnds
    BY <2>6 DEF SweepEnds, WatcherStates, clusterVars, ClusterTypeOK
  <2>7. CASE CancelsJob
    <3>1. w' \in WatcherStates
      BY <2>7 DEF CancelsJob, WatcherStates
    <3> QED BY <2>7, <3>1, SCancelType DEF CancelsJob, podVars, jobVars, ClusterTypeOK
  <2>8. CASE CancelEnds
    BY <2>8 DEF CancelEnds, WatcherStates, clusterVars, ClusterTypeOK
  <2>9. CASE EvictionBegins
    <3>1. w' \in WatcherStates
      BY <2>9, NextUUIDType DEF EvictionBegins, WatcherStates
    <3> QED BY <2>9, <3>1 DEF EvictionBegins, clusterVars, ClusterTypeOK
  <2>10. CASE EvictsPod
    <3>1. w' \in WatcherStates
      BY <2>10, NextUUIDType DEF EvictsPod, WatcherStates
    <3> QED
      BY <2>10, <3>1, DeletePodNamedType DEF EvictsPod, podVars, jobVars, ClusterTypeOK
  <2>11. CASE EvictionListsConfigMap
    <3>1. w' \in WatcherStates
      BY <2>11, NextUUIDType DEF EvictionListsConfigMap, WatcherStates
    <3> QED BY <2>11, <3>1 DEF EvictionListsConfigMap, clusterVars, ClusterTypeOK
  <2>12. CASE EvictsConfigMap
    BY <2>12, NextUUIDType, DeleteCMType
    DEF EvictsConfigMap, podVars, jobVars, ClusterTypeOK
  <2>13. CASE RoutineEnds
    BY <2>13, <1>1 DEF RoutineEnds, clusterVars, ClusterTypeOK
  <2> QED
    BY <2>1, <2>2, <2>3, <2>4, <2>5, <2>6, <2>7, <2>8, <2>9, <2>10, <2>11, <2>12, <2>13
    DEF WatcherNext
<1> QED BY <1>2 DEF WebhookTypeOK, EndpointsTypeOK, InitContainersTypeOK

-----------------------------------------------------------------------------
(* The inductive invariant.  All of it is about who submitted a job, which *)
(* never changes once a number is given out, and of whom was told of one,  *)
(* which only grows: a step keeps every part whose own variables it leaves *)
(* alone.                                                                  *)

OwnersKept ==
    /\ \A j \in JobIds : owner[j] # NoPod => owner'[j] = owner[j]
    /\ told \subseteq told'

\* A step that leaves the job table alone keeps the owners and the fresh numbers.
LEMMA JobsUnchanged ==
    ASSUME FreshNumbers, UNCHANGED jobVars, told \subseteq told'
    PROVE  OwnersKept /\ FreshNumbers'
BY DEF FreshNumbers, jobVars, OwnersKept

\* So does scancel.
LEMMA SCancelKeepsOwners ==
    ASSUME ClusterTypeOK, FreshNumbers, NEW j, SCancel(j), told \subseteq told'
    PROVE  OwnersKept /\ FreshNumbers'
BY DEF ClusterTypeOK, FreshNumbers, SCancel, Active, OwnersKept

\* sbatch gives an owner to a number that had none.
LEMMA QueueJobKeepsOwners ==
    ASSUME ClusterTypeOK, FreshNumbers, NEW p \in Pods, NEW j \in JobIds, QueueJob(p, j),
           told \subseteq told'
    PROVE  OwnersKept /\ FreshNumbers' /\ owner'[j] = p
BY DEF ClusterTypeOK, FreshNumbers, QueueJob, OwnersKept

\* A job submitted for a name stays so.
LEMMA SubmittedForKept ==
    ASSUME OwnersKept, NEW j, NEW n, SubmittedFor(j, n)
    PROVE  SubmittedFor(j, n)'
BY ClusterAssumption DEF OwnersKept, SubmittedFor

\* A name whose request was told of a job stays so.
LEMMA ToldForKept ==
    ASSUME OwnersKept, NEW n, ToldFor(n)
    PROVE  ToldFor(n)'
BY DEF OwnersKept, ToldFor

\* What belongs to a name goes on belonging to it.
LEMMA BelongsToKept ==
    ASSUME OwnersKept, NEW cm, NEW n, BelongsTo(cm, n)
    PROVE  BelongsTo(cm, n)'
BY SubmittedForKept, ToldForKept DEF BelongsTo

\* ConfigMapsByName survives a step that leaves the config-maps alone.
LEMMA ConfigMapsFrame ==
    ASSUME ConfigMapsByName, OwnersKept, UNCHANGED cms
    PROVE  ConfigMapsByName'
BY BelongsToKept DEF ConfigMapsByName

\* RequestsOwnJob survives a step that leaves the goroutines alone.
LEMMA RequestsFrame ==
    ASSUME EndpointsTypeOK, RequestsOwnJob, OwnersKept, told \subseteq Pods, UNCHANGED req
    PROVE  RequestsOwnJob'
BY ClusterAssumption DEF EndpointsTypeOK, Requests, RequestsOwnJob, OwnersKept

\* FilesOwnJob survives a step that leaves the files alone.
LEMMA FilesFrame ==
    ASSUME FilesOwnJob, OwnersKept, UNCHANGED file
    PROVE  FilesOwnJob'
BY ClusterAssumption DEF FilesOwnJob, OwnersKept

\* EnvsByName survives a step that leaves the containers' variables alone.
LEMMA EnvsFrame ==
    ASSUME EnvsByName, OwnersKept, UNCHANGED env
    PROVE  EnvsByName'
BY SubmittedForKept DEF EnvsByName

\* Enough for every step of the watcher but the one that decides.
LEMMA EvictionsFrame ==
    ASSUME EvictionsByName, OwnersKept,
           w'.evict \subseteq w.evict, w'.target \in w.evict \cup {w.target, NoPod}
    PROVE  EvictionsByName'
<1>1. ASSUME NEW p \in w'.evict \cup ({w'.target} \ {NoPod})
      PROVE  ToldFor(ObjName[p])'
  <2>1. p \in w.evict \cup ({w.target} \ {NoPod})
    OBVIOUS
  <2>2. ToldFor(ObjName[p])
    BY <2>1 DEF EvictionsByName
  <2> QED BY <2>2, ToldForKept
<1> QED BY <1>1 DEF EvictionsByName

\* A write that puts what belongs to the name n under the name n.
LEMMA PutCMByName ==
    ASSUME ClusterTypeOK, ConfigMapsByName, OwnersKept,
           NEW n \in Names, NEW cm, BelongsTo(cm, n)', PutCM(n, cm)
    PROVE  ConfigMapsByName'
<1>1. ASSUME NEW m \in Names, cms'[m] # NoCM
      PROVE  BelongsTo(cms[m], m)'
  <2>1. CASE m = n
    BY <2>1 DEF PutCM, ClusterTypeOK
  <2>2. CASE m # n
    <3>1. cms'[m] = cms[m]
      BY <2>2 DEF PutCM, ClusterTypeOK
    <3> QED BY <1>1, <3>1, BelongsToKept DEF ConfigMapsByName
  <2> QED BY <2>1, <2>2
<1> QED BY <1>1 DEF ConfigMapsByName

\* Injection and sbatch put a fresh object, bound to no job, under its own name.
LEMMA FreshCMByName ==
    ASSUME ClusterTypeOK, ConfigMapsByName, OwnersKept,
           NEW p \in Pods, PutCM(ObjName[p], FreshCM(p))
    PROVE  ConfigMapsByName'
<1>1. BelongsTo(FreshCM(p), ObjName[p])'
  BY DEF FreshCM, BelongsTo
<1> QED BY <1>1, PutCMByName, ClusterAssumption DEF FreshCM

\* Deleting a config-map leaves the others as they are.
LEMMA DeleteCMByName ==
    ASSUME ClusterTypeOK, ConfigMapsByName, OwnersKept, NEW n, DeleteCM(n)
    PROVE  ConfigMapsByName'
<1>1. \A m \in Names : cms'[m] # NoCM => cms'[m] = cms[m]
  BY DEF DeleteCM, ClusterTypeOK
<1> QED BY <1>1, BelongsToKept DEF ConfigMapsByName

\* Fetching a config-map changes neither its UUID nor its jobs.
LEMMA FetchCMByName ==
    ASSUME ClusterTypeOK, ConfigMapsByName, OwnersKept,
           NEW n \in Names, NEW r \in Reqs, cms[n] # NoCM, FetchCM(n, r)
    PROVE  ConfigMapsByName'
<1>1. ASSUME NEW m \in Names, cms'[m] # NoCM
      PROVE  /\ cms[m] # NoCM
             /\ cms'[m].uuid = cms[m].uuid
             /\ cms'[m].jobid = cms[m].jobid
             /\ cms'[m].env = cms[m].env
  BY <1>1 DEF FetchCM, ClusterTypeOK, ConfigMaps
<1>2. ASSUME NEW m \in Names, cms'[m] # NoCM
      PROVE  BelongsTo(cms[m], m)'
  <2>1. BelongsTo(cms[m], m)
    BY <1>1, <1>2 DEF ConfigMapsByName
  <2> QED BY <1>1, <1>2, <2>1, SubmittedForKept, ToldForKept DEF BelongsTo
<1> QED BY <1>2 DEF ConfigMapsByName

\* Every part of IInv but the types, for the component lemmas.
Ownership ==
    /\ ConfigMapsByName
    /\ RequestsOwnJob
    /\ FilesOwnJob
    /\ EnvsByName
    /\ FreshNumbers
    /\ EvictionsByName

\* One lemma per component: its steps keep who owns what.  The cluster.
LEMMA ClusterStepOwnership ==
    ASSUME TypeOK, Ownership, ClusterNext, UNCHANGED <<up, wh, req, initVars, w, crashes, told>>
    PROVE  Ownership'
<1> USE DEF TypeOK, Ownership, initVars
<1> DEFINE Kept == OwnersKept /\ FreshNumbers' /\ UNCHANGED <<cms, env>>
<1>1. Kept
  <2>1. ASSUME NEW j \in JobIds, JobStarts(j) PROVE Kept
    BY <2>1 DEF JobStarts, podVars, ClusterTypeOK, FreshNumbers, OwnersKept
  <2>2. ASSUME NEW j \in JobIds, JobEnds(j) PROVE Kept
    BY <2>2 DEF JobEnds, podVars, ClusterTypeOK, Active, FreshNumbers, OwnersKept
  <2>3. ASSUME NEW p \in Pods, UserDeletesPod(p) PROVE Kept
    BY <2>3, JobsUnchanged DEF UserDeletesPod, DeletePodNamed
  <2>4. ASSUME NEW p \in Pods, WorkloadExits(p) PROVE Kept
    BY <2>4, JobsUnchanged DEF WorkloadExits
  <2> QED BY <2>1, <2>2, <2>3, <2>4 DEF ClusterNext
<1> QED
  BY <1>1, ConfigMapsFrame, RequestsFrame, FilesFrame, EnvsFrame, EvictionsFrame

\* The admission webhook writes fresh objects only.
LEMMA WebhookStepOwnership ==
    ASSUME TypeOK, Ownership, WebhookNext, UNCHANGED <<req, initVars, w, crashes, told>>
    PROVE  Ownership'
<1> USE DEF TypeOK, Ownership, initVars
<1>1. PICK p \in Pods : Inject(p) \/ InjectGetsConfigMap(p) \/ InjectWritesConfigMap(p) \/ PodCreated(p)
  BY DEF WebhookNext
<1>2. UNCHANGED <<jobVars, env>>
  BY <1>1 DEF Inject, InjectGetsConfigMap, InjectWritesConfigMap, PodCreated, clusterVars, podVars, jobVars
<1>3. OwnersKept /\ FreshNumbers'
  BY <1>2, JobsUnchanged
<1>4. ConfigMapsByName'
  <2>1. CASE InjectWritesConfigMap(p)
    BY <2>1, <1>3, FreshCMByName, ConfigMapsFrame DEF InjectWritesConfigMap
  <2>2. CASE ~InjectWritesConfigMap(p)
    BY <2>2, <1>1, <1>3, ConfigMapsFrame DEF Inject, InjectGetsConfigMap, PodCreated, clusterVars
  <2> QED BY <2>1, <2>2
<1> QED
  BY <1>2, <1>3, <1>4, RequestsFrame, FilesFrame, EnvsFrame, EvictionsFrame

\* A goroutine that goes on works on the job it worked on.
LEMMA GotoOwnJob ==
    ASSUME EndpointsTypeOK, RequestsOwnJob, OwnersKept, told \subseteq Pods,
           NEW r \in Reqs, NEW step, req[r].pod \in Pods, Goto(r, step),
           step \in ToldSteps => req[r].pod \in told'
    PROVE  RequestsOwnJob'
BY ClusterAssumption DEF EndpointsTypeOK, Requests, RequestsOwnJob, OwnersKept, Goto

\* An answer carries no job, or a job of the goroutine's own pod.
LEMMA ReplyOwnJob ==
    ASSUME EndpointsTypeOK, RequestsOwnJob, OwnersKept, told \subseteq Pods,
           NEW r \in Reqs, NEW outcome \in {"answered", "refused"}, NEW j \in JobIds \cup {NoJob},
           req[r].pod \in Pods, j # NoJob => owner[j] = req[r].pod /\ req[r].pod \in told,
           Reply(r, outcome, j)
    PROVE  RequestsOwnJob'
BY ClusterAssumption
DEF EndpointsTypeOK, Requests, RequestsOwnJob, ToldSteps, OwnersKept, Reply, Idle

\* The Update of a fetched copy that gets j as its job and perhaps as its data.
LEMMA UpdateByName ==
    ASSUME ClusterTypeOK, ConfigMapsByName, OwnersKept,
           NEW n \in Names, NEW j \in JobIds \cup {NoJob}, NEW cm, cms[n] # NoCM,
           cm.uuid = cms[n].uuid, cm.jobid = j, cm.env = cms[n].env \/ cm.env = j,
           j # NoJob => SubmittedFor(j, n)', ToldFor(n)', PutCM(n, cm)
    PROVE  ConfigMapsByName'
<1>1. BelongsTo(cms[n], n)
  BY DEF ConfigMapsByName
<1>2. BelongsTo(cm, n)'
  BY <1>1, SubmittedForKept DEF BelongsTo
<1> QED BY <1>2, PutCMByName

\* The endpoints bind and store the job of the pod they serve.
LEMMA EndpointsStepOwnership ==
    ASSUME TypeOK, Ownership, EndpointsNext, Remembers,
           UNCHANGED <<initVars, w, crashes>>
    PROVE  Ownership'
<1> USE DEF TypeOK, Ownership, initVars
<1>0. told \subseteq told'
  BY DEF Remembers
<1> USE <1>0
<1>1. PICK r \in Reqs :
        \/ SbatchGetsConfigMap(r) \/ SbatchWritesConfigMap(r) \/ SbatchSubmits(r)
        \/ SbatchRefetches(r) \/ SbatchBinds(r) \/ SbatchDeletesConfigMap(r)
        \/ EnvRuns(r) \/ EnvFetches(r) \/ EnvStores(r)
  BY DEF EndpointsNext
<1>2. req[r].step # "idle"
  BY <1>1
  DEF SbatchGetsConfigMap, SbatchWritesConfigMap, SbatchSubmits, SbatchRefetches, SbatchBinds,
      SbatchDeletesConfigMap, EnvRuns, EnvFetches, EnvStores
<1>3. /\ req[r].pod \in Pods /\ NameOf(r) \in Names
      /\ req[r].job \in JobIds \cup {NoJob}
      /\ req[r].job # NoJob => owner[req[r].job] = req[r].pod /\ req[r].pod \in told
      /\ req[r].step \in ToldSteps => req[r].pod \in told /\ ToldFor(NameOf(r))
      /\ NameOf(r) = ObjName[req[r].pod]
  BY <1>2, NameOfType DEF RequestsOwnJob, EndpointsTypeOK, Requests, NameOf, ToldFor
<1>4. /\ \A j, n : OwnersKept /\ j # NoJob /\ j = req[r].job /\ n = NameOf(r)
                     => SubmittedFor(j, n)'
      /\ \A n : OwnersKept /\ req[r].step \in ToldSteps /\ n = NameOf(r) => ToldFor(n)'
  <2>1. ASSUME NEW n, OwnersKept, req[r].step \in ToldSteps, n = NameOf(r)
        PROVE  ToldFor(n)'
    BY <1>3, <2>1, ToldForKept
  <2> QED BY <2>1, <1>3, ClusterAssumption DEF OwnersKept, SubmittedFor
<1>5. UNCHANGED env
  BY <1>1
  DEF SbatchGetsConfigMap, SbatchWritesConfigMap, SbatchSubmits, SbatchRefetches, SbatchBinds,
      SbatchDeletesConfigMap, EnvRuns, EnvFetches, EnvStores, clusterVars, podVars
<1> DEFINE Kept == OwnersKept /\ FreshNumbers' /\ ConfigMapsByName' /\ RequestsOwnJob'
<1>6. Kept
  <2>1. CASE SbatchGetsConfigMap(r)
    BY <2>1, <1>3, JobsUnchanged, ConfigMapsFrame, GotoOwnJob, ReplyOwnJob
    DEF SbatchGetsConfigMap, clusterVars, jobVars, ToldSteps
  <2>2. CASE SbatchWritesConfigMap(r)
    <3>1. OwnersKept /\ FreshNumbers'
      BY <2>2, JobsUnchanged DEF SbatchWritesConfigMap
    <3>2. ConfigMapsByName'
      BY <2>2, <1>3, <3>1, FreshCMByName, ConfigMapsFrame DEF SbatchWritesConfigMap
    <3>3. RequestsOwnJob'
      BY <2>2, <1>3, <3>1, GotoOwnJob, ReplyOwnJob DEF SbatchWritesConfigMap, ToldSteps
    <3> QED BY <3>1, <3>2, <3>3
  <2>3. CASE SbatchSubmits(r)
    <3>0. req'[r].step = "reget" => req[r].pod \in told'
      BY <2>3, <1>3 DEF SbatchSubmits, Remembers, Acknowledged
    <3>a. ASSUME OwnersKept, SbatchFailed(r)
          PROVE  RequestsOwnJob'
      <4>1. CASE Goto(r, "delete")
        BY <3>a, <4>1, <1>3, GotoOwnJob DEF ToldSteps
      <4>2. CASE Goto(r, "reget")
        <5>1. req'[r].step = "reget"
          BY <4>2 DEF Goto, EndpointsTypeOK, Requests
        <5> QED BY <3>a, <3>0, <4>2, <5>1, <1>3, GotoOwnJob
      <4> QED BY <3>a, <4>1, <4>2 DEF SbatchFailed
    <3>1. CASE UNCHANGED jobVars /\ SbatchFailed(r)
      BY <2>3, <3>1, <3>a, JobsUnchanged, ConfigMapsFrame DEF SbatchSubmits
    <3>2. ASSUME NEW j \in JobIds, QueueJob(req[r].pod, j),
                 \/ req' = [req EXCEPT ![r].step = "reget", ![r].job = j]
                 \/ SbatchFailed(r)
          PROVE  Kept
      <4>1. OwnersKept /\ FreshNumbers' /\ owner'[j] = req[r].pod
        BY <3>2, <1>3, QueueJobKeepsOwners
      <4>2. ConfigMapsByName'
        BY <2>3, <4>1, ConfigMapsFrame DEF SbatchSubmits
      <4>3. RequestsOwnJob'
        <5>1. CASE SbatchFailed(r)
          BY <5>1, <4>1, <3>a
        <5>2. CASE req' = [req EXCEPT ![r].step = "reget", ![r].job = j]
          <6>1. req'[r].step = "reget" /\ req'[r].job = j /\ req'[r].pod = req[r].pod
            BY <5>2 DEF EndpointsTypeOK, Requests
          <6>2. /\ \A s \in Reqs : s # r => req'[s] = req[s]
                /\ \A s \in Reqs : req[s].job # NoJob => req[s].job \in JobIds
            BY <5>2 DEF EndpointsTypeOK, Requests
          <6> QED
            BY <6>1, <6>2, <3>0, <4>1, <1>3, ClusterAssumption DEF RequestsOwnJob, OwnersKept
        <5> QED BY <3>2, <5>1, <5>2
      <4> QED BY <4>1, <4>2, <4>3
    <3> QED BY <2>3, <3>1, <3>2 DEF SbatchSubmits
  <2>4. CASE SbatchRefetches(r)
    <3>1. OwnersKept /\ FreshNumbers'
      BY <2>4, JobsUnchanged DEF SbatchRefetches
    <3>2. ConfigMapsByName'
      BY <2>4, <1>3, <3>1, FetchCMByName, ConfigMapsFrame DEF SbatchRefetches
    <3>3. RequestsOwnJob'
      BY <2>4, <1>3, <3>1, GotoOwnJob, ReplyOwnJob DEF SbatchRefetches, ToldSteps
    <3> QED BY <3>1, <3>2, <3>3
  <2>5. CASE SbatchBinds(r)
    <3>1. OwnersKept /\ FreshNumbers'
      BY <2>5, JobsUnchanged DEF SbatchBinds
    <3>2. ConfigMapsByName'
      <4>1. CASE UNCHANGED cms
        BY <4>1, <3>1, ConfigMapsFrame
      <4>2. CASE ~UNCHANGED cms
        <5> DEFINE old == cms[NameOf(r)]
                   cm == [old EXCEPT !.jobid = req[r].job, !.readers = {}]
        <5>1. old # NoCM /\ PutCM(NameOf(r), cm)
          BY <2>5, <4>2 DEF SbatchBinds, Current
        <5>2. cm.uuid = old.uuid /\ cm.jobid = req[r].job /\ cm.env = old.env
          BY <5>1, <1>3 DEF ClusterTypeOK, ConfigMaps
        <5>3. req[r].step \in ToldSteps
          BY <2>5 DEF SbatchBinds, ToldSteps
        <5> QED BY <5>1, <5>2, <5>3, <3>1, <1>3, <1>4, UpdateByName
      <4> QED BY <4>1, <4>2
    <3>3. RequestsOwnJob'
      BY <2>5, <1>3, <3>1, ReplyOwnJob DEF SbatchBinds
    <3> QED BY <3>1, <3>2, <3>3
  <2>6. CASE SbatchDeletesConfigMap(r)
    <3>1. OwnersKept /\ FreshNumbers'
      BY <2>6, JobsUnchanged DEF SbatchDeletesConfigMap
    <3>2. ConfigMapsByName'
      BY <2>6, <3>1, DeleteCMByName, ConfigMapsFrame DEF SbatchDeletesConfigMap
    <3>3. RequestsOwnJob'
      BY <2>6, <1>3, <3>1, ReplyOwnJob DEF SbatchDeletesConfigMap
    <3> QED BY <3>1, <3>2, <3>3
  <2>7. CASE EnvRuns(r)
    <3>1. OwnersKept /\ FreshNumbers' /\ ConfigMapsByName'
      BY <2>7, JobsUnchanged, ConfigMapsFrame DEF EnvRuns, clusterVars, jobVars
    <3>2. Goto(r, "fetch") => req[r].job \in JobIds \/ Reply(r, "refused", NoJob)
      BY <2>7 DEF EnvRuns, Goto, Reply, EndpointsTypeOK, Requests, Idle
    <3>3. Goto(r, "fetch") \/ Reply(r, "refused", NoJob)
      BY <2>7 DEF EnvRuns
    <3> QED BY <3>1, <3>2, <3>3, <1>3, GotoOwnJob, ReplyOwnJob
  <2>8. CASE EnvFetches(r)
    <3>1. OwnersKept /\ FreshNumbers'
      BY <2>8, JobsUnchanged DEF EnvFetches
    <3>2. ConfigMapsByName'
      BY <2>8, <1>3, <3>1, FetchCMByName, ConfigMapsFrame DEF EnvFetches
    <3>3. RequestsOwnJob'
      BY <2>8, <1>3, <3>1, GotoOwnJob, ReplyOwnJob DEF EnvFetches, ToldSteps
    <3> QED BY <3>1, <3>2, <3>3
  <2>9. CASE EnvStores(r)
    <3>1. OwnersKept /\ FreshNumbers'
      BY <2>9, JobsUnchanged DEF EnvStores
    <3>2. ConfigMapsByName'
      <4>1. CASE UNCHANGED cms
        BY <4>1, <3>1, ConfigMapsFrame
      <4>2. CASE ~UNCHANGED cms
        <5> DEFINE old == cms[NameOf(r)]
                   cm == [old EXCEPT !.jobid = req[r].job, !.env = req[r].job, !.readers = {}]
        <5>1. old # NoCM /\ PutCM(NameOf(r), cm)
          BY <2>9, <4>2 DEF EnvStores, Current
        <5>2. cm.uuid = old.uuid /\ cm.jobid = req[r].job /\ cm.env = req[r].job
          BY <5>1, <1>3 DEF ClusterTypeOK, ConfigMaps
        <5>3. req[r].step \in ToldSteps
          BY <2>9 DEF EnvStores, ToldSteps
        <5> QED BY <5>1, <5>2, <5>3, <3>1, <1>3, <1>4, UpdateByName
      <4> QED BY <4>1, <4>2
    <3>3. RequestsOwnJob'
      BY <2>9, <1>3, <3>1, ReplyOwnJob DEF EnvStores
    <3> QED BY <3>1, <3>2, <3>3
  <2> QED BY <1>1, <2>1, <2>2, <2>3, <2>4, <2>5, <2>6, <2>7, <2>8, <2>9
<1> QED
  BY <1>5, <1>6, FilesFrame, EnvsFrame, EvictionsFrame

\* A new request carries no job, or a job of its own pod.
LEMMA ServeOwnJob ==
    ASSUME EndpointsTypeOK, RequestsOwnJob, OwnersKept, told \subseteq Pods,
           NEW r \in Reqs, NEW step \in {"get", "srun"}, NEW p \in Pods,
           NEW j \in JobIds \cup {NoJob},
           j # NoJob => owner[j] = p /\ p \in told, Serve(r, step, p, j)
    PROVE  RequestsOwnJob'
BY ClusterAssumption DEF EndpointsTypeOK, Requests, RequestsOwnJob, ToldSteps, OwnersKept, Serve

\* A goroutine whose answer was read holds nothing.
LEMMA IdleOwnJob ==
    ASSUME EndpointsTypeOK, RequestsOwnJob, OwnersKept, told \subseteq Pods,
           NEW r, req' = [req EXCEPT ![r] = Idle]
    PROVE  RequestsOwnJob'
BY ClusterAssumption
DEF EndpointsTypeOK, Requests, RequestsOwnJob, ToldSteps, OwnersKept, Idle

\* A client that dies takes no job to another goroutine.
LEMMA DisconnectedOwnJob ==
    ASSUME EndpointsTypeOK, RequestsOwnJob, OwnersKept, told \subseteq Pods, NEW p, req' = Disconnected(p)
    PROVE  RequestsOwnJob'
BY ClusterAssumption
DEF EndpointsTypeOK, Requests, RequestsOwnJob, ToldSteps, OwnersKept, Idle, Disconnected

\* A script's file and containers' variables come from their own requests and name.
LEMMA InitContainersStepOwnership ==
    ASSUME TypeOK, Ownership, InitContainersNext, UNCHANGED <<w, crashes, told>>
    PROVE  Ownership'
<1> USE DEF TypeOK, Ownership
<1>1. PICK p \in Pods :
        \/ FirstContainerStarts(p) \/ AsksIsInjectable(p) \/ CallsSbatch(p)
        \/ SbatchAnswered(p) \/ Polls(p) \/ CallsEnvToConfigMap(p) \/ EnvAnswered(p)
        \/ RollsBack(p) \/ KubeletHandlesFailure(p) \/ ContainersStart(p)
        \/ ContainersRestart(p) \/ InitContainerKilled(p) \/ KubeletRemoves(p)
  BY DEF InitContainersNext
<1>2. UNCHANGED cms
  BY <1>1
  DEF FirstContainerStarts, AsksIsInjectable, CallsSbatch, SbatchAnswered, Polls,
      CallsEnvToConfigMap, EnvAnswered, RollsBack, KubeletHandlesFailure, ContainersStart,
      ContainersRestart, InitContainerKilled, KubeletRemoves, clusterVars
<1>3. OwnersKept /\ FreshNumbers'
  <2>1. CASE UNCHANGED jobVars
    BY <2>1, JobsUnchanged
  <2>2. CASE ~UNCHANGED jobVars
    <3>1. SCancel(file[p])
      BY <1>1, <2>2
      DEF FirstContainerStarts, AsksIsInjectable, CallsSbatch, SbatchAnswered, Polls,
          CallsEnvToConfigMap, EnvAnswered, RollsBack, KubeletHandlesFailure, ContainersStart,
          ContainersRestart, InitContainerKilled, KubeletRemoves, clusterVars, jobVars
    <3> QED BY <3>1, SCancelKeepsOwners
  <2> QED BY <2>1, <2>2
<1> DEFINE Kept == RequestsOwnJob' /\ FilesOwnJob' /\ EnvsByName'
<1>4. Kept
  <2>1. CASE FirstContainerStarts(p)
    BY <2>1, <1>3, RequestsFrame, FilesFrame, EnvsFrame DEF FirstContainerStarts, clusterVars
  <2>2. CASE AsksIsInjectable(p)
    <3>1. FilesOwnJob'
      BY <2>2, <1>3, ClusterAssumption
      DEF AsksIsInjectable, InitContainersTypeOK, FilesOwnJob, OwnersKept
    <3> QED BY <2>2, <3>1, <1>3, RequestsFrame, EnvsFrame DEF AsksIsInjectable, clusterVars
  <2>3. CASE CallsSbatch(p)
    <3>1. RequestsOwnJob'
      BY <2>3, <1>3, ServeOwnJob, RequestsFrame DEF CallsSbatch
    <3>2. FilesOwnJob'
      BY <2>3, <1>3, ClusterAssumption
      DEF CallsSbatch, InitContainersTypeOK, FilesOwnJob, OwnersKept
    <3> QED BY <2>3, <3>1, <3>2, <1>3, EnvsFrame DEF CallsSbatch, clusterVars
  <2>4. CASE SbatchAnswered(p)
    <3>1. PICK r \in Reqs : /\ AnswerFor(p, r)
                            /\ file' = [file EXCEPT ![p] = req[r].job]
                            /\ req' = [req EXCEPT ![r] = Idle]
      BY <2>4 DEF SbatchAnswered
    <3>2. RequestsOwnJob'
      BY <3>1, <1>3, IdleOwnJob
    <3>3. req[r].job \in JobIds => owner[req[r].job] = p /\ p \in told
      BY <3>1 DEF AnswerFor, RequestsOwnJob
    <3>4. FilesOwnJob'
      BY <3>1, <3>3, <1>3, ClusterAssumption DEF InitContainersTypeOK, FilesOwnJob, OwnersKept
    <3> QED BY <2>4, <3>2, <3>4, <1>3, EnvsFrame DEF SbatchAnswered, clusterVars
  <2>5. CASE Polls(p)
    BY <2>5, <1>3, RequestsFrame, FilesFrame, EnvsFrame DEF Polls, clusterVars
  <2>6. CASE CallsEnvToConfigMap(p)
    <3>1. RequestsOwnJob'
      <4>1. CASE UNCHANGED req
        BY <4>1, <1>3, RequestsFrame
      <4>2. ASSUME file[p] # NotSlurm, NEW r \in Reqs, Serve(r, "srun", p, file[p])
            PROVE  RequestsOwnJob'
        <5>1. /\ file[p] \in JobIds \cup {NoJob}
              /\ file[p] # NoJob => owner[file[p]] = p /\ p \in told
          BY <4>2 DEF InitContainersTypeOK, FilesOwnJob
        <5> QED BY <4>2, <5>1, <1>3, ServeOwnJob
      <4> QED BY <2>6, <4>1, <4>2 DEF CallsEnvToConfigMap
    <3> QED
      BY <2>6, <3>1, <1>3, FilesFrame, EnvsFrame DEF CallsEnvToConfigMap, clusterVars
  <2>7. CASE EnvAnswered(p)
    BY <2>7, <1>3, IdleOwnJob, FilesFrame, EnvsFrame DEF EnvAnswered, clusterVars
  <2>8. CASE RollsBack(p)
    BY <2>8, <1>3, RequestsFrame, FilesFrame, EnvsFrame DEF RollsBack, podVars
  <2>9. CASE KubeletHandlesFailure(p)
    BY <2>9, <1>3, RequestsFrame, FilesFrame, EnvsFrame DEF KubeletHandlesFailure
  <2>10. CASE ContainersStart(p) \/ ContainersRestart(p)
    <3>1. ObjName[p] \in Names
      BY ClusterAssumption
    <3>2. cms[ObjName[p]] # NoCM /\ cms[ObjName[p]].env # NoJob
             => SubmittedFor(cms[ObjName[p]].env, ObjName[p])
      BY <3>1 DEF ConfigMapsByName, BelongsTo
    <3>3. \A q \in Pods : env'[q] # NoJob => SubmittedFor(env'[q], ObjName[q])
      BY <2>10, <3>2
      DEF ContainersStart, ContainersRestart, EnvFrom, ClusterTypeOK, EnvsByName
    <3>4. EnvsByName'
      BY <3>3, <1>3, SubmittedForKept DEF EnvsByName
    <3> QED
      BY <2>10, <3>4, <1>3, RequestsFrame, FilesFrame
      DEF ContainersStart, ContainersRestart, initVars
  <2>11. CASE InitContainerKilled(p)
    BY <2>11, <1>3, DisconnectedOwnJob, FilesFrame, EnvsFrame DEF InitContainerKilled, clusterVars
  <2>12. CASE KubeletRemoves(p)
    BY <2>12, <1>3, DisconnectedOwnJob, FilesFrame, EnvsFrame DEF KubeletRemoves, initVars
  <2> QED
    BY <1>1, <2>1, <2>2, <2>3, <2>4, <2>5, <2>6, <2>7, <2>8, <2>9, <2>10, <2>11, <2>12
<1> QED BY <1>2, <1>3, <1>4, ConfigMapsFrame, EvictionsFrame

\* routine decides to evict only UUIDs of config-maps that are bound.
LEMMA DecisionByName ==
    ASSUME ClusterTypeOK, ConfigMapsByName, NEW p \in OnlyOnKubernetes
    PROVE  ToldFor(ObjName[p])
<1>1. PICK n \in Names : cms[n] # NoCM /\ cms[n].jobid # ToBeSet /\ cms[n].uuid = p
  BY DEF OnlyOnKubernetes, OnKubernetes, Listed
<1> QED BY <1>1 DEF ConfigMapsByName, BelongsTo

\* An idle watcher has nobody up for eviction.
LEMMA IdleEvictsNobody ==
    WatcherIdle \in WatcherStates /\ WatcherIdle.evict = {} /\ WatcherIdle.target = NoPod
BY DEF WatcherIdle, WatcherStates, WatcherSteps

\* The watcher deletes config-maps and cancels jobs, and gives none to another pod.
LEMMA WatcherStepOwnership ==
    ASSUME TypeOK, Ownership, WatcherNext, UNCHANGED <<crashes, told>>
    PROVE  Ownership'
<1> USE DEF TypeOK, Ownership
<1>1. UNCHANGED <<req, file, env>>
  BY DEF WatcherNext, FetchesJobsOnSlurm, ListsPods, ListsConfigMaps, SweepsPod, SweepsConfigMap,
         SweepEnds, CancelsJob, CancelEnds, EvictionBegins, EvictsPod, EvictionListsConfigMap,
         EvictsConfigMap, RoutineEnds, DeletePodNamed, clusterVars, podVars, initVars
<1>2. OwnersKept /\ FreshNumbers'
  <2>1. CASE UNCHANGED jobVars
    BY <2>1, JobsUnchanged
  <2>2. CASE \E j : SCancel(j)
    BY <2>2, SCancelKeepsOwners
  <2> QED
    BY <2>1, <2>2
    DEF WatcherNext, FetchesJobsOnSlurm, ListsPods, ListsConfigMaps, SweepsPod, SweepsConfigMap,
        SweepEnds, CancelsJob, CancelEnds, EvictionBegins, EvictsPod, EvictionListsConfigMap,
        EvictsConfigMap, RoutineEnds, clusterVars, jobVars
<1>3. ConfigMapsByName'
  <2>1. CASE UNCHANGED cms
    BY <2>1, <1>2, ConfigMapsFrame
  <2>2. CASE \E n : DeleteCM(n)
    BY <2>2, <1>2, DeleteCMByName
  <2> QED
    BY <2>1, <2>2
    DEF WatcherNext, FetchesJobsOnSlurm, ListsPods, ListsConfigMaps, SweepsPod, SweepsConfigMap,
        SweepEnds, CancelsJob, CancelEnds, EvictionBegins, EvictsPod, EvictionListsConfigMap,
        EvictsConfigMap, RoutineEnds, clusterVars
<1>4. EvictionsByName'
  <2>1. CASE ListsConfigMaps
    <3>1. (w'.evict = {} \/ w'.evict = OnlyOnKubernetes) /\ w'.target = NoPod
      BY <2>1, IdleEvictsNobody DEF ListsConfigMaps, WatcherStates
    <3>2. ASSUME NEW p \in w'.evict
          PROVE  ToldFor(ObjName[p])'
      <4>1. ToldFor(ObjName[p])
        BY <3>1, <3>2, DecisionByName
      <4> QED BY <4>1, <1>2, ToldForKept
    <3> QED BY <3>1, <3>2 DEF EvictionsByName
  <2>2. CASE ~ListsConfigMaps
    <3> DEFINE Shrinks == w'.evict \subseteq w.evict /\ w'.target \in w.evict \cup {w.target, NoPod}
    <3> USE DEF WatcherTypeOK, WatcherStates
    <3>1. ASSUME FetchesJobsOnSlurm \/ ListsPods \/ RoutineEnds PROVE Shrinks
      BY <3>1, IdleEvictsNobody DEF FetchesJobsOnSlurm, ListsPods, RoutineEnds
    <3>2. ASSUME SweepsPod \/ SweepsConfigMap \/ SweepEnds PROVE Shrinks
      BY <3>2 DEF SweepsPod, SweepsConfigMap, SweepEnds
    <3>3. ASSUME CancelsJob \/ CancelEnds PROVE Shrinks
      BY <3>3 DEF CancelsJob, CancelEnds
    <3>4. ASSUME EvictionBegins PROVE Shrinks
      BY <3>4 DEF EvictionBegins, NextUUID
    <3>5. ASSUME EvictsPod \/ EvictionListsConfigMap \/ EvictsConfigMap PROVE Shrinks
      BY <3>5 DEF EvictsPod, EvictionListsConfigMap, EvictsConfigMap, NextUUID
    <3>6. Shrinks
      BY <2>2, <3>1, <3>2, <3>3, <3>4, <3>5 DEF WatcherNext
    <3> QED BY <3>6, <1>2, EvictionsFrame
  <2> QED BY <2>1, <2>2
<1> QED BY <1>1, <1>2, <1>3, <1>4, RequestsFrame, FilesFrame, EnvsFrame

\* The death of the process forgets what was read, and nothing else.
LEMMA CrashInv ==
    ASSUME IInv, Crash
    PROVE  IInv'
<1> USE DEF IInv, TypeOK, Crash
<1>1. cms' \in [Names -> ConfigMaps \cup {NoCM}]
  BY DEF ClusterTypeOK, ConfigMaps
<1>2. ClusterTypeOK'
  BY <1>1 DEF ClusterTypeOK, podVars, jobVars
<1>3. WebhookTypeOK'
  BY DEF WebhookCrash, WebhookTypeOK, WebhookStates
<1>4. EndpointsTypeOK' /\ RequestsOwnJob'
  BY IdleType DEF InitContainersCrash, EndpointsTypeOK, RequestsOwnJob, ToldSteps, Idle
<1>5. InitContainersTypeOK'
  BY DEF InitContainersCrash, InitContainersTypeOK, InitSteps
<1>6. WatcherTypeOK' /\ w'.evict = {} /\ w'.target = NoPod
  BY IdleEvictsNobody DEF WatcherTypeOK
<1>7. crashes' \in 0 .. MaxCrashes
  BY InjectorAssumption
<1>8. OwnersKept /\ FreshNumbers'
  BY JobsUnchanged
<1>9. ConfigMapsByName'
  <2>1. ASSUME NEW m \in Names, cms'[m] # NoCM
        PROVE  /\ cms[m] # NoCM
               /\ cms'[m].uuid = cms[m].uuid
               /\ cms'[m].jobid = cms[m].jobid
               /\ cms'[m].env = cms[m].env
    BY <2>1 DEF ClusterTypeOK, ConfigMaps
  <2>2. ASSUME NEW m \in Names, cms'[m] # NoCM
        PROVE  BelongsTo(cms[m], m)'
    <3>1. BelongsTo(cms[m], m)
      BY <2>1, <2>2 DEF ConfigMapsByName
    <3> QED BY <2>1, <2>2, <3>1, <1>8, SubmittedForKept, ToldForKept DEF BelongsTo
  <2> QED BY <2>2 DEF ConfigMapsByName
<1>10. FilesOwnJob'
  BY <1>8, ClusterAssumption DEF InitContainersCrash, FilesOwnJob, OwnersKept
<1>11. EnvsByName'
  BY <1>8, EnvsFrame DEF podVars
<1>12. EvictionsByName'
  BY <1>6 DEF EvictionsByName
<1> QED
  BY <1>2, <1>3, <1>4, <1>5, <1>6, <1>7, <1>8, <1>9, <1>10, <1>11, <1>12

\* The start of the process changes no object.
LEMMA RestartInv ==
    ASSUME IInv, Restart
    PROVE  IInv'
<1> USE DEF IInv, Restart, clusterVars, initVars
<1>1. TypeOK'
  BY DEF TypeOK, ClusterTypeOK, WebhookTypeOK, EndpointsTypeOK, InitContainersTypeOK, WatcherTypeOK
<1>2. OwnersKept /\ FreshNumbers'
  BY JobsUnchanged DEF jobVars
<1> QED
  BY <1>1, <1>2, ConfigMapsFrame, RequestsFrame, FilesFrame, EnvsFrame, EvictionsFrame DEF TypeOK

\* A stuttering step changes nothing.
LEMMA StutterInv ==
    ASSUME IInv, UNCHANGED vars
    PROVE  IInv'
<1> USE DEF IInv, vars, clusterVars, initVars
<1>1. TypeOK'
  BY DEF TypeOK, ClusterTypeOK, WebhookTypeOK, EndpointsTypeOK, InitContainersTypeOK, WatcherTypeOK
<1>2. OwnersKept /\ FreshNumbers'
  BY JobsUnchanged DEF jobVars
<1> QED
  BY <1>1, <1>2, ConfigMapsFrame, RequestsFrame, FilesFrame, EnvsFrame, EvictionsFrame DEF TypeOK

\* The invariant holds when nothing has been created.
LEMMA InitInv == Init => IInv
<1> SUFFICES ASSUME Init PROVE IInv
  OBVIOUS
<1> USE DEF Init
<1>1. ClusterTypeOK
  BY DEF ClusterInit, ClusterTypeOK, PodPhases, JobStates
<1>2. WebhookTypeOK
  BY DEF WebhookInit, WebhookTypeOK, WebhookStates
<1>3. EndpointsTypeOK
  BY IdleType DEF EndpointsInit, EndpointsTypeOK
<1>4. InitContainersTypeOK
  BY DEF InitContainersInit, InitContainersTypeOK, InitSteps
<1>5. WatcherTypeOK
  BY IdleEvictsNobody DEF WatcherInit, WatcherTypeOK
<1>6. TypeOK
  BY <1>1, <1>2, <1>3, <1>4, <1>5, InjectorAssumption DEF TypeOK
<1>7. ConfigMapsByName /\ EnvsByName /\ FreshNumbers
  BY DEF ClusterInit, ConfigMapsByName, EnvsByName, FreshNumbers
<1>8. RequestsOwnJob
  BY DEF EndpointsInit, Idle, RequestsOwnJob, ToldSteps
<1>9. FilesOwnJob
  BY DEF InitContainersInit, FilesOwnJob
<1>10. EvictionsByName
  BY IdleEvictsNobody DEF WatcherInit, EvictionsByName
<1> QED BY <1>6, <1>7, <1>8, <1>9, <1>10 DEF IInv

\* The invariant is inductive.
LEMMA NextInv == IInv /\ [Next]_vars => IInv'
<1> SUFFICES ASSUME IInv, [Next]_vars PROVE IInv'
  OBVIOUS
<1>1. TypeOK /\ Ownership /\ RequestsOwnJob
  BY DEF IInv, Ownership
<1>2. CASE ClusterNext /\ UNCHANGED <<up, wh, req, initVars, w, crashes, told>>
  BY <1>1, <1>2, ClusterStepType, ClusterStepOwnership DEF IInv, Ownership
<1>3. CASE WebhookNext /\ UNCHANGED <<req, initVars, w, crashes, told>>
  BY <1>1, <1>3, WebhookStepType, WebhookStepOwnership DEF IInv, Ownership
<1>4. CASE EndpointsNext /\ Remembers /\ UNCHANGED <<initVars, w, crashes>>
  BY <1>1, <1>4, EndpointsStepType, EndpointsStepOwnership DEF IInv, Ownership
<1>5. CASE InitContainersNext /\ UNCHANGED <<w, crashes, told>>
  BY <1>1, <1>5, InitContainersStepType, InitContainersStepOwnership DEF IInv, Ownership
<1>6. CASE WatcherNext /\ UNCHANGED <<crashes, told>>
  BY <1>1, <1>6, WatcherStepType, WatcherStepOwnership DEF IInv, Ownership
<1>7. CASE Crash
  BY <1>7, CrashInv
<1>8. CASE Restart
  BY <1>8, RestartInv
<1>9. CASE UNCHANGED vars
  BY <1>9, StutterInv
<1> QED BY <1>2, <1>3, <1>4, <1>5, <1>6, <1>7, <1>8, <1>9 DEF Next

-----------------------------------------------------------------------------
(* The theorems.                                                           *)

\* The inductive invariant: types, who submitted the jobs that config-maps, goroutines,
\* files and containers refer to, and that only those told of a job are up for eviction.
THEOREM Invariance == Spec => []IInv
BY InitInv, NextInv, PTL DEF Spec

\* Every variable stays in its type, through every fault and crash.
THEOREM TypeCorrect == Spec => []TypeOK
<1>1. IInv => TypeOK
  BY DEF IInv
<1> QED BY <1>1, Invariance, PTL

\* A config-map is bound to a job of the UUID it names, if names are unique.
THEOREM BindingCorrect == UniqueNames => (Spec => []BoundToOwnJob)
<1> SUFFICES ASSUME UniqueNames PROVE Spec => []BoundToOwnJob
  OBVIOUS
<1>1. IInv => BoundToOwnJob
  BY DEF UniqueNames, IInv, TypeOK, ClusterTypeOK, ConfigMaps, ConfigMapsByName, BelongsTo,
         SubmittedFor, BoundToOwnJob, Bound
<1> QED BY <1>1, Invariance, PTL

\* Containers get the variables of their own job, if names are unique.
THEOREM EnvCorrect == UniqueNames => (Spec => []EnvIsOwn)
<1> SUFFICES ASSUME UniqueNames PROVE Spec => []EnvIsOwn
  OBVIOUS
<1>1. IInv => EnvIsOwn
  BY DEF UniqueNames, IInv, EnvsByName, SubmittedFor, EnvIsOwn
<1> QED BY <1>1, Invariance, PTL

\* Nobody is up for eviction before SBatch reported success for it, if names are unique.
THEOREM EvictionCorrect == UniqueNames => (Spec => []NeverEvictsWaiting)
<1> SUFFICES ASSUME UniqueNames PROVE Spec => []NeverEvictsWaiting
  OBVIOUS
<1>1. IInv => NeverEvictsWaiting
  BY DEF UniqueNames, IInv, TypeOK, WatcherTypeOK, WatcherStates, EvictionsByName, ToldFor,
         NeverEvictsWaiting
<1> QED BY <1>1, Invariance, PTL
=============================================================================
