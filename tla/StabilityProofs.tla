---------------------------- MODULE StabilityProofs ----------------------------
(***************************************************************************)
(* The bindings of the injector are stable: the invariant of               *)
(* BindingStability, proved for every number of pods, goroutines, jobs and *)
(* crashes and for every fault but a killed init container, and the three  *)
(* properties that follow from it.                                         *)
(*                                                                         *)
(* A step is about one pod.  For every other pod it is quiet: nothing that *)
(* PodInv talks about moves, except that a config-map or a call may go and *)
(* a pod may end.                                                          *)
(***************************************************************************)
EXTENDS BindingStability, BindingProofs

-----------------------------------------------------------------------------
(* Quiet steps.                                                            *)

\* The calls for q: none is added, none moves.
QuietCalls(q) ==
    \A r \in Reqs : Serves(r, q)' =>
        Serves(r, q) /\ req'[r].step = req[r].step /\ req'[r].job = req[r].job

\* The config-map of q may go, and its readers may change.
QuietCM(q) ==
    \/ CM(q)' = NoCM
    \/ CM(q) # NoCM /\ CM(q)'.jobid = CM(q).jobid /\ CM(q)'.env = CM(q).env

\* The pod q may end.
QuietPod(q) ==
    /\ wh[q] = "created" => wh'[q] = "created"
    /\ phase'[q] = phase[q] \/ (phase[q] # "absent" /\ Gone(q)')
    /\ env'[q] = env[q]

QuietScripts(q) == ic'[q] = ic[q] /\ file'[q] = file[q]

Quiet(q) == QuietCalls(q) /\ QuietCM(q) /\ QuietPod(q) /\ QuietScripts(q)

\* A quiet step keeps what is known of the pod.
LEMMA QuietKeepsPod ==
    ASSUME NEW q \in Pods, PodInv(q), Quiet(q)
    PROVE  PodInv(q)'
<1> USE DEF PodInv, Quiet, QuietCalls, QuietCM, QuietPod, QuietScripts
<1>1. CallerWaits(q)'
  BY DEF CallerWaits
<1>2. NoIdYet(q)'
  BY DEF NoIdYet
<1>3. FromCreate(q)'
  BY DEF FromCreate, Gone
<1>4. ASSUME NEW js, BoundWithin(q, js)
      PROVE  CM(q)' = NoCM \/ CM(q)'.jobid \in js \cup {ToBeSet}
  BY <1>4 DEF BoundWithin
<1>5. FreshInCall(q)'
  BY <1>4 DEF FreshInCall, BoundWithin
<1>6. AnswerBound(q)'
  BY <1>4 DEF AnswerBound, BoundWithin
<1>7. FileBound(q)'
  BY <1>4 DEF FileBound, BoundWithin
<1>8. EnvWithJob(q)'
  BY DEF EnvWithJob
<1>9. MatchesEnv(q)'
  BY DEF MatchesEnv, Gone
<1> QED BY <1>1, <1>2, <1>3, <1>5, <1>6, <1>7, <1>8, <1>9

\* What no step undoes: a job keeps its owner, a pod that was created stays created, one
\* that is gone stays gone.
Forward ==
    /\ OwnersKept
    /\ \A q \in Pods : phase[q] # "absent" => phase'[q] # "absent"
    /\ \A q \in Pods : Gone(q) => Gone(q)'
    /\ \A j \in JobIds : jobState[j] # "unused" => jobState'[j] # "unused"

\* A job up for cancellation has been submitted, and by the same pod ever since.
LEMMA CancelledHasOwner ==
    ASSUME TypeOK, JobsOfPods, SnapshotsOrdered, Forward, NEW j \in w.cancel
    PROVE  j \in JobIds /\ owner'[j] = owner[j] /\ owner[j] \in Pods /\ phase[owner[j]] # "absent"
<1>1. j \in JobIds
  BY DEF TypeOK, WatcherTypeOK, WatcherStates
<1>2. jobState[j] # "unused"
  BY DEF SnapshotsOrdered
<1> QED BY <1>1, <1>2, ClusterAssumption DEF JobsOfPods, Forward, OwnersKept

\* A quiet step makes no job less loose.
LEMMA QuietKeepsCancels ==
    ASSUME TypeOK, JobsOfPods, SnapshotsOrdered, Forward,
           NEW q \in Pods, CancelsLoose(q), Quiet(q), w'.cancel \subseteq w.cancel
    PROVE  CancelsLoose(q)'
<1> SUFFICES ASSUME NEW j \in w'.cancel, owner'[j] = q PROVE Gone(q)' \/ Loose(q, j)'
  BY DEF CancelsLoose
<1>1. j \in w.cancel /\ owner[j] = q
  BY CancelledHasOwner
<1>2. CASE Gone(q)
  BY <1>2 DEF Forward
<1>3. CASE Loose(q, j)
  BY <1>3 DEF Loose, Quiet, QuietCalls, QuietCM, QuietScripts
<1> QED BY <1>1, <1>2, <1>3 DEF CancelsLoose

-----------------------------------------------------------------------------
(* Every step goes forward.                                                *)

\* Deleting by name ends pods that exist.
LEMMA DeletePodNamedQuiet ==
    ASSUME NEW p, DeletePodNamed(p), NEW q \in Pods
    PROVE  phase'[q] = phase[q] \/ (phase[q] # "absent" /\ Gone(q)')
BY DEF DeletePodNamed, Exists, Gone

\* A pod that stays or ends is not less created, nor less gone.
LEMMA PodsForward ==
    ASSUME NEW q \in Pods, phase'[q] = phase[q] \/ (phase[q] # "absent" /\ Gone(q)')
    PROVE  (phase[q] # "absent" => phase'[q] # "absent") /\ (Gone(q) => Gone(q)')
BY DEF Gone

\* Neither the pods nor the jobs go backward in a step of the cluster, ...
LEMMA ClusterForward ==
    ASSUME TypeOK, FreshNumbers, ClusterNext, told \subseteq told'
    PROVE  Forward
<1> USE DEF TypeOK, ClusterTypeOK
<1>1. ASSUME NEW j \in JobIds, JobStarts(j) \/ JobEnds(j) PROVE Forward
  BY <1>1 DEF JobStarts, JobEnds, podVars, Active, Forward, OwnersKept, Gone
<1>2. ASSUME NEW p \in Pods, UserDeletesPod(p) PROVE Forward
  <2>1. UNCHANGED jobVars
    BY <1>2 DEF UserDeletesPod
  <2>2. \A q \in Pods : phase'[q] = phase[q] \/ (phase[q] # "absent" /\ Gone(q)')
    BY <1>2, DeletePodNamedQuiet DEF UserDeletesPod
  <2> QED BY <2>1, <2>2, PodsForward DEF Forward, OwnersKept, jobVars
<1>3. ASSUME NEW p \in Pods, WorkloadExits(p) PROVE Forward
  BY <1>3 DEF WorkloadExits, jobVars, Forward, OwnersKept, Gone
<1> QED BY <1>1, <1>2, <1>3 DEF ClusterNext

\* ... of the webhook, ...
LEMMA WebhookForward ==
    ASSUME TypeOK, SInv, WebhookNext, told \subseteq told'
    PROVE  Forward
<1> USE DEF TypeOK, ClusterTypeOK
<1>1. UNCHANGED jobVars
  BY DEF WebhookNext, Inject, InjectGetsConfigMap, InjectWritesConfigMap, PodCreated, clusterVars,
         jobVars
<1>2. PICK p \in Pods :
        Inject(p) \/ InjectGetsConfigMap(p) \/ InjectWritesConfigMap(p) \/ PodCreated(p)
  BY DEF WebhookNext
<1>3. CASE UNCHANGED phase
  BY <1>1, <1>3 DEF Forward, OwnersKept, jobVars, Gone
<1>4. CASE PodCreated(p) /\ phase' = [phase EXCEPT ![p] = "Pending"]
  <2>1. phase[p] = "absent"
    BY <1>4 DEF PodCreated, SInv, PodInv, FromCreate
  <2> QED BY <1>1, <1>4, <2>1 DEF Forward, OwnersKept, jobVars, Gone
<1> QED
  BY <1>2, <1>3, <1>4
  DEF Inject, InjectGetsConfigMap, InjectWritesConfigMap, PodCreated, clusterVars, podVars

\* ... of the endpoints, ...
LEMMA EndpointsForward ==
    ASSUME TypeOK, RequestsOwnJob, FreshNumbers, EndpointsNext, told \subseteq told'
    PROVE  Forward
<1> USE DEF TypeOK, ClusterTypeOK
<1>1. PICK r \in Reqs :
        \/ SbatchGetsConfigMap(r) \/ SbatchWritesConfigMap(r) \/ SbatchSubmits(r)
        \/ SbatchRefetches(r) \/ SbatchBinds(r) \/ SbatchDeletesConfigMap(r)
        \/ EnvRuns(r) \/ EnvFetches(r) \/ EnvStores(r)
  BY DEF EndpointsNext
<1>2. UNCHANGED podVars
  BY <1>1
  DEF SbatchGetsConfigMap, SbatchWritesConfigMap, SbatchSubmits, SbatchRefetches, SbatchBinds,
      SbatchDeletesConfigMap, EnvRuns, EnvFetches, EnvStores, clusterVars, podVars
<1>3. CASE UNCHANGED jobVars
  BY <1>2, <1>3 DEF Forward, OwnersKept, podVars, jobVars, Gone
<1>4. ASSUME SbatchSubmits(r), NEW j \in JobIds, QueueJob(req[r].pod, j) PROVE Forward
  <2>1. req[r].pod \in Pods
    BY <1>4 DEF SbatchSubmits, RequestsOwnJob
  <2>2. OwnersKept
    BY <1>4, <2>1, QueueJobKeepsOwners
  <2> QED BY <1>2, <1>4, <2>2 DEF QueueJob, Forward, podVars, Gone
<1> QED
  BY <1>1, <1>3, <1>4
  DEF SbatchGetsConfigMap, SbatchWritesConfigMap, SbatchSubmits, SbatchRefetches, SbatchBinds,
      SbatchDeletesConfigMap, EnvRuns, EnvFetches, EnvStores, clusterVars, jobVars

\* ... of the init containers and the kubelet, ...
LEMMA InitContainersForward ==
    ASSUME TypeOK, FreshNumbers, InitContainersNext, told \subseteq told'
    PROVE  Forward
<1> USE DEF TypeOK, ClusterTypeOK
<1>1. PICK p \in Pods :
        \/ FirstContainerStarts(p) \/ AsksIsInjectable(p) \/ CallsSbatch(p)
        \/ SbatchAnswered(p) \/ Polls(p) \/ CallsEnvToConfigMap(p) \/ EnvAnswered(p)
        \/ RollsBack(p) \/ KubeletHandlesFailure(p) \/ ContainersStart(p)
        \/ ContainersRestart(p) \/ InitContainerKilled(p) \/ KubeletRemoves(p)
  BY DEF InitContainersNext
<1>2. \A q \in Pods :
        (phase[q] # "absent" => phase'[q] # "absent") /\ (Gone(q) => Gone(q)')
  <2>1. CASE UNCHANGED phase
    BY <2>1 DEF Gone
  <2>2. CASE KubeletHandlesFailure(p) \/ ContainersStart(p) \/ KubeletRemoves(p)
    BY <2>2 DEF KubeletHandlesFailure, ContainersStart, KubeletRemoves, Live, Gone
  <2> QED
    BY <1>1, <2>1, <2>2
    DEF FirstContainerStarts, AsksIsInjectable, CallsSbatch, SbatchAnswered, Polls,
        CallsEnvToConfigMap, EnvAnswered, RollsBack, ContainersRestart, InitContainerKilled,
        clusterVars, podVars
<1>3. CASE UNCHANGED jobVars
  BY <1>2, <1>3 DEF Forward, OwnersKept, jobVars
<1>4. ASSUME NEW j, SCancel(j) PROVE Forward
  BY <1>2, <1>4, SCancelKeepsOwners DEF SCancel, Active, Forward
<1> QED
  BY <1>1, <1>3, <1>4
  DEF FirstContainerStarts, AsksIsInjectable, CallsSbatch, SbatchAnswered, Polls,
      CallsEnvToConfigMap, EnvAnswered, RollsBack, KubeletHandlesFailure, ContainersStart,
      ContainersRestart, InitContainerKilled, KubeletRemoves, clusterVars, jobVars

\* ... and of the watcher.
LEMMA WatcherForward ==
    ASSUME TypeOK, FreshNumbers, WatcherNext, told \subseteq told'
    PROVE  Forward
<1> USE DEF TypeOK, ClusterTypeOK
<1>1. \A q \in Pods : phase'[q] = phase[q] \/ (phase[q] # "absent" /\ Gone(q)')
  <2>1. CASE UNCHANGED phase
    BY <2>1
  <2>2. ASSUME NEW p, DeletePodNamed(p)
        PROVE  \A q \in Pods : phase'[q] = phase[q] \/ (phase[q] # "absent" /\ Gone(q)')
    BY <2>2, DeletePodNamedQuiet
  <2> QED
    BY <2>1, <2>2
    DEF WatcherNext, FetchesJobsOnSlurm, ListsPods, ListsConfigMaps, SweepsPod, SweepsConfigMap,
        SweepEnds, CancelsJob, CancelEnds, EvictionBegins, EvictsPod, EvictionListsConfigMap,
        EvictsConfigMap, RoutineEnds, clusterVars, podVars
<1>2. CASE UNCHANGED jobVars
  BY <1>1, <1>2, PodsForward DEF Forward, OwnersKept, jobVars
<1>3. ASSUME NEW j, SCancel(j) PROVE Forward
  BY <1>1, <1>3, PodsForward, SCancelKeepsOwners DEF SCancel, Active, Forward
<1> QED
  BY <1>2, <1>3
  DEF WatcherNext, FetchesJobsOnSlurm, ListsPods, ListsConfigMaps, SweepsPod, SweepsConfigMap,
      SweepEnds, CancelsJob, CancelEnds, EvictionBegins, EvictsPod, EvictionListsConfigMap,
      EvictsConfigMap, RoutineEnds, clusterVars, jobVars

\* No step goes backward.
LEMMA StepForward ==
    ASSUME JobInv, SInv, [Next]_vars
    PROVE  Forward
<1>1. TypeOK /\ RequestsOwnJob /\ FreshNumbers
  BY DEF JobInv, IInv
<1>2. told \subseteq told'
  BY DEF Next, Remembers, Crash, Restart, vars
<1>3. CASE UNCHANGED <<phase, jobVars>>
  BY <1>2, <1>3 DEF Forward, OwnersKept, jobVars, Gone
<1>4. Crash \/ Restart \/ UNCHANGED vars => UNCHANGED <<phase, jobVars>>
  BY DEF Crash, Restart, vars, clusterVars, podVars, jobVars
<1> QED
  BY <1>1, <1>2, <1>3, <1>4, ClusterForward, WebhookForward, EndpointsForward,
     InitContainersForward, WatcherForward
  DEF Next

-----------------------------------------------------------------------------
(* Calls.                                                                  *)

\* Goroutine r goes on with the job j, or is done; the others do not move.
Moves(r, step, j) ==
    /\ \A s \in Reqs \ {r} : req'[s] = req[s]
    /\ \/ req'[r] = Idle
       \/ req'[r].step = step /\ req'[r].pod = req[r].pod /\ req'[r].job = j

\* Goto and Reply are such moves.
LEMMA GotoMoves ==
    ASSUME EndpointsTypeOK, NEW r \in Reqs, NEW step, Goto(r, step)
    PROVE  Moves(r, step, req[r].job)
BY DEF EndpointsTypeOK, Requests, Goto, Moves

\* An answer nobody waits for is not kept.
LEMMA ReplyMoves ==
    ASSUME EndpointsTypeOK, NEW r \in Reqs, NEW outcome, NEW j, Reply(r, outcome, j)
    PROVE  Moves(r, outcome, j)
BY DEF EndpointsTypeOK, Requests, Reply, Moves

\* A step of the goroutine r of the HTTP server.
EndpointStep(r) ==
    \/ SbatchGetsConfigMap(r) \/ SbatchWritesConfigMap(r) \/ SbatchSubmits(r)
    \/ SbatchRefetches(r) \/ SbatchBinds(r) \/ SbatchDeletesConfigMap(r)
    \/ EnvRuns(r) \/ EnvFetches(r) \/ EnvStores(r)

\* A step of an endpoint moves one goroutine, which serves a pod.
LEMMA EndpointMoves ==
    ASSUME TypeOK, NEW r \in Reqs, EndpointStep(r)
    PROVE  /\ req[r].step # "idle"
           /\ \E step \in ReqSteps \ {"idle"} : \E j : Moves(r, step, j)
<1> USE GotoMoves, ReplyMoves DEF TypeOK, ReqSteps, SbatchSteps, EnvSteps
<1>1. CASE SbatchGetsConfigMap(r)
  BY <1>1 DEF SbatchGetsConfigMap
<1>2. CASE SbatchWritesConfigMap(r)
  BY <1>2 DEF SbatchWritesConfigMap
<1>3. CASE SbatchSubmits(r)
  <2>1. ASSUME NEW j, req' = [req EXCEPT ![r].step = "reget", ![r].job = j]
        PROVE  Moves(r, "reget", j)
    BY <2>1 DEF EndpointsTypeOK, Requests, Moves
  <2> QED BY <1>3, <2>1 DEF SbatchSubmits, SbatchFailed
<1>4. CASE SbatchRefetches(r)
  BY <1>4 DEF SbatchRefetches
<1>5. CASE SbatchBinds(r)
  BY <1>5 DEF SbatchBinds
<1>6. CASE SbatchDeletesConfigMap(r)
  BY <1>6 DEF SbatchDeletesConfigMap
<1>7. CASE EnvRuns(r)
  BY <1>7 DEF EnvRuns
<1>8. CASE EnvFetches(r)
  BY <1>8 DEF EnvFetches
<1>9. CASE EnvStores(r)
  BY <1>9 DEF EnvStores
<1> QED BY <1>1, <1>2, <1>3, <1>4, <1>5, <1>6, <1>7, <1>8, <1>9 DEF EndpointStep

\* Goroutines that end, go on for their pod or do not move.
LEMMA OneCallKept ==
    ASSUME OneCall,
           \A r \in Reqs :
               \/ req'[r] = req[r]
               \/ req'[r] = Idle
               \/ req[r].step # "idle" /\ req'[r].step # "idle" /\ req'[r].pod = req[r].pod
    PROVE  OneCall'
<1>1. \A r \in Reqs : \A p \in Pods : Serves(r, p)' => Serves(r, p)
  BY DEF Serves, Idle
<1>2. \A r \in Reqs : req'[r].step = "idle" => req'[r] = Idle
  BY DEF OneCall
<1> QED BY <1>1, <1>2 DEF OneCall

\* A call of a pod that has none.
LEMMA ServeOneCall ==
    ASSUME EndpointsTypeOK, OneCall, NEW r \in Reqs, NEW step, NEW p \in Pods, NEW j,
           step # "idle", \A s \in Reqs : ~Serves(s, p), Serve(r, step, p, j)
    PROVE  OneCall'
BY DEF EndpointsTypeOK, OneCall, Serves, Serve

\* A client that dies leaves its goroutine to its pod.
LEMMA DisconnectedKeeps ==
    ASSUME EndpointsTypeOK, NEW p, req' = Disconnected(p), NEW r \in Reqs
    PROVE  \/ req'[r] = req[r]
           \/ req'[r] = Idle
           \/ req'[r].step = req[r].step /\ req'[r].pod = req[r].pod /\ req'[r].job = req[r].job
BY DEF EndpointsTypeOK, Requests, Disconnected

\* A pod has at most one call: its script makes one at a time, and the handler of a
\* script that is gone is the last.
LEMMA StepOneCall ==
    ASSUME JobInv, SInv, [Next]_vars
    PROVE  OneCall'
<1>1. TypeOK /\ EndpointsTypeOK /\ OneCall
  BY DEF JobInv, IInv, TypeOK, SInv
<1>2. CASE UNCHANGED req
  BY <1>1, <1>2, OneCallKept
<1>3. CASE EndpointsNext
  <2>1. PICK r \in Reqs : EndpointStep(r)
    BY <1>3 DEF EndpointsNext, EndpointStep
  <2>2. req[r].step # "idle" /\ \E step \in ReqSteps \ {"idle"} : \E j : Moves(r, step, j)
    BY <1>1, <2>1, EndpointMoves
  <2> QED BY <1>1, <2>2, OneCallKept DEF Moves
<1>4. ASSUME NEW p \in Pods, CallsSbatch(p) \/ CallsEnvToConfigMap(p) PROVE OneCall'
  <2>1. CASE UNCHANGED req
    BY <2>1, <1>2
  <2>2. ASSUME NEW r \in Reqs, NEW step \in {"get", "srun"}, NEW j, Serve(r, step, p, j)
        PROVE  OneCall'
    <3>1. ic[p] \in {"sbatch", "pipeline"}
      BY <1>4 DEF CallsSbatch, CallsEnvToConfigMap, Step
    <3>2. CallerWaits(p)
      BY DEF SInv, PodInv
    <3>3. \A s \in Reqs : ~Serves(s, p)
      BY <1>1, <3>1, <3>2
      DEF EndpointsTypeOK, Requests, ReqSteps, SbatchSteps, EnvSteps, CallerWaits, Serves
    <3> QED BY <1>1, <2>2, <3>3, ServeOneCall
  <2> QED BY <1>4, <2>1, <2>2 DEF CallsSbatch, CallsEnvToConfigMap
<1>5. ASSUME NEW r \in Reqs, req' = [req EXCEPT ![r] = Idle] PROVE OneCall'
  BY <1>1, <1>5, OneCallKept DEF EndpointsTypeOK
<1>6. ASSUME NEW p \in Pods, req' = Disconnected(p) PROVE OneCall'
  <2>1. \A r \in Reqs : req[r].step = "idle" => req[r] = Idle
    BY <1>1 DEF OneCall
  <2> QED BY <1>1, <1>6, <2>1, OneCallKept DEF Disconnected, Idle, EndpointsTypeOK, Requests
<1>7. CASE Crash
  BY <1>1, <1>7, OneCallKept DEF Crash, InitContainersCrash
<1>8. CASE InitContainersNext
  <2>1. PICK p \in Pods :
          \/ FirstContainerStarts(p) \/ AsksIsInjectable(p) \/ CallsSbatch(p)
          \/ SbatchAnswered(p) \/ Polls(p) \/ CallsEnvToConfigMap(p) \/ EnvAnswered(p)
          \/ RollsBack(p) \/ KubeletHandlesFailure(p) \/ ContainersStart(p)
          \/ ContainersRestart(p) \/ InitContainerKilled(p) \/ KubeletRemoves(p)
    BY <1>8 DEF InitContainersNext
  <2> QED
    BY <2>1, <1>2, <1>4, <1>5, <1>6
    DEF FirstContainerStarts, AsksIsInjectable, SbatchAnswered, Polls, EnvAnswered, RollsBack,
        KubeletHandlesFailure, ContainersStart, ContainersRestart, InitContainerKilled,
        KubeletRemoves
<1>9. WatcherNext => UNCHANGED req
  BY DEF WatcherNext, FetchesJobsOnSlurm, ListsPods, ListsConfigMaps, SweepsPod,
         SweepsConfigMap, SweepEnds, CancelsJob, CancelEnds, EvictionBegins, EvictsPod,
         EvictionListsConfigMap, EvictsConfigMap, RoutineEnds
<1> QED BY <1>2, <1>3, <1>7, <1>8, <1>9 DEF Next, Restart, vars

-----------------------------------------------------------------------------
(* Jobs and what the watcher knows of them.                                *)

\* A step that puts no job into the queue.
NoJobQueued == \A j \in JobIds : jobState'[j] # "unused" => jobState[j] # "unused"

\* The pod of a job is not forgotten.
LEMMA JobsOfPodsKept ==
    ASSUME JobsOfPods, Forward, NoJobQueued
    PROVE  JobsOfPods'
BY ClusterAssumption DEF JobsOfPods, Forward, OwnersKept, NoJobQueued

\* A handler of sbatch works for a pod that was created.
LEMMA SubmitsForPod ==
    ASSUME SInv, RequestsOwnJob, NEW r \in Reqs, req[r].step \in SbatchSteps
    PROVE  req[r].pod \in Pods /\ phase[req[r].pod] # "absent" /\ ic[req[r].pod] = "sbatching"
<1> DEFINE p == req[r].pod
<1>1. p \in Pods /\ Serves(r, p)
  BY DEF RequestsOwnJob, SbatchSteps, Serves
<1>2. CallerWaits(p) /\ FromCreate(p)
  BY <1>1 DEF SInv, PodInv
<1> QED BY <1>1, <1>2 DEF CallerWaits, FromCreate

\* Only a handler of sbatch queues a job, for the pod it serves.
LEMMA StepJobsOfPods ==
    ASSUME JobInv, SInv, [Next]_vars
    PROVE  JobsOfPods'
<1>1. JobsOfPods /\ Forward /\ TypeOK /\ ClusterTypeOK /\ RequestsOwnJob
  BY StepForward DEF SInv, JobInv, IInv, TypeOK
<1>2. CASE UNCHANGED jobState
  BY <1>1, <1>2, JobsOfPodsKept DEF NoJobQueued
<1>3. ASSUME NEW j, SCancel(j) PROVE JobsOfPods'
  BY <1>1, <1>3, JobsOfPodsKept DEF NoJobQueued, SCancel, Active, ClusterTypeOK
<1>4. CASE ClusterNext
  <2>1. ASSUME NEW j \in JobIds, JobStarts(j) \/ JobEnds(j) PROVE JobsOfPods'
    BY <2>1, <1>1, JobsOfPodsKept DEF NoJobQueued, JobStarts, JobEnds, Active, ClusterTypeOK
  <2> QED BY <1>2, <1>4, <2>1 DEF ClusterNext, UserDeletesPod, WorkloadExits, jobVars
<1>5. CASE EndpointsNext
  <2>1. PICK r \in Reqs : EndpointStep(r)
    BY <1>5 DEF EndpointsNext, EndpointStep
  <2>2. ASSUME SbatchSubmits(r), NEW j \in JobIds, QueueJob(req[r].pod, j) PROVE JobsOfPods'
    <3>1. req[r].pod \in Pods /\ phase[req[r].pod] # "absent"
      BY <1>1, <2>2, SubmitsForPod DEF SbatchSubmits, SbatchSteps
    <3>2. \A i \in JobIds \ {j} : jobState'[i] = jobState[i]
      BY <1>1, <2>2 DEF QueueJob, ClusterTypeOK
    <3>3. owner'[j] = req[r].pod
      BY <1>1, <2>2 DEF QueueJob, ClusterTypeOK
    <3> QED BY <1>1, <3>1, <3>2, <3>3, ClusterAssumption DEF JobsOfPods, Forward, OwnersKept
  <2> QED
    BY <1>2, <2>1, <2>2
    DEF EndpointStep, SbatchGetsConfigMap, SbatchWritesConfigMap, SbatchSubmits, SbatchRefetches,
        SbatchBinds, SbatchDeletesConfigMap, EnvRuns, EnvFetches, EnvStores, clusterVars, jobVars
<1>6. CASE InitContainersNext
  BY <1>2, <1>3, <1>6
  DEF InitContainersNext, FirstContainerStarts, AsksIsInjectable, CallsSbatch, SbatchAnswered,
      Polls, CallsEnvToConfigMap, EnvAnswered, RollsBack, KubeletHandlesFailure, ContainersStart,
      ContainersRestart, InitContainerKilled, KubeletRemoves, clusterVars, jobVars
<1>7. CASE WatcherNext
  BY <1>2, <1>3, <1>7
  DEF WatcherNext, FetchesJobsOnSlurm, ListsPods, ListsConfigMaps, SweepsPod, SweepsConfigMap,
      SweepEnds, CancelsJob, CancelEnds, EvictionBegins, EvictsPod, EvictionListsConfigMap,
      EvictsConfigMap, RoutineEnds, clusterVars, jobVars
<1>8. WebhookNext \/ Crash \/ Restart \/ UNCHANGED vars => UNCHANGED jobState
  BY DEF WebhookNext, Inject, InjectGetsConfigMap, InjectWritesConfigMap, PodCreated, Crash,
         Restart, vars, clusterVars, podVars, jobVars
<1> QED BY <1>2, <1>4, <1>5, <1>6, <1>7, <1>8 DEF Next

\* A snapshot that is not renewed goes on telling the truth.
LEMMA SnapshotsKept ==
    ASSUME TypeOK, JobsOfPods, SnapshotsOrdered, Forward,
           w'.jobs \cup w'.cancel \subseteq w.jobs \cup w.cancel,
           w'.step = "cms" => w.step = "cms" /\ w'.jobs = w.jobs /\ w'.pods = w.pods
    PROVE  SnapshotsOrdered'
<1>1. w.jobs \cup w.cancel \subseteq JobIds
  BY DEF TypeOK, WatcherTypeOK, WatcherStates
<1>2. \A j \in w'.jobs \cup w'.cancel : jobState'[j] # "unused"
  BY <1>1 DEF SnapshotsOrdered, Forward
<1>3. ASSUME w'.step = "cms", NEW j \in w'.jobs PROVE owner'[j] \in w'.pods \/ Gone(owner[j])'
  <2>1. owner[j] \in w.pods \/ Gone(owner[j])
    BY <1>3 DEF SnapshotsOrdered
  <2>2. owner[j] \in Pods /\ owner'[j] = owner[j]
    BY <1>1, <1>3, ClusterAssumption DEF SnapshotsOrdered, JobsOfPods, Forward, OwnersKept
  <2> QED BY <1>3, <2>1, <2>2 DEF Forward, Gone
<1> QED BY <1>2, <1>3 DEF SnapshotsOrdered

\* squeue is read first: a job on its list belongs to a pod that is listed next, or gone.
LEMMA StepSnapshots ==
    ASSUME JobInv, SInv, [Next]_vars
    PROVE  SnapshotsOrdered'
<1>1. JobsOfPods /\ SnapshotsOrdered /\ Forward /\ TypeOK /\ w \in WatcherStates
  BY StepForward DEF SInv, JobInv, IInv, TypeOK, WatcherTypeOK
<1>2. CASE UNCHANGED w
  BY <1>1, <1>2, SnapshotsKept
<1>3. CASE w' = WatcherIdle
  BY <1>1, <1>3, SnapshotsKept DEF WatcherIdle
<1>4. CASE FetchesJobsOnSlurm
  <2>1. w'.step = "pods" /\ w'.jobs = ListUUIDsAndJobIDs /\ w'.cancel = w.cancel
    BY <1>1, <1>4 DEF FetchesJobsOnSlurm, WatcherStates
  <2>2. \A j \in ListUUIDsAndJobIDs : jobState'[j] # "unused"
    BY <1>4 DEF FetchesJobsOnSlurm, ListUUIDsAndJobIDs, Active, clusterVars
  <2>3. \A j \in w.cancel : jobState'[j] # "unused"
    BY <1>1, <1>4 DEF FetchesJobsOnSlurm, clusterVars, SnapshotsOrdered
  <2> QED BY <2>1, <2>2, <2>3 DEF SnapshotsOrdered
<1>5. CASE ListsPods /\ w' = [w EXCEPT !.step = "cms", !.pods = {p \in Pods : Live(p)}]
  <2>1. w'.jobs = w.jobs /\ w'.cancel = w.cancel /\ w'.pods = {p \in Pods : Live(p)}
    BY <1>1, <1>5 DEF WatcherStates
  <2>2. UNCHANGED <<phase, owner, jobState>>
    BY <1>5 DEF ListsPods, clusterVars
  <2>3. \A j \in w.jobs : j \in JobIds /\ jobState[j] # "unused"
    BY <1>1 DEF SnapshotsOrdered, WatcherStates
  <2>4. \A p \in Pods : phase[p] # "absent" => Live(p) \/ Gone(p)
    BY <1>1 DEF TypeOK, ClusterTypeOK, PodPhases, Live, Gone
  <2>5. \A j \in w'.jobs : owner'[j] \in w'.pods \/ Gone(owner[j])'
    BY <1>1, <2>1, <2>2, <2>3, <2>4 DEF JobsOfPods, Gone
  <2>6. \A j \in w'.jobs \cup w'.cancel : jobState'[j] # "unused"
    BY <1>1, <2>1, <2>2 DEF SnapshotsOrdered
  <2> QED BY <2>5, <2>6 DEF SnapshotsOrdered
<1>6. CASE ListsConfigMaps /\ w' # WatcherIdle
  <2>1. w'.step = "sweep" /\ w'.jobs = {} /\ w'.cancel = OnlyOnSlurm
    BY <1>6 DEF ListsConfigMaps, WatcherIdle
  <2> QED BY <1>1, <2>1, SnapshotsKept DEF OnlyOnSlurm
<1>7. ASSUME SweepsPod \/ SweepsConfigMap \/ SweepEnds \/ CancelsJob \/ CancelEnds
      PROVE  SnapshotsOrdered'
  <2>1. w'.step # "cms" /\ w'.jobs = w.jobs /\ w'.cancel \subseteq w.cancel
    BY <1>1, <1>7
    DEF SweepsPod, SweepsConfigMap, SweepEnds, CancelsJob, CancelEnds, WatcherStates
  <2> QED BY <1>1, <2>1, SnapshotsKept
<1>8. ASSUME EvictionBegins \/ EvictsPod \/ EvictionListsConfigMap \/ EvictsConfigMap
      PROVE  SnapshotsOrdered'
  <2>1. w'.step # "cms" /\ w'.jobs = w.jobs /\ w'.cancel = w.cancel
    BY <1>1, <1>8
    DEF EvictionBegins, EvictsPod, EvictionListsConfigMap, EvictsConfigMap, NextUUID,
        WatcherStates
  <2> QED BY <1>1, <2>1, SnapshotsKept
<1>9. CASE WatcherNext
  BY <1>3, <1>4, <1>5, <1>6, <1>7, <1>8, <1>9 DEF WatcherNext, ListsPods, RoutineEnds
<1> QED BY <1>2, <1>3, <1>9 DEF Next, Crash, Restart, vars

-----------------------------------------------------------------------------
(* The pods a step is not about.                                           *)

\* A step that leaves the config-maps alone is quiet there.
LEMMA UntouchedCM ==
    ASSUME NEW q \in Pods, UNCHANGED cms
    PROVE  QuietCM(q)
BY DEF QuietCM, CM

\* So is the write of another pod's config-map, if names are unique, ...
LEMMA OtherCM ==
    ASSUME ClusterTypeOK, UniqueNames, NEW p \in Pods, NEW q \in Pods \ {p}, NEW cm,
           PutCM(ObjName[p], cm)
    PROVE  QuietCM(q)
<1>1. CM(q)' = CM(q)
  BY ClusterAssumption DEF ClusterTypeOK, UniqueNames, PutCM, CM
<1> QED BY <1>1 DEF QuietCM

\* ... a Get, ...
LEMMA FetchedCM ==
    ASSUME ClusterTypeOK, NEW n \in Names, cms[n] # NoCM, NEW r \in Reqs, FetchCM(n, r),
           NEW q \in Pods
    PROVE  QuietCM(q)
<1>1. CASE ObjName[q] = n
  BY <1>1 DEF ClusterTypeOK, ConfigMaps, FetchCM, QuietCM, CM
<1>2. CASE ObjName[q] # n
  <2>1. CM(q)' = CM(q)
    BY <1>2, ClusterAssumption DEF ClusterTypeOK, FetchCM, CM
  <2> QED BY <2>1 DEF QuietCM
<1> QED BY <1>1, <1>2

\* ... and a Delete.
LEMMA DeletedCM ==
    ASSUME ClusterTypeOK, NEW n, DeleteCM(n), NEW q \in Pods
    PROVE  QuietCM(q)
<1>1. CM(q)' \in {NoCM, CM(q)}
  BY ClusterAssumption DEF ClusterTypeOK, DeleteCM, CM
<1> QED BY <1>1 DEF QuietCM

\* Goroutines that do not move are quiet.
LEMMA UntouchedCalls ==
    ASSUME NEW q \in Pods, UNCHANGED req
    PROVE  QuietCalls(q)
BY DEF QuietCalls, Serves

\* So are a goroutine that ends, ...
LEMMA EndedCalls ==
    ASSUME EndpointsTypeOK, NEW q \in Pods, NEW r \in Reqs, req' = [req EXCEPT ![r] = Idle]
    PROVE  QuietCalls(q)
BY DEF EndpointsTypeOK, QuietCalls, Serves, Idle

\* ... one that serves another pod, ...
LEMMA OtherCalls ==
    ASSUME NEW q \in Pods, NEW r \in Reqs, req[r].pod # q, NEW step, NEW j, Moves(r, step, j)
    PROVE  QuietCalls(q)
<1>1. ~Serves(r, q)'
  BY DEF Moves, Serves, Idle
<1> QED BY <1>1 DEF Moves, QuietCalls, Serves

\* ... and one whose client has died.
LEMMA DisconnectedCalls ==
    ASSUME EndpointsTypeOK, NEW q \in Pods, NEW p, req' = Disconnected(p)
    PROVE  QuietCalls(q)
BY DisconnectedKeeps DEF QuietCalls, Serves, Idle

\* The cluster is quiet: users and workloads end pods.
LEMMA ClusterQuiet ==
    ASSUME TypeOK, ClusterNext, UNCHANGED <<wh, req, initVars>>, NEW q \in Pods
    PROVE  Quiet(q)
<1>1. QuietCM(q) /\ QuietCalls(q)
  BY UntouchedCM, UntouchedCalls
  DEF ClusterNext, JobStarts, JobEnds, UserDeletesPod, WorkloadExits
<1>2. QuietPod(q)
  <2>1. ASSUME NEW p \in Pods, UserDeletesPod(p) PROVE QuietPod(q)
    BY <2>1, DeletePodNamedQuiet DEF UserDeletesPod, DeletePodNamed, QuietPod
  <2>2. ASSUME NEW p \in Pods, WorkloadExits(p) PROVE QuietPod(q)
    BY <2>2 DEF WorkloadExits, QuietPod, Gone, TypeOK, ClusterTypeOK
  <2> QED BY <2>1, <2>2 DEF ClusterNext, JobStarts, JobEnds, podVars, QuietPod
<1> QED BY <1>1, <1>2 DEF Quiet, QuietScripts, initVars

\* The watcher is quiet: it deletes pods and config-maps.
LEMMA WatcherQuiet ==
    ASSUME TypeOK, WatcherNext, NEW q \in Pods
    PROVE  Quiet(q)
<1>1. UNCHANGED <<wh, req, initVars, env>>
  BY DEF WatcherNext, FetchesJobsOnSlurm, ListsPods, ListsConfigMaps, SweepsPod, SweepsConfigMap,
         SweepEnds, CancelsJob, CancelEnds, EvictionBegins, EvictsPod, EvictionListsConfigMap,
         EvictsConfigMap, RoutineEnds, DeletePodNamed, clusterVars, podVars
<1>2. QuietCM(q)
  <2>1. CASE UNCHANGED cms
    BY <2>1, UntouchedCM
  <2>2. ASSUME NEW n, DeleteCM(n) PROVE QuietCM(q)
    BY <2>2, DeletedCM DEF TypeOK
  <2> QED
    BY <2>1, <2>2
    DEF WatcherNext, FetchesJobsOnSlurm, ListsPods, ListsConfigMaps, SweepsPod, SweepsConfigMap,
        SweepEnds, CancelsJob, CancelEnds, EvictionBegins, EvictsPod, EvictionListsConfigMap,
        EvictsConfigMap, RoutineEnds, clusterVars
<1>3. phase'[q] = phase[q] \/ (phase[q] # "absent" /\ Gone(q)')
  <2>1. CASE UNCHANGED phase
    BY <2>1
  <2>2. ASSUME NEW p, DeletePodNamed(p)
        PROVE  phase'[q] = phase[q] \/ (phase[q] # "absent" /\ Gone(q)')
    BY <2>2, DeletePodNamedQuiet
  <2> QED
    BY <2>1, <2>2
    DEF WatcherNext, FetchesJobsOnSlurm, ListsPods, ListsConfigMaps, SweepsPod, SweepsConfigMap,
        SweepEnds, CancelsJob, CancelEnds, EvictionBegins, EvictsPod, EvictionListsConfigMap,
        EvictsConfigMap, RoutineEnds, clusterVars, podVars
<1> QED BY <1>1, <1>2, <1>3, UntouchedCalls DEF Quiet, QuietPod, QuietScripts, initVars

\* Nothing is quieter than nothing, and a process that starts does no more.
LEMMA NothingQuiet ==
    ASSUME UNCHANGED <<wh, req, initVars, phase, env, cms>>, NEW q \in Pods
    PROVE  Quiet(q)
BY UntouchedCM, UntouchedCalls DEF Quiet, QuietPod, QuietScripts, initVars

\* The CREATE of p is quiet for the others.
LEMMA WebhookQuiet ==
    ASSUME TypeOK, UniqueNames, NEW p \in Pods, NEW q \in Pods \ {p},
           Inject(p) \/ InjectGetsConfigMap(p) \/ InjectWritesConfigMap(p) \/ PodCreated(p),
           UNCHANGED <<req, initVars>>
    PROVE  Quiet(q)
<1> USE DEF TypeOK, ClusterTypeOK, WebhookTypeOK
<1>1. QuietCM(q)
  BY UntouchedCM, OtherCM
  DEF Inject, InjectGetsConfigMap, InjectWritesConfigMap, PodCreated, clusterVars
<1>2. QuietPod(q)
  BY DEF Inject, InjectGetsConfigMap, InjectWritesConfigMap, PodCreated, clusterVars, podVars,
         QuietPod
<1> QED BY <1>1, <1>2, UntouchedCalls DEF Quiet, QuietScripts, initVars

\* The endpoints leave pods and scripts alone.
LEMMA EndpointFrame ==
    ASSUME NEW r \in Reqs, EndpointStep(r)
    PROVE  UNCHANGED <<podVars, wh>>
BY DEF EndpointStep, SbatchGetsConfigMap, SbatchWritesConfigMap, SbatchSubmits, SbatchRefetches,
       SbatchBinds, SbatchDeletesConfigMap, EnvRuns, EnvFetches, EnvStores, clusterVars, podVars

\* A goroutine is quiet for the pods it does not serve.
LEMMA EndpointQuiet ==
    ASSUME TypeOK, RequestsOwnJob, UniqueNames, NEW r \in Reqs, EndpointStep(r),
           NEW q \in Pods, req[r].pod # q, UNCHANGED initVars
    PROVE  Quiet(q)
<1>1. req[r].pod \in Pods /\ NameOf(r) \in Names
  BY EndpointMoves, NameOfType DEF RequestsOwnJob
<1>2. QuietCalls(q)
  BY EndpointMoves, OtherCalls
<1>3. QuietCM(q)
  <2>1. CASE UNCHANGED cms
    BY <2>1, UntouchedCM
  <2>2. ASSUME NEW cm, PutCM(NameOf(r), cm) PROVE QuietCM(q)
    BY <1>1, <2>2, OtherCM DEF TypeOK, NameOf
  <2>3. ASSUME cms[NameOf(r)] # NoCM, FetchCM(NameOf(r), r) PROVE QuietCM(q)
    BY <1>1, <2>3, FetchedCM DEF TypeOK
  <2>4. ASSUME DeleteCM(NameOf(r)) PROVE QuietCM(q)
    BY <2>4, DeletedCM DEF TypeOK
  <2> QED
    BY <2>1, <2>2, <2>3, <2>4
    DEF EndpointStep, SbatchGetsConfigMap, SbatchWritesConfigMap, SbatchSubmits, SbatchRefetches,
        SbatchBinds, SbatchDeletesConfigMap, EnvRuns, EnvFetches, EnvStores, clusterVars
<1> QED BY <1>2, <1>3, EndpointFrame DEF Quiet, QuietPod, QuietScripts, podVars, initVars

\* A step of the scripts or of the kubelet about pod p.
ScriptOrKubeletStep(p) ==
    \/ FirstContainerStarts(p) \/ AsksIsInjectable(p) \/ CallsSbatch(p)
    \/ SbatchAnswered(p) \/ Polls(p) \/ CallsEnvToConfigMap(p) \/ EnvAnswered(p)
    \/ RollsBack(p) \/ KubeletHandlesFailure(p) \/ ContainersStart(p)
    \/ ContainersRestart(p) \/ InitContainerKilled(p) \/ KubeletRemoves(p)

\* It is quiet for the other pods, ...
LEMMA ScriptQuiet ==
    ASSUME TypeOK, NEW p \in Pods, ScriptOrKubeletStep(p), NEW q \in Pods \ {p}
    PROVE  Quiet(q)
<1> USE DEF TypeOK, ClusterTypeOK, InitContainersTypeOK
<1>1. UNCHANGED <<cms, wh>>
  BY DEF ScriptOrKubeletStep, FirstContainerStarts, AsksIsInjectable, CallsSbatch, SbatchAnswered,
         Polls, CallsEnvToConfigMap, EnvAnswered, RollsBack, KubeletHandlesFailure,
         ContainersStart, ContainersRestart, InitContainerKilled, KubeletRemoves, clusterVars
<1>2. QuietCalls(q)
  <2>1. CASE UNCHANGED req
    BY <2>1, UntouchedCalls
  <2>2. ASSUME NEW r \in Reqs, req' = [req EXCEPT ![r] = Idle] PROVE QuietCalls(q)
    BY <2>2, EndedCalls
  <2>3. CASE req' = Disconnected(p)
    BY <2>3, DisconnectedCalls
  <2>4. ASSUME NEW r \in Reqs, NEW step, NEW j, Serve(r, step, p, j) PROVE QuietCalls(q)
    BY <2>4 DEF EndpointsTypeOK, Serve, QuietCalls, Serves
  <2> QED
    BY <2>1, <2>2, <2>3, <2>4
    DEF ScriptOrKubeletStep, FirstContainerStarts, AsksIsInjectable, CallsSbatch, SbatchAnswered,
        Polls, CallsEnvToConfigMap, EnvAnswered, RollsBack, KubeletHandlesFailure,
        ContainersStart, ContainersRestart, InitContainerKilled, KubeletRemoves
<1>3. phase'[q] = phase[q] /\ env'[q] = env[q]
  BY DEF ScriptOrKubeletStep, FirstContainerStarts, AsksIsInjectable, CallsSbatch, SbatchAnswered,
         Polls, CallsEnvToConfigMap, EnvAnswered, RollsBack, KubeletHandlesFailure,
         ContainersStart, ContainersRestart, InitContainerKilled, KubeletRemoves, clusterVars,
         podVars
<1>4. ic'[q] = ic[q] /\ file'[q] = file[q]
  BY DEF ScriptOrKubeletStep, FirstContainerStarts, AsksIsInjectable, CallsSbatch, SbatchAnswered,
         Polls, CallsEnvToConfigMap, EnvAnswered, RollsBack, KubeletHandlesFailure,
         ContainersStart, ContainersRestart, InitContainerKilled, KubeletRemoves, Step, initVars
<1> QED BY <1>1, <1>2, <1>3, <1>4, UntouchedCM DEF Quiet, QuietPod, QuietScripts

\* ... and quiet for p as well when the kubelet removes p: a call in progress goes on.
LEMMA RemovalQuiet ==
    ASSUME TypeOK, NEW p \in Pods, KubeletRemoves(p)
    PROVE  Quiet(p)
<1>1. QuietCalls(p)
  BY DisconnectedCalls DEF TypeOK, KubeletRemoves
<1>2. QuietPod(p)
  BY DEF TypeOK, ClusterTypeOK, KubeletRemoves, Live, Gone, QuietPod
<1> QED BY <1>1, <1>2, UntouchedCM DEF KubeletRemoves, Quiet, QuietScripts, initVars

-----------------------------------------------------------------------------
(* The pod a step is about: its CREATE.                                    *)

\* No job of a pod that was not created is up for cancellation.
LEMMA NoCancelsBeforePod ==
    ASSUME TypeOK, JobsOfPods, SnapshotsOrdered, Forward, NEW p \in Pods, phase[p] = "absent",
           w'.cancel \subseteq w.cancel
    PROVE  CancelsLoose(p)'
BY CancelledHasOwner DEF CancelsLoose

\* Nobody works for a pod that was not created.
LEMMA NoCallsBeforePod ==
    ASSUME TypeOK, NEW p \in Pods, CallerWaits(p), ic[p] \notin {"sbatching", "storing"}
    PROVE  \A r \in Reqs : ~Serves(r, p)
BY DEF TypeOK, EndpointsTypeOK, Requests, ReqSteps, SbatchSteps, EnvSteps, CallerWaits, Serves

\* The webhook writes the config-map before there is a pod.
LEMMA WebhookPod ==
    ASSUME TypeOK, JobsOfPods, SnapshotsOrdered, Forward, NEW p \in Pods,
           PodInv(p), CancelsLoose(p),
           Inject(p) \/ InjectGetsConfigMap(p) \/ InjectWritesConfigMap(p) \/ PodCreated(p),
           UNCHANGED <<req, initVars, w>>
    PROVE  PodInv(p)' /\ CancelsLoose(p)'
<1> USE DEF TypeOK, ClusterTypeOK, WebhookTypeOK
<1>1. phase[p] = "absent" /\ ic[p] = "none"
  BY DEF Inject, InjectGetsConfigMap, InjectWritesConfigMap, PodCreated, PodInv, FromCreate
<1>2. CancelsLoose(p)'
  BY <1>1, NoCancelsBeforePod
<1>3. CASE UNCHANGED <<phase, env, cms>>
  <2>1. Quiet(p)
    BY <1>3, UntouchedCM, UntouchedCalls, <1>1
    DEF Inject, InjectGetsConfigMap, InjectWritesConfigMap, PodCreated, Quiet, QuietPod,
        QuietScripts, initVars
  <2> QED BY <1>2, <2>1, QuietKeepsPod
<1>4. CASE InjectWritesConfigMap(p) /\ PutCM(ObjName[p], FreshCM(p))
  <2>1. CM(p)'.jobid = ToBeSet /\ CM(p)'.env = NoJob
    BY <1>4, ClusterAssumption DEF PutCM, FreshCM, CM
  <2>2. UNCHANGED <<phase, env, ic, file, req>>
    BY <1>4 DEF InjectWritesConfigMap, podVars, initVars
  <2>3. wh'[p] = "created" \/ phase[p] = "absent"
    BY <1>1
  <2> QED
    BY <1>1, <1>2, <2>1, <2>2, NoCallsBeforePod
    DEF PodInv, CallerWaits, NoIdYet, FromCreate, BoundWithin, FreshInCall, AnswerBound,
        FileBound, EnvWithJob, MatchesEnv, Serves, ToBeSet
<1>5. CASE PodCreated(p) /\ phase' = [phase EXCEPT ![p] = "Pending"]
  <2>1. wh'[p] = "created" /\ phase'[p] = "Pending"
    BY <1>5, <1>1 DEF PodCreated
  <2>2. UNCHANGED <<cms, env, ic, file, req>>
    BY <1>5 DEF PodCreated, initVars
  <2> QED
    BY <1>2, <2>1, <2>2
    DEF PodInv, CallerWaits, NoIdYet, FromCreate, CM, BoundWithin, FreshInCall, AnswerBound,
        FileBound, EnvWithJob, MatchesEnv, Serves
<1> QED
  BY <1>3, <1>4, <1>5
  DEF Inject, InjectGetsConfigMap, InjectWritesConfigMap, PodCreated, clusterVars, podVars

-----------------------------------------------------------------------------
(* The pod a step is about: its calls.                                     *)

\* What a move of the goroutine that serves p leaves of the calls for p.
LEMMA ServedMoves ==
    ASSUME OneCall, NEW p \in Pods, NEW r \in Reqs, Serves(r, p), NEW step, NEW j,
           Moves(r, step, j), NEW s \in Reqs, Serves(s, p)'
    PROVE  s = r /\ req'[s].step = step /\ req'[s].job = j
<1>1. CASE s # r
  BY <1>1 DEF Moves, OneCall, Serves
<1>2. CASE s = r
  BY <1>2 DEF Moves, Serves, Idle
<1> QED BY <1>1, <1>2

\* Where a handler of p may go, given its script.
MayReach(p, step, j) ==
    /\ step \in SbatchSteps => ic[p] = "sbatching"
    /\ step \in EnvSteps => ic[p] = "storing" /\ j = file[p]
    /\ step \in {"answered", "refused"} => ic[p] \in {"sbatching", "storing"}
    /\ step \in {"get", "create", "update", "submit", "delete", "refused"} => j = NoJob

\* What the config-map must be for it there, given its script.
BoundFor(p, step, j) ==
    /\ step \in {"submit", "reget", "bind", "delete"} => BoundWithin(p, {})
    /\ step = "answered" /\ ic[p] = "sbatching" => BoundWithin(p, {j})
    /\ FileBound(p)
    /\ EnvWithJob(p)

\* A handler at work keeps what is known of its pod.
LEMMA EndpointPod ==
    ASSUME TypeOK, OneCall, NEW p \in Pods, PodInv(p), NEW r \in Reqs, Serves(r, p),
           NEW step, NEW j, Moves(r, step, j), UNCHANGED <<podVars, wh, initVars>>,
           MayReach(p, step, j), BoundFor(p, step, j)'
    PROVE  PodInv(p)'
<1>1. \A s \in Reqs : Serves(s, p)' => s = r /\ req'[s].step = step /\ req'[s].job = j
  BY ServedMoves
<1>2. UNCHANGED <<phase, env, wh, ic, file>>
  BY DEF podVars, initVars
<1>3. phase[p] # "Running"
  <2>1. ic[p] # "done"
    BY DEF TypeOK, EndpointsTypeOK, Requests, ReqSteps, SbatchSteps, EnvSteps, Serves, PodInv,
           CallerWaits
  <2> QED BY <2>1 DEF PodInv, FromCreate
<1>4. CallerWaits(p)' /\ NoIdYet(p)'
  BY <1>1, <1>2 DEF MayReach, CallerWaits, NoIdYet
<1>5. FreshInCall(p)' /\ AnswerBound(p)'
  BY <1>1, <1>2 DEF BoundFor, FreshInCall, AnswerBound
<1>6. FromCreate(p)' /\ MatchesEnv(p)'
  BY <1>2, <1>3 DEF PodInv, FromCreate, MatchesEnv
<1> QED BY <1>4, <1>5, <1>6 DEF PodInv, BoundFor

\* What a handler with the job k may do to the config-map of p.
MayWrite(p, k) ==
    \/ CM(p)' = NoCM
    \/ CM(p) # NoCM /\ CM(p)'.jobid \in {CM(p).jobid, k}
    \/ CM(p)'.jobid = ToBeSet /\ k = NoJob /\ ic[p] = "sbatching"

\* A handler at work binds no job that is up for cancellation.
LEMMA EndpointCancels ==
    ASSUME TypeOK, JobsOfPods, SnapshotsOrdered, Forward, OneCall,
           NEW p \in Pods, CancelsLoose(p), NEW r \in Reqs, Serves(r, p),
           NEW step, NEW j, Moves(r, step, j), UNCHANGED <<podVars, initVars, w>>,
           j \in {NoJob, req[r].job} \/ jobState[j] = "unused", MayWrite(p, req[r].job)
    PROVE  CancelsLoose(p)'
<1> SUFFICES ASSUME NEW i \in w'.cancel, owner'[i] = p PROVE Gone(p)' \/ Loose(p, i)'
  BY DEF CancelsLoose
<1>1. i \in w.cancel /\ owner[i] = p /\ i \in JobIds
  BY CancelledHasOwner
<1>2. CASE Gone(p)
  BY <1>2 DEF Forward
<1>3. CASE Loose(p, i)
  <2>1. i # NoJob /\ jobState[i] # "unused"
    BY <1>1 DEF SnapshotsOrdered, NoJob, JobIds
  <2>2. \A s \in Reqs : Serves(s, p)' => s = r /\ req'[s].job = j
    BY ServedMoves
  <2>3. UNCHANGED <<ic, file>>
    BY DEF initVars
  <2>4. CASE CM(p)' = NoCM
    BY <2>4 DEF Loose
  <2>5. CASE CM(p) # NoCM /\ CM(p)'.jobid \in {CM(p).jobid, req[r].job}
    <3>1. CM(p).jobid # i /\ req[r].job # i
      BY <1>3, <2>5 DEF Loose
    <3>2. file[p] = i => ic[p] = "sbatching"
      BY <1>3, <2>5 DEF Loose
    <3> QED BY <2>1, <2>2, <2>3, <2>5, <3>1, <3>2 DEF Loose
  <2>6. CASE CM(p)'.jobid = ToBeSet /\ req[r].job = NoJob /\ ic[p] = "sbatching"
    BY <1>1, <2>1, <2>2, <2>3, <2>6 DEF Loose, ToBeSet, JobIds
  <2> QED BY <2>4, <2>5, <2>6 DEF MayWrite
<1> QED BY <1>1, <1>2, <1>3 DEF CancelsLoose

\* A handler that leaves what its config-map is bound to.
LEMMA BoundForKept ==
    ASSUME NEW p \in Pods, UNCHANGED initVars, QuietCM(p), NEW step, NEW j, BoundFor(p, step, j)
    PROVE  BoundFor(p, step, j)' /\ \A k : MayWrite(p, k)
BY DEF BoundFor, QuietCM, BoundWithin, FileBound, EnvWithJob, MayWrite, initVars

\* A handler that leaves what its config-map is bound to: all of the above.
LEMMA QuietEndpoint ==
    ASSUME TypeOK, JobsOfPods, SnapshotsOrdered, Forward, OneCall,
           NEW p \in Pods, PodInv(p), CancelsLoose(p), NEW r \in Reqs, Serves(r, p),
           NEW step, NEW j, Moves(r, step, j), UNCHANGED <<podVars, wh, initVars, w>>,
           j \in {NoJob, req[r].job} \/ jobState[j] = "unused", QuietCM(p),
           MayReach(p, step, j), BoundFor(p, step, j)
    PROVE  PodInv(p)' /\ CancelsLoose(p)'
BY BoundForKept, EndpointPod, EndpointCancels

\* Goroutine r serves p, with job j, and what is known of p.
Served(r, p, j) ==
    /\ Serves(r, p) /\ req[r].job = j
    /\ PodInv(p) /\ CancelsLoose(p)
    /\ NameOf(r) = ObjName[p]

\* The facts every lemma on an endpoint starts from.
Context ==
    TypeOK /\ JobsOfPods /\ SnapshotsOrdered /\ Forward /\ OneCall /\ RequestsHaveJob
           /\ UNCHANGED <<initVars, w>>

\* sbatch reads the config-map, or refuses.
LEMMA SbatchGetsPod ==
    ASSUME Context, NEW r \in Reqs, NEW p \in Pods, NEW j, Served(r, p, j),
           SbatchGetsConfigMap(r)
    PROVE  PodInv(p)' /\ CancelsLoose(p)'
<1> USE DEF Served, Serves, Context
<1>1. QuietCM(p) /\ UNCHANGED <<podVars, wh>>
  BY UntouchedCM DEF SbatchGetsConfigMap, clusterVars, podVars
<1>2. ic[p] = "sbatching" /\ j = NoJob
  BY DEF SbatchGetsConfigMap, SbatchSteps, PodInv, CallerWaits, NoIdYet
<1>3. PICK step \in {"create", "update", "refused"} : Moves(r, step, NoJob)
  BY <1>2, GotoMoves, ReplyMoves DEF SbatchGetsConfigMap, TypeOK
<1>4. MayReach(p, step, NoJob) /\ BoundFor(p, step, NoJob)
  BY <1>2 DEF MayReach, SbatchSteps, EnvSteps, BoundFor, PodInv
<1> QED BY <1>1, <1>3, <1>4, QuietEndpoint

\* sbatch reserves the name, or refuses.
LEMMA SbatchWritesPod ==
    ASSUME Context, NEW r \in Reqs, NEW p \in Pods, NEW j, Served(r, p, j),
           SbatchWritesConfigMap(r)
    PROVE  PodInv(p)' /\ CancelsLoose(p)'
<1> USE DEF Served, Serves, Context
<1>1. UNCHANGED <<podVars, wh>>
  BY DEF SbatchWritesConfigMap
<1>2. ic[p] = "sbatching" /\ j = NoJob
  BY DEF SbatchWritesConfigMap, SbatchSteps, PodInv, CallerWaits, NoIdYet
<1>3. CASE PutCM(NameOf(r), FreshCM(req[r].pod)) /\ Goto(r, "submit")
  <2>1. CM(p)'.jobid = ToBeSet /\ CM(p)'.env = NoJob
    BY <1>3, ClusterAssumption DEF PutCM, FreshCM, CM, TypeOK, ClusterTypeOK
  <2>2. Moves(r, "submit", NoJob)
    BY <1>2, <1>3, GotoMoves DEF TypeOK
  <2>3. MayReach(p, "submit", NoJob) /\ MayWrite(p, NoJob)
    BY <1>2, <2>1 DEF MayReach, SbatchSteps, EnvSteps, MayWrite
  <2>4. BoundFor(p, "submit", NoJob)'
    BY <2>1 DEF BoundFor, BoundWithin, FileBound, EnvWithJob
  <2> QED BY <1>1, <1>2, <2>2, <2>3, <2>4, EndpointPod, EndpointCancels
<1>4. CASE Reply(r, "refused", NoJob) /\ UNCHANGED cms
  <2>1. Moves(r, "refused", NoJob)
    BY <1>4, ReplyMoves DEF TypeOK
  <2>2. MayReach(p, "refused", NoJob) /\ BoundFor(p, "refused", NoJob)
    BY <1>2 DEF MayReach, SbatchSteps, EnvSteps, BoundFor, PodInv
  <2> QED BY <1>1, <1>4, <2>1, <2>2, UntouchedCM, QuietEndpoint
<1> QED BY <1>3, <1>4 DEF SbatchWritesConfigMap

\* sbatch submits; the number it gets is new.
LEMMA SbatchSubmitsPod ==
    ASSUME Context, NEW r \in Reqs, NEW p \in Pods, NEW j, Served(r, p, j),
           SbatchSubmits(r)
    PROVE  PodInv(p)' /\ CancelsLoose(p)'
<1> USE DEF Served, Serves, Context
<1>1. QuietCM(p) /\ UNCHANGED <<podVars, wh>>
  BY UntouchedCM DEF SbatchSubmits
<1>2. ic[p] = "sbatching" /\ j = NoJob /\ BoundWithin(p, {})
  BY DEF SbatchSubmits, SbatchSteps, PodInv, CallerWaits, NoIdYet, FreshInCall
<1>3. CASE SbatchFailed(r)
  <2>1. PICK step \in {"delete", "reget"} : Moves(r, step, NoJob)
    BY <1>2, <1>3, GotoMoves DEF SbatchFailed, TypeOK
  <2>2. MayReach(p, step, NoJob) /\ BoundFor(p, step, NoJob)
    BY <1>2 DEF MayReach, SbatchSteps, EnvSteps, BoundFor, PodInv
  <2> QED BY <1>1, <2>1, <2>2, QuietEndpoint
<1>4. ASSUME NEW i \in JobIds, QueueJob(req[r].pod, i),
             req' = [req EXCEPT ![r].step = "reget", ![r].job = i]
      PROVE  PodInv(p)' /\ CancelsLoose(p)'
  <2>1. Moves(r, "reget", i)
    BY <1>4 DEF TypeOK, EndpointsTypeOK, Requests, Moves
  <2>2. MayReach(p, "reget", i) /\ BoundFor(p, "reget", i)
    BY <1>2 DEF MayReach, SbatchSteps, EnvSteps, BoundFor, PodInv
  <2>3. jobState[i] = "unused"
    BY <1>4 DEF QueueJob
  <2> QED BY <1>1, <2>1, <2>2, <2>3, QuietEndpoint
<1> QED BY <1>3, <1>4 DEF SbatchSubmits

\* sbatch reads the config-map back.
LEMMA SbatchRefetchesPod ==
    ASSUME Context, NEW r \in Reqs, NEW p \in Pods, NEW j, Served(r, p, j),
           SbatchRefetches(r)
    PROVE  PodInv(p)' /\ CancelsLoose(p)'
<1> USE DEF Served, Serves, Context
<1>1. QuietCM(p) /\ UNCHANGED <<podVars, wh>>
  BY UntouchedCM, FetchedCM, ClusterAssumption DEF SbatchRefetches, TypeOK
<1>2. ic[p] = "sbatching" /\ BoundWithin(p, {})
  BY DEF SbatchRefetches, SbatchSteps, PodInv, CallerWaits, FreshInCall
<1>3. PICK step \in {"bind", "answered"} : Moves(r, step, j)
  BY GotoMoves, ReplyMoves DEF SbatchRefetches, TypeOK
<1>4. MayReach(p, step, j) /\ BoundFor(p, step, j)
  BY <1>2 DEF MayReach, SbatchSteps, EnvSteps, BoundWithin, BoundFor, PodInv
<1> QED BY <1>1, <1>3, <1>4, QuietEndpoint

\* sbatch binds the job it submitted, and nothing was bound.
LEMMA SbatchBindsPod ==
    ASSUME Context, NEW r \in Reqs, NEW p \in Pods, NEW j, Served(r, p, j),
           SbatchBinds(r)
    PROVE  PodInv(p)' /\ CancelsLoose(p)'
<1> USE DEF Served, Serves, Context
<1>1. UNCHANGED <<podVars, wh>>
  BY DEF SbatchBinds
<1>2. ic[p] = "sbatching" /\ BoundWithin(p, {})
  BY DEF SbatchBinds, SbatchSteps, PodInv, CallerWaits, FreshInCall
<1>3. Moves(r, "answered", j) /\ MayReach(p, "answered", j)
  BY <1>2, ReplyMoves DEF SbatchBinds, TypeOK, MayReach, SbatchSteps, EnvSteps
<1>4. CASE UNCHANGED cms
  <2>1. BoundFor(p, "answered", j)
    BY <1>2 DEF BoundWithin, BoundFor, PodInv
  <2> QED BY <1>1, <1>3, <1>4, <2>1, UntouchedCM, QuietEndpoint
<1>5. CASE /\ Current(NameOf(r), r)
           /\ PutCM(NameOf(r), [cms[NameOf(r)] EXCEPT !.jobid = j, !.readers = {}])
  <2>1. CM(p) # NoCM /\ CM(p) \in ConfigMaps
    BY <1>5, ClusterAssumption DEF Current, CM, TypeOK, ClusterTypeOK
  <2>2. CM(p)' = [CM(p) EXCEPT !.jobid = j, !.readers = {}]
    BY <1>5, ClusterAssumption DEF PutCM, CM, TypeOK, ClusterTypeOK
  <2>3. CM(p)'.jobid = j /\ CM(p)'.env = CM(p).env
    BY <2>1, <2>2 DEF ConfigMaps
  <2>4. CM(p).jobid = ToBeSet
    BY <1>2, <2>1 DEF BoundWithin
  <2>5. CM(p).env = NoJob
    BY <2>1, <2>4 DEF PodInv, EnvWithJob, ConfigMaps, ToBeSet, NoJob, JobIds
  <2>6. BoundFor(p, "answered", j)'
    BY <1>2, <2>3, <2>5 DEF BoundFor, BoundWithin, FileBound, EnvWithJob, initVars
  <2>7. MayWrite(p, j)
    BY <2>1, <2>3 DEF MayWrite
  <2> QED BY <1>1, <1>3, <2>6, <2>7, EndpointPod, EndpointCancels
<1> QED BY <1>4, <1>5 DEF SbatchBinds

\* sbatch clears up after a submission that failed.
LEMMA SbatchDeletesPod ==
    ASSUME Context, NEW r \in Reqs, NEW p \in Pods, NEW j, Served(r, p, j),
           SbatchDeletesConfigMap(r)
    PROVE  PodInv(p)' /\ CancelsLoose(p)'
<1> USE DEF Served, Serves, Context
<1>1. QuietCM(p) /\ UNCHANGED <<podVars, wh>>
  BY UntouchedCM, DeletedCM DEF SbatchDeletesConfigMap, TypeOK
<1>2. ic[p] = "sbatching" /\ BoundWithin(p, {})
  BY DEF SbatchDeletesConfigMap, SbatchSteps, PodInv, CallerWaits, FreshInCall
<1>3. Moves(r, "answered", NoJob)
  BY ReplyMoves DEF SbatchDeletesConfigMap, TypeOK
<1>4. MayReach(p, "answered", NoJob) /\ BoundFor(p, "answered", NoJob)
  BY <1>2 DEF MayReach, SbatchSteps, EnvSteps, BoundWithin, BoundFor, PodInv
<1> QED BY <1>1, <1>3, <1>4, QuietEndpoint

\* envtoconfigmap runs srun, and reads the config-map.
LEMMA EnvReadsPod ==
    ASSUME Context, NEW r \in Reqs, NEW p \in Pods, NEW j, Served(r, p, j),
           EnvRuns(r) \/ EnvFetches(r)
    PROVE  PodInv(p)' /\ CancelsLoose(p)'
<1> USE DEF Served, Serves, Context
<1>1. UNCHANGED <<podVars, wh>>
  BY DEF EnvRuns, EnvFetches, clusterVars, podVars
<1>2. QuietCM(p)
  BY UntouchedCM, FetchedCM, ClusterAssumption DEF EnvRuns, EnvFetches, TypeOK, clusterVars
<1>3. ic[p] = "storing" /\ j = file[p]
  BY DEF EnvRuns, EnvFetches, EnvSteps, PodInv, CallerWaits
<1>4. PICK step \in {"fetch", "store", "refused"}, k \in {NoJob, j} :
        Moves(r, step, k) /\ (step = "refused" <=> k = NoJob)
  <2>1. j # NoJob
    BY DEF EnvRuns, EnvFetches, RequestsHaveJob, EnvSteps, JobIds, NoJob
  <2> QED BY <2>1, GotoMoves, ReplyMoves DEF EnvRuns, EnvFetches, TypeOK
<1>5. MayReach(p, step, k) /\ BoundFor(p, step, k)
  BY <1>3, <1>4 DEF MayReach, SbatchSteps, EnvSteps, BoundFor, PodInv
<1> QED BY <1>1, <1>2, <1>4, <1>5, QuietEndpoint

\* envtoconfigmap binds the job in the file, which was bound already if any was.
LEMMA EnvStoresPod ==
    ASSUME Context, NEW r \in Reqs, NEW p \in Pods, NEW j, Served(r, p, j),
           EnvStores(r)
    PROVE  PodInv(p)' /\ CancelsLoose(p)'
<1> USE DEF Served, Serves, Context
<1>1. UNCHANGED <<podVars, wh>>
  BY DEF EnvStores
<1>2. ic[p] = "storing" /\ j = file[p]
  BY DEF EnvStores, EnvSteps, PodInv, CallerWaits
<1>3. CASE Reply(r, "refused", NoJob) /\ UNCHANGED cms
  <2>1. Moves(r, "refused", NoJob)
    BY <1>3, ReplyMoves DEF TypeOK
  <2>2. MayReach(p, "refused", NoJob) /\ BoundFor(p, "refused", NoJob)
    BY <1>2 DEF MayReach, SbatchSteps, EnvSteps, BoundFor, PodInv
  <2> QED BY <1>1, <1>3, <2>1, <2>2, UntouchedCM, QuietEndpoint
<1>4. CASE /\ Current(NameOf(r), r)
           /\ PutCM(NameOf(r), [cms[NameOf(r)] EXCEPT !.jobid = j, !.env = j, !.readers = {}])
           /\ Reply(r, "answered", j)
  <2>1. CM(p) # NoCM /\ CM(p) \in ConfigMaps
    BY <1>4, ClusterAssumption DEF Current, CM, TypeOK, ClusterTypeOK
  <2>2. CM(p)' = [CM(p) EXCEPT !.jobid = j, !.env = j, !.readers = {}]
    BY <1>4, ClusterAssumption DEF PutCM, CM, TypeOK, ClusterTypeOK
  <2>3. CM(p)'.jobid = j /\ CM(p)'.env = j
    BY <2>1, <2>2 DEF ConfigMaps
  <2>4. Moves(r, "answered", j) /\ MayReach(p, "answered", j)
    BY <1>2, <1>4, ReplyMoves DEF TypeOK, MayReach, SbatchSteps, EnvSteps
  <2>5. BoundFor(p, "answered", j)'
    BY <1>2, <2>3 DEF BoundFor, BoundWithin, FileBound, EnvWithJob, initVars
  <2>6. MayWrite(p, j)
    BY <2>1, <2>3 DEF MayWrite
  <2> QED BY <1>1, <2>4, <2>5, <2>6, EndpointPod, EndpointCancels
<1> QED BY <1>3, <1>4 DEF EnvStores

\* The endpoints: one lemma per handler step.
LEMMA EndpointStepPod ==
    ASSUME Context, NEW r \in Reqs, NEW p \in Pods, NEW j, Served(r, p, j),
           EndpointStep(r)
    PROVE  PodInv(p)' /\ CancelsLoose(p)'
BY SbatchGetsPod, SbatchWritesPod, SbatchSubmitsPod, SbatchRefetchesPod, SbatchBindsPod,
   SbatchDeletesPod, EnvReadsPod, EnvStoresPod
DEF EndpointStep

-----------------------------------------------------------------------------
(* The pod a step is about: its scripts and its containers.                *)

\* A script that waits for no call keeps what is known of its pod.
LEMMA ScriptPod ==
    ASSUME NEW p \in Pods, PodInv(p), UNCHANGED <<cms, wh>>, \A s \in Reqs : ~Serves(s, p)',
           FromCreate(p)', FileBound(p)', MatchesEnv(p)'
    PROVE  PodInv(p)'
<1>1. EnvWithJob(p)'
  BY DEF PodInv, EnvWithJob, CM
<1> QED BY <1>1 DEF PodInv, CallerWaits, NoIdYet, FreshInCall, AnswerBound

\* What may come into the file of p: nothing, what was in it, or the id of an answer.
MayKnow(p, j) ==
    \/ j \notin JobIds
    \/ j = file[p] /\ ic[p] # "sbatching"
    \/ \E r \in Reqs : Serves(r, p) /\ j = req[r].job

\* A script that learns of no job but those of its calls makes no job less loose.
LEMMA ScriptCancels ==
    ASSUME TypeOK, JobsOfPods, SnapshotsOrdered, Forward, NEW p \in Pods, CancelsLoose(p),
           UNCHANGED w, QuietCM(p), MayKnow(p, file'[p]) \/ ic'[p] = "sbatching",
           \A s \in Reqs : Serves(s, p)' => MayKnow(p, req'[s].job)
    PROVE  CancelsLoose(p)'
<1> SUFFICES ASSUME NEW i \in w'.cancel, owner'[i] = p PROVE Gone(p)' \/ Loose(p, i)'
  BY DEF CancelsLoose
<1>1. i \in w.cancel /\ owner[i] = p /\ i \in JobIds
  BY CancelledHasOwner
<1>2. CASE Gone(p)
  BY <1>2 DEF Forward
<1>3. CASE Loose(p, i)
  <2>1. CASE CM(p)' = NoCM
    BY <2>1 DEF Loose
  <2>2. CASE CM(p) # NoCM /\ CM(p)'.jobid = CM(p).jobid
    <3>1. /\ CM(p).jobid # i
          /\ file[p] = i => ic[p] = "sbatching"
          /\ \A r \in Reqs : Serves(r, p) => req[r].job # i
      BY <1>3, <2>2 DEF Loose
    <3>2. ~MayKnow(p, i)
      BY <1>1, <3>1 DEF MayKnow
    <3> QED BY <2>2, <3>1, <3>2 DEF Loose
  <2> QED BY <2>1, <2>2 DEF QuietCM
<1> QED BY <1>1, <1>2, <1>3 DEF CancelsLoose

\* The facts every lemma on a script starts from.
AtScript(p) ==
    /\ TypeOK /\ JobsOfPods /\ SnapshotsOrdered /\ Forward /\ OneCall /\ OneCall'
    /\ PodInv(p) /\ CancelsLoose(p)
    /\ UNCHANGED <<cms, wh, w>>

\* A script that has no call and makes none.
LEMMA ScriptAlone ==
    ASSUME NEW p \in Pods, AtScript(p), ic[p] \notin {"sbatching", "storing"}, UNCHANGED req,
           file'[p] \in {file[p], NoJob, NotSlurm}, FromCreate(p)', MatchesEnv(p)'
    PROVE  PodInv(p)' /\ CancelsLoose(p)'
<1> USE DEF AtScript
<1>1. \A s \in Reqs : ~Serves(s, p)'
  BY NoCallsBeforePod DEF PodInv, Serves
<1>2. FileBound(p)'
  BY DEF PodInv, FileBound, BoundWithin, CM, JobIds, NoJob, NotSlurm
<1>3. MayKnow(p, file'[p])
  BY DEF MayKnow, JobIds, NoJob, NotSlurm
<1> QED BY <1>1, <1>2, <1>3, ScriptPod, ScriptCancels, UntouchedCM

\* The steps of the two scripts between their calls.
LEMMA ScriptsAlonePod ==
    ASSUME NEW p \in Pods, AtScript(p),
           \/ FirstContainerStarts(p) \/ AsksIsInjectable(p) \/ Polls(p) \/ RollsBack(p)
           \/ CallsSbatch(p) /\ UNCHANGED req
           \/ CallsEnvToConfigMap(p) /\ UNCHANGED req
    PROVE  PodInv(p)' /\ CancelsLoose(p)'
<1> USE DEF AtScript
<1>1. phase[p] = "Pending" /\ ic[p] \notin {"sbatching", "storing"}
  BY DEF FirstContainerStarts, AsksIsInjectable, Polls, RollsBack, CallsSbatch,
         CallsEnvToConfigMap, Step
<1>2. UNCHANGED <<phase, env, req>>
  BY DEF FirstContainerStarts, AsksIsInjectable, Polls, RollsBack, CallsSbatch,
         CallsEnvToConfigMap, clusterVars, podVars
<1>3. file'[p] \in {file[p], NoJob, NotSlurm}
  BY DEF FirstContainerStarts, AsksIsInjectable, Polls, RollsBack, CallsSbatch,
         CallsEnvToConfigMap, TypeOK, InitContainersTypeOK
<1>4. FromCreate(p)' /\ MatchesEnv(p)'
  BY <1>1, <1>2 DEF PodInv, FromCreate, MatchesEnv
<1> QED BY <1>1, <1>2, <1>3, <1>4, ScriptAlone

\* The kubelet runs a container again, fails the pod or starts its containers.
LEMMA KubeletPod ==
    ASSUME NEW p \in Pods, AtScript(p),
           KubeletHandlesFailure(p) \/ ContainersStart(p) \/ ContainersRestart(p)
    PROVE  PodInv(p)' /\ CancelsLoose(p)'
<1> USE DEF AtScript, TypeOK, ClusterTypeOK, InitContainersTypeOK
<1>1. ic[p] \notin {"sbatching", "storing"} /\ UNCHANGED <<req, file>>
  BY DEF KubeletHandlesFailure, ContainersStart, ContainersRestart, PodInv, FromCreate, initVars
<1>2. FromCreate(p)'
  BY DEF KubeletHandlesFailure, ContainersStart, ContainersRestart, PodInv, FromCreate, initVars
<1>3. MatchesEnv(p)'
  <2>1. CASE KubeletHandlesFailure(p)
    BY <2>1 DEF KubeletHandlesFailure, MatchesEnv
  <2>2. CASE ContainersStart(p) \/ ContainersRestart(p)
    <3>1. env'[p] = EnvFrom(p)
      BY <2>2 DEF ContainersStart, ContainersRestart
    <3> QED BY <3>1 DEF EnvFrom, PodInv, EnvWithJob, MatchesEnv, CM
  <2> QED BY <2>1, <2>2
<1> QED BY <1>1, <1>2, <1>3, ScriptAlone

\* slurm-injector calls sbatch.
LEMMA CallsSbatchPod ==
    ASSUME NEW p \in Pods, AtScript(p), CallsSbatch(p), NEW r \in Reqs, Serve(r, "get", p, NoJob)
    PROVE  PodInv(p)' /\ CancelsLoose(p)'
<1> USE DEF AtScript
<1>1. ic[p] = "sbatch" /\ UNCHANGED <<phase, env>>
  BY DEF CallsSbatch, Step, clusterVars
<1>2. ic'[p] = "sbatching"
  BY DEF CallsSbatch, Serve, Step, TypeOK, InitContainersTypeOK
<1>3. \A s \in Reqs : Serves(s, p)' => req'[s].step = "get" /\ req'[s].job = NoJob
  BY <1>1, NoCallsBeforePod
  DEF Serve, Serves, PodInv, TypeOK, EndpointsTypeOK
<1>4. phase[p] = "Pending"
  BY DEF CallsSbatch, Step
<1>5. PodInv(p)'
  BY <1>1, <1>2, <1>3, <1>4
  DEF PodInv, CallerWaits, NoIdYet, FromCreate, CM, FreshInCall, AnswerBound, FileBound,
      EnvWithJob, MatchesEnv, SbatchSteps, EnvSteps
<1>6. MayKnow(p, NoJob)
  BY DEF MayKnow, JobIds, NoJob
<1> QED BY <1>2, <1>3, <1>5, <1>6, ScriptCancels, UntouchedCM

\* slurm-pipeline calls envtoconfigmap with what is in the file.
LEMMA CallsEnvPod ==
    ASSUME NEW p \in Pods, AtScript(p), CallsEnvToConfigMap(p),
           NEW r \in Reqs, Serve(r, "srun", p, file[p])
    PROVE  PodInv(p)' /\ CancelsLoose(p)'
<1> USE DEF AtScript
<1>1. ic[p] = "pipeline" /\ phase[p] = "Pending" /\ UNCHANGED <<phase, env, file>>
  BY DEF CallsEnvToConfigMap, Step, clusterVars
<1>2. ic'[p] = "storing"
  <2>1. req' # req
    BY DEF Serve, TypeOK, EndpointsTypeOK, Requests
  <2> QED BY <2>1 DEF CallsEnvToConfigMap, Step, TypeOK, InitContainersTypeOK
<1>3. \A s \in Reqs : Serves(s, p)' => req'[s].step = "srun" /\ req'[s].job = file[p]
  BY <1>1, NoCallsBeforePod
  DEF Serve, Serves, PodInv, TypeOK, EndpointsTypeOK
<1>4. PodInv(p)'
  BY <1>1, <1>2, <1>3
  DEF PodInv, CallerWaits, NoIdYet, FromCreate, CM, BoundWithin, FreshInCall, AnswerBound,
      FileBound, EnvWithJob, MatchesEnv, SbatchSteps, EnvSteps
<1>5. MayKnow(p, file[p])
  BY <1>1 DEF MayKnow
<1> QED BY <1>1, <1>3, <1>4, <1>5, ScriptCancels, UntouchedCM

\* slurm-injector writes the answer of sbatch to the file: the binding is that id.
LEMMA SbatchAnsweredPod ==
    ASSUME NEW p \in Pods, AtScript(p), SbatchAnswered(p)
    PROVE  PodInv(p)' /\ CancelsLoose(p)'
<1> USE DEF AtScript
<1>1. PICK r \in Reqs : /\ AnswerFor(p, r)
                        /\ file' = [file EXCEPT ![p] = req[r].job]
                        /\ req' = [req EXCEPT ![r] = Idle]
  BY DEF SbatchAnswered
<1>2. Serves(r, p) /\ req[r].step \in {"answered", "refused"}
  BY <1>1 DEF AnswerFor, Serves
<1>3. ic[p] = "sbatching" /\ phase[p] = "Pending" /\ UNCHANGED <<phase, env>>
  BY DEF SbatchAnswered, Step, clusterVars
<1>4. ic'[p] = "poll" /\ file'[p] = req[r].job
  BY <1>1 DEF SbatchAnswered, Step, TypeOK, InitContainersTypeOK
<1>5. \A s \in Reqs : ~Serves(s, p)'
  BY <1>1, <1>2 DEF OneCall, Serves, Idle, TypeOK, EndpointsTypeOK
<1>6. FileBound(p)'
  <2>1. req[r].job \in JobIds => BoundWithin(p, {req[r].job})
    BY <1>2, <1>3 DEF PodInv, NoIdYet, AnswerBound, JobIds, NoJob
  <2> QED BY <1>4, <2>1 DEF FileBound, BoundWithin, CM
<1>7. FromCreate(p)' /\ MatchesEnv(p)'
  BY <1>3 DEF PodInv, FromCreate, MatchesEnv
<1>8. MayKnow(p, file'[p])
  BY <1>2, <1>4 DEF MayKnow
<1> QED BY <1>5, <1>6, <1>7, <1>8, ScriptPod, ScriptCancels, UntouchedCM

\* slurm-pipeline learns how envtoconfigmap went.
LEMMA EnvAnsweredPod ==
    ASSUME NEW p \in Pods, AtScript(p), EnvAnswered(p)
    PROVE  PodInv(p)' /\ CancelsLoose(p)'
<1> USE DEF AtScript
<1>1. PICK r \in Reqs : AnswerFor(p, r) /\ req' = [req EXCEPT ![r] = Idle]
  BY DEF EnvAnswered
<1>2. Serves(r, p)
  BY <1>1 DEF AnswerFor, Serves
<1>3. ic[p] = "storing" /\ phase[p] = "Pending" /\ UNCHANGED <<phase, env, file>>
  BY DEF EnvAnswered, Step, clusterVars
<1>4. \A s \in Reqs : ~Serves(s, p)'
  BY <1>1, <1>2 DEF OneCall, Serves, Idle, TypeOK, EndpointsTypeOK
<1>5. FileBound(p)'
  BY <1>3 DEF PodInv, FileBound, BoundWithin, CM
<1>6. FromCreate(p)' /\ MatchesEnv(p)'
  BY <1>3 DEF PodInv, FromCreate, MatchesEnv
<1>7. MayKnow(p, file[p])
  BY <1>3 DEF MayKnow
<1> QED BY <1>3, <1>4, <1>5, <1>6, <1>7, ScriptPod, ScriptCancels, UntouchedCM

\* The scripts and the kubelet: one lemma per kind of step.
LEMMA ScriptStepPod ==
    ASSUME NEW p \in Pods, AtScript(p), ScriptOrKubeletStep(p), "kill" \notin Faults
    PROVE  PodInv(p)' /\ CancelsLoose(p)'
<1>1. CASE FirstContainerStarts(p) \/ AsksIsInjectable(p) \/ Polls(p) \/ RollsBack(p)
  BY <1>1, ScriptsAlonePod
<1>2. CASE CallsSbatch(p)
  BY <1>2, ScriptsAlonePod, CallsSbatchPod DEF CallsSbatch
<1>3. CASE CallsEnvToConfigMap(p)
  BY <1>3, ScriptsAlonePod, CallsEnvPod DEF CallsEnvToConfigMap
<1>4. CASE SbatchAnswered(p) \/ EnvAnswered(p)
  BY <1>4, SbatchAnsweredPod, EnvAnsweredPod
<1>5. CASE KubeletHandlesFailure(p) \/ ContainersStart(p) \/ ContainersRestart(p)
  BY <1>5, KubeletPod
<1>6. CASE KubeletRemoves(p)
  BY <1>6, RemovalQuiet, QuietKeepsPod, QuietKeepsCancels DEF AtScript
<1> QED BY <1>1, <1>2, <1>3, <1>4, <1>5, <1>6 DEF ScriptOrKubeletStep, InitContainerKilled

-----------------------------------------------------------------------------
(* The invariant.                                                          *)

\* A crash ends every call; slurm-injector is left without an id.
LEMMA CrashPod ==
    ASSUME TypeOK, JobsOfPods, SnapshotsOrdered, Forward, NEW p \in Pods,
           PodInv(p), CancelsLoose(p), Crash
    PROVE  PodInv(p)' /\ CancelsLoose(p)'
<1> USE DEF Crash, InitContainersCrash, TypeOK, InitContainersTypeOK
<1>1. QuietCM(p)
  BY ClusterAssumption DEF ClusterTypeOK, ConfigMaps, QuietCM, CM
<1>2. \A s \in Reqs : ~Serves(s, p)'
  BY DEF Serves, Idle
<1>3. FileBound(p)'
  BY <1>1 DEF PodInv, FileBound, BoundWithin, QuietCM, JobIds, NoJob
<1>4. FromCreate(p)' /\ MatchesEnv(p)' /\ EnvWithJob(p)'
  BY <1>1 DEF WebhookCrash, WebhookTypeOK, podVars, PodInv, FromCreate, MatchesEnv, EnvWithJob,
              QuietCM
<1>5. PodInv(p)'
  BY <1>2, <1>3, <1>4 DEF PodInv, CallerWaits, NoIdYet, FreshInCall, AnswerBound
<1>6. CancelsLoose(p)'
  <2>1. w'.cancel = {}
    BY DEF WatcherIdle
  <2> QED BY <2>1 DEF CancelsLoose
<1> QED BY <1>5, <1>6

\* An idle watcher has no job up for cancellation.
LEMMA IdleCancelsNothing == WatcherIdle \in WatcherStates /\ WatcherIdle.cancel = {}
BY DEF WatcherIdle, WatcherStates, WatcherSteps

\* routine sets out to cancel the jobs whose pod has no config-map, if it is not gone.
LEMMA DecisionLoose ==
    ASSUME TypeOK, ConfigMapsByName, UniqueNames, JobsOfPods, SnapshotsOrdered,
           ListsConfigMaps, NEW p \in Pods
    PROVE  CancelsLoose(p)'
<1> SUFFICES ASSUME NEW j \in w'.cancel, owner'[j] = p PROVE Gone(p)' \/ Loose(p, j)'
  BY DEF CancelsLoose
<1>1. UNCHANGED <<phase, cms, owner>>
  BY DEF ListsConfigMaps, clusterVars
<1>2. w.step = "cms" /\ j \in OnlyOnSlurm
  <2>1. w'.cancel \in {{}, OnlyOnSlurm}
    BY IdleCancelsNothing DEF ListsConfigMaps, WatcherStates
  <2> QED BY <2>1 DEF ListsConfigMaps
<1>3. j \in w.jobs /\ owner[j] = p /\ p \notin UUIDsOnKubernetes
  BY <1>1, <1>2 DEF OnlyOnSlurm
<1>4. p \in w.pods \/ Gone(p)
  BY <1>2, <1>3 DEF SnapshotsOrdered
<1>5. CASE p \in w.pods
  <2>1. ObjName[p] \in Names
    BY ClusterAssumption
  <2>2. CM(p) # NoCM => CM(p).uuid = p
    BY <2>1 DEF TypeOK, ClusterTypeOK, ConfigMaps, ConfigMapsByName, BelongsTo, UniqueNames, CM
  <2>3. CM(p) = NoCM
    BY <1>3, <1>5, <2>1, <2>2 DEF UUIDsOnKubernetes, OnKubernetes, Listed, CM
  <2> QED BY <1>1, <2>3 DEF Loose, CM
<1> QED BY <1>1, <1>4, <1>5 DEF Gone

\* The other steps of the watcher put no job up for cancellation.
LEMMA WatcherCancelsLess ==
    ASSUME TypeOK, WatcherNext, ~ListsConfigMaps
    PROVE  w'.cancel \subseteq w.cancel
<1> USE DEF TypeOK, WatcherTypeOK, WatcherStates
<1>1. ASSUME FetchesJobsOnSlurm \/ ListsPods \/ RoutineEnds PROVE w'.cancel \subseteq w.cancel
  BY <1>1, IdleCancelsNothing DEF FetchesJobsOnSlurm, ListsPods, RoutineEnds
<1>2. ASSUME SweepsPod \/ SweepsConfigMap \/ SweepEnds PROVE w'.cancel \subseteq w.cancel
  BY <1>2 DEF SweepsPod, SweepsConfigMap, SweepEnds
<1>3. ASSUME CancelsJob \/ CancelEnds PROVE w'.cancel \subseteq w.cancel
  BY <1>3 DEF CancelsJob, CancelEnds
<1>4. ASSUME EvictionBegins \/ EvictsPod \/ EvictionListsConfigMap \/ EvictsConfigMap
      PROVE  w'.cancel \subseteq w.cancel
  BY <1>4 DEF EvictionBegins, EvictsPod, EvictionListsConfigMap, EvictsConfigMap, NextUUID
<1> QED BY <1>1, <1>2, <1>3, <1>4 DEF WatcherNext

\* Every step keeps what is known of every pod.
LEMMA StepPods ==
    ASSUME Undisturbed, JobInv, SInv, [Next]_vars, NEW q \in Pods
    PROVE  PodInv(q)' /\ CancelsLoose(q)'
<1>1. TypeOK /\ ConfigMapsByName /\ RequestsOwnJob /\ RequestsHaveJob
  BY DEF JobInv, IInv
<1>2. /\ JobsOfPods /\ SnapshotsOrdered /\ OneCall /\ PodInv(q) /\ CancelsLoose(q)
      /\ OneCall' /\ Forward
  BY StepOneCall, StepForward DEF SInv
<1>3. UniqueNames /\ "kill" \notin Faults
  BY DEF Undisturbed
<1>4. CASE Quiet(q) /\ w'.cancel \subseteq w.cancel
  BY <1>1, <1>2, <1>4, QuietKeepsPod, QuietKeepsCancels
<1>5. CASE ClusterNext /\ UNCHANGED <<up, wh, req, initVars, w, crashes, told>>
  BY <1>1, <1>4, <1>5, ClusterQuiet
<1>6. CASE WebhookNext /\ UNCHANGED <<req, initVars, w, crashes, told>>
  <2>1. PICK p \in Pods :
          Inject(p) \/ InjectGetsConfigMap(p) \/ InjectWritesConfigMap(p) \/ PodCreated(p)
    BY <1>6 DEF WebhookNext
  <2>2. CASE p = q
    BY <1>1, <1>2, <1>6, <2>1, <2>2, WebhookPod
  <2>3. CASE p # q
    BY <1>1, <1>3, <1>4, <1>6, <2>1, <2>3, WebhookQuiet
  <2> QED BY <2>2, <2>3
<1>7. CASE EndpointsNext /\ Remembers /\ UNCHANGED <<initVars, w, crashes>>
  <2>1. PICK r \in Reqs : EndpointStep(r)
    BY <1>7 DEF EndpointsNext, EndpointStep
  <2>2. CASE req[r].pod = q
    <3>1. Served(r, q, req[r].job)
      BY <1>1, <1>2, <2>1, <2>2, EndpointMoves DEF Served, Serves, NameOf
    <3>2. Context
      BY <1>1, <1>2, <1>7 DEF Context
    <3> QED BY <2>1, <3>1, <3>2, EndpointStepPod
  <2>3. CASE req[r].pod # q
    BY <1>1, <1>3, <1>4, <1>7, <2>1, <2>3, EndpointQuiet
  <2> QED BY <2>2, <2>3
<1>8. CASE InitContainersNext /\ UNCHANGED <<w, crashes, told>>
  <2>1. PICK p \in Pods : ScriptOrKubeletStep(p)
    BY <1>8 DEF InitContainersNext, ScriptOrKubeletStep
  <2>2. CASE p = q
    <3>1. UNCHANGED <<cms, wh>>
      BY <2>1
      DEF ScriptOrKubeletStep, FirstContainerStarts, AsksIsInjectable, CallsSbatch,
          SbatchAnswered, Polls, CallsEnvToConfigMap, EnvAnswered, RollsBack,
          KubeletHandlesFailure, ContainersStart, ContainersRestart, InitContainerKilled,
          KubeletRemoves, clusterVars
    <3>2. AtScript(q)
      BY <1>1, <1>2, <1>8, <3>1 DEF AtScript
    <3> QED BY <1>3, <2>1, <2>2, <3>2, ScriptStepPod
  <2>3. CASE p # q
    BY <1>1, <1>4, <1>8, <2>1, <2>3, ScriptQuiet
  <2> QED BY <2>2, <2>3
<1>9. CASE WatcherNext /\ UNCHANGED <<crashes, told>>
  <2>1. PodInv(q)'
    BY <1>1, <1>2, <1>9, WatcherQuiet, QuietKeepsPod
  <2>2. CancelsLoose(q)'
    BY <1>1, <1>2, <1>3, <1>4, <1>9, WatcherQuiet, DecisionLoose, WatcherCancelsLess
  <2> QED BY <2>1, <2>2
<1>10. CASE Crash
  BY <1>1, <1>2, <1>10, CrashPod
<1>11. CASE Restart \/ UNCHANGED vars
  BY <1>4, <1>11, NothingQuiet DEF Restart, vars, clusterVars, initVars
<1> QED BY <1>5, <1>6, <1>7, <1>8, <1>9, <1>10, <1>11 DEF Next

\* In the beginning there are no calls, no pods and no jobs.
LEMMA InitStable == Init => SInv
<1> SUFFICES ASSUME Init PROVE SInv
  OBVIOUS
<1> USE DEF Init, ClusterInit, WebhookInit, EndpointsInit, InitContainersInit, WatcherInit
<1>1. OneCall /\ \A r \in Reqs : \A p \in Pods : ~Serves(r, p)
  BY DEF OneCall, Serves, Idle
<1>2. JobsOfPods /\ SnapshotsOrdered
  BY DEF JobsOfPods, SnapshotsOrdered, WatcherIdle
<1>3. ASSUME NEW p \in Pods PROVE PodInv(p) /\ CancelsLoose(p)
  <2>1. CM(p) = NoCM
    BY ClusterAssumption DEF CM
  <2>2. FromCreate(p) /\ FileBound(p) /\ EnvWithJob(p) /\ MatchesEnv(p) /\ CancelsLoose(p)
    BY <2>1 DEF FromCreate, FileBound, BoundWithin, EnvWithJob, MatchesEnv, CancelsLoose, Loose
  <2> QED
    BY <1>1, <2>2 DEF PodInv, CallerWaits, NoIdYet, FreshInCall, AnswerBound
<1> QED BY <1>1, <1>2, <1>3 DEF SInv

\* SInv is inductive, given JobInv.
LEMMA NextStable ==
    ASSUME Undisturbed, JobInv, SInv, [Next]_vars
    PROVE  SInv'
BY StepOneCall, StepPods, StepJobsOfPods, StepSnapshots DEF SInv

\* What is in flight for a pod never disagrees with its config-map, if names are unique and
\* no init container is killed in the middle of a call (the scripts of mutateObject, the
\* handlers of sbatch and envtoconfigmap, routine).
THEOREM StabilityInvariance == Undisturbed => (Spec => []SInv)
<1> SUFFICES ASSUME Undisturbed PROVE Spec => []SInv
  OBVIOUS
<1>1. Init => SInv
  BY InitStable
<1>2. JobInv /\ SInv /\ [Next]_vars => SInv'
  BY NextStable
<1>3. Spec => []JobInv
  BY JobInvariance
<1> QED BY <1>1, <1>2, <1>3, PTL DEF Spec

-----------------------------------------------------------------------------
(* What follows.                                                           *)

\* The watcher never sets out to cancel the job a live pod is bound to, although it compares
\* lists of three instants (routine: squeue, then pods, then config-maps).
THEOREM CancellationCorrect == Undisturbed => (Spec => []NeverCancelsBoundJob)
<1> SUFFICES ASSUME Undisturbed PROVE Spec => []NeverCancelsBoundJob
  OBVIOUS
<1>1. ASSUME JobInv, SInv PROVE NeverCancelsBoundJob
  <2> SUFFICES ASSUME NEW j \in w.cancel, Live(owner[j]), BoundTo(ObjName[owner[j]], owner[j]),
                      cms[ObjName[owner[j]]].jobid = j
               PROVE  FALSE
    BY DEF NeverCancelsBoundJob
  <2>1. j \in JobIds
    BY <1>1 DEF JobInv, IInv, TypeOK, WatcherTypeOK, WatcherStates
  <2>2. owner[j] \in Pods
    BY <1>1, <2>1 DEF SInv, SnapshotsOrdered, JobsOfPods
  <2>3. Gone(owner[j]) \/ Loose(owner[j], j)
    BY <1>1, <2>2 DEF SInv, CancelsLoose
  <2> QED BY <2>3 DEF Loose, Gone, Live, CM, BoundTo, Bound
<1>2. Spec => []JobInv /\ []SInv
  BY JobInvariance, StabilityInvariance
<1> QED BY <1>1, <1>2, PTL

\* A running pod's config-map names the job whose variables its containers got, also when
\* the Update of sbatch failed: JobEnvToConfigMap writes the id again.
THEOREM EnvMatches == Undisturbed => (Spec => []BindingMatchesEnv)
<1> SUFFICES ASSUME Undisturbed PROVE Spec => []BindingMatchesEnv
  OBVIOUS
<1>1. SInv => BindingMatchesEnv
  BY DEF SInv, PodInv, MatchesEnv, CM, BindingMatchesEnv
<1>2. Spec => []SInv
  BY StabilityInvariance
<1> QED BY <1>1, <1>2, PTL

\* What a step may do to the config-map named n.
StableCM(n) ==
    Bound(n) /\ Bound(n)' /\ cms[n].uuid = cms'[n].uuid => cms[n].jobid = cms'[n].jobid

\* A write that leaves the binding as it was, or makes or finds the name unbound.
LEMMA PutCMStable ==
    ASSUME ClusterTypeOK, NEW n \in Names, NEW cm, PutCM(n, cm),
           cm.jobid = ToBeSet \/ cms[n] = NoCM \/ cms[n].jobid \in {ToBeSet, cm.jobid}
    PROVE  \A m \in Names : StableCM(m)
<1>1. ASSUME NEW m \in Names PROVE StableCM(m)
  <2>1. CASE m # n
    BY <2>1 DEF ClusterTypeOK, PutCM, StableCM
  <2>2. CASE m = n
    BY <2>2 DEF ClusterTypeOK, PutCM, StableCM, Bound
  <2> QED BY <2>1, <2>2
<1> QED BY <1>1

\* A handler binds what is unbound or bound to the same job.
LEMMA EndpointStable ==
    ASSUME TypeOK, RequestsOwnJob, RequestsHaveJob, SInv, NEW r \in Reqs, EndpointStep(r)
    PROVE  \A n \in Names : StableCM(n)
<1> USE DEF TypeOK
<1> DEFINE p == req[r].pod
           n == NameOf(r)
<1>1. p \in Pods /\ Serves(r, p) /\ n \in Names /\ PodInv(p) /\ cms[n] = CM(p)
  BY EndpointMoves, NameOfType DEF RequestsOwnJob, Serves, SInv, CM, NameOf
<1>2. CASE UNCHANGED cms
  BY <1>2 DEF StableCM
<1>3. ASSUME PutCM(n, FreshCM(p)) PROVE \A m \in Names : StableCM(m)
  BY <1>1, <1>3, PutCMStable DEF FreshCM
<1>4. ASSUME cms[n] # NoCM, FetchCM(n, r) PROVE \A m \in Names : StableCM(m)
  BY <1>1, <1>4 DEF ClusterTypeOK, ConfigMaps, FetchCM, StableCM
<1>5. ASSUME DeleteCM(n) PROVE \A m \in Names : StableCM(m)
  BY <1>5 DEF ClusterTypeOK, DeleteCM, StableCM, Bound
<1>6. ASSUME req[r].step = "bind", NEW cm, PutCM(n, cm) PROVE \A m \in Names : StableCM(m)
  <2>1. BoundWithin(p, {})
    BY <1>1, <1>6 DEF PodInv, FreshInCall
  <2> QED BY <1>1, <1>6, <2>1, PutCMStable DEF BoundWithin
<1>7. ASSUME req[r].step = "store", NEW cm, PutCM(n, cm), cm.jobid = req[r].job
      PROVE  \A m \in Names : StableCM(m)
  <2>1. ic[p] = "storing" /\ req[r].job = file[p] /\ file[p] \in JobIds
    BY <1>1, <1>7 DEF PodInv, CallerWaits, RequestsHaveJob, EnvSteps
  <2>2. BoundWithin(p, {req[r].job})
    BY <1>1, <2>1 DEF PodInv, FileBound
  <2> QED BY <1>1, <1>7, <2>2, PutCMStable DEF BoundWithin
<1>8. CASE EnvStores(r)
  <2>1. Current(n, r) =>
          [cms[n] EXCEPT !.jobid = req[r].job, !.env = req[r].job, !.readers = {}].jobid
            = req[r].job
    BY <1>1 DEF Current, ClusterTypeOK, ConfigMaps
  <2> QED BY <1>2, <1>7, <1>8, <2>1 DEF EnvStores
<1> QED
  BY <1>2, <1>3, <1>4, <1>5, <1>6, <1>8
  DEF EndpointStep, SbatchGetsConfigMap, SbatchWritesConfigMap, SbatchSubmits, SbatchRefetches,
      SbatchBinds, SbatchDeletesConfigMap, EnvRuns, EnvFetches, clusterVars

\* No step moves a binding from one job to another.
LEMMA StepStable ==
    ASSUME JobInv, SInv, [Next]_vars
    PROVE  \A n \in Names : StableCM(n)
<1>1. TypeOK /\ ClusterTypeOK /\ RequestsOwnJob /\ RequestsHaveJob
  BY DEF JobInv, IInv, TypeOK
<1>2. CASE UNCHANGED cms
  BY <1>2 DEF StableCM
<1>3. ASSUME NEW m, DeleteCM(m) PROVE \A n \in Names : StableCM(n)
  BY <1>1, <1>3 DEF ClusterTypeOK, DeleteCM, StableCM, Bound
<1>4. CASE WebhookNext
  <2>1. ASSUME NEW p \in Pods, PutCM(ObjName[p], FreshCM(p)) PROVE \A n \in Names : StableCM(n)
    BY <1>1, <2>1, PutCMStable, ClusterAssumption DEF FreshCM
  <2> QED
    BY <1>2, <1>4, <2>1
    DEF WebhookNext, Inject, InjectGetsConfigMap, InjectWritesConfigMap, PodCreated, clusterVars
<1>5. CASE EndpointsNext
  BY <1>1, <1>5, EndpointStable DEF EndpointsNext, EndpointStep
<1>6. CASE WatcherNext
  BY <1>2, <1>3, <1>6
  DEF WatcherNext, FetchesJobsOnSlurm, ListsPods, ListsConfigMaps, SweepsPod, SweepsConfigMap,
      SweepEnds, CancelsJob, CancelEnds, EvictionBegins, EvictsPod, EvictionListsConfigMap,
      EvictsConfigMap, RoutineEnds, clusterVars
<1>7. CASE Crash
  BY <1>1, <1>7 DEF ClusterTypeOK, ConfigMaps, Crash, StableCM, Bound
<1>8. ClusterNext \/ InitContainersNext \/ Restart \/ UNCHANGED vars => UNCHANGED cms
  BY DEF ClusterNext, JobStarts, JobEnds, UserDeletesPod, WorkloadExits, InitContainersNext,
         FirstContainerStarts, AsksIsInjectable, CallsSbatch, SbatchAnswered, Polls,
         CallsEnvToConfigMap, EnvAnswered, RollsBack, KubeletHandlesFailure, ContainersStart,
         ContainersRestart, InitContainerKilled, KubeletRemoves, Restart, vars, clusterVars
<1> QED BY <1>2, <1>4, <1>5, <1>6, <1>7, <1>8 DEF Next

\* A binding never moves from one job to another, although Sbatch and JobEnvToConfigMap
\* write what they fetched before and the script calls them again after a restart.
THEOREM BindingStability == Undisturbed => (Spec => BindingStable)
<1> SUFFICES ASSUME Undisturbed PROVE Spec => BindingStable
  OBVIOUS
<1>1. Spec => []JobInv /\ []SInv
  BY JobInvariance, StabilityInvariance
<1>2. JobInv /\ SInv /\ [Next]_vars => \A n \in Names : StableCM(n)
  BY StepStable
<1>3. (\A n \in Names : StableCM(n)) <=>
        (\A n \in Names :
            Bound(n) /\ Bound(n)' /\ cms[n].uuid = cms'[n].uuid => cms[n].jobid = cms'[n].jobid)
  BY DEF StableCM
<1> QED BY <1>1, <1>2, <1>3, PTL DEF Spec, BindingStable
=============================================================================
