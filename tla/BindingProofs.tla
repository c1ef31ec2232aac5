---------------------------- MODULE BindingProofs ----------------------------
(***************************************************************************)
(* The injector implements Binding: an invariant on the ids in flight,     *)
(* what each call on a config-map is in the abstract specification, one    *)
(* lemma per component, and the theorem.                                   *)
(***************************************************************************)
EXTENDS InjectorProofs, InjectorBinding

HandlersHaveJob == RequestsHaveJob /\ FilesWritten

-----------------------------------------------------------------------------
(* No job id is empty when srun uses it.                                   *)

\* Nobody touches the goroutines or the scripts.
LEMMA HandlersFrame ==
    ASSUME HandlersHaveJob, UNCHANGED <<req, initVars>>
    PROVE  HandlersHaveJob'
BY DEF HandlersHaveJob, RequestsHaveJob, FilesWritten, initVars

\* A goroutine that answers needs no job any more.
LEMMA ReplyHasJob ==
    ASSUME EndpointsTypeOK, RequestsHaveJob, NEW r \in Reqs, NEW j,
           NEW outcome \in {"answered", "refused"}, Reply(r, outcome, j)
    PROVE  RequestsHaveJob'
<1>1. \A s \in Reqs \ {r} : req'[s] = req[s]
  BY DEF Reply, EndpointsTypeOK
<1>2. req'[r].step \notin EnvSteps
  <2>1. CASE req[r].client
    BY <2>1 DEF Reply, EndpointsTypeOK, Requests, EnvSteps
  <2>2. CASE ~req[r].client
    BY <2>2 DEF Reply, EndpointsTypeOK, Idle, EnvSteps
  <2> QED BY <2>1, <2>2
<1> QED BY <1>1, <1>2 DEF RequestsHaveJob

\* A goroutine goes on to a step that needs a job only with one.
LEMMA GotoHasJob ==
    ASSUME EndpointsTypeOK, RequestsHaveJob, NEW r \in Reqs, NEW step, Goto(r, step),
           step \in EnvSteps => req[r].job \in JobIds
    PROVE  RequestsHaveJob'
BY DEF EndpointsTypeOK, Requests, RequestsHaveJob, Goto

\* The handler of envtoconfigmap keeps the id it was asked for.
LEMMA EndpointsHaveJob ==
    ASSUME TypeOK, HandlersHaveJob, EndpointsNext, UNCHANGED initVars
    PROVE  HandlersHaveJob'
<1> USE DEF EnvSteps
<1>1. PICK r \in Reqs :
        \/ SbatchGetsConfigMap(r) \/ SbatchWritesConfigMap(r) \/ SbatchSubmits(r)
        \/ SbatchRefetches(r) \/ SbatchBinds(r) \/ SbatchDeletesConfigMap(r)
        \/ EnvRuns(r) \/ EnvFetches(r) \/ EnvStores(r)
  BY DEF EndpointsNext
<1>2. EndpointsTypeOK /\ RequestsHaveJob /\ FilesWritten
  BY DEF TypeOK, HandlersHaveJob
<1>3. RequestsHaveJob'
  <2>1. CASE SbatchGetsConfigMap(r)
    BY <2>1, <1>2, GotoHasJob, ReplyHasJob DEF SbatchGetsConfigMap
  <2>2. CASE SbatchWritesConfigMap(r)
    BY <2>2, <1>2, GotoHasJob, ReplyHasJob DEF SbatchWritesConfigMap
  <2>3. CASE SbatchSubmits(r)
    <3>1. ASSUME NEW j \in JobIds, req' = [req EXCEPT ![r].step = "reget", ![r].job = j]
          PROVE  RequestsHaveJob'
      BY <3>1, <1>2 DEF EndpointsTypeOK, Requests, RequestsHaveJob
    <3> QED BY <2>3, <3>1, <1>2, GotoHasJob DEF SbatchSubmits, SbatchFailed
  <2>4. CASE SbatchRefetches(r)
    BY <2>4, <1>2, GotoHasJob, ReplyHasJob DEF SbatchRefetches
  <2>5. CASE SbatchBinds(r)
    BY <2>5, <1>2, ReplyHasJob DEF SbatchBinds
  <2>6. CASE SbatchDeletesConfigMap(r)
    BY <2>6, <1>2, ReplyHasJob DEF SbatchDeletesConfigMap
  <2>7. CASE EnvRuns(r)
    <3>1. req[r].job \in JobIds
      BY <2>7, <1>2 DEF EnvRuns, RequestsHaveJob
    <3> QED BY <2>7, <3>1, <1>2, GotoHasJob, ReplyHasJob DEF EnvRuns
  <2>8. CASE EnvFetches(r)
    <3>1. req[r].job \in JobIds
      BY <2>8, <1>2 DEF EnvFetches, RequestsHaveJob
    <3> QED BY <2>8, <3>1, <1>2, GotoHasJob, ReplyHasJob DEF EnvFetches
  <2>9. CASE EnvStores(r)
    BY <2>9, <1>2, ReplyHasJob DEF EnvStores
  <2> QED BY <1>1, <2>1, <2>2, <2>3, <2>4, <2>5, <2>6, <2>7, <2>8, <2>9
<1> QED BY <1>2, <1>3 DEF HandlersHaveJob, FilesWritten, initVars

\* slurm-pipeline calls envtoconfigmap with the id slurm-injector left in the file.
LEMMA InitContainersHaveJob ==
    ASSUME TypeOK, HandlersHaveJob, InitContainersNext
    PROVE  HandlersHaveJob'
<1> USE DEF RequestsHaveJob, FilesWritten, SecondContainer, EnvSteps
<1>1. PICK p \in Pods :
        \/ FirstContainerStarts(p) \/ AsksIsInjectable(p) \/ CallsSbatch(p)
        \/ SbatchAnswered(p) \/ Polls(p) \/ CallsEnvToConfigMap(p) \/ EnvAnswered(p)
        \/ RollsBack(p) \/ KubeletHandlesFailure(p) \/ ContainersStart(p)
        \/ ContainersRestart(p) \/ InitContainerKilled(p) \/ KubeletRemoves(p)
  BY DEF InitContainersNext
<1>2. /\ req \in [Reqs -> Requests] /\ ic \in [Pods -> InitSteps]
      /\ file \in [Pods -> JobIds \cup {NoJob, NotSlurm}]
      /\ RequestsHaveJob /\ FilesWritten
  BY DEF TypeOK, EndpointsTypeOK, InitContainersTypeOK, HandlersHaveJob
<1>3. NotSlurm # NoJob /\ NoJob \notin JobIds
  BY DEF NotSlurm, NoJob, JobIds
<1>4. RequestsHaveJob'
  <2>1. CASE UNCHANGED req
    BY <2>1, <1>2
  <2>2. ASSUME NEW r \in Reqs, req' = [req EXCEPT ![r] = Idle]
        PROVE  RequestsHaveJob'
    BY <2>2, <1>2 DEF Idle
  <2>3. CASE req' = Disconnected(p)
    BY <2>3, <1>2 DEF Disconnected, Idle
  <2>4. CASE CallsSbatch(p)
    BY <2>4, <1>2 DEF CallsSbatch, Serve
  <2>5. CASE CallsEnvToConfigMap(p)
    <3>1. file[p] # NotSlurm /\ ic[p] = "pipeline" => file[p] \in JobIds
      BY <1>2
    <3> QED BY <2>5, <2>1, <3>1, <1>2 DEF CallsEnvToConfigMap, Step, Serve
  <2> QED
    BY <1>1, <2>1, <2>2, <2>3, <2>4, <2>5
    DEF FirstContainerStarts, AsksIsInjectable, SbatchAnswered, Polls, EnvAnswered, RollsBack,
        KubeletHandlesFailure, ContainersStart, ContainersRestart, InitContainerKilled,
        KubeletRemoves
<1>5. FilesWritten'
  <2>1. CASE FirstContainerStarts(p) \/ CallsSbatch(p) \/ SbatchAnswered(p)
    BY <2>1, <1>2 DEF FirstContainerStarts, CallsSbatch, SbatchAnswered, Step
  <2>2. CASE AsksIsInjectable(p) \/ Polls(p)
    BY <2>2, <1>2, <1>3 DEF AsksIsInjectable, Polls, Step
  <2>3. CASE CallsEnvToConfigMap(p) \/ EnvAnswered(p) \/ RollsBack(p)
    BY <2>3, <1>2 DEF CallsEnvToConfigMap, EnvAnswered, RollsBack, Step
  <2>4. CASE KubeletHandlesFailure(p) \/ InitContainerKilled(p)
    BY <2>4, <1>2 DEF KubeletHandlesFailure, InitContainerKilled
  <2>5. CASE ContainersStart(p) \/ ContainersRestart(p) \/ KubeletRemoves(p)
    BY <2>5, <1>2 DEF ContainersStart, ContainersRestart, KubeletRemoves, initVars
  <2> QED BY <1>1, <2>1, <2>2, <2>3, <2>4, <2>5
<1> QED BY <1>4, <1>5 DEF HandlersHaveJob

\* A crash leaves no goroutine and no second container waiting for one.
LEMMA CrashHasJob ==
    ASSUME TypeOK, HandlersHaveJob, Crash
    PROVE  HandlersHaveJob'
BY DEF TypeOK, InitContainersTypeOK, HandlersHaveJob, RequestsHaveJob, FilesWritten, Crash,
       InitContainersCrash, Idle, SecondContainer, EnvSteps

\* JobInv is inductive.
LEMMA JobInvariance == Spec => []JobInv
<1>1. Init => HandlersHaveJob
  BY DEF Init, EndpointsInit, InitContainersInit, Idle, HandlersHaveJob, RequestsHaveJob,
         FilesWritten, SecondContainer, EnvSteps
<1>2. IInv /\ HandlersHaveJob /\ [Next]_vars => HandlersHaveJob'
  <2> SUFFICES ASSUME IInv, HandlersHaveJob, [Next]_vars PROVE HandlersHaveJob'
    OBVIOUS
  <2>1. TypeOK
    BY DEF IInv
  <2>2. CASE UNCHANGED <<req, initVars>>
    BY <2>2, HandlersFrame
  <2>3. CASE EndpointsNext /\ Remembers /\ UNCHANGED <<initVars, w, crashes>>
    BY <2>1, <2>3, EndpointsHaveJob
  <2>4. CASE InitContainersNext
    BY <2>1, <2>4, InitContainersHaveJob
  <2>5. CASE Crash
    BY <2>1, <2>5, CrashHasJob
  <2>6. WatcherNext => UNCHANGED <<req, initVars>>
    BY DEF WatcherNext, FetchesJobsOnSlurm, ListsPods, ListsConfigMaps, SweepsPod,
           SweepsConfigMap, SweepEnds, CancelsJob, CancelEnds, EvictionBegins, EvictsPod,
           EvictionListsConfigMap, EvictsConfigMap, RoutineEnds
  <2> QED BY <2>2, <2>3, <2>4, <2>5, <2>6 DEF Next, Restart, vars
<1> QED BY <1>1, <1>2, InitInv, NextInv, PTL DEF Spec, JobInv, HandlersHaveJob

-----------------------------------------------------------------------------
(* What each call is in the abstract specification.                        *)

\* The view of one name.
View(cm) == [uuid |-> cm.uuid, jobid |-> JobOf(cm), env |-> cm.env]

\* Nothing the abstract specification sees.
Unseen == UNCHANGED <<owner, bindingBar, env>>

AbstractStep == B!Next \/ Unseen

\* A step that leaves jobs, config-maps and containers alone is not seen.
LEMMA UnseenFrame ==
    ASSUME UNCHANGED <<owner, cms, env>>
    PROVE  Unseen
BY DEF Unseen, bindingBar

\* A written config-map changes the binding of its name only.
LEMMA PutCMBinds ==
    ASSUME ClusterTypeOK, NEW n \in Names, NEW cm \in ConfigMaps, PutCM(n, cm)
    PROVE  bindingBar' = [bindingBar EXCEPT ![n] = View(cm)]
<1>1. cm # NoCM
  BY ClusterAssumption
<1>2. cms' = [cms EXCEPT ![n] = cm] /\ cms \in [Names -> ConfigMaps \cup {NoCM}]
  BY DEF PutCM, ClusterTypeOK
<1> QED BY <1>1, <1>2 DEF bindingBar, View

\* Fetching is not seen.
LEMMA FetchCMUnseen ==
    ASSUME ClusterTypeOK, NEW n \in Names, cms[n] # NoCM, NEW r \in Reqs, FetchCM(n, r),
           UNCHANGED <<owner, env>>
    PROVE  Unseen
<1>1. /\ cms[n] \in ConfigMaps
      /\ cms' = [cms EXCEPT ![n] = [cms[n] EXCEPT !.readers = @ \cup {r}]]
  BY DEF ClusterTypeOK, FetchCM
<1>2. [cms[n] EXCEPT !.readers = @ \cup {r}] # NoCM
  BY <1>1, ClusterAssumption DEF ConfigMaps
<1>3. bindingBar' = bindingBar
  BY <1>1, <1>2 DEF bindingBar, JobOf, ClusterTypeOK, ConfigMaps
<1> QED BY <1>3 DEF Unseen

\* A fresh config-map reserves the name for its request.
LEMMA FreshCMReserves ==
    ASSUME ClusterTypeOK, NEW p \in Pods, PutCM(ObjName[p], FreshCM(p)), UNCHANGED <<owner, env>>
    PROVE  B!Next
<1>1. ObjName[p] \in Names /\ FreshCM(p) \in ConfigMaps
  BY ClusterAssumption, FreshCMType
<1>2. bindingBar' = [bindingBar EXCEPT ![ObjName[p]] = View(FreshCM(p))]
  BY <1>1, PutCMBinds
<1>3. View(FreshCM(p)) = [uuid |-> p, jobid |-> NoJob, env |-> NoJob]
  BY DEF View, JobOf, FreshCM, ToBeSet, JobIds
<1>4. B!Reserve(p)
  BY <1>2, <1>3 DEF B!Reserve
<1> QED BY <1>4 DEF B!Next

\* A deleted config-map releases the name.
LEMMA DeleteCMReleases ==
    ASSUME ClusterTypeOK, NEW n \in Names, DeleteCM(n), UNCHANGED <<owner, env>>
    PROVE  B!Next
<1>1. bindingBar' = [bindingBar EXCEPT ![n] = B!Unbound]
  BY DEF DeleteCM, ClusterTypeOK, bindingBar, B!Unbound
<1>2. B!Release(n)
  BY <1>1 DEF B!Release
<1> QED BY <1>2 DEF B!Next

\* The Update of sbatch binds; the Update of envtoconfigmap provides as well.
LEMMA UpdateBinds ==
    ASSUME ClusterTypeOK, NEW n \in Names, cms[n] # NoCM, NEW j \in JobIds, SubmittedFor(j, n),
           NEW e \in {cms[n].env, j}, UNCHANGED <<owner, env>>,
           PutCM(n, [cms[n] EXCEPT !.jobid = j, !.env = e, !.readers = {}])
    PROVE  B!Next
<1> DEFINE cm == [cms[n] EXCEPT !.jobid = j, !.env = e, !.readers = {}]
<1>1. cms[n] \in ConfigMaps /\ cm \in ConfigMaps
  BY DEF ClusterTypeOK, ConfigMaps
<1>2. bindingBar' = [bindingBar EXCEPT ![n] = View(cm)]
  BY <1>1, PutCMBinds
<1>3. bindingBar[n] = View(cms[n]) /\ bindingBar[n] # B!Unbound
  BY <1>1, ClusterAssumption DEF bindingBar, View, B!Unbound, ConfigMaps
<1>4. B!For(j, n)
  BY DEF SubmittedFor, B!For
<1>5. CASE e = cms[n].env
  <2>1. View(cm) = [bindingBar[n] EXCEPT !.jobid = j]
    BY <1>1, <1>3, <1>5 DEF View, JobOf, ConfigMaps
  <2>2. B!Bind(n, j)
    BY <1>2, <1>3, <1>4, <2>1 DEF B!Bind, bindingBar
  <2> QED BY <2>2 DEF B!Next
<1>6. CASE e = j
  <2>1. View(cm) = [uuid |-> bindingBar[n].uuid, jobid |-> j, env |-> j]
    BY <1>1, <1>3, <1>6 DEF View, JobOf, ConfigMaps
  <2>2. B!Provide(n, j)
    BY <1>2, <1>3, <1>4, <2>1 DEF B!Provide, bindingBar
  <2> QED BY <2>2 DEF B!Next
<1> QED BY <1>5, <1>6

\* The Update of an sbatch that gave no id takes the job of the name away.
LEMMA UpdateUnbinds ==
    ASSUME ClusterTypeOK, NEW n \in Names, cms[n] # NoCM, UNCHANGED <<owner, env>>,
           PutCM(n, [cms[n] EXCEPT !.jobid = NoJob, !.readers = {}])
    PROVE  B!Next
<1> DEFINE cm == [cms[n] EXCEPT !.jobid = NoJob, !.readers = {}]
<1>1. cms[n] \in ConfigMaps /\ cm \in ConfigMaps
  BY DEF ClusterTypeOK, ConfigMaps
<1>2. bindingBar' = [bindingBar EXCEPT ![n] = View(cm)]
  BY <1>1, PutCMBinds
<1>3. bindingBar[n] = View(cms[n])
  BY DEF bindingBar, View
<1>4. View(cm) = [bindingBar[n] EXCEPT !.jobid = NoJob]
  BY <1>1, <1>3 DEF View, JobOf, ConfigMaps
<1>5. B!Unbind(n)
  BY <1>2, <1>4 DEF B!Unbind, bindingBar
<1> QED BY <1>5 DEF B!Next

\* A queued job is submitted for the request of its goroutine.
LEMMA QueueJobSubmits ==
    ASSUME ClusterTypeOK, FreshNumbers, NEW p \in Pods, NEW j \in JobIds, QueueJob(p, j),
           UNCHANGED <<cms, env>>
    PROVE  B!Next
<1>1. owner[j] = NoPod /\ bindingBar' = bindingBar
  BY DEF QueueJob, FreshNumbers, bindingBar
<1>2. B!Submit(p, j)
  BY <1>1 DEF QueueJob, B!Submit
<1> QED BY <1>2 DEF B!Next

-----------------------------------------------------------------------------
(* One lemma per component.                                                *)

\* The webhook reserves the name of its request.
LEMMA WebhookStepBinds ==
    ASSUME TypeOK, WebhookNext
    PROVE  AbstractStep
<1>1. PICK p \in Pods :
        Inject(p) \/ InjectGetsConfigMap(p) \/ InjectWritesConfigMap(p) \/ PodCreated(p)
  BY DEF WebhookNext
<1>2. CASE UNCHANGED <<owner, cms, env>>
  BY <1>2, UnseenFrame DEF AbstractStep
<1>3. CASE InjectWritesConfigMap(p)
  BY <1>2, <1>3, FreshCMReserves DEF InjectWritesConfigMap, AbstractStep, TypeOK, podVars, jobVars
<1> QED
  BY <1>1, <1>2, <1>3 DEF Inject, InjectGetsConfigMap, PodCreated, clusterVars, jobVars

\* sbatch reserves, submits, binds, unbinds or releases; envtoconfigmap provides.
LEMMA EndpointsStepBinds ==
    ASSUME IInv, RequestsHaveJob, EndpointsNext
    PROVE  AbstractStep
<1> USE DEF AbstractStep, podVars, jobVars
<1>1. PICK r \in Reqs :
        \/ SbatchGetsConfigMap(r) \/ SbatchWritesConfigMap(r) \/ SbatchSubmits(r)
        \/ SbatchRefetches(r) \/ SbatchBinds(r) \/ SbatchDeletesConfigMap(r)
        \/ EnvRuns(r) \/ EnvFetches(r) \/ EnvStores(r)
  BY DEF EndpointsNext
<1>2. /\ ClusterTypeOK /\ FreshNumbers /\ req[r] \in Requests
      /\ req \in [Reqs -> Requests]
  BY DEF IInv, TypeOK, EndpointsTypeOK
<1>3. req[r].step # "idle"
  BY <1>1
  DEF SbatchGetsConfigMap, SbatchWritesConfigMap, SbatchSubmits, SbatchRefetches, SbatchBinds,
      SbatchDeletesConfigMap, EnvRuns, EnvFetches, EnvStores
<1>4. req[r].pod \in Pods /\ NameOf(r) \in Names
  BY <1>3, NameOfType DEF IInv, RequestsOwnJob
<1>5. /\ req[r].job \in JobIds => SubmittedFor(req[r].job, NameOf(r))
      /\ req[r].job \notin JobIds => req[r].job = NoJob
      /\ req[r].step = "store" => req[r].job \in JobIds
  <2>1. req[r].job \in JobIds => req[r].job # NoJob
    BY DEF NoJob, JobIds
  <2>2. req[r].job \notin JobIds => req[r].job = NoJob
    BY <1>2 DEF Requests
  <2>3. req[r].job \in JobIds => owner[req[r].job] = req[r].pod
    BY <2>1 DEF IInv, RequestsOwnJob
  <2> QED
    BY <1>4, <2>2, <2>3 DEF RequestsHaveJob, EnvSteps, SubmittedFor, NameOf
<1>6. CASE UNCHANGED <<owner, cms, env>>
  BY <1>6, UnseenFrame
<1>7. CASE SbatchWritesConfigMap(r)
  BY <1>2, <1>4, <1>6, <1>7, FreshCMReserves DEF SbatchWritesConfigMap, NameOf
<1>8. CASE SbatchSubmits(r)
  BY <1>2, <1>4, <1>6, <1>8, QueueJobSubmits DEF SbatchSubmits
<1>9. CASE SbatchRefetches(r) \/ EnvFetches(r)
  BY <1>2, <1>4, <1>6, <1>9, FetchCMUnseen DEF SbatchRefetches, EnvFetches
<1>10. CASE SbatchBinds(r)
  <2> DEFINE n == NameOf(r)
  <2>1. cms[n] # NoCM => [cms[n] EXCEPT !.jobid = req[r].job, !.readers = {}]
          = [cms[n] EXCEPT !.jobid = req[r].job, !.env = cms[n].env, !.readers = {}]
    BY <1>2, <1>4 DEF ClusterTypeOK, ConfigMaps
  <2>2. CASE Current(n, r)
               /\ PutCM(n, [cms[n] EXCEPT !.jobid = req[r].job, !.readers = {}])
    <3>1. CASE req[r].job \in JobIds
      BY <1>2, <1>4, <1>5, <1>10, <2>1, <2>2, <3>1, UpdateBinds DEF SbatchBinds, Current
    <3>2. CASE req[r].job = NoJob
      BY <1>2, <1>4, <1>10, <2>2, <3>2, UpdateUnbinds DEF SbatchBinds, Current
    <3> QED BY <1>5, <3>1, <3>2
  <2> QED BY <1>6, <1>10, <2>2 DEF SbatchBinds
<1>11. CASE SbatchDeletesConfigMap(r)
  BY <1>2, <1>4, <1>6, <1>11, DeleteCMReleases DEF SbatchDeletesConfigMap
<1>12. CASE EnvStores(r)
  <2> DEFINE n == NameOf(r)
             j == req[r].job
  <2>1. CASE Current(n, r)
               /\ PutCM(n, [cms[n] EXCEPT !.jobid = j, !.env = j, !.readers = {}])
    BY <1>2, <1>4, <1>5, <1>12, <2>1, UpdateBinds DEF EnvStores, Current
  <2> QED BY <1>6, <1>12, <2>1 DEF EnvStores
<1> QED
  BY <1>1, <1>6, <1>7, <1>8, <1>9, <1>10, <1>11, <1>12
  DEF SbatchGetsConfigMap, EnvRuns, clusterVars

\* Containers receive what is bound to their name.
LEMMA InitContainersStepBinds ==
    ASSUME TypeOK, InitContainersNext
    PROVE  AbstractStep
<1>1. PICK p \in Pods :
        \/ FirstContainerStarts(p) \/ AsksIsInjectable(p) \/ CallsSbatch(p)
        \/ SbatchAnswered(p) \/ Polls(p) \/ CallsEnvToConfigMap(p) \/ EnvAnswered(p)
        \/ RollsBack(p) \/ KubeletHandlesFailure(p) \/ ContainersStart(p)
        \/ ContainersRestart(p) \/ InitContainerKilled(p) \/ KubeletRemoves(p)
  BY DEF InitContainersNext
<1>2. CASE UNCHANGED <<owner, cms, env>>
  BY <1>2, UnseenFrame DEF AbstractStep
<1>3. CASE ContainersStart(p) \/ ContainersRestart(p)
  <2>1. env' = [env EXCEPT ![p] = EnvFrom(p)] /\ UNCHANGED <<owner, cms>>
    BY <1>3 DEF ContainersStart, ContainersRestart, jobVars
  <2>2. EnvFrom(p) = bindingBar[ObjName[p]].env
    BY ClusterAssumption DEF EnvFrom, bindingBar
  <2>3. B!Receive(p)
    BY <2>1, <2>2 DEF B!Receive, bindingBar
  <2> QED BY <2>3 DEF AbstractStep, B!Next
<1> QED
  BY <1>1, <1>2, <1>3
  DEF FirstContainerStarts, AsksIsInjectable, CallsSbatch, SbatchAnswered, Polls,
      CallsEnvToConfigMap, EnvAnswered, RollsBack, KubeletHandlesFailure, InitContainerKilled,
      KubeletRemoves, SCancel, clusterVars, podVars, jobVars

\* The watcher only releases names.
LEMMA WatcherStepBinds ==
    ASSUME TypeOK, WatcherNext
    PROVE  AbstractStep
<1> USE DEF AbstractStep, clusterVars, podVars, jobVars
<1>1. CASE UNCHANGED <<owner, cms, env>>
  BY <1>1, UnseenFrame
<1>2. CASE SweepsConfigMap
  <2>1. PICK n \in w.stale : DeleteCM(n) \/ UNCHANGED cms
    BY <1>2 DEF SweepsConfigMap
  <2>2. n \in Names
    BY <2>1 DEF TypeOK, WatcherTypeOK, WatcherStates
  <2> QED BY <1>1, <1>2, <2>1, <2>2, DeleteCMReleases DEF SweepsConfigMap, TypeOK
<1>3. CASE EvictsConfigMap
  <2>1. CASE ObjName[w.target] \in Names
    BY <1>1, <1>3, <2>1, DeleteCMReleases DEF EvictsConfigMap, TypeOK
  <2>2. CASE ObjName[w.target] \notin Names
    BY <1>1, <1>3, <2>2 DEF EvictsConfigMap, DeleteCM, TypeOK, ClusterTypeOK
  <2> QED BY <2>1, <2>2
<1> QED
  BY <1>1, <1>2, <1>3
  DEF WatcherNext, FetchesJobsOnSlurm, ListsPods, ListsConfigMaps, SweepsPod, SweepEnds,
      CancelsJob, CancelEnds, EvictionBegins, EvictsPod, EvictionListsConfigMap, RoutineEnds,
      SCancel, DeletePodNamed

\* Users, workloads and Slurm submit and bind nothing.
LEMMA ClusterStepBinds ==
    ASSUME ClusterNext
    PROVE  AbstractStep
BY UnseenFrame
DEF AbstractStep, ClusterNext, JobStarts, JobEnds, UserDeletesPod, WorkloadExits,
    DeletePodNamed, podVars, jobVars

\* The death of the process is not seen: only locks and what was in flight go.
LEMMA CrashUnseen ==
    ASSUME TypeOK, Crash
    PROVE  Unseen
<1>1. \A n \in Names : cms[n] # NoCM =>
        /\ cms'[n] # NoCM
        /\ View(cms'[n]) = View(cms[n])
  BY ClusterAssumption DEF Crash, TypeOK, ClusterTypeOK, ConfigMaps, View, JobOf
<1>2. \A n \in Names : cms[n] = NoCM => cms'[n] = NoCM
  BY DEF Crash
<1>3. bindingBar' = bindingBar
  BY <1>1, <1>2 DEF bindingBar, View
<1> QED BY <1>3 DEF Crash, Unseen, podVars, jobVars

-----------------------------------------------------------------------------
(* The theorem.                                                            *)

\* Nothing is bound and nobody has anything in the beginning.
LEMMA InitBinds == Init => B!Init
BY DEF Init, ClusterInit, bindingBar, B!Init, B!Unbound

\* Every step of the injector is a step of Binding, or is not seen.
LEMMA NextBinds == JobInv /\ [Next]_vars => [B!Next]_<<owner, bindingBar, env>>
<1> SUFFICES ASSUME JobInv, [Next]_vars PROVE AbstractStep
  BY DEF AbstractStep, Unseen
<1>1. IInv /\ TypeOK /\ RequestsHaveJob
  BY DEF JobInv, IInv
<1>2. CASE ClusterNext
  BY <1>2, ClusterStepBinds
<1>3. CASE WebhookNext
  BY <1>1, <1>3, WebhookStepBinds
<1>4. CASE EndpointsNext
  BY <1>1, <1>4, EndpointsStepBinds
<1>5. CASE InitContainersNext
  BY <1>1, <1>5, InitContainersStepBinds
<1>6. CASE WatcherNext
  BY <1>1, <1>6, WatcherStepBinds
<1>7. CASE Crash
  BY <1>1, <1>7, CrashUnseen DEF AbstractStep
<1>8. CASE UNCHANGED <<owner, cms, env>>
  BY <1>8, UnseenFrame DEF AbstractStep
<1> QED
  BY <1>2, <1>3, <1>4, <1>5, <1>6, <1>7, <1>8
  DEF Next, Restart, vars, clusterVars

\* The injector implements Binding, for any number of pods, names, goroutines and
\* jobs, and whether or not the names are unique.
THEOREM BindingRefined == Spec => ImplementsBinding
<1>1. Spec => []JobInv
  BY JobInvariance
<1>2. Init => B!Init
  BY InitBinds
<1>3. JobInv /\ [Next]_vars => [B!Next]_<<owner, bindingBar, env>>
  BY NextBinds
<1> QED BY <1>1, <1>2, <1>3, PTL DEF Spec, ImplementsBinding, B!Spec
=============================================================================
