# k8s-slurm-injector in TLA+

k8s-slurm-injector lets a pod run under a Slurm allocation. A mutating webhook
puts two init containers in front of the pod; the first submits a Slurm job that
does nothing but hold the resources, the second copies the job's environment to
a config-map that the pod's containers read; a watcher keeps the pods and the
jobs in step. This directory models that protocol, checks it with TLC and proves
who-owns-which-job properties of it with TLAPS. Paths below are relative to
`src/internal` unless they start with another directory.

## 1. Inventory

| component | state | operations | status |
|---|---|---|---|
| admission webhook, sidecar injector (`mutation/sidecar`, `http/webhook`) | none of its own; writes a config-map | `Inject` = filters, `getJobInformation`, `mutateObject`, `createConfigMap` | partly: `JobInformation`, `JobRequest` (who gets what), `AdmissionWebhook` (its calls), `InitContainers` (its scripts) |
| slurm HTTP endpoints (`http/slurm`) | one goroutine per request | sbatch, env, envtoconfigmap, isinjectable, state, scancel | partly: `SlurmEndpoints`, `JobRequest`, all but env |
| init containers (generated by `mutateObject`) | where the script is, the file `jobid` | the two shell scripts | modelled: `InitContainers` |
| watcher (`watcher`) | what it listed last | `Watch`, `routine` every 10 s | modelled: `Watcher`, `Process` |
| node labels (`watcher.updateNodeLabels`, `fetchSlurmNodeStatus`) | the labels the affinity of GPU pods is matched against | read Slurm, patch nodes | modelled: `NodeLabels`, `Process`, read by `JobRequest` |
| slurm handler (`slurm_handler`) | node tables | sbatch, srun, scontrol, scancel, squeue, sinfo over ssh | partly: `Cluster`, `NodeLabels`, `JobInformation`, all but `List` |
| ssh handler (`ssh_handler`) | one connection | `New`, `RunCommand`, `RunCommandCombined`, `Destruct` | modelled: `SSHSession`, promises in `Command` |
| config-map handler (`config_map`) | none | List, Get, Create, Update, Delete | modelled: `Cluster` |
| process group (`cmd/k8s-slurm-injector/main.go`), `deploy/` | five actors in a `run.Group` | start, end, panic, restart | partly: `Process`, `Injector` |
| service monitor mutation (`mutation/prometheus`) | none | `EnsureSafety`, not registered by the program | not modelled |
| client set, configuration, log, metrics, dummy handlers | none that decides anything | | not modelled |

How they meet. The API server calls the webhook inside a pod CREATE. The init
containers call the slurm endpoints over HTTP. Endpoints, webhook and watcher
never call each other: they meet in shared objects, and none takes a lock.

* The **config-map** of a pod is created or overwritten by the webhook and again
  by sbatch (both set its job to `to-be-set`), updated by sbatch (the job's id),
  updated by envtoconfigmap (id and variables), deleted by sbatch when it fails and
  by the watcher, and read by the kubelet when the containers start.
* The **Slurm queue** is written by sbatch and scancel from the endpoints,
  scancel from the watcher, and by Slurm itself.
* The **pods** are written by users, by the kubelet and by the watcher.

* The **ssh connection**, dialled once, carries every command of every goroutine. The
  interrupt of the slurm server closes it, before the watcher is told to stop.
* The **node labels** are written by the watcher and read by the scheduler, for pods to
  which `mutateObject` added a node affinity.

The key that links a pod, its config-map and its job is a UUID drawn by
`mutateObject`: a label on the first two, the start of the job's name. But the
config-map's *name* comes from the pod's name, or from its generateName, and
deletions are by name.

What is hard: three actors without locks on the same objects; a watcher that
compares three lists of different instants; handlers of several remote calls,
any of which may fail or be the last before the process dies; `net/http` handlers
that outlive their clients; retried init containers; objects named alike; two
goroutines on one ssh session without synchronization; a shutdown in five interrupts;
settings that come from labels, annotations, variables and resources, are written back
to the pod, read again, sent through a query string and read a third time.
`PROJECT.json` lists the hazards at their lines.

What makes it correct: a config-map names a job of the pod it belongs to and the
containers get the variables of that job; no job outlives its pod; no pod goes on
without its job; the watcher touches nothing that is in use, also when it gets no
answer; sbatch is asked for what the containers were going to get, where the pod is.

## 2. Modules

There are three state machines. They meet in `Command`, and in the properties each
needs of the others; their product would be beyond TLC.

**Who owns which job.** `Cluster` <- `AdmissionWebhook` <- `SlurmEndpoints` <-
`InitContainers` <- `Watcher` <- `Injector` <- `InjectorProperties` <-
`InjectorBinding` <- `BindingStability` <- `MCInjector`; `InjectorProofs`,
`BindingProofs`, `StabilityProofs`.
Each component EXTENDS the ones whose objects it works on and declares only its
own variables; `Injector` composes their next-state relations and adds what each
leaves unchanged. Every remote call is a step, so all interleavings of calls by
different goroutines, containers and processes are explored.

* **Cluster**: the world. `phase`, `deleting` and `env` of each pod; `cms`, the
  config-maps by name; `owner` and `jobState`, the Slurm queue. A member of `Pods`
  is a pod CREATE request and stands for its UUID as well, since every request
  draws a new one. `ObjName[p]` is the config-map name computed for it; two
  requests may share one. `SameName` is the pod's own name, which the requests in
  `Generated` never share. A config-map carries `readers`, the goroutines whose fetched
  copy has the current resourceVersion: an Update of a fetched copy needs that, an Update
  of a fresh object (`createConfigMap`, the first write of sbatch) has no
  resourceVersion and overwrites. Its job is an id, the empty text (`NoJob`) or the text
  `to-be-set` (`ToBeSet`), which is the only one of them the watcher knows. `Faults` names
  the failures an instance allows.
* **AdmissionWebhook**: the CREATE of a pod `Inject` mutates: Get, Create or Update of the
  config-map, then the API server persists the pod or refuses it.
* **SlurmEndpoints**: `req[r]`, the goroutines of the slurm server. Sbatch is Get,
  Create/Update, sbatch, Get, Update or Delete; envtoconfigmap is srun, Get, Update.
  The order of the response and the later failures is the code's: after
  `fmt.Fprint` a status 500 comes too late, so the client sees 200 and the id. A nil error
  of `SBatch` may mean nothing (`masked`, the overwritten error that `SSHSession` has in
  detail): whatever was printed is bound as the job id, if it can be a label.
* **InitContainers**: `ic[p]` and `file[p]`. The scripts' control flow, one
  `curl` at a time; the file `jobid` doubles as the first script's variable
  `jobid`, which it equals whenever the second script can read it. The kubelet restarts a
  failed init container (`Restartable`) or fails the pod, reads `envFrom` when the
  containers start, and sends SIGTERM on deletion, which the trap answers with scancel.
* **Watcher**: `w`, its snapshot and what it has left to do. Each List and Delete
  is a step; the comparisons (`OnKubernetes`, `Strays`, `OnlyOnSlurm`,
  `OnlyOnKubernetes`) are operators evaluated where the code evaluates them.
* **Injector**: the composition, `Crash` (all goroutines gone; the code's own
  panic on a renewed certificate is one), `Restart` (the Deployment) and fairness.
  `told` is history that only properties read: the pods for which `SBatch` returned no error.
* **InjectorProperties**: the properties of the composition and the inductive invariant.
* **Binding**: what all of it amounts to, without a call: requests submit jobs, reserve
  names, bind and unbind them, provide variables and receive them. **InjectorBinding** has the
  refinement mapping, which hides the locks and all that is in flight.
* **BindingStability**: the invariant that keeps a binding where it is (`SInv`): where the
  one call of a pod is, what its script waits for, which id each of them has, and what the
  watcher's three lists say of each other.

**The process and its ssh connection.** `Command` <- `Process` (with `NodeLabels`) <-
`ProcessProperties` <- `MCProcess`, `ProcessProofs`; `SSHSession` <- `SSHProperties`
(which instantiates `Command`) <- `MCSSH`, `SSHProofs`.

* **Command**: the interface `SSHHandler` as its callers may rely on it. An error on an
  unbroken connection means that the command did nothing; success means that it did all,
  but for a command with a script it means nothing: the writer's `err = nil` may
  overwrite the error of `CombinedOutput`.
* **SSHSession**: `RunCommandCombined` and `RunCommand` with the two goroutines that share
  the session and `err` unsynchronized, statement by statement, on an external session
  that does what golang.org/x/crypto/ssh does: `StdinPipe` of a started session returns
  nil, whose `Close` panics; a session started without a pipe sends an empty input.
* **NodeLabels**: the three labels, replaced by one JSON patch that the API server takes
  whole or not at all.
* **Process**: `run.Group` with the interrupts of its five actors in the order of
  `g.Add`, `Shutdown` that gives up after five seconds, `Destruct` after it, `Watch` told
  last; a handler in the middle of sbatch; `routine` with its early returns and
  `updateNodeLabels`; panics; the next process. Of the protocol above it
  keeps one pod that is bound, with its job queued, when the behaviour starts, and at most one
  scancel per `routine`, of another job: enough to see whether `routine` goes on without an
  answer.

**What is asked for.** `JobInformation` <- `JobRequest` <- `MCJobRequest`;
`JobInformationProofs`, `JobRequestProofs`.

* **JobInformation**: functions from a pod to its job: which pods are injected, the
  precedence of labels, annotations and variables, the modes, the sums of CPUs and GPUs,
  what is written back (affinity, annotations, labels), `parseQueryParams`,
  `prepareParams`, `constructCommand`. A text is a model value, a number the integer its
  text denotes; `Undotted` is what is left of a text when `.` is filtered out.
* **JobRequest**: one pod from CREATE through the scheduler and the script to the sbatch
  command, and once more from the manifest that is left, which already carries
  annotations and an init container. A config-map can be written in `Namespaces` only, whose
  names have no dots; what a label says may be in no namespace. `RequestInv` is the
  invariant behind its properties.

`MCInjector`, `MCProcess`, `MCSSH` and `MCJobRequest` hold values of constants for the
runs; the `...Proofs` modules hold the theorems.

Operators whose comment starts with "Mutant" are wrong variants of the definition
after them. Nothing uses them; they show, put in its place, that a property notices.

Abstracted in `Injector`: job parameters, names as strings, the data of the config-map
(only whose variables they are), labels next to annotations (always written together),
time (a sleep is any delay), the order in which the watcher goes through a list.
An sbatch that fails, and one whose reply is lost, prints no job id: nothing, or an error
text, which cannot be a label value, so that the Update which would bind it is refused.

## 3. Runs

Deadlock is checked, but for `job_request` and `unlabelled`, where a pod's request
simply comes to its end.

| run | instance | checks | distinct states |
|---|---|---|---|
| `isolation` | 2 pods, 2 names, 1 goroutine, kill, masked sbatch | `BoundToOwnJob`, `EnvIsOwn`, `NeverEvictsWaiting`, `IInv`, `ImplementsBinding` | 814,759 |
| `faults` | 1 annotated pod, 2 goroutines, every fault but kill, 1 crash | `TypeOK`, `NeverCancelsBoundJob`, `BindingMatchesEnv`, `SInv`, `BindingStable` | 672,479 |
| `reaping` | 1 retried pod, failing API calls of webhook and handlers, lost and masked sbatch, deletions, jobs end, 1 crash | `OrphansReaped`, `JoblessEvicted` | 296,579 |
| `recreated` | 2 pods of one name, one after the other, deletions | `EveryOrphanReaped`, `AnnotatedStraysDeleted` | 212,488 |
| `ssh_session` | a caller with a script and one without | `ImplementsCommand`, `CommandsComeBack` | 67,660 |
| `process` | handler and watcher, 3 nodes, 1 end of the process | `ActiveJobKeepsPod`, `DrainedFirst`, `GroupStops`, `LabelsFollow` | 103,824 |
| `job_request` | some 5,400 pods, 4 nodes, 3 partitions | `InjectedOnce`, `SameConfigMap`, `PlacedWell`, `AsksForContainers`, `AutoFollowsPod`, `RefusedWithReason`, `RequestInv` | 75,697 |

What they show. A job id never reaches a config-map or a container of another request, as
long as no two requests compute the same name. Whatever single call fails, the config-map
of a running pod names the job whose variables its containers got, also when sbatch's own
binding Update failed, because envtoconfigmap writes the id again. The order squeue, pods,
config-maps protects a bound job from being cancelled. A pod is evicted only after
`SBatch` reported success for it. As long as nothing fails, every job whose pod is gone is
ended (`recreated`). With failures it is ended unless its config-map stays `to-be-set`
(`Shielded`), and a single failure of sbatch after the job was queued is enough for that:
of the second Get, of the Update that binds the job, of the Delete after a lost reply, or
of the whole process. Every pod whose jobs have ended is evicted or gets another. The race
on an ssh session costs a script or an error, or even the process, but never makes a
failed command look undone that was done, nor leaves a call waiting while Slurm and the
connection answer. A dying process evicts nobody for want of an answer. Labels do not move
a job in auto mode away from its pod, and a pod let through by the webhook is refused by
sbatch only where the two tables of partitions differ.

Runs that end in a violation each show where a comment or document of the
repository promises something the code does not do:

| run | property | what happens |
|---|---|---|
| `shared_env` | `EnvIsOwn` | siblings of a ReplicaSet share a config-map, and one runs with the other's variables |
| `stale_pods` | `CancelsOnlyAbandonedJobs` | a pod bound after the pod list was read loses its config-map, then its job |
| `no_job_at_start` | `StartsWithJob` | a failed envtoconfigmap becomes success when scancel answers |
| `crash_orphan` | `EveryOrphanReaped` | a crash before the binding Update leaves a config-map `to-be-set`, which shields the job for ever; one failed Get or Update has the same result without a crash, which `reaping` contains |
| `unlabelled` | `InjectedWhereAsked` | without `--target-namespaces` a pod nobody labelled is injected, since the empty flag is one empty pattern |

Six more such gaps are visible in the model without a run. A pod whose job is submitted
and bound after squeue was read and before the config-maps are listed is evicted with its
job alive (`OnlyOnKubernetes`). When the writer of the script overwrites the error of a
failed sbatch (`ssh_handler/ssh_handler.go:104`), the handler binds the empty output
(`http/slurm/handler.go:220`), which is not `to-be-set`, and the watcher evicts a pod no
job was submitted for (`SbatchFailed`; hence `NeverEvictsWaiting` speaks of a reported
success). A pod that replaces the evicted one under its name is deleted instead, since
deletions are by name (`EvictsPod`). The branch of the watcher that deletes a pod without
a config-map ("Pod exists but configmap does not exist", `watcher/watcher.go:191`) needs
the annotation `k8s-slurm-injector/jobid`, which no code sets on a pod: `Annotated` holds
the pods whose creator did. And the webhook declares `sideEffects: None`
(`deploy/webhooks.yaml.tpl:16`) but writes the config-map while the request may still be
refused (`PodCreated`). A variable that turns a pod labelled manual into an auto one comes
after the "Auto mode" reset (`mutation/sidecar/sidecar.go:430`), so its job stays on the
labelled node while the pod is placed anywhere (`Overridden`).

### Bounds

* *Pods*: two, the least that can share a name or be mistaken for each other; one
  where the question is about a pod against its faults and watcher. Three pods
  are beyond five minutes. Siblings of one generateName are the subject of `shared_env`
  and of the proofs of `IInv` and `ImplementsBinding`, which hold for them too.
* *Goroutines*: two for one pod, so that a handler whose client died and the handler of
  the restarted container overlap; one for two pods, so that a goroutine is
  reused by another pod (the calls of two pods then do not overlap in
  time, while they still interleave with both webhooks, both scripts and the watcher).
* *MaxJobs* is 2: a first job and a retry, or one for each pod. When they are used up
  sbatch fails like a full queue, so a bound is also a fault, never a stop.
* *MaxCrashes* is 1 where crashes are in question: a crash forgets everything
  local, so a second one starts from what a first could have left.
* *Faults* are named per run. `api` is a failing call of the webhook or an endpoint,
  `blind` one of the watcher. `kill` is left out of `faults` on purpose: with an init
  container that dies inside its call to sbatch, the old handler and the new one bind two
  jobs to one config-map, and `BindingStable`, `BindingMatchesEnv` and
  `NeverCancelsBoundJob` fail. `isolation` and the proofs of `IInv` and
  `ImplementsBinding` include it. `isolation` has no deletions besides,
  which take nearly two million more states: a killed init container already ends a pod at
  any point of its scripts, and deletions are in `faults`, `reaping` and `recreated`. `reaping` has no `kill`: with the failing API calls it
  would take more than five minutes.
* *MaxEnds* is 1: `process` sees one end, orderly or a panic, at every point and all of the
  process after it, which starts from nothing but labels and commands still running. `routine`
  cancels at most one job that is only on Slurm, which puts one more command, with all its
  ways to end, between squeue and sinfo.
* *Nodes of `process`*: one that follows Slurm, one without the labels before it in the
  list, so that an error in the loop comes first, and one in two partitions, which
  `sinfo --Node` prints twice and `fetchSlurmNodeStatus` therefore skips.
* *Pods of `job_request`* are three families around a plain pod, one for each part of the
  code that reads settings: `WhetherPods` (labels, variables, owners, Katib, namespace),
  `WherePods` (mode, partition and node from every source) and `HowMuchPods` (numbers,
  resources of two containers, affinities with no, one and two terms). Their product is
  left out because those parts share nothing but the mode.
* *recreated*: a pod is created again once; a second time starts from the same annotations.
* No symmetry is used: TLC cannot combine it with the liveness runs, and the rest is small.

### Fairness

`FairSpec` of `Injector` assumes weak fairness of: the watcher as a whole, which is one
goroutine in an endless loop (`Watch`) and never blocks in the model; each handler
goroutine; the API server finishing a CREATE it admitted; each script and the kubelet that runs
it; the removal of a deleted pod; the restart by the Deployment. A failure may
always be chosen where its fault is in the instance, so the liveness runs leave out the
failures of the watcher's own calls (`blind`, `ssh`), which could repeat for ever: no code gets
anywhere against a dead API server. The failures of `reaping` may repeat without end for
handlers (`api`) or spend a job number (`lost`), and the watcher still comes round.
Nothing is assumed of users, of the workload or of Slurm's scheduler; a job may stay
PENDING for ever.

`FairSpec` of `SSHSession` assumes weak fairness of each goroutine of a call, of the
session's own copy, of the remote command while Slurm answers and its input has ended, and
of the restart. `FairSpec` of `Process` assumes it of `run.Group` and the actors, of the
commands as `Command` promises (`CommandFairness`, which `ssh_session` checks of
`SSHSession`), and of `routine` except where it waits for a command; and strong fairness of
the patches of each node: `routine` tries again every ten seconds for ever, and some
of the attempts get through. No command has a timeout, so nothing is assumed of a
command that hangs: `GroupStops` holds because `Destruct` releases it.

## 4. Proofs

For all values of the constants that satisfy the named assumptions
(types of the constants, and for `Process` that handler and watcher are two callers):

| theorem | statement |
|---|---|
| `InjectorProofs!Invariance`, `TypeCorrect` | `[]IInv`, `[]TypeOK` for every set of faults, `kill` included |
| `InjectorProofs!BindingCorrect`, `EnvCorrect`, `EvictionCorrect` | under `UniqueNames`, `BoundToOwnJob`, `EnvIsOwn`, `NeverEvictsWaiting` always hold |
| `BindingProofs!BindingRefined` | `Injector` implements `Binding` |
| `StabilityProofs!StabilityInvariance` | `[]SInv` under `Undisturbed`: unique names, no `kill` |
| `StabilityProofs!BindingStability`, `CancellationCorrect`, `EnvMatches` | `BindingStable`, `NeverCancelsBoundJob`, `BindingMatchesEnv` under `Undisturbed` |
| `SSHProofs!CommandRefined` | `SSHSession` implements `Command`, for any callers |
| `ProcessProofs!PodKept`, `DrainedCorrect` | `ActiveJobKeepsPod`, `DrainedFirst` for any nodes and any number of processes |
| `JobRequestProofs!RequestInvariance` | `[]RequestInv` for any pods, nodes, partitions, labels and affinities |
| `JobRequestProofs!InjectedAtMostOnce`, `PlacementCorrect`, `ConfigMapsMeet`, `RefusalCorrect`, `AccountsCorrect` | `InjectedOnce`, `PlacedWell`, `SameConfigMap`, `RefusedWithReason`, `AsksForContainers`, likewise |
| `JobRequestProofs!AutoCorrect` | `AutoFollowsPod`, if no node has the name of a Slurm node once its dots are gone (`NodesApart`) |

**Who owns which job.** `BoundToOwnJob` is not inductive: the id comes from a goroutine's
`req[r].job`, or from a pod's `file`, whose contents came from a goroutine. And it is
false without unique names, while what is true and inductive is weaker: everything stored
under a name was submitted by *some* request with that name. So `IInv` says that
config-maps and containers hold jobs of requests with their name (`ConfigMapsByName`,
`EnvsByName`), that goroutines and files hold jobs of exactly their pod (`RequestsOwnJob`,
`FilesOwnJob`), that an unused number has no owner (`FreshNumbers`), and that whoever the
watcher is about to evict shares its name with a request whose sbatch was reported to be
successful (`EvictionsByName`, with the history `told`, which every config-map that is not
`to-be-set` answers to). An owner, once given, never changes, and `told` only grows
(`OwnersKept`), which lets each part survive every step that leaves its own variables
alone (the `...Frame` lemmas). Each component has one lemma for types (`...StepType`) and
one for ownership (`...StepOwnership`), with a case per action. `UniqueNames` turns "a
request with that name" into "the pod itself".

**The binding.** `BindingRefined` needs more: no job id is empty when srun uses it
(`RequestsHaveJob`, `FilesWritten`; with `IInv` they make `JobInv`). Then each operation
on the cluster maps to one abstract step (`FreshCMReserves`, `UpdateBinds`,
`UpdateUnbinds`, `DeleteCMReleases`, `QueueJobSubmits`) or to none (`UnseenFrame`), and
each action to the operation it is built from.

**Why a binding is stable.** A config-map alone does not tell: `SInv` also says what is in
flight. A pod has at most one call at an endpoint (`OneCall`), since its script waits for
each answer; the script knows which call that is (`CallerWaits`); the call has no id
before sbatch has printed one (`NoIdYet`). Then whatever binds a config-map has the right
id: from the first write of sbatch on nobody else binds it (`FreshInCall`), an answer is
what was bound (`AnswerBound`), and until the next call of sbatch the binding is the id in
the file (`FileBound`), which is the one envtoconfigmap stores together with the variables
(`EnvWithJob`, `MatchesEnv`). A process that dies takes its calls with it, and their
scripts get an error. This fails with `kill`, where the old call goes on next to that of
the restarted container, and with shared names, where the other call is a sibling's. For
the watcher, squeue comes before the pods, and these before the config-maps: every job it
holds existed already, and the pod of a job that is not on its list is gone by then
(`SnapshotsOrdered`). So a job it is about to cancel is one the pod has lost: the
config-map is missing, and only a call that submits another job makes a new one, or it
names another job and neither script nor call still has this one (`Loose`), which no later
step undoes. Each action has a lemma for the pod it works on, and one that it is quiet for
all others.

**Commands.** The invariant `SInv` says what the two goroutines know of the remote command:
a scripted command was done only if its script was sent, in which case nothing left an
error behind; and when a call is about to return, its `err` speaks of the remote command,
except that of a scripted call. `MainMapped` and `WriterMapped` map each statement.

**The process.** `PodKept` needs that a job `routine` is about to look for was seen in the
queue (`KInv`): each early return keeps that. `DrainedFirst` needs the stage
at which the connection was closed (`Drained`).

**What is asked for.** `PInv` says that an injected pod carries the annotation, and
that its affinity is its user's with the requirement joined to every term; `AffinityJoins`
says that whatever meets the joined affinity meets both. The number of GPUs is left
unopened. `RInv` follows the rest: as long as a pod is not injected its settings are those its
user wrote, afterwards the script says what was made of them (`ScriptSays`), the config-map
is that of the script's job (`Matched`, from `ReadBack`: the annotation written last
wins), and what the endpoints decided they decided from the query the script sends. The
sums over the containers are recursive functions. That such a function exists (`SumsExist`),
that it gives integers (`SumIsInt`) and that nothing adds up to nothing (`SumOfNothing`) is
induction without an operator parameter: the first index that fails exists by `WFMin`,
and there cannot be one.

Every invariant and every action property of the passing runs is proved. Only
model-checked is what needs a `FairSpec` (`OrphansReaped`, `EveryOrphanReaped`,
`JoblessEvicted`, `AnnotatedStraysDeleted`, `CommandsComeBack`, `GroupStops`,
`LabelsFollow`): liveness and ENABLED are outside what the prover handles.

## 5. Not modelled

* Width of integers: the sums of CPUs and GPUs are 64 bits in the code, unbounded here.
* The kinds Job and CronJob in `Inject`, which `deploy/webhooks.yaml.tpl` never sends;
  volumes, the istio-proxy hook and the runtime class `mutateObject` adds; resources of
  init containers of the user's own.
* Jobs in the queue that are not the injector's: `ListUUIDsAndJobIDs` takes every
  job of the ssh user whose name fills the 32 characters `squeue` prints, and the watcher
  then cancels it. A model would restate that sentence.
* `/slurm/env`, which changes nothing and no script calls; `List`, which nothing calls;
  `EnsureSafety`, a pure function that the program does not register.
* Errors of `runApp` before the group runs, which end in a restart as `Starts` has it.
* The client set, flags, logs and metrics, which decide nothing; the one flag that does,
  `--target-namespaces`, is the constant `TargetFlag`.

## 6. Plan

Done: the protocol, its properties and proofs; `Binding`; the ssh session and its
refinement; the process and node labels; job requests; the stability of a binding; the
disagreements found on the way.

Left, in this order:

1. Two jobs of one pod, with `kill`: which of them the pod ends up with, and how long
   the other lives; which parts of `SInv` survive it; `OrphansReaped` with `kill`.
2. Foreign jobs and the 32 characters, together with a document that says what they
   are owed.
