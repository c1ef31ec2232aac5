------------------------------- MODULE Injector -------------------------------
(***************************************************************************)
(* The whole system: one injector process (webhook, slurm endpoints and    *)
(* watcher run by the group of cmd/k8s-slurm-injector/main.go), the pods   *)
(* it mutated, the Kubernetes API server, the kubelet and Slurm.           *)
(*                                                                         *)
(* The process may die and is started again by its Deployment; this is     *)
(* also how it picks up a renewed certificate, by the watcher's panic.     *)
(***************************************************************************)
EXTENDS Watcher

CONSTANT MaxCrashes     \* bound: deaths of the process in a behaviour

ASSUME InjectorAssumption == MaxCrashes \in Nat

VARIABLES
    crashes,    \* deaths so far
    told        \* history, read by properties only: the pods for which SBatch has
                \* returned without an error

vars == <<clusterVars, up, wh, req, initVars, w, crashes, told>>

TypeOK ==
    /\ ClusterTypeOK
    /\ WebhookTypeOK
    /\ EndpointsTypeOK
    /\ InitContainersTypeOK
    /\ WatcherTypeOK
    /\ crashes \in 0 .. MaxCrashes
    /\ told \subseteq Pods

Init ==
    /\ ClusterInit
    /\ WebhookInit
    /\ EndpointsInit
    /\ InitContainersInit
    /\ WatcherInit
    /\ crashes = 0
    /\ told = {}

\* SBatch returns a nil error, whatever it did.
Acknowledged(p) ==
    \E r \in Reqs : req[r].pod = p /\ req[r].step = "submit" /\ req'[r].step = "reget"

Remembers == told' = told \cup {p \in Pods : Acknowledged(p)}

\* Every goroutine is gone, and with it what it had read.
Crash ==
    /\ up /\ crashes < MaxCrashes
    /\ up' = FALSE
    /\ crashes' = crashes + 1
    /\ WebhookCrash
    /\ InitContainersCrash
    /\ w' = WatcherIdle
    /\ cms' = [n \in Names |-> IF cms[n] = NoCM THEN NoCM ELSE [cms[n] EXCEPT !.readers = {}]]
    /\ UNCHANGED <<podVars, jobVars, told>>

Restart ==
    /\ ~up
    /\ up' = TRUE
    /\ UNCHANGED <<clusterVars, wh, req, initVars, w, crashes, told>>

Next ==
    \/ ClusterNext /\ UNCHANGED <<up, wh, req, initVars, w, crashes, told>>
    \/ WebhookNext /\ UNCHANGED <<req, initVars, w, crashes, told>>
    \/ EndpointsNext /\ Remembers /\ UNCHANGED <<initVars, w, crashes>>
    \/ InitContainersNext /\ UNCHANGED <<w, crashes, told>>
    \/ WatcherNext /\ UNCHANGED <<crashes, told>>
    \/ Crash
    \/ Restart

Spec == Init /\ [][Next]_vars

-----------------------------------------------------------------------------
(* Fairness: the process, once started, keeps running its goroutines; its  *)
(* Deployment restarts it; the API server, the kubelet and the shell of an *)
(* init container finish what they began.  Nothing is assumed of users, of *)
(* Slurm's scheduler, of the workload or of any fault.                     *)

ScriptStep(p) ==
    \/ FirstContainerStarts(p) \/ AsksIsInjectable(p) \/ CallsSbatch(p)
    \/ SbatchAnswered(p) \/ Polls(p) \/ CallsEnvToConfigMap(p) \/ EnvAnswered(p)
    \/ RollsBack(p) \/ KubeletHandlesFailure(p) \/ ContainersStart(p)

HandlerStep(r) ==
    \/ SbatchGetsConfigMap(r) \/ SbatchWritesConfigMap(r) \/ SbatchSubmits(r)
    \/ SbatchRefetches(r) \/ SbatchBinds(r) \/ SbatchDeletesConfigMap(r)
    \/ EnvRuns(r) \/ EnvFetches(r) \/ EnvStores(r)

CreateStep(p) == InjectGetsConfigMap(p) \/ InjectWritesConfigMap(p) \/ PodCreated(p)

Fairness ==
    /\ WF_vars(WatcherNext /\ UNCHANGED <<crashes, told>>)
    /\ WF_vars(Restart)
    /\ \A r \in Reqs : WF_vars(HandlerStep(r) /\ Remembers /\ UNCHANGED <<initVars, w, crashes>>)
    /\ \A p \in Pods :
         /\ WF_vars(CreateStep(p) /\ UNCHANGED <<req, initVars, w, crashes, told>>)
         /\ WF_vars(ScriptStep(p) /\ UNCHANGED <<w, crashes, told>>)
         /\ WF_vars(KubeletRemoves(p) /\ UNCHANGED <<w, crashes, told>>)

FairSpec == Spec /\ Fairness
=============================================================================
