---------------------------- MODULE InitContainers ----------------------------
(***************************************************************************)
(* The two init containers mutateObject puts first in the pod, as the      *)
(* shell scripts it generates run them, and the kubelet that starts,       *)
(* restarts and stops them.  slurm-injector asks isinjectable, submits the *)
(* job and polls its state; slurm-pipeline copies the job's environment to *)
(* the config-map.  The file /k8s-slurm-injector/jobid links the two.      *)
(***************************************************************************)
EXTENDS SlurmEndpoints

CONSTANTS
    SlurmPods,      \* pods scheduled on a node that Slurm knows
    Restartable     \* pods with restartPolicy other than Never

ASSUME InitContainersAssumption == SlurmPods \subseteq Pods /\ Restartable \subseteq Pods

VARIABLES
    ic,     \* ic[p]   : where the init containers of p are
    file    \* file[p] : the content of /k8s-slurm-injector/jobid

initVars == <<ic, file>>

\* The first container: isinjectable .. poll; the second: pipeline .. rollback.
InitSteps == {"none", "isinjectable", "sbatch", "sbatching", "poll", "failed1",
              "pipeline", "storing", "rollback", "failed2", "done"}
FirstContainer == {"isinjectable", "sbatch", "sbatching", "poll"}
SecondContainer == {"pipeline", "storing", "rollback"}

InitContainersTypeOK ==
    /\ ic \in [Pods -> InitSteps]
    /\ file \in [Pods -> JobIds \cup {NoJob, NotSlurm}]

InitContainersInit ==
    /\ ic = [p \in Pods |-> "none"]
    /\ file = [p \in Pods |-> NoJob]

Step(p, from, to) ==
    /\ phase[p] = "Pending" /\ ic[p] = from
    /\ ic' = [ic EXCEPT ![p] = to]

\* r holds the answer to the call the script of p waits for.
AnswerFor(p, r) == req[r].pod = p /\ req[r].step \in {"answered", "refused"}

-----------------------------------------------------------------------------
(* slurm-injector                                                          *)

FirstContainerStarts(p) ==
    /\ ~deleting[p]
    /\ Step(p, "none", "isinjectable")
    /\ UNCHANGED <<clusterVars, up, wh, req, file>>

\* /slurm/isinjectable answers 200 for a node the slurm handler knows, else 405.
IsInjectable(p) == up /\ p \in SlurmPods

\* ! curl -fs ${isInjectableURL} && ... : any failure of curl, the 405 of an
\* unknown node or no server at all, is "not a slurm node".
AsksIsInjectable(p) ==
    /\ \/ /\ IsInjectable(p)
          /\ Step(p, "isinjectable", "sbatch")
          /\ UNCHANGED file
       \/ /\ ~IsInjectable(p)
          /\ Step(p, "isinjectable", "pipeline")
          /\ file' = [file EXCEPT ![p] = NotSlurm]
    /\ UNCHANGED <<clusterVars, up, wh, req>>

\* export jobid=$(curl -fs ${sbatchURL}): with no server the id is empty.
CallsSbatch(p) ==
    /\ \/ /\ \E r \in Reqs : Serve(r, "get", p, NoJob)
          /\ Step(p, "sbatch", "sbatching")
          /\ UNCHANGED file
       \/ /\ ~up
          /\ Step(p, "sbatch", "poll")
          /\ file' = [file EXCEPT ![p] = NoJob]
          /\ UNCHANGED req
    /\ UNCHANGED <<clusterVars, up, wh>>

SbatchAnswered(p) ==
    /\ Step(p, "sbatching", "poll")
    /\ \E r \in Reqs :
         /\ AnswerFor(p, r)
         /\ file' = [file EXCEPT ![p] = req[r].job]
         /\ req' = [req EXCEPT ![r] = Idle]
    /\ UNCHANGED <<clusterVars, up, wh>>

\* /slurm/state answers the JobState of scontrol show jobid.
State(j) == IF up THEN jobState[j] ELSE "no answer"

\* One turn of the loop: no numeric id or CANCELLED leaves with status 1, RUNNING
\* ends the container; every other state, and no answer, goes round again.
Polls(p) ==
    /\ \/ file[p] = NoJob /\ Step(p, "poll", "failed1")
       \/ file[p] \in JobIds /\ State(file[p]) = "RUNNING" /\ Step(p, "poll", "pipeline")
       \/ file[p] \in JobIds /\ State(file[p]) = "CANCELLED" /\ Step(p, "poll", "failed1")
    /\ UNCHANGED <<clusterVars, up, wh, req, file>>

-----------------------------------------------------------------------------
(* slurm-pipeline                                                          *)

\* Mutant: without the test for "none".
CallsEnvForNone(p) ==
    /\ \E r \in Reqs : Serve(r, "srun", p, file[p])
    /\ Step(p, "pipeline", "storing")
    /\ UNCHANGED <<clusterVars, up, wh, file>>

\* "none" exits with 0 at once, and Polls lets no empty id through; a failing curl
\* goes to the right of ||.
CallsEnvToConfigMap(p) ==
    /\ \/ /\ file[p] = NotSlurm
          /\ Step(p, "pipeline", "done")
          /\ UNCHANGED req
       \/ /\ file[p] # NotSlurm
          /\ \E r \in Reqs : Serve(r, "srun", p, file[p])
          /\ Step(p, "pipeline", "storing")
       \/ /\ file[p] # NotSlurm /\ ~up
          /\ Step(p, "pipeline", "rollback")
          /\ UNCHANGED req
    /\ UNCHANGED <<clusterVars, up, wh, file>>

EnvAnswered(p) ==
    /\ \E r \in Reqs :
         /\ AnswerFor(p, r)
         /\ Step(p, "storing", IF req[r].step = "answered" THEN "done" ELSE "rollback")
         /\ req' = [req EXCEPT ![r] = Idle]
    /\ UNCHANGED <<clusterVars, up, wh, file>>

\* ... || scancel : the script's status is that of the second curl.
RollsBack(p) ==
    /\ \/ /\ up
          /\ SCancel(file[p])
          /\ Step(p, "rollback", "done")
       \/ /\ ~up \/ "ssh" \in Faults
          /\ Step(p, "rollback", "failed2")
          /\ UNCHANGED jobVars
    /\ UNCHANGED <<podVars, cms, up, wh, req, file>>

-----------------------------------------------------------------------------
(* The kubelet                                                             *)

\* A failed init container is run again, or fails the pod.
KubeletHandlesFailure(p) ==
    /\ phase[p] = "Pending" /\ ~deleting[p] /\ ic[p] \in {"failed1", "failed2"}
    /\ \/ /\ p \in Restartable
          /\ ic' = [ic EXCEPT ![p] = IF @ = "failed1" THEN "isinjectable" ELSE "pipeline"]
          /\ UNCHANGED phase
       \/ /\ p \notin Restartable
          /\ phase' = [phase EXCEPT ![p] = "Failed"]
          /\ UNCHANGED ic
    /\ UNCHANGED <<deleting, env, cms, jobVars, up, wh, req, file>>

\* envFrom of the config-map, optional, is read whenever a container starts.
EnvFrom(p) == IF cms[ObjName[p]] = NoCM THEN NoJob ELSE cms[ObjName[p]].env

ContainersStart(p) ==
    /\ phase[p] = "Pending" /\ ~deleting[p] /\ ic[p] = "done"
    /\ phase' = [phase EXCEPT ![p] = "Running"]
    /\ env' = [env EXCEPT ![p] = EnvFrom(p)]
    /\ UNCHANGED <<deleting, cms, jobVars, up, wh, req, initVars>>

\* A container that exits is started again, with the variables of now.
ContainersRestart(p) ==
    /\ phase[p] = "Running" /\ ~deleting[p] /\ p \in Restartable
    /\ env' = [env EXCEPT ![p] = EnvFrom(p)]
    /\ UNCHANGED <<phase, deleting, cms, jobVars, up, wh, req, initVars>>

\* A running init container dies without its trap.
InitContainerKilled(p) ==
    /\ "kill" \in Faults
    /\ phase[p] = "Pending"
    /\ \/ ic[p] \in FirstContainer /\ ic' = [ic EXCEPT ![p] = "failed1"]
       \/ ic[p] \in SecondContainer /\ ic' = [ic EXCEPT ![p] = "failed2"]
    /\ req' = Disconnected(p)
    /\ UNCHANGED <<clusterVars, up, wh, file>>

\* A deleted pod is stopped and removed.  SIGTERM runs the trap only once it is
\* set, after sbatch has answered, and the call may not get through in time.
KubeletRemoves(p) ==
    /\ Live(p) /\ deleting[p]
    /\ phase' = [phase EXCEPT ![p] = "deleted"]
    /\ req' = Disconnected(p)
    /\ \/ /\ phase[p] = "Pending" /\ ic[p] \in {"poll", "storing"} /\ up
          /\ file[p] \in JobIds
          /\ SCancel(file[p])
       \/ UNCHANGED jobVars
    /\ UNCHANGED <<deleting, env, cms, up, wh, initVars>>

InitContainersNext ==
    \E p \in Pods : \/ FirstContainerStarts(p)
                    \/ AsksIsInjectable(p)
                    \/ CallsSbatch(p)
                    \/ SbatchAnswered(p)
                    \/ Polls(p)
                    \/ CallsEnvToConfigMap(p)
                    \/ EnvAnswered(p)
                    \/ RollsBack(p)
                    \/ KubeletHandlesFailure(p)
                    \/ ContainersStart(p)
                    \/ ContainersRestart(p)
                    \/ InitContainerKilled(p)
                    \/ KubeletRemoves(p)

\* What the death of the process does: goroutines vanish, open calls fail.
InitContainersCrash ==
    /\ req' = [r \in Reqs |-> Idle]
    /\ ic' = [p \in Pods |-> CASE ic[p] = "sbatching" -> "poll"
                               [] ic[p] = "storing" -> "rollback"
                               [] OTHER -> ic[p]]
    /\ file' = [p \in Pods |-> IF ic[p] = "sbatching" THEN NoJob ELSE file[p]]
=============================================================================
