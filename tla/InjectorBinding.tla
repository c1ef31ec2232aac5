---------------------------- MODULE InjectorBinding ----------------------------
(***************************************************************************)
(* The injector implements Binding: its calls on the config-maps, with     *)
(* every failure, retry and crash, are steps of the abstract specification *)
(* or steps it does not see.                                               *)
(***************************************************************************)
EXTENDS InjectorProperties

\* Neither "to-be-set" nor an empty id is a job.
JobOf(cm) == IF cm.jobid \in JobIds THEN cm.jobid ELSE NoJob

\* The refinement mapping.  Optimistic locks and everything in flight are hidden.
bindingBar ==
    [n \in Names |->
        IF cms[n] = NoCM THEN [uuid |-> NoPod, jobid |-> NoJob, env |-> NoJob]
        ELSE [uuid |-> cms[n].uuid, jobid |-> JobOf(cms[n]), env |-> cms[n].env]]

B == INSTANCE Binding WITH
        Requests <- Pods, NameFor <- ObjName, Jobs <- JobIds, Nobody <- NoPod,
        binding <- bindingBar, got <- env

\* A job id reaches a config-map or a container only along submit, bind, provide and
\* receive, and never from a request for another name (createConfigMap, Sbatch and
\* JobEnvToConfigMap of handler.go, envFrom in sidecar.go).
ImplementsBinding == B!Spec

-----------------------------------------------------------------------------
(* What the proof needs besides IInv: variables come with a job id.        *)

\* The handlers that store variables have the id of a job.
RequestsHaveJob == \A r \in Reqs : req[r].step \in EnvSteps => req[r].job \in JobIds

\* slurm-pipeline runs only after slurm-injector wrote an id or "none".
FilesWritten ==
    \A p \in Pods : ic[p] \in SecondContainer \cup {"failed2"} => file[p] # NoJob

JobInv == IInv /\ RequestsHaveJob /\ FilesWritten
=============================================================================
