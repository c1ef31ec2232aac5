-------------------------- MODULE InjectorProperties --------------------------
(***************************************************************************)
(* What the system promises.  The first part holds, some of it only when   *)
(* no two requests share a config-map name; the last part states what a    *)
(* comment or a document of the repository says and the code does not do.  *)
(***************************************************************************)
EXTENDS Injector

\* Every request has a config-map name of its own.  Not so for the pods of a
\* ReplicaSet, which share generateName, nor for a StatefulSet's next pod.
UniqueNames == \A p, q \in Pods : ObjName[p] = ObjName[q] => p = q

\* As routine sees it: the text is not "to-be-set".  The id may be empty.
Bound(n) == cms[n] # NoCM /\ cms[n].jobid # ToBeSet
BoundTo(n, p) == Bound(n) /\ cms[n].uuid = p
HasJob(p) == \E j \in JobIds : owner[j] = p /\ Active(j)
HasConfigMap(p) == \E n \in Names : cms[n] # NoCM /\ cms[n].uuid = p

-----------------------------------------------------------------------------
(* Safety.                                                                 *)

\* The annotation jobid of a config-map is a job submitted under the UUID in the
\* same config-map (handler.go Sbatch and JobEnvToConfigMap, which write the job
\* id of one call into an object written by another), or empty.  Under UniqueNames.
BoundToOwnJob ==
    \A n \in Names : Bound(n) /\ cms[n].jobid # NoJob => owner[cms[n].jobid] = cms[n].uuid

\* Containers get the variables of a job submitted for their own pod, whoever
\* wrote the config-map they read (envFrom in sidecar.go).  Under UniqueNames.
EnvIsOwn == \A p \in Pods : env[p] # NoJob => owner[env[p]] = p

\* The watcher never sets out to delete a pod before SBatch has reported success for
\* it: a pod that waits for sbatch, or whose sbatch is known to have failed, is safe
\* (the "to-be-set" case of routine, kept apart from the bound one).  It is no more than
\* that: where the error of sbatch was overwritten, the id bound is empty, which routine
\* does not tell from an ended job, and a pod no job was submitted for is evicted.
\* Under UniqueNames.
NeverEvictsWaiting == (w.evict \cup {w.target}) \ {NoPod} \subseteq told

\* The watcher never sets out to cancel a job while the config-map of a live pod
\* is bound to it: squeue is read before Kubernetes is (routine).  Fails if an
\* init container is killed in the middle of a call to sbatch.
NeverCancelsBoundJob ==
    \A j \in w.cancel :
        LET p == owner[j] IN Live(p) => ~(BoundTo(ObjName[p], p) /\ cms[ObjName[p]].jobid = j)

\* The config-map of a running pod that got a job's variables names that very job
\* even when the Update of sbatch, whose error is dropped, did not get through: the
\* job the watcher holds against squeue is the one the containers use.
BindingMatchesEnv ==
    \A p \in Pods :
        LET cm == cms[ObjName[p]]
        IN  phase[p] = "Running" /\ env[p] # NoJob /\ cm # NoCM /\ cm.uuid = p
                => cm.jobid = env[p]

\* A binding never moves from one job to another while the config-map stays that
\* of one UUID: it is only ever reset to "to-be-set" by the next sbatch.  The two
\* writers (Sbatch, JobEnvToConfigMap) update what they fetched earlier.
BindingStable ==
    [][\A n \in Names :
          Bound(n) /\ Bound(n)' /\ cms[n].uuid = cms'[n].uuid
              => cms[n].jobid = cms'[n].jobid]_vars

-----------------------------------------------------------------------------
(* The inductive invariant behind BoundToOwnJob, EnvIsOwn and              *)
(* NeverEvictsWaiting, proved in InjectorProofs.  It holds for every       *)
(* ObjName: without UniqueNames requests are still separated by name.      *)

\* j was submitted by a request for the config-map name n.
SubmittedFor(j, n) == j \in JobIds /\ owner[j] \in Pods /\ ObjName[owner[j]] = n

\* A request for the name n was told that its job is submitted.
ToldFor(n) == \E p \in told : ObjName[p] = n

\* A config-map holds the UUID, the job and the variables of requests for its name, and
\* is bound, if only to an empty id, after such a request was told so.
BelongsTo(cm, n) ==
    /\ ObjName[cm.uuid] = n
    /\ cm.jobid \in JobIds => SubmittedFor(cm.jobid, n)
    /\ cm.jobid # ToBeSet => ToldFor(n)
    /\ cm.env # NoJob => SubmittedFor(cm.env, n)

ConfigMapsByName == \A n \in Names : cms[n] # NoCM => BelongsTo(cms[n], n)

\* The steps of a goroutine after sbatch, or srun on the job it gave, was successful.
ToldSteps == {"reget", "bind", "fetch", "store"}

\* A goroutine works for a pod, on a job of that pod and of no other.
RequestsOwnJob ==
    \A r \in Reqs :
        /\ req[r].step # "idle" => req[r].pod \in Pods
        /\ req[r].step \in ToldSteps => req[r].pod \in told
        /\ req[r].job # NoJob => owner[req[r].job] = req[r].pod /\ req[r].pod \in told

\* The file jobid of a pod holds a job of that pod.
FilesOwnJob == \A p \in Pods : file[p] \in JobIds => owner[file[p]] = p /\ p \in told

EnvsByName == \A p \in Pods : env[p] # NoJob => SubmittedFor(env[p], ObjName[p])

\* The controller never gives out a number twice.
FreshNumbers == \A j \in JobIds : jobState[j] = "unused" => owner[j] = NoPod

\* Whoever is up for eviction shares its name with a request that was told of a job.
EvictionsByName == \A p \in w.evict \cup ({w.target} \ {NoPod}) : ToldFor(ObjName[p])

IInv ==
    /\ TypeOK
    /\ ConfigMapsByName
    /\ RequestsOwnJob
    /\ FilesOwnJob
    /\ EnvsByName
    /\ FreshNumbers
    /\ EvictionsByName

-----------------------------------------------------------------------------
(* Liveness, under FairSpec.                                               *)

\* The config-map of p is to-be-set and no handler is left that would bind or delete it.
Shielded(p) ==
    /\ \E n \in Names : cms[n] # NoCM /\ cms[n].uuid = p /\ cms[n].jobid = ToBeSet
    /\ \A r \in Reqs : req[r].pod = p => req[r].step \notin SbatchSteps

\* A queued or running job whose pod is gone or finished is brought to an end,
\* whichever reply, pod or config-map was lost on the way (routine's first loop), or is
\* shielded for ever.  Sbatch has four ways to leave a shield: a failed Get, a failed or
\* refused Update whose error is dropped, a failed Delete, the end of its process.
OrphansReaped ==
    \A j \in JobIds : (Active(j) /\ ~Live(owner[j])) ~> (~Active(j) \/ Shielded(owner[j]))

\* A pod bound to jobs that have all ended does not go on for ever: neither its
\* containers, nor the loop of slurm-injector, which ignores COMPLETED and FAILED
\* (routine's second loop).  A container or a retry may get it another job first.
Working(p) ==
    \/ phase[p] = "Running"
    \/ phase[p] = "Pending" /\ ic[p] = "poll" /\ file[p] \in JobIds /\ jobState[file[p]] = "ENDED"
JoblessEvicted ==
    \A p \in Pods :
        (Working(p) /\ BoundTo(ObjName[p], p) /\ ~HasJob(p))
            ~> (~Live(p) \/ HasJob(p) \/ ~BoundTo(ObjName[p], p))

\* A pod that carries the annotation jobid and has lost its config-map is deleted
\* (first loop of fetchJobStateOnKubernetes).
AnnotatedStraysDeleted ==
    \A p \in Annotated : (Live(p) /\ ~HasConfigMap(p)) ~> (~Live(p) \/ HasConfigMap(p))

-----------------------------------------------------------------------------
(* What the repository says and the code does not do.                      *)

\* watcher.go: "In case the job only exists on slurm, delete the corresponding
\* job on slurm": no job is up for cancellation whose pod waits for it or uses it.
CancelsOnlyAbandonedJobs ==
    \A j \in w.cancel : LET p == owner[j] IN Live(p) /\ ~deleting[p] => file[p] # j

\* The same comment: a job of a pod that is gone does not outlive it.
EveryOrphanReaped == \A j \in JobIds : (Active(j) /\ ~Live(owner[j])) ~> ~Active(j)

\* README.md: "This webhook injects a slurm-job at the time containers start in the
\* pod": on a Slurm node the pod has an allocation when its containers start.
StartsWithJob ==
    [][\A p \in SlurmPods :
          phase[p] = "Pending" /\ phase'[p] = "Running" => HasJob(p)]_vars
=============================================================================
