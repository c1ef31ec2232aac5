--------------------------- MODULE BindingStability ---------------------------
(***************************************************************************)
(* Why a binding is stable, which is not visible in a config-map alone:    *)
(* a pod has at most one call at an endpoint, its script knows where that  *)
(* call is, and whatever binds the config-map of the pod has the id the    *)
(* script has or is about to get.  This needs a name for every request and *)
(* no init container that is killed in the middle of a call.               *)
(***************************************************************************)
EXTENDS InjectorBinding

\* The hypothesis of the theorems in StabilityProofs.
Undisturbed == UniqueNames /\ "kill" \notin Faults

-----------------------------------------------------------------------------
(* Calls.                                                                  *)

\* Goroutine r serves pod p.
Serves(r, p) == req[r].step # "idle" /\ req[r].pod = p

\* An idle goroutine serves nobody, and no two serve the same pod.
OneCall ==
    /\ \A r \in Reqs : req[r].step = "idle" => req[r] = Idle
    /\ \A r, s \in Reqs : \A p \in Pods : Serves(r, p) /\ Serves(s, p) => r = s

\* The script that made the call is still at it (or was, when the pod was removed), and
\* a call of envtoconfigmap is about the id in its file.
CallerWaits(p) ==
    \A r \in Reqs : Serves(r, p) =>
        /\ req[r].step \in SbatchSteps => ic[p] = "sbatching"
        /\ req[r].step \in EnvSteps => ic[p] = "storing" /\ req[r].job = file[p]
        /\ req[r].step \in {"answered", "refused"} => ic[p] \in {"sbatching", "storing"}

\* Before sbatch has printed an id the handler has none, nor after sbatch failed.
NoIdYet(p) ==
    \A r \in Reqs :
        Serves(r, p) /\ req[r].step \in {"get", "create", "update", "submit", "delete", "refused"}
            => req[r].job = NoJob

-----------------------------------------------------------------------------
(* The pod and its config-map.                                             *)

\* A pod comes from one CREATE, its scripts run in the pod only, and its containers
\* start when both are through.
FromCreate(p) ==
    /\ phase[p] # "absent" => wh[p] = "created"
    /\ phase[p] = "absent" => ic[p] = "none"
    /\ phase[p] = "Running" => ic[p] = "done"

CM(p) == cms[ObjName[p]]

\* p's config-map is bound to one of the ids in js, if at all.
BoundWithin(p, js) == CM(p) = NoCM \/ CM(p).jobid \in js \cup {ToBeSet}

\* Once sbatch has written the config-map nobody else binds it.
FreshInCall(p) ==
    \A r \in Reqs :
        Serves(r, p) /\ req[r].step \in {"submit", "reget", "bind", "delete"}
            => BoundWithin(p, {})

\* When sbatch has answered, the binding is the id it answered.
AnswerBound(p) ==
    \A r \in Reqs :
        Serves(r, p) /\ req[r].step = "answered" /\ ic[p] = "sbatching"
            => BoundWithin(p, {req[r].job})

\* While the script uses the id in its file, the binding is that id.
FileBound(p) == file[p] \in JobIds /\ ic[p] # "sbatching" => BoundWithin(p, {file[p]})

\* The variables in a config-map are those of the job it is bound to.
EnvWithJob(p) == CM(p) # NoCM /\ CM(p).env # NoJob => CM(p).jobid = CM(p).env

\* BindingMatchesEnv, for one pod.
MatchesEnv(p) ==
    phase[p] = "Running" /\ env[p] # NoJob /\ CM(p) # NoCM => CM(p).jobid = env[p]

PodInv(p) ==
    /\ CallerWaits(p)
    /\ NoIdYet(p)
    /\ FromCreate(p)
    /\ FreshInCall(p)
    /\ AnswerBound(p)
    /\ FileBound(p)
    /\ EnvWithJob(p)
    /\ MatchesEnv(p)

-----------------------------------------------------------------------------
(* The watcher.                                                            *)

\* A job in the queue belongs to a request whose pod was created.
JobsOfPods ==
    \A j \in JobIds : jobState[j] # "unused" => owner[j] \in Pods /\ phase[owner[j]] # "absent"

Gone(p) == phase[p] \in {"Succeeded", "Failed", "deleted"}

\* What routine knows of the jobs squeue listed: they exist, and the pods that were not
\* listed afterwards are gone.
SnapshotsOrdered ==
    /\ \A j \in w.jobs \cup w.cancel : jobState[j] # "unused"
    /\ w.step = "cms" => \A j \in w.jobs : owner[j] \in w.pods \/ Gone(owner[j])

\* Nothing will bind p's config-map to j: it is missing, and only a call that submits
\* another job creates it; or it is there, and neither script nor handler has j.
Loose(p, j) ==
    \/ CM(p) = NoCM
    \/ /\ CM(p).jobid # j
       /\ file[p] = j => ic[p] = "sbatching"
       /\ \A r \in Reqs : Serves(r, p) => req[r].job # j

\* A job up for cancellation is one that its pod has lost, unless the pod is gone.
CancelsLoose(p) == \A j \in w.cancel : owner[j] = p => Gone(p) \/ Loose(p, j)

SInv ==
    /\ OneCall
    /\ \A p \in Pods : PodInv(p) /\ CancelsLoose(p)
    /\ JobsOfPods
    /\ SnapshotsOrdered
=============================================================================
