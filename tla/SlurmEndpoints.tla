---------------------------- MODULE SlurmEndpoints ----------------------------
(***************************************************************************)
(* The endpoints the init containers call (internal/http/slurm).  sbatch   *)
(* and envtoconfigmap make several calls, so each runs as a goroutine of   *)
(* its own that other goroutines, the watcher and the world interleave     *)
(* with.  isinjectable, state and scancel make at most one call and are    *)
(* part of the client's step in InitContainers.  net/http keeps a handler  *)
(* running when its client is gone.                                        *)
(***************************************************************************)
EXTENDS AdmissionWebhook

VARIABLE req    \* req[r] : the request goroutine r serves

SbatchSteps == {"get", "create", "update", "submit", "reget", "bind", "delete"}
EnvSteps == {"srun", "fetch", "store"}
ReqSteps == {"idle", "answered", "refused"} \cup SbatchSteps \cup EnvSteps

\* client: the connection is open.  An answered request has the body job, a
\* refused one a status that makes curl -f fail.
Requests == [step: ReqSteps, pod: Pods \cup {NoPod}, job: JobIds \cup {NoJob},
             client: BOOLEAN]

EndpointsTypeOK == req \in [Reqs -> Requests]

Idle == [step |-> "idle", pod |-> NoPod, job |-> NoJob, client |-> FALSE]

EndpointsInit == req = [r \in Reqs |-> Idle]

\* A client's request arrives; an answer nobody reads ends the goroutine.
Serve(r, step, p, j) ==
    /\ up /\ req[r].step = "idle"
    /\ req' = [req EXCEPT ![r] = [step |-> step, pod |-> p, job |-> j, client |-> TRUE]]

Goto(r, step) == req' = [req EXCEPT ![r].step = step]

Reply(r, outcome, j) ==
    req' = [req EXCEPT ![r] = IF @.client THEN [@ EXCEPT !.step = outcome, !.job = j]
                                          ELSE Idle]

\* The client of pod p dies: its handler goes on, an answer is dropped.
Disconnected(p) ==
    [r \in Reqs |->
        IF req[r].pod # p THEN req[r]
        ELSE IF req[r].step \in {"answered", "refused"} THEN Idle
        ELSE [req[r] EXCEPT !.client = FALSE]]

\* Mutant: a name built without the object's.
OneNameForAll(r) == CHOOSE n \in Names : TRUE

\* ConfigMapNameFromObjectName of the query's objectname.
NameOf(r) == ObjName[req[r].pod]

-----------------------------------------------------------------------------
(* /slurm/sbatch                                                           *)

\* prepareParams refuses a node or a partition Slurm does not know.
PrepareParamsFails == "params" \in Faults

SbatchGetsConfigMap(r) ==
    /\ req[r].step = "get"
    /\ \/ Goto(r, IF cms[NameOf(r)] = NoCM THEN "create" ELSE "update")
       \/ (PrepareParamsFails \/ "api" \in Faults) /\ Reply(r, "refused", NoJob)
    /\ UNCHANGED <<clusterVars, up, wh>>

\* Mutant: leaves an existing config-map as it is.
CreatesConfigMapOnly(r) ==
    /\ req[r].step \in {"create", "update"}
    /\ IF cms[NameOf(r)] = NoCM THEN PutCM(NameOf(r), FreshCM(req[r].pod)) ELSE UNCHANGED cms
    /\ Goto(r, "submit")
    /\ UNCHANGED <<podVars, jobVars, up, wh>>

SbatchWritesConfigMap(r) ==
    /\ req[r].step \in {"create", "update"}
    /\ LET succeeds == (req[r].step = "create") <=> (cms[NameOf(r)] = NoCM)
       IN  \/ /\ succeeds
              /\ PutCM(NameOf(r), FreshCM(req[r].pod))
              /\ Goto(r, "submit")
           \/ /\ ~succeeds \/ "api" \in Faults
              /\ Reply(r, "refused", NoJob)
              /\ UNCHANGED cms
    /\ UNCHANGED <<podVars, jobVars, up, wh>>

\* The output of a failed sbatch is no job id.  SBatch returns an error, unless the
\* goroutine that writes the script overwrote it with nil.
SbatchFailed(r) == Goto(r, "delete") \/ ("masked" \in Faults /\ Goto(r, "reget"))

\* slurmHandler.SBatch: queued and acknowledged; not queued; or queued with the
\* acknowledgement lost.  A controller with no job id left refuses.
SbatchSubmits(r) ==
    /\ req[r].step = "submit"
    /\ \/ \E j \in JobIds :
             /\ QueueJob(req[r].pod, j)
             /\ \/ req' = [req EXCEPT ![r].step = "reget", ![r].job = j]
                \/ "lost" \in Faults /\ SbatchFailed(r)
       \/ /\ Faults \cap {"ssh", "masked"} # {} \/ \A j \in JobIds : jobState[j] # "unused"
          /\ SbatchFailed(r)
          /\ UNCHANGED jobVars
    /\ UNCHANGED <<podVars, cms, up, wh>>

\* The job id is already in the body, so a failing Get still answers it: the
\* status 500 comes after the first byte.
SbatchRefetches(r) ==
    /\ req[r].step = "reget"
    /\ \/ /\ cms[NameOf(r)] # NoCM
          /\ FetchCM(NameOf(r), r)
          /\ Goto(r, "bind")
       \/ /\ cms[NameOf(r)] = NoCM \/ "api" \in Faults
          /\ Reply(r, "answered", req[r].job)
          /\ UNCHANGED cms
    /\ UNCHANGED <<podVars, jobVars, up, wh>>

\* Mutant: reads the job id back from the head of the queue.
BindsHeadOfQueue(r) ==
    /\ req[r].step = "bind" /\ Current(NameOf(r), r)
    /\ \E j \in ListUUIDsAndJobIDs :
         /\ \A i \in ListUUIDsAndJobIDs : j <= i
         /\ PutCM(NameOf(r), [cms[NameOf(r)] EXCEPT !.jobid = j, !.readers = {}])
    /\ Reply(r, "answered", req[r].job)
    /\ UNCHANGED <<podVars, jobVars, up, wh>>

\* The output is bound as it is: an empty one is a label value, an error text is none
\* and the Update is refused.  The error of this Update is dropped.
SbatchBinds(r) ==
    /\ req[r].step = "bind"
    /\ LET n == NameOf(r)
       IN  \/ /\ Current(n, r)
              /\ PutCM(n, [cms[n] EXCEPT !.jobid = req[r].job, !.readers = {}])
           \/ /\ ~Current(n, r) \/ "api" \in Faults \/ req[r].job = NoJob
              /\ UNCHANGED cms
    /\ Reply(r, "answered", req[r].job)
    /\ UNCHANGED <<podVars, jobVars, up, wh>>

\* SBatch failed: the body is its error text, which is no job id.
SbatchDeletesConfigMap(r) ==
    /\ req[r].step = "delete"
    /\ \/ DeleteCM(NameOf(r))
       \/ "api" \in Faults /\ UNCHANGED cms
    /\ Reply(r, "answered", NoJob)
    /\ UNCHANGED <<podVars, jobVars, up, wh>>

-----------------------------------------------------------------------------
(* /slurm/envtoconfigmap                                                   *)

\* srun --jobid=<job> env needs the job's allocation.
EnvRuns(r) ==
    /\ req[r].step = "srun"
    /\ LET allocated == req[r].job \in JobIds /\ jobState[req[r].job] = "RUNNING"
       IN  \/ allocated /\ Goto(r, "fetch")
           \/ (~allocated \/ "ssh" \in Faults) /\ Reply(r, "refused", NoJob)
    /\ UNCHANGED <<clusterVars, up, wh>>

EnvFetches(r) ==
    /\ req[r].step = "fetch"
    /\ \/ /\ cms[NameOf(r)] # NoCM
          /\ FetchCM(NameOf(r), r)
          /\ Goto(r, "store")
       \/ /\ cms[NameOf(r)] = NoCM \/ "api" \in Faults
          /\ Reply(r, "refused", NoJob)
          /\ UNCHANGED cms
    /\ UNCHANGED <<podVars, jobVars, up, wh>>

\* Mutant: stores the data and not the annotation jobid.
StoresOnlyData(r) ==
    /\ req[r].step = "store" /\ Current(NameOf(r), r)
    /\ PutCM(NameOf(r), [cms[NameOf(r)] EXCEPT !.env = req[r].job, !.readers = {}])
    /\ Reply(r, "answered", req[r].job)
    /\ UNCHANGED <<podVars, jobVars, up, wh>>

EnvStores(r) ==
    /\ req[r].step = "store"
    /\ LET n == NameOf(r)
           j == req[r].job
       IN  \/ /\ Current(n, r)
              /\ PutCM(n, [cms[n] EXCEPT !.jobid = j, !.env = j, !.readers = {}])
              /\ Reply(r, "answered", j)
           \/ /\ ~Current(n, r) \/ "api" \in Faults
              /\ Reply(r, "refused", NoJob)
              /\ UNCHANGED cms
    /\ UNCHANGED <<podVars, jobVars, up, wh>>

EndpointsNext ==
    \E r \in Reqs : \/ SbatchGetsConfigMap(r)
                    \/ SbatchWritesConfigMap(r)
                    \/ SbatchSubmits(r)
                    \/ SbatchRefetches(r)
                    \/ SbatchBinds(r)
                    \/ SbatchDeletesConfigMap(r)
                    \/ EnvRuns(r)
                    \/ EnvFetches(r)
                    \/ EnvStores(r)
=============================================================================
