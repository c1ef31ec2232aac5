--------------------------- MODULE AdmissionWebhook ---------------------------
(***************************************************************************)
(* The mutating webhook (internal/http/webhook and Inject of               *)
(* internal/mutation/sidecar) and the pod CREATE it is part of.  Requests  *)
(* modelled here are the ones Inject mutates; what it leaves alone never   *)
(* touches a config-map.  mutateObject is the choice of a fresh UUID, which*)
(* is the request p itself; the calls on the config-map are                *)
(* createConfigMap's, made before the API server persists the pod.         *)
(***************************************************************************)
EXTENDS Cluster

VARIABLES
    up,     \* the injector's process runs
    wh      \* wh[p] : progress of the CREATE of p

WebhookStates == {"none", "get", "create", "update", "allowed", "denied", "created"}

WebhookTypeOK ==
    /\ up \in BOOLEAN
    /\ wh \in [Pods -> WebhookStates]

WebhookInit == up = TRUE /\ wh = [p \in Pods |-> "none"]

\* The CREATE reaches Inject; a webhook that cannot be called denies it
\* (failurePolicy of admissionregistration.k8s.io/v1 is Fail by default).
Inject(p) ==
    /\ wh[p] = "none"
    /\ wh' = [wh EXCEPT ![p] = IF up THEN "get" ELSE "denied"]
    /\ UNCHANGED <<clusterVars, up>>

InjectGetsConfigMap(p) ==
    /\ wh[p] = "get"
    /\ \/ wh' = [wh EXCEPT ![p] = IF cms[ObjName[p]] = NoCM THEN "create" ELSE "update"]
       \/ "api" \in Faults /\ wh' = [wh EXCEPT ![p] = "denied"]
    /\ UNCHANGED <<clusterVars, up>>

\* Create fails when the name exists by now, Update when it does not.
InjectWritesConfigMap(p) ==
    /\ wh[p] \in {"create", "update"}
    /\ LET n == ObjName[p]
           succeeds == (wh[p] = "create") <=> (cms[n] = NoCM)
       IN  \/ /\ succeeds
              /\ PutCM(n, FreshCM(p))
              /\ wh' = [wh EXCEPT ![p] = "allowed"]
           \/ /\ ~succeeds \/ "api" \in Faults
              /\ wh' = [wh EXCEPT ![p] = "denied"]
              /\ UNCHANGED cms
    /\ UNCHANGED <<podVars, jobVars, up>>

\* The API server persists the admitted pod unless the name is taken or a later
\* step of the request (quota, validation, another webhook, dryRun) refuses it.
PodCreated(p) ==
    /\ wh[p] = "allowed"
    /\ \/ /\ \A q \in Pods \ {p} : ~(SameName(p, q) /\ Exists(q))
          /\ phase' = [phase EXCEPT ![p] = "Pending"]
          /\ wh' = [wh EXCEPT ![p] = "created"]
       \/ /\ \/ "reject" \in Faults
             \/ \E q \in Pods \ {p} : SameName(p, q) /\ Exists(q)
          /\ wh' = [wh EXCEPT ![p] = "denied"]
          /\ UNCHANGED phase
    /\ UNCHANGED <<deleting, env, cms, jobVars, up>>

WebhookNext ==
    \E p \in Pods : \/ Inject(p)
                    \/ InjectGetsConfigMap(p)
                    \/ InjectWritesConfigMap(p)
                    \/ PodCreated(p)

\* What the death of the process does to the calls in progress.
WebhookCrash ==
    wh' = [p \in Pods |-> IF wh[p] \in {"get", "create", "update"} THEN "denied" ELSE wh[p]]
=============================================================================
