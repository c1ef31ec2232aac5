------------------------------- MODULE Process -------------------------------
(***************************************************************************)
(* The life of one injector process and of the one that follows it: the    *)
(* run.Group of cmd/k8s-slurm-injector/main.go, whose five actors are      *)
(* interrupted one after the other when the first of them returns; a       *)
(* handler of the slurm server in the middle of sbatch; and the loop of    *)
(* Watch, which is the last to be told.  All of them share the ssh         *)
(* connection, used here by what Command promises of it.                   *)
(***************************************************************************)
EXTENDS Command, NodeLabels, Sequences

CONSTANTS
    handler, watcher,   \* the two callers of ssh commands
    MaxEnds             \* bound: ends of a process in a behaviour

ASSUME ProcessAssumption ==
    /\ Callers = {handler, watcher} /\ Scripted = {handler} /\ handler # watcher
    /\ MaxEnds \in Nat

VARIABLES
    stage,      \* interrupts called by run.Group so far
    timedOut,   \* the slurm server's Shutdown gave up on its handler
    ends,       \* ends of a process so far
    wpc,        \* where Watch and routine are
    listed,     \* the job is on the list squeue gave routine
    todo,       \* the statuses routine has still to patch
    job,        \* the job of a bound pod is in the queue
    pod         \* that pod is on Kubernetes

groupVars == <<stage, timedOut, ends>>
routineVars == <<wpc, listed, todo>>
bindVars == <<job, pod>>
vars == <<commandVars, labelVars, groupVars, routineVars, bindVars>>

\* Mutants: the connection is closed before the slurm server is drained, or never.
DestructFirst == <<"signal", "metrics", "webhook", "destruct", "slurm", "watcher">>
NoDestruct == <<"signal", "metrics", "webhook", "slurm", "slurm", "watcher">>

\* In the order of g.Add; the slurm actor's interrupt ends with sshHandler.Destruct.
Interrupts == <<"signal", "metrics", "webhook", "slurm", "destruct", "watcher">>

Waiting == Len(Interrupts) + 1
Down == Waiting + 1

TypeOK ==
    /\ CommandTypeOK
    /\ LabelsTypeOK
    /\ stage \in 0 .. Down
    /\ timedOut \in BOOLEAN
    /\ ends \in 0 .. MaxEnds
    /\ wpc \in {"select", "queue", "kube", "cancel", "cancelled", "status", "patch", "returned"}
    /\ listed \in BOOLEAN
    /\ todo \in Seq(NodeStatus)
    /\ job \in BOOLEAN
    /\ pod \in BOOLEAN

Init ==
    /\ CommandInit
    /\ LabelsInit
    /\ stage = 0 /\ timedOut = FALSE /\ ends = 0
    /\ wpc = "select" /\ listed = FALSE /\ todo = <<>>
    /\ job = TRUE /\ pod = TRUE

Alive == stage # Down

Called(i) == \E k \in 1 .. Len(Interrupts) : k <= stage /\ Interrupts[k] = i

Current(i) == stage \in 1 .. Len(Interrupts) /\ Interrupts[stage] = i

-----------------------------------------------------------------------------
(* The actors and the group.                                               *)

\* An actor returns by itself, on a signal or because its server cannot listen, and
\* run.Group calls the first interrupt.
ActorEnds ==
    /\ stage = 0 /\ ends < MaxEnds
    /\ stage' = 1
    /\ UNCHANGED <<commandVars, labelVars, timedOut, ends, routineVars, bindVars>>

\* The next interrupt is called when the one before returns.  Shutdown closes the
\* listener, which ends the actor, and waits for the handlers, at most five seconds.
InterruptReturns ==
    /\ stage \in 1 .. Len(Interrupts) /\ ~Current("destruct")
    /\ stage' = stage + 1
    /\ timedOut' = (timedOut \/ (Current("slurm") /\ Running(handler)))
    /\ UNCHANGED <<commandVars, labelVars, ends, routineVars, bindVars>>

DestructReturns ==
    /\ Current("destruct")
    /\ stage' = stage + 1
    /\ Destruct
    /\ UNCHANGED <<labelVars, timedOut, ends, routineVars, bindVars>>

\* ctx is done: Watch returns, but not before routine.
WatchStops ==
    /\ Alive /\ wpc = "select" /\ Called("watcher")
    /\ wpc' = "returned"
    /\ UNCHANGED <<commandVars, labelVars, groupVars, listed, todo, bindVars>>

\* os.Exit, or the panic of a goroutine nobody recovers: the writer of a script, or
\* routine when the certificate was renewed.
Ending ==
    /\ stage' = Down /\ ends' = ends + 1 /\ timedOut' = FALSE
    /\ wpc' = "select" /\ listed' = FALSE /\ todo' = <<>>
    /\ Dies
    /\ UNCHANGED <<labelVars, bindVars>>

Exits == stage = Waiting /\ wpc = "returned" /\ Ending

Panics ==
    /\ Alive /\ ends < MaxEnds
    /\ Running(handler) \/ (wpc = "select" /\ ~Called("watcher"))
    /\ Ending

\* runApp: New dials, and NewSlurmHandler waits for the first sinfo.
Starts ==
    /\ ~Alive /\ ~hung
    /\ Dials
    /\ stage' = 0
    /\ UNCHANGED <<labelVars, timedOut, ends, routineVars, bindVars>>

-----------------------------------------------------------------------------
(* The slurm server and the commands.                                      *)

\* A request arrives while the server listens.
HandlerCalls ==
    /\ Alive /\ ~Called("slurm")
    /\ Call(handler)
    /\ UNCHANGED <<labelVars, groupVars, routineVars, bindVars>>

Begun(c) == Alive /\ Begins(c) /\ UNCHANGED <<labelVars, groupVars, routineVars, bindVars>>

Ended(c) == Ends(c) /\ UNCHANGED <<labelVars, groupVars, routineVars, bindVars>>

HandlerReturns ==
    Alive /\ Returns(handler) /\ UNCHANGED <<labelVars, groupVars, routineVars, bindVars>>

-----------------------------------------------------------------------------
(* Watch and routine.                                                      *)

\* Ten seconds pass before ctx is done: routine asks squeue.
WatchTicks ==
    /\ Alive /\ wpc = "select" /\ ~Called("watcher")
    /\ Call(watcher)
    /\ wpc' = "queue"
    /\ UNCHANGED <<labelVars, groupVars, listed, todo, bindVars>>

\* Mutant: goes on with an empty list when squeue failed.
IgnoresError ==
    /\ Alive /\ wpc = "queue" /\ Returns(watcher)
    /\ wpc' = "kube" /\ listed' = (cmd'[watcher].status = "ok" /\ job)
    /\ UNCHANGED <<labelVars, groupVars, todo, bindVars>>

\* fetchJobStateOnSlurm: routine returns when it fails.
QueueFetched ==
    /\ Alive /\ wpc = "queue" /\ Returns(watcher)
    /\ IF cmd'[watcher].status = "ok" THEN wpc' = "kube" /\ listed' = job
                                      ELSE wpc' = "select" /\ UNCHANGED listed
    /\ UNCHANGED <<labelVars, groupVars, todo, bindVars>>

\* A job that is only on Slurm is cancelled: at most one (a bound), not that of the
\* bound pod.  An error is logged.
CancelsOther ==
    /\ Alive /\ wpc = "kube"
    /\ Call(watcher)
    /\ wpc' = "cancel"
    /\ UNCHANGED <<labelVars, groupVars, listed, todo, bindVars>>

CancelReturns ==
    /\ Alive /\ wpc = "cancel" /\ Returns(watcher)
    /\ wpc' = "cancelled"
    /\ UNCHANGED <<labelVars, groupVars, listed, todo, bindVars>>

\* The comparison of Watcher, for one bound pod.  updateNodeLabels lists the nodes
\* and, unless that fails, asks for their status.
EvictsJobless ==
    /\ Alive /\ wpc \in {"kube", "cancelled"}
    /\ pod' = (pod /\ listed) /\ listed' = FALSE
    /\ \/ wpc' = "status" /\ Call(watcher)
       \/ wpc' = "select" /\ UNCHANGED commandVars
    /\ UNCHANGED <<labelVars, groupVars, todo, job>>

\* GetNodeStatus: an error is an empty list.
StatusFetched ==
    /\ Alive /\ wpc = "status" /\ Returns(watcher)
    /\ wpc' = "patch"
    /\ todo' = IF cmd'[watcher].status = "ok" THEN GetNodeStatus ELSE <<>>
    /\ UNCHANGED <<labelVars, groupVars, listed, bindVars>>

\* Mutant: the first node that cannot be patched ends the loop.
StopsAtError ==
    /\ Alive /\ wpc = "patch" /\ todo # <<>>
    /\ Patched(Head(todo))
    /\ todo' = IF \E n \in NodeNamed(Head(todo)) : ~Takes(n, Head(todo)) THEN <<>>
               ELSE Tail(todo)
    /\ UNCHANGED <<commandVars, status, groupVars, wpc, listed, bindVars>>

\* A patch of one node.  An error, of the API server or because of the labels, is logged.
Patches ==
    /\ Alive /\ wpc = "patch" /\ todo # <<>>
    /\ Patched(Head(todo))
    /\ todo' = Tail(todo)
    /\ UNCHANGED <<commandVars, status, groupVars, wpc, listed, bindVars>>

PatchFails ==
    /\ Alive /\ wpc = "patch" /\ todo # <<>>
    /\ todo' = Tail(todo)
    /\ UNCHANGED <<commandVars, labelVars, groupVars, wpc, listed, bindVars>>

RoutineReturns ==
    /\ Alive /\ wpc = "patch" /\ todo = <<>>
    /\ wpc' = "select"
    /\ UNCHANGED <<commandVars, labelVars, groupVars, listed, todo, bindVars>>

-----------------------------------------------------------------------------
(* Slurm and the network.                                                  *)

JobEnds ==
    /\ job
    /\ job' = FALSE
    /\ UNCHANGED <<commandVars, labelVars, groupVars, routineVars, pod>>

NodeChanges ==
    /\ \E n \in SlurmNodes : StatusChanges(n)
    /\ UNCHANGED <<commandVars, groupVars, routineVars, bindVars>>

Faults ==
    /\ Breaks \/ Hangs
    /\ UNCHANGED <<labelVars, groupVars, routineVars, bindVars>>

GroupStep == InterruptReturns \/ DestructReturns \/ WatchStops \/ Exits \/ Starts

CommandStep == HandlerReturns \/ \E c \in Callers : Begun(c) \/ Ended(c)

RoutineStep ==
    \/ WatchTicks \/ QueueFetched \/ CancelsOther \/ CancelReturns \/ EvictsJobless
    \/ StatusFetched \/ RoutineReturns
    \/ Patches \/ PatchFails

Next ==
    \/ GroupStep \/ ActorEnds
    \/ Panics
    \/ HandlerCalls \/ CommandStep
    \/ RoutineStep
    \/ JobEnds \/ NodeChanges \/ Faults

Spec == Init /\ [][Next]_vars

\* run.Group, its actors and routine go on as long as they can, commands come back as
\* Command promises, and of the patches tried again and again some get through.
Fairness ==
    /\ WF_vars(GroupStep)
    /\ \A c \in Callers : WF_vars(Ended(c)) /\ WF_vars(Begun(c))
    /\ WF_vars(Due(handler) /\ HandlerReturns)
    /\ WF_vars(RoutineStep /\ (Running(watcher) => Due(watcher)))
    /\ \A n \in SlurmNodes : SF_vars(Patches /\ Head(todo).node = n)

FairSpec == Spec /\ Fairness
=============================================================================
