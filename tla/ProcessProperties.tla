--------------------------- MODULE ProcessProperties ---------------------------
(***************************************************************************)
(* What the orderly and the disorderly end of a process must not do.       *)
(***************************************************************************)
EXTENDS Process

\* A pod that is bound, with its job in the queue, before squeue is read is not evicted
\* as long as the job is there, although routine may start after the slurm actor's
\* interrupt has closed the connection squeue needs: Watch is the last to be told
\* (main.go, the order of g.Add; routine's early returns).
ActiveJobKeepsPod == job => pod

\* sshHandler.Destruct does not cut off a handler in the middle of sbatch, unless the
\* five seconds of Shutdown are over (main.go, interrupt of the slurm server).
DrainedFirst == conn = "closed" /\ Running(handler) => timedOut

\* When one actor has returned, the process comes to its end and can be started again,
\* even while a command hangs: Destruct is what releases routine, which nothing else
\* interrupts (run.Group waits for Watch to return).
GroupStops == stage > 0 ~> ~Alive

\* A status that stays and that routine keeps reading ends up on the node, whatever
\* happens to the patches of the other nodes (updateNodeLabels only logs errors).
LabelsFollow ==
    \A s \in {s \in NodeStatus : Takes(s.node, s)} :
        <>[](status[s.node] = s) /\ []<>(\E i \in DOMAIN todo : todo[i] = s) => <>[](labels[s.node] = s)
=============================================================================
