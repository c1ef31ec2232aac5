----------------------------- MODULE SSHProperties -----------------------------
(***************************************************************************)
(* The two racing goroutines of SSHSession keep the promises of Command.   *)
(***************************************************************************)
EXTENDS SSHSession

Status(r) ==
    IF r.main = "idle" THEN "idle"
    ELSE IF r.main = "returned" THEN IF r.ret = "nil" THEN "ok" ELSE "error"
    ELSE IF alive THEN "running" ELSE "error"

\* The refinement mapping: the sessions' bookkeeping is hidden, and a process that
\* panicked has no connection and no call in progress.
connBar == IF alive THEN conn ELSE "closed"
cmdBar ==
    [c \in Callers |->
        [status |-> Status(run[c]),
         remote |-> IF Status(run[c]) # "running" /\ run[c].remote # "begun" THEN "none"
                    ELSE run[c].remote]]

C == INSTANCE Command WITH conn <- connBar, cmd <- cmdBar

\* However CombinedOutput, StdinPipe, the write and the two assignments to err
\* interleave (ssh_handler.go RunCommandCombined, RunCommand): a call that fails on an
\* unbroken connection did nothing, and one without a script that succeeds did all.
ImplementsCommand == C!CommandSpec

\* Every call comes back and every command ends: sbatch gets the end of its input,
\* whichever goroutine sends it, unless Slurm hangs or the panic of a late StdinPipe
\* takes the process.
CommandsComeBack == C!CommandFairness
=============================================================================
