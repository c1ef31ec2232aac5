------------------------------- MODULE Command -------------------------------
(***************************************************************************)
(* What the program may expect of a command it runs over its one ssh       *)
(* connection (the interface SSHHandler of internal/ssh_handler):          *)
(* RunCommand and RunCommandCombined of SSHSession implement it, Process   *)
(* is built on it.                                                         *)
(***************************************************************************)
EXTENDS Naturals

CONSTANTS
    Callers,    \* goroutines that run commands, one at a time each
    Scripted    \* those that write a batch script to the command's stdin

ASSUME CommandAssumption == Scripted \subseteq Callers

VARIABLES
    conn,   \* the connection: open, broken by the network, closed by Destruct
    hung,   \* Slurm answers no command any more
    cmd     \* cmd[c] : the command c runs or ran last

commandVars == <<conn, hung, cmd>>

ConnStates == {"open", "broken", "closed"}
Statuses == {"idle", "running", "ok", "error"}
Remotes == {"none", "begun", "done", "refused"}
Commands == [status: Statuses, remote: Remotes]

CommandTypeOK ==
    /\ conn \in ConnStates
    /\ hung \in BOOLEAN
    /\ cmd \in [Callers -> Commands]

NoCommand == [status |-> "idle", remote |-> "none"]

CommandInit ==
    /\ conn = "open"
    /\ hung = FALSE
    /\ cmd = [c \in Callers |-> NoCommand]

Running(c) == cmd[c].status = "running"

\* The next command; what an abandoned one still does is not followed.
Call(c) ==
    /\ ~Running(c)
    /\ cmd' = [cmd EXCEPT ![c] = [status |-> "running", remote |-> "none"]]
    /\ UNCHANGED <<conn, hung>>

\* The command begins on the login node and, connection or not, ends there.
Begins(c) ==
    /\ Running(c) /\ cmd[c].remote = "none" /\ conn = "open"
    /\ cmd' = [cmd EXCEPT ![c].remote = "begun"]
    /\ UNCHANGED <<conn, hung>>

\* How it ends matters while somebody waits for it.
Ends(c) ==
    /\ cmd[c].remote = "begun" /\ ~hung
    /\ \E end \in IF Running(c) THEN {"done", "refused"} ELSE {"none"} :
         cmd' = [cmd EXCEPT ![c].remote = end]
    /\ UNCHANGED <<conn, hung>>

\* What is left of a command when its call is over.
Rest(remote) == IF remote = "begun" THEN "begun" ELSE "none"

\* An error on an unbroken connection means that the command did nothing.  Success
\* means that it did all, unless it has a script: then it means nothing.
Returns(c) ==
    /\ Running(c)
    /\ \/ /\ c \in Scripted \/ cmd[c].remote = "done"
          /\ cmd' = [cmd EXCEPT ![c] = [status |-> "ok", remote |-> Rest(@.remote)]]
       \/ /\ conn # "open" \/ cmd[c].remote \in {"none", "refused"}
          /\ cmd' = [cmd EXCEPT ![c] = [status |-> "error", remote |-> Rest(@.remote)]]
    /\ UNCHANGED <<conn, hung>>

Breaks ==
    /\ conn = "open"
    /\ conn' = "broken"
    /\ UNCHANGED <<hung, cmd>>

Hangs ==
    /\ ~hung
    /\ hung' = TRUE
    /\ UNCHANGED <<conn, cmd>>

\* A connection that is gone stays gone: nobody dials again in the same process.
Destruct ==
    /\ conn' = "closed"
    /\ UNCHANGED <<hung, cmd>>

\* The process is gone: no call returns.
Dies ==
    /\ conn' = "closed"
    /\ cmd' = [c \in Callers |->
                  IF Running(c) THEN [status |-> "error", remote |-> Rest(cmd[c].remote)]
                  ELSE cmd[c]]
    /\ UNCHANGED hung

\* A new process dials and knows of no command.
Dials ==
    /\ conn = "closed" /\ \A c \in Callers : ~Running(c)
    /\ conn' = "open"
    /\ cmd' = [c \in Callers |-> NoCommand]
    /\ UNCHANGED hung

CommandNext ==
    \/ \E c \in Callers : Call(c) \/ Begins(c) \/ Ends(c) \/ Returns(c)
    \/ Breaks \/ Hangs \/ Destruct \/ Dies \/ Dials

\* The caller has something to read: an exit status or the end of the connection.
Due(c) == Running(c) /\ (cmd[c].remote \in {"done", "refused"} \/ conn # "open")

CommandFairness ==
    \A c \in Callers :
        /\ WF_commandVars(Ends(c))
        /\ WF_commandVars(Begins(c) \/ (Due(c) /\ Returns(c)))

CommandSpec == CommandInit /\ [][CommandNext]_commandVars
=============================================================================
