------------------------------ MODULE SSHSession ------------------------------
(***************************************************************************)
(* RunCommandCombined and RunCommand of internal/ssh_handler, which differ *)
(* in what they read only.  A command with a script is run by two          *)
(* goroutines that share the session and the variable err and that nothing *)
(* synchronizes: one calls CombinedOutput, the other StdinPipe, Write and  *)
(* Close.  The session itself (golang.org/x/crypto/ssh) is external: Start *)
(* sends exec, marks the session started and, if StdinPipe was not called  *)
(* by then, has a goroutine of its own copy an empty buffer and send EOF;  *)
(* StdinPipe of a started session returns nil.                             *)
(***************************************************************************)
EXTENDS Naturals

CONSTANTS
    Callers,    \* goroutines that run commands, one at a time each
    Scripted    \* those whose SSHCommand has a StdinPipe

ASSUME SSHSessionAssumption == Scripted \subseteq Callers

VARIABLES
    alive,  \* the process: a panic in a goroutine kills it
    conn,   \* s.conn: open, broken by the network, closed by Destruct
    hung,   \* Slurm answers no command any more
    run     \* run[c] : the call of c

vars == <<alive, conn, hung, run>>

ConnStates == {"open", "broken", "closed"}
Ends == {"done", "refused"}

Runs ==
    [main: {"idle", "open", "exec", "reply", "start", "setup", "wait", "return", "returned"},
     writer: {"none", "check", "pipe", "write", "assign", "close", "ended"},
     copier: BOOLEAN,                   \* session's copy of an empty stdin
     started: BOOLEAN,                  \* session.started
     stdinpipe: BOOLEAN,                \* session.stdinpipe
     eof: BOOLEAN,                      \* EOF was sent on the channel
     script: BOOLEAN,                   \* the remote command was sent the script
     written: {"nil", "error"},         \* the result of io.WriteString
     err: {"nil", "error"},             \* the variable both goroutines assign
     ret: {"none", "nil", "error"},     \* the error returned
     remote: {"none", "begun"} \cup Ends]

TypeOK ==
    /\ alive \in BOOLEAN
    /\ conn \in ConnStates
    /\ hung \in BOOLEAN
    /\ run \in [Callers -> Runs]

NoRun == [main |-> "idle", writer |-> "none", copier |-> FALSE, started |-> FALSE,
          stdinpipe |-> FALSE, eof |-> FALSE, script |-> FALSE, written |-> "nil",
          err |-> "nil", ret |-> "none", remote |-> "none"]

Init ==
    /\ alive = TRUE
    /\ conn = "open"
    /\ hung = FALSE
    /\ run = [c \in Callers |-> NoRun]

Set(c, r) == run' = [run EXCEPT ![c] = r]

-----------------------------------------------------------------------------
(* The caller's goroutine.                                                 *)

\* The next command of c; a writer left over from the last one would panic first.
RunCommand(c) ==
    /\ alive
    /\ run[c].main \in {"idle", "returned"} /\ run[c].writer \in {"none", "ended"}
    /\ ~run[c].copier
    /\ Set(c, [NoRun EXCEPT !.main = "open"])
    /\ UNCHANGED <<alive, conn, hung>>

\* A refused session returns before anything is deferred or started.
NewSession(c) ==
    /\ alive /\ run[c].main = "open"
    /\ \/ /\ conn = "open"
          /\ Set(c, [run[c] EXCEPT !.main = "exec",
                                   !.writer = IF c \in Scripted THEN "check" ELSE "none"])
       \/ Set(c, [run[c] EXCEPT !.main = "returned", !.ret = "error"])
    /\ UNCHANGED <<alive, conn, hung>>

\* The exec request of Start and its reply; without one the session never starts.
SendsExec(c) ==
    /\ alive /\ run[c].main = "exec"
    /\ \/ conn = "open" /\ Set(c, [run[c] EXCEPT !.main = "reply", !.remote = "begun"])
       \/ Set(c, [run[c] EXCEPT !.main = "return", !.err = "error"])
    /\ UNCHANGED <<alive, conn, hung>>

ExecReplied(c) ==
    /\ alive /\ run[c].main = "reply"
    /\ \/ conn = "open" /\ Set(c, [run[c] EXCEPT !.main = "start"])
       \/ conn # "open" /\ Set(c, [run[c] EXCEPT !.main = "return", !.err = "error"])
    /\ UNCHANGED <<alive, conn, hung>>

\* start(): first started, then the setup that looks at stdinpipe.
MarksStarted(c) ==
    /\ alive /\ run[c].main = "start"
    /\ Set(c, [run[c] EXCEPT !.main = "setup", !.started = TRUE])
    /\ UNCHANGED <<alive, conn, hung>>

SetsUpStdin(c) ==
    /\ alive /\ run[c].main = "setup"
    /\ Set(c, [run[c] EXCEPT !.main = "wait", !.copier = ~run[c].stdinpipe])
    /\ UNCHANGED <<alive, conn, hung>>

CopierEnds(c) ==
    /\ alive /\ run[c].copier
    /\ Set(c, [run[c] EXCEPT !.copier = FALSE, !.eof = TRUE])
    /\ UNCHANGED <<alive, conn, hung>>

\* Wait: the exit status, or the end of the connection; then the copies.
Waits(c) ==
    /\ alive /\ run[c].main = "wait" /\ ~run[c].copier
    /\ \/ /\ run[c].remote \in Ends
          /\ Set(c, [run[c] EXCEPT !.main = "return",
                        !.err = IF run[c].remote = "done" THEN "nil" ELSE "error"])
       \/ conn # "open" /\ Set(c, [run[c] EXCEPT !.main = "return", !.err = "error"])
    /\ UNCHANGED <<alive, conn, hung>>

\* return res, err: whatever err is by now; the deferred Close ends the session.
Returns(c) ==
    /\ alive /\ run[c].main = "return"
    /\ Set(c, [run[c] EXCEPT !.main = "returned", !.ret = run[c].err])
    /\ UNCHANGED <<alive, conn, hung>>

-----------------------------------------------------------------------------
(* The writing goroutine.                                                  *)

\* StdinPipe looks at started and then sets stdinpipe; a nil pipe panics at the
\* deferred Close, and no recover of net/http is on this goroutine's stack.
ChecksStarted(c) ==
    /\ alive /\ run[c].writer = "check"
    /\ IF run[c].started THEN alive' = FALSE /\ UNCHANGED run
       ELSE UNCHANGED alive /\ Set(c, [run[c] EXCEPT !.writer = "pipe"])
    /\ UNCHANGED <<conn, hung>>

GetsPipe(c) ==
    /\ alive /\ run[c].writer = "pipe"
    /\ Set(c, [run[c] EXCEPT !.writer = "write", !.stdinpipe = TRUE])
    /\ UNCHANGED <<alive, conn, hung>>

\* A channel is not written to after EOF, the session's Close or the end of the
\* connection; what is sent to a command that has ended may still be accepted.
Accepted(c) ==
    conn = "open" /\ ~run[c].eof /\ run[c].main # "returned"

Rejected(c) ==
    ~Accepted(c) \/ run[c].remote \in Ends

\* A server drops what arrives before it has started the command.
WritesScript(c) ==
    /\ alive /\ run[c].writer = "write"
    /\ \/ /\ Accepted(c)
          /\ Set(c, [run[c] EXCEPT !.writer = "assign", !.script = run[c].remote = "begun"])
       \/ /\ Rejected(c)
          /\ Set(c, [run[c] EXCEPT !.writer = "assign", !.written = "error"])
    /\ UNCHANGED <<alive, conn, hung>>

AssignsErr(c) ==
    /\ alive /\ run[c].writer = "assign"
    /\ Set(c, [run[c] EXCEPT !.writer = "close", !.err = run[c].written])
    /\ UNCHANGED <<alive, conn, hung>>

\* Mutants: no deferred Close; session.Close for stdin.Close.
LeavesStdinOpen(c) ==
    /\ alive /\ run[c].writer = "close"
    /\ Set(c, [run[c] EXCEPT !.writer = "ended"])
    /\ UNCHANGED <<alive, conn, hung>>

ClosesSession(c) ==
    /\ alive /\ run[c].writer = "close"
    /\ Set(c, [run[c] EXCEPT !.writer = "ended", !.eof = TRUE,
                  !.main = IF @ = "wait" THEN "return" ELSE @,
                  !.err = IF run[c].main = "wait" THEN "error" ELSE @])
    /\ UNCHANGED <<alive, conn, hung>>

ClosesStdin(c) ==
    /\ alive /\ run[c].writer = "close"
    /\ Set(c, [run[c] EXCEPT !.writer = "ended", !.eof = TRUE])
    /\ UNCHANGED <<alive, conn, hung>>

-----------------------------------------------------------------------------
(* The login node, the network and the process.                            *)

\* sbatch reads the script to its end: EOF, or the loss of the channel.
StdinEnds(c) ==
    c \in Scripted => run[c].eof \/ ~alive \/ conn # "open" \/ run[c].main = "returned"

\* An empty script is refused, like anything the command finds wrong.
RemoteEnds(c) ==
    /\ run[c].remote = "begun" /\ StdinEnds(c) /\ ~hung
    /\ \E end \in Ends :
         /\ end = "done" /\ c \in Scripted => run[c].script
         /\ Set(c, [run[c] EXCEPT !.remote = end])
    /\ UNCHANGED <<alive, conn, hung>>

\* Options are looked at before the script.
RemoteRefuses(c) ==
    /\ run[c].remote = "begun" /\ ~hung
    /\ Set(c, [run[c] EXCEPT !.remote = "refused"])
    /\ UNCHANGED <<alive, conn, hung>>

ConnectionBreaks ==
    /\ conn = "open"
    /\ conn' = "broken"
    /\ UNCHANGED <<alive, hung, run>>

SlurmHangs ==
    /\ ~hung
    /\ hung' = TRUE
    /\ UNCHANGED <<alive, conn, run>>

Destruct ==
    /\ alive
    /\ conn' = "closed"
    /\ UNCHANGED <<alive, hung, run>>

\* The Deployment starts the program again: New dials.
New ==
    /\ ~alive
    /\ alive' = TRUE
    /\ conn' = "open"
    /\ run' = [c \in Callers |-> NoRun]
    /\ UNCHANGED hung

MainStep(c) ==
    \/ NewSession(c) \/ SendsExec(c) \/ ExecReplied(c) \/ MarksStarted(c)
    \/ SetsUpStdin(c) \/ Waits(c) \/ Returns(c)

WriterStep(c) ==
    \/ ChecksStarted(c) \/ GetsPipe(c) \/ WritesScript(c) \/ AssignsErr(c) \/ ClosesStdin(c)

Next ==
    \/ \E c \in Callers : \/ RunCommand(c) \/ MainStep(c) \/ WriterStep(c) \/ CopierEnds(c)
                          \/ RemoteEnds(c) \/ RemoteRefuses(c)
    \/ ConnectionBreaks \/ SlurmHangs \/ Destruct \/ New

\* Goroutines run, the command ends once its stdin does unless Slurm hangs, and the
\* Deployment restarts the process.  A hung command on an open connection waits.
Fairness ==
    /\ WF_vars(New)
    /\ \A c \in Callers :
         /\ WF_vars(MainStep(c))
         /\ WF_vars(WriterStep(c))
         /\ WF_vars(CopierEnds(c))
         /\ WF_vars(RemoteEnds(c))

Spec == Init /\ [][Next]_vars
FairSpec == Spec /\ Fairness
=============================================================================
