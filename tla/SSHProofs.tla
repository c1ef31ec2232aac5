------------------------------- MODULE SSHProofs -------------------------------
(***************************************************************************)
(* SSHSession implements Command, for any number of callers with or        *)
(* without a script.                                                       *)
(***************************************************************************)
EXTENDS SSHProperties, TLAPS

\* What main and writer know of the remote command: a script that was sent leaves no
\* error behind, and only a command that was sent its script can have done its work.
ScriptInv(c) ==
    /\ run[c].main \in {"idle", "open", "exec"} => run[c].remote = "none"
    /\ c \notin Scripted \/ run[c].main = "open" => run[c].writer = "none"
    /\ run[c].writer \in {"none", "check", "pipe", "write"} =>
           ~run[c].script /\ run[c].written = "nil"
    /\ run[c].script => run[c].written = "nil"
    /\ run[c].remote = "done" /\ c \in Scripted => run[c].script

\* What err says of the remote command when the call is about to return.
ErrInv(c) ==
    run[c].main = "return" =>
        /\ c \notin Scripted /\ run[c].err = "nil" => run[c].remote = "done"
        /\ conn = "open" /\ run[c].err = "error" => run[c].remote \in {"none", "refused"}
        /\ conn = "open" => run[c].remote # "begun"

SInv == TypeOK /\ \A c \in Callers : ScriptInv(c) /\ ErrInv(c)

\* A step of c's goroutines or of its remote command.
StepOf(c) ==
    \/ RunCommand(c) \/ MainStep(c) \/ WriterStep(c) \/ CopierEnds(c)
    \/ RemoteEnds(c) \/ RemoteRefuses(c)

\* A step of c replaces its own record and nobody else's.
LEMMA OwnRecord ==
    ASSUME TypeOK, NEW c \in Callers, NEW r, Set(c, r)
    PROVE  /\ run'[c] = r
           /\ \A d \in Callers \ {c} : run'[d] = run[d]
  BY DEF TypeOK, Set

-----------------------------------------------------------------------------
(* Types.                                                                  *)

\* The record of a call that has not begun.
LEMMA NoRunType == NoRun \in Runs
  BY DEF NoRun, Runs, Ends

\* The initial state has the right types.
LEMMA TypeInit == Init => TypeOK
  BY NoRunType DEF Init, TypeOK, ConnStates

\* Only the record has to be looked at, for alive, conn and hung are left alone.
LEMMA RecordType ==
    ASSUME TypeOK, NEW c \in Callers, NEW r \in Runs, Set(c, r), UNCHANGED <<alive, conn, hung>>
    PROVE  TypeOK'
  BY DEF TypeOK, Set

\* A call's main goroutine keeps the types.
LEMMA MainType ==
    ASSUME TypeOK, NEW c \in Callers, RunCommand(c) \/ MainStep(c) \/ CopierEnds(c)
    PROVE  TypeOK'
<1>1. run[c] \in Runs
  BY DEF TypeOK
<1>2. CASE RunCommand(c)
  <2>1. \E r \in Runs : Set(c, r)
    BY <1>1, <1>2 DEF RunCommand, NoRun, Runs, Ends
  <2> QED
    BY <1>2, <2>1, RecordType DEF RunCommand
<1>3. CASE NewSession(c)
  <2>1. \E r \in Runs : Set(c, r)
    BY <1>1, <1>3 DEF NewSession, Runs, Ends
  <2> QED
    BY <1>3, <2>1, RecordType DEF NewSession
<1>4. CASE SendsExec(c)
  <2>1. \E r \in Runs : Set(c, r)
    BY <1>1, <1>4 DEF SendsExec, Runs, Ends
  <2> QED
    BY <1>4, <2>1, RecordType DEF SendsExec
<1>5. CASE ExecReplied(c)
  <2>1. \E r \in Runs : Set(c, r)
    BY <1>1, <1>5 DEF ExecReplied, Runs, Ends
  <2> QED
    BY <1>5, <2>1, RecordType DEF ExecReplied
<1>6. CASE MarksStarted(c)
  <2>1. \E r \in Runs : Set(c, r)
    BY <1>1, <1>6 DEF MarksStarted, Runs, Ends
  <2> QED
    BY <1>6, <2>1, RecordType DEF MarksStarted
<1>7. CASE SetsUpStdin(c)
  <2>1. \E r \in Runs : Set(c, r)
    BY <1>1, <1>7 DEF SetsUpStdin, Runs, Ends
  <2> QED
    BY <1>7, <2>1, RecordType DEF SetsUpStdin
<1>8. CASE CopierEnds(c)
  <2>1. \E r \in Runs : Set(c, r)
    BY <1>1, <1>8 DEF CopierEnds, Runs, Ends
  <2> QED
    BY <1>8, <2>1, RecordType DEF CopierEnds
<1>9. CASE Waits(c)
  <2>1. \E r \in Runs : Set(c, r)
    BY <1>1, <1>9 DEF Waits, Runs, Ends
  <2> QED
    BY <1>9, <2>1, RecordType DEF Waits
<1>10. CASE Returns(c)
  <2>1. \E r \in Runs : Set(c, r)
    BY <1>1, <1>10 DEF Returns, Runs, Ends
  <2> QED
    BY <1>10, <2>1, RecordType DEF Returns
<1> QED
  BY <1>2, <1>3, <1>4, <1>5, <1>6, <1>7, <1>8, <1>9, <1>10 DEF MainStep

\* The writing goroutine and the remote command keep the types.
LEMMA WriterType ==
    ASSUME TypeOK, NEW c \in Callers, WriterStep(c) \/ RemoteEnds(c) \/ RemoteRefuses(c)
    PROVE  TypeOK'
<1>1. run[c] \in Runs
  BY DEF TypeOK
<1>2. CASE ChecksStarted(c)
  <2>1. CASE run[c].started
    BY <1>2, <2>1 DEF ChecksStarted, TypeOK
  <2>2. CASE ~run[c].started
    <3>1. \E r \in Runs : Set(c, r)
      BY <1>1, <1>2, <2>2 DEF ChecksStarted, Runs, Ends
    <3> QED
      BY <1>2, <2>2, <3>1, RecordType DEF ChecksStarted
  <2> QED
    BY <2>1, <2>2
<1>3. CASE GetsPipe(c)
  <2>1. \E r \in Runs : Set(c, r)
    BY <1>1, <1>3 DEF GetsPipe, Runs, Ends
  <2> QED
    BY <1>3, <2>1, RecordType DEF GetsPipe
<1>4. CASE WritesScript(c)
  <2>1. \E r \in Runs : Set(c, r)
    BY <1>1, <1>4 DEF WritesScript, Runs, Ends
  <2> QED
    BY <1>4, <2>1, RecordType DEF WritesScript
<1>5. CASE AssignsErr(c)
  <2>1. \E r \in Runs : Set(c, r)
    BY <1>1, <1>5 DEF AssignsErr, Runs, Ends
  <2> QED
    BY <1>5, <2>1, RecordType DEF AssignsErr
<1>6. CASE ClosesStdin(c)
  <2>1. \E r \in Runs : Set(c, r)
    BY <1>1, <1>6 DEF ClosesStdin, Runs, Ends
  <2> QED
    BY <1>6, <2>1, RecordType DEF ClosesStdin
<1>7. CASE RemoteEnds(c)
  <2>1. \E r \in Runs : Set(c, r)
    BY <1>1, <1>7 DEF RemoteEnds, Runs, Ends
  <2> QED
    BY <1>7, <2>1, RecordType DEF RemoteEnds
<1>8. CASE RemoteRefuses(c)
  <2>1. \E r \in Runs : Set(c, r)
    BY <1>1, <1>8 DEF RemoteRefuses, Runs, Ends
  <2> QED
    BY <1>8, <2>1, RecordType DEF RemoteRefuses
<1> QED
  BY <1>2, <1>3, <1>4, <1>5, <1>6, <1>7, <1>8 DEF WriterStep

-----------------------------------------------------------------------------
(* The invariant.                                                          *)

\* A step of c leaves the records of the others, the connection and Slurm alone.
LEMMA OwnStep ==
    ASSUME SInv, NEW c \in Callers, StepOf(c)
    PROVE  /\ TypeOK'
           /\ UNCHANGED <<conn, hung>>
           /\ \A d \in Callers \ {c} : run'[d] = run[d]
<1>1. TypeOK'
  BY MainType, WriterType DEF SInv, StepOf
<1>2. UNCHANGED <<conn, hung>>
  BY DEF StepOf, MainStep, WriterStep, RunCommand, NewSession, SendsExec, ExecReplied,
         MarksStarted, SetsUpStdin, CopierEnds, Waits, Returns, ChecksStarted, GetsPipe,
         WritesScript, AssignsErr, ClosesStdin, RemoteEnds, RemoteRefuses
<1>3. run' = run \/ \E r : Set(c, r)
  BY DEF StepOf, MainStep, WriterStep, RunCommand, NewSession, SendsExec, ExecReplied,
         MarksStarted, SetsUpStdin, CopierEnds, Waits, Returns, ChecksStarted, GetsPipe,
         WritesScript, AssignsErr, ClosesStdin, RemoteEnds, RemoteRefuses
<1> QED
  BY <1>1, <1>2, <1>3, OwnRecord DEF SInv

\* The main goroutine keeps the invariant of its own record.
LEMMA MainKeeps ==
    ASSUME SInv, NEW c \in Callers, RunCommand(c) \/ MainStep(c) \/ CopierEnds(c)
    PROVE  ScriptInv(c)' /\ ErrInv(c)'
<1> USE DEF Set, Runs, Ends, ScriptInv, ErrInv
<1>0. run \in [Callers -> Runs] /\ run[c] \in Runs /\ ScriptInv(c) /\ ErrInv(c)
  BY DEF SInv, TypeOK
<1>1. CASE RunCommand(c)
  BY <1>0, <1>1 DEF RunCommand, NoRun
<1>2. CASE NewSession(c)
  <2>1. CASE c \in Scripted /\ Set(c, [run[c] EXCEPT !.main = "exec", !.writer = "check"])
    BY <1>0, <1>2, <2>1 DEF NewSession
  <2>2. CASE c \notin Scripted /\ Set(c, [run[c] EXCEPT !.main = "exec", !.writer = "none"])
    BY <1>0, <1>2, <2>2 DEF NewSession
  <2>3. CASE Set(c, [run[c] EXCEPT !.main = "returned", !.ret = "error"])
    BY <1>0, <1>2, <2>3 DEF NewSession
  <2> QED
    BY <1>2, <2>1, <2>2, <2>3 DEF NewSession
<1>3. CASE SendsExec(c)
  <2>1. CASE Set(c, [run[c] EXCEPT !.main = "reply", !.remote = "begun"])
    BY <1>0, <1>3, <2>1 DEF SendsExec
  <2>2. CASE Set(c, [run[c] EXCEPT !.main = "return", !.err = "error"])
    BY <1>0, <1>3, <2>2 DEF SendsExec
  <2> QED
    BY <1>3, <2>1, <2>2 DEF SendsExec
<1>4. CASE ExecReplied(c)
  <2>1. CASE Set(c, [run[c] EXCEPT !.main = "start"])
    BY <1>0, <1>4, <2>1 DEF ExecReplied
  <2>2. CASE conn # "open" /\ Set(c, [run[c] EXCEPT !.main = "return", !.err = "error"])
    BY <1>0, <1>4, <2>2 DEF ExecReplied
  <2> QED
    BY <1>4, <2>1, <2>2 DEF ExecReplied
<1>5. CASE MarksStarted(c)
  BY <1>0, <1>5 DEF MarksStarted
<1>6. CASE SetsUpStdin(c)
  BY <1>0, <1>6 DEF SetsUpStdin
<1>7. CASE CopierEnds(c)
  BY <1>0, <1>7 DEF CopierEnds
<1>8. CASE Waits(c)
  <2>1. CASE run[c].remote = "done" /\ Set(c, [run[c] EXCEPT !.main = "return", !.err = "nil"])
    BY <1>0, <1>8, <2>1 DEF Waits
  <2>2. CASE run[c].remote = "refused" /\ Set(c, [run[c] EXCEPT !.main = "return", !.err = "error"])
    BY <1>0, <1>8, <2>2 DEF Waits
  <2>3. CASE conn # "open" /\ Set(c, [run[c] EXCEPT !.main = "return", !.err = "error"])
    BY <1>0, <1>8, <2>3 DEF Waits
  <2> QED
    BY <1>8, <2>1, <2>2, <2>3 DEF Waits
<1>9. CASE Returns(c)
  BY <1>0, <1>9 DEF Returns
<1> QED
  BY <1>1, <1>2, <1>3, <1>4, <1>5, <1>6, <1>7, <1>8, <1>9 DEF MainStep

\* So do the writing goroutine and the remote command.
LEMMA WriterKeeps ==
    ASSUME SInv, NEW c \in Callers, WriterStep(c) \/ RemoteEnds(c) \/ RemoteRefuses(c)
    PROVE  ScriptInv(c)' /\ ErrInv(c)'
<1> USE DEF Set, Runs, Ends, ScriptInv, ErrInv
<1>0. run \in [Callers -> Runs] /\ run[c] \in Runs /\ ScriptInv(c) /\ ErrInv(c)
  BY DEF SInv, TypeOK
<1>1. CASE ChecksStarted(c)
  <2>1. CASE run[c].started
    BY <1>0, <1>1, <2>1 DEF ChecksStarted
  <2>2. CASE ~run[c].started
    BY <1>0, <1>1, <2>2 DEF ChecksStarted
  <2> QED
    BY <1>1, <2>1, <2>2 DEF ChecksStarted
<1>2. CASE GetsPipe(c)
  BY <1>0, <1>2 DEF GetsPipe
<1>3. CASE WritesScript(c)
  <2>1. CASE Set(c, [run[c] EXCEPT !.writer = "assign", !.script = run[c].remote = "begun"])
    BY <1>0, <1>3, <2>1 DEF WritesScript
  <2>2. CASE Rejected(c) /\ Set(c, [run[c] EXCEPT !.writer = "assign", !.written = "error"])
    BY <1>0, <1>3, <2>2 DEF WritesScript
  <2> QED
    BY <1>3, <2>1, <2>2 DEF WritesScript
<1>4. CASE AssignsErr(c)
  BY <1>0, <1>4 DEF AssignsErr
<1>5. CASE ClosesStdin(c)
  BY <1>0, <1>5 DEF ClosesStdin
<1>6. CASE RemoteEnds(c)
  BY <1>0, <1>6 DEF RemoteEnds
<1>7. CASE RemoteRefuses(c)
  BY <1>0, <1>7 DEF RemoteRefuses
<1> QED
  BY <1>1, <1>2, <1>3, <1>4, <1>5, <1>6, <1>7 DEF WriterStep

\* Every step keeps the invariant.
LEMMA InvStep == SInv /\ [Next]_vars => SInv'
<1> SUFFICES ASSUME SInv, [Next]_vars PROVE SInv'
  OBVIOUS
<1>1. ASSUME NEW c \in Callers, StepOf(c) PROVE SInv'
  <2>1. ScriptInv(c)' /\ ErrInv(c)'
    BY <1>1, MainKeeps, WriterKeeps DEF StepOf
  <2>2. \A d \in Callers \ {c} : ScriptInv(d)' /\ ErrInv(d)'
    BY <1>1, OwnStep DEF SInv, ScriptInv, ErrInv
  <2> QED
    BY <1>1, <2>1, <2>2, OwnStep DEF SInv
<1>2. CASE ConnectionBreaks \/ Destruct
  BY <1>2 DEF ConnectionBreaks, Destruct, SInv, TypeOK, ConnStates, ScriptInv, ErrInv
<1>3. CASE SlurmHangs
  BY <1>3 DEF SlurmHangs, SInv, TypeOK, ScriptInv, ErrInv
<1>4. CASE New
  BY <1>4 DEF New, NoRun, SInv, TypeOK, Runs, ConnStates, Ends, ScriptInv, ErrInv
<1>5. CASE UNCHANGED vars
  BY <1>5 DEF vars, SInv, TypeOK, ScriptInv, ErrInv
<1> QED
  BY <1>1, <1>2, <1>3, <1>4, <1>5 DEF Next, StepOf

\* The invariant of SSHSession (RunCommandCombined, RunCommand).
THEOREM SessionInvariance == Spec => []SInv
<1>1. Init => SInv
  BY TypeInit DEF Init, NoRun, SInv, ScriptInv, ErrInv
<1> QED
  BY <1>1, InvStep, PTL DEF Spec

-----------------------------------------------------------------------------
(* The refinement.                                                         *)

\* What Command sees of c's record while the process lives.
LEMMA BarStep ==
    ASSUME SInv, NEW c \in Callers, StepOf(c), alive' = alive
    PROVE  /\ connBar' = connBar
           /\ cmdBar' = [cmdBar EXCEPT ![c] = cmdBar'[c]]
<1>1. UNCHANGED conn /\ \A d \in Callers \ {c} : run'[d] = run[d]
  BY OwnStep
<1>2. connBar' = connBar
  BY <1>1 DEF connBar
<1>3. \A d \in Callers \ {c} : cmdBar'[d] = cmdBar[d]
  BY <1>1 DEF cmdBar, Status
<1>4. DOMAIN cmdBar' = Callers /\ cmdBar' = [d \in Callers |-> cmdBar'[d]]
  BY DEF cmdBar
<1>5. DOMAIN cmdBar = Callers /\ cmdBar = [d \in Callers |-> cmdBar[d]]
  BY DEF cmdBar
<1> QED
  BY <1>2, <1>3, <1>4, <1>5

\* A step that Command cannot see.
LEMMA Hidden ==
    ASSUME SInv, NEW c \in Callers, StepOf(c), alive' = alive,
           run'[c].remote = run[c].remote, Status(run[c])' = Status(run[c])
    PROVE  UNCHANGED C!commandVars
<1>1. cmdBar'[c] = cmdBar[c]
  BY DEF cmdBar
<1>2. cmdBar' = cmdBar
  BY <1>1, BarStep DEF cmdBar
<1> QED
  BY <1>2, BarStep, OwnStep DEF C!commandVars

\* What the caller's goroutine does is hidden, or a step of Command.
LEMMA MainMapped ==
    ASSUME SInv, NEW c \in Callers, RunCommand(c) \/ MainStep(c) \/ CopierEnds(c)
    PROVE  [C!CommandNext]_(C!commandVars)
<1>1. /\ run \in [Callers -> Runs] /\ run[c] \in Runs /\ ScriptInv(c) /\ ErrInv(c)
      /\ StepOf(c)
  BY DEF SInv, TypeOK, StepOf
<1>2. alive /\ alive'
  BY DEF MainStep, RunCommand, NewSession, SendsExec, ExecReplied, MarksStarted,
         SetsUpStdin, CopierEnds, Waits, Returns
<1>3. /\ connBar = conn /\ UNCHANGED <<connBar, hung>>
      /\ cmdBar' = [cmdBar EXCEPT ![c] = cmdBar'[c]]
  BY <1>1, <1>2, BarStep, OwnStep DEF connBar
<1>4. CASE RunCommand(c)
  <2>1. run'[c] = [NoRun EXCEPT !.main = "open"]
    BY <1>1, <1>4 DEF RunCommand, Set
  <2>2. cmdBar'[c] = [status |-> "running", remote |-> "none"]
    BY <1>2, <2>1 DEF cmdBar, Status, NoRun
  <2>3. ~C!Running(c)
    BY <1>4 DEF RunCommand, C!Running, cmdBar, Status
  <2>4. C!Call(c)
    BY <1>3, <2>2, <2>3 DEF C!Call
  <2> QED
    BY <2>4 DEF C!CommandNext
<1>5. CASE NewSession(c)
  <2>1. CASE \E p : run'[c] = [run[c] EXCEPT !.main = "exec", !.writer = p]
    BY <1>1, <1>2, <1>5, <2>1, Hidden DEF NewSession, Status, Runs
  <2>2. CASE run'[c] = [run[c] EXCEPT !.main = "returned", !.ret = "error"]
    <3>1. cmdBar[c] = [status |-> "running", remote |-> "none"]
      BY <1>1, <1>2, <1>5 DEF NewSession, ScriptInv, cmdBar, Status
    <3>2. cmdBar'[c] = [status |-> "error", remote |-> "none"]
      BY <1>1, <1>2, <1>5, <2>2 DEF NewSession, ScriptInv, cmdBar, Status, Runs
    <3>3. C!Returns(c)
      BY <1>3, <3>1, <3>2 DEF C!Returns, C!Running, C!Rest
    <3> QED
      BY <3>3 DEF C!CommandNext
  <2> QED
    BY <1>1, <1>5, <2>1, <2>2 DEF NewSession, Set
<1>6. CASE SendsExec(c)
  <2>1. CASE conn = "open" /\ run'[c] = [run[c] EXCEPT !.main = "reply", !.remote = "begun"]
    <3>1. cmdBar[c] = [status |-> "running", remote |-> "none"]
      BY <1>1, <1>2, <1>6 DEF SendsExec, ScriptInv, cmdBar, Status
    <3>2. cmdBar'[c] = [status |-> "running", remote |-> "begun"]
      BY <1>1, <1>2, <1>6, <2>1 DEF SendsExec, cmdBar, Status, Runs
    <3>3. C!Begins(c)
      BY <1>3, <2>1, <3>1, <3>2 DEF C!Begins, C!Running
    <3> QED
      BY <3>3 DEF C!CommandNext
  <2>2. CASE run'[c] = [run[c] EXCEPT !.main = "return", !.err = "error"]
    BY <1>1, <1>2, <1>6, <2>2, Hidden DEF SendsExec, Status, Runs
  <2> QED
    BY <1>1, <1>6, <2>1, <2>2 DEF SendsExec, Set
<1>7. CASE ExecReplied(c) \/ MarksStarted(c) \/ SetsUpStdin(c) \/ CopierEnds(c) \/ Waits(c)
  <2>1. ASSUME run'[c].remote = run[c].remote,
               run[c].main \notin {"idle", "returned"}, run'[c].main \notin {"idle", "returned"}
        PROVE  UNCHANGED C!commandVars
    BY <1>1, <1>2, <2>1, Hidden DEF Status
  <2>2. CASE ExecReplied(c)
    <3>1. CASE run'[c] = [run[c] EXCEPT !.main = "start"]
      BY <1>1, <2>1, <2>2, <3>1 DEF ExecReplied, Runs
    <3>2. CASE run'[c] = [run[c] EXCEPT !.main = "return", !.err = "error"]
      BY <1>1, <2>1, <2>2, <3>2 DEF ExecReplied, Runs
    <3> QED
      BY <1>1, <2>2, <3>1, <3>2 DEF ExecReplied, Set
  <2>3. CASE MarksStarted(c)
    <3>1. run'[c] = [run[c] EXCEPT !.main = "setup", !.started = TRUE]
      BY <1>1, <2>3 DEF MarksStarted, Set
    <3> QED
      BY <1>1, <2>1, <2>3, <3>1 DEF MarksStarted, Runs
  <2>4. CASE SetsUpStdin(c)
    <3>1. run'[c] = [run[c] EXCEPT !.main = "wait", !.copier = ~run[c].stdinpipe]
      BY <1>1, <2>4 DEF SetsUpStdin, Set
    <3> QED
      BY <1>1, <2>1, <2>4, <3>1 DEF SetsUpStdin, Runs
  <2>5. CASE CopierEnds(c)
    BY <1>1, <1>2, <2>5, Hidden DEF CopierEnds, Set, Runs, Status
  <2>6. CASE Waits(c)
    <3>1. PICK e : run'[c] = [run[c] EXCEPT !.main = "return", !.err = e]
      BY <1>1, <2>6 DEF Waits, Set
    <3> QED
      BY <1>1, <2>1, <2>6, <3>1 DEF Waits, Runs
  <2> QED
    BY <1>7, <2>2, <2>3, <2>4, <2>5, <2>6
<1>8. CASE Returns(c)
  <2>1. run'[c] = [run[c] EXCEPT !.main = "returned", !.ret = run[c].err]
    BY <1>1, <1>8 DEF Returns, Set
  <2>2. cmdBar[c] = [status |-> "running", remote |-> run[c].remote]
    BY <1>2, <1>8 DEF Returns, cmdBar, Status
  <2>3. cmdBar'[c] = [status |-> IF run[c].err = "nil" THEN "ok" ELSE "error",
                      remote |-> C!Rest(run[c].remote)]
    BY <1>1, <2>1 DEF cmdBar, Status, C!Rest, Runs
  <2>4. CASE run[c].err = "nil"
    BY <1>1, <1>3, <1>8, <2>2, <2>3, <2>4 DEF Returns, ErrInv, C!Returns, C!Running, C!CommandNext
  <2>5. CASE run[c].err = "error"
    BY <1>1, <1>3, <1>8, <2>2, <2>3, <2>5 DEF Returns, ErrInv, C!Returns, C!Running, C!CommandNext
  <2> QED
    BY <1>1, <2>4, <2>5 DEF Runs
<1> QED
  BY <1>4, <1>5, <1>6, <1>7, <1>8 DEF MainStep

\* What the writing goroutine and the remote command do is hidden, or a step of Command.
LEMMA WriterMapped ==
    ASSUME SInv, NEW c \in Callers, WriterStep(c) \/ RemoteEnds(c) \/ RemoteRefuses(c)
    PROVE  [C!CommandNext]_(C!commandVars)
<1>1. /\ run \in [Callers -> Runs] /\ run[c] \in Runs /\ ScriptInv(c)
      /\ StepOf(c)
  BY DEF SInv, TypeOK, StepOf
<1>2. ASSUME alive' = alive, run'[c].remote = run[c].remote,
             run'[c].main = run[c].main, run'[c].ret = run[c].ret
      PROVE  UNCHANGED C!commandVars
  BY <1>1, <1>2, Hidden DEF Status
<1>3. CASE ChecksStarted(c) /\ run[c].started
  <2>1. connBar' = "closed" /\ UNCHANGED <<hung, run>>
    BY <1>3 DEF ChecksStarted, connBar
  <2>2. \A d \in Callers : Status(run[d])' = IF Status(run[d]) = "running" THEN "error"
                                            ELSE Status(run[d])
    BY <1>3 DEF ChecksStarted, Status
  <2>3. cmdBar' = [d \in Callers |->
                      IF C!Running(d) THEN [status |-> "error", remote |-> C!Rest(cmdBar[d].remote)]
                      ELSE cmdBar[d]]
    BY <2>1, <2>2 DEF cmdBar, C!Running, C!Rest
  <2>4. C!Dies
    BY <2>1, <2>3 DEF C!Dies
  <2> QED
    BY <2>4 DEF C!CommandNext
<1>4. CASE ChecksStarted(c) /\ ~run[c].started
  BY <1>1, <1>2, <1>4 DEF ChecksStarted, Set, Runs
<1>5. CASE GetsPipe(c)
  BY <1>1, <1>2, <1>5 DEF GetsPipe, Set, Runs
<1>6. CASE WritesScript(c)
  <2>1. CASE \E s : run'[c] = [run[c] EXCEPT !.writer = "assign", !.script = s]
    BY <1>1, <1>2, <1>6, <2>1 DEF WritesScript, Runs
  <2>2. CASE run'[c] = [run[c] EXCEPT !.writer = "assign", !.written = "error"]
    BY <1>1, <1>2, <1>6, <2>2 DEF WritesScript, Runs
  <2> QED
    BY <1>1, <1>6, <2>1, <2>2 DEF WritesScript, Set
<1>7. CASE AssignsErr(c)
  BY <1>1, <1>2, <1>7 DEF AssignsErr, Set, Runs
<1>8. CASE ClosesStdin(c)
  BY <1>1, <1>2, <1>8 DEF ClosesStdin, Set, Runs
<1>9. CASE RemoteEnds(c) \/ RemoteRefuses(c)
  <2>1. PICK end \in Ends : run'[c] = [run[c] EXCEPT !.remote = end]
    BY <1>1, <1>9 DEF RemoteEnds, RemoteRefuses, Set, Ends
  <2>2. /\ ~hung /\ run[c].remote = "begun" /\ alive' = alive
        /\ UNCHANGED <<connBar, hung>> /\ cmdBar' = [cmdBar EXCEPT ![c] = cmdBar'[c]]
    BY <1>1, <1>9, BarStep, OwnStep DEF RemoteEnds, RemoteRefuses
  <2>3. Status(run[c])' = Status(run[c])
    BY <1>1, <2>1, <2>2 DEF Status, Runs
  <2>4. cmdBar[c] = [status |-> Status(run[c]), remote |-> "begun"]
    BY <2>2 DEF cmdBar
  <2>5. cmdBar'[c] = [status |-> Status(run[c]),
                      remote |-> IF Status(run[c]) = "running" THEN end ELSE "none"]
    BY <1>1, <2>1, <2>3 DEF cmdBar, Runs, Ends
  <2>6. C!Ends(c)
    BY <2>2, <2>4, <2>5 DEF C!Ends, C!Running, Ends
  <2> QED
    BY <2>6 DEF C!CommandNext
<1> QED
  BY <1>3, <1>4, <1>5, <1>6, <1>7, <1>8, <1>9 DEF WriterStep

\* Every step of SSHSession is one of Command, or hidden.
LEMMA Mapped == SInv /\ [Next]_vars => [C!CommandNext]_(C!commandVars)
<1> SUFFICES ASSUME SInv, [Next]_vars PROVE [C!CommandNext]_(C!commandVars)
  OBVIOUS
<1>1. ASSUME NEW c \in Callers, StepOf(c) PROVE [C!CommandNext]_(C!commandVars)
  BY <1>1, MainMapped, WriterMapped DEF StepOf
<1>2. CASE ConnectionBreaks
  <2>1. UNCHANGED <<hung, cmdBar>>
    BY <1>2 DEF ConnectionBreaks, cmdBar, Status
  <2> QED
    BY <1>2, <2>1 DEF ConnectionBreaks, connBar, C!Breaks, C!CommandNext, C!commandVars
<1>3. CASE SlurmHangs
  <2>1. UNCHANGED <<connBar, cmdBar>>
    BY <1>3 DEF SlurmHangs, connBar, cmdBar, Status
  <2> QED
    BY <1>3, <2>1 DEF SlurmHangs, C!Hangs, C!CommandNext
<1>4. CASE Destruct
  <2>1. UNCHANGED <<hung, cmdBar>>
    BY <1>4 DEF Destruct, cmdBar, Status
  <2> QED
    BY <1>4, <2>1 DEF Destruct, connBar, C!Destruct, C!CommandNext
<1>5. CASE New
  <2>1. connBar = "closed" /\ connBar' = "open" /\ UNCHANGED hung
    BY <1>5 DEF New, connBar
  <2>2. \A c \in Callers : ~C!Running(c)
    BY <1>5 DEF New, C!Running, cmdBar, Status
  <2>3. cmdBar' = [c \in Callers |-> C!NoCommand]
    BY <1>5 DEF New, NoRun, cmdBar, Status, C!NoCommand
  <2>4. C!Dials
    BY <2>1, <2>2, <2>3 DEF C!Dials
  <2> QED
    BY <2>4 DEF C!CommandNext
<1>6. CASE UNCHANGED vars
  BY <1>6 DEF vars, connBar, cmdBar, Status, C!commandVars
<1> QED
  BY <1>1, <1>2, <1>3, <1>4, <1>5, <1>6 DEF Next, StepOf

\* RunCommand and RunCommandCombined keep the promises of Command, however their two
\* goroutines interleave.
THEOREM CommandRefined == Spec => ImplementsCommand
<1>1. Init => C!CommandInit
  BY DEF Init, NoRun, connBar, cmdBar, Status, C!CommandInit, C!NoCommand
<1> QED
  BY <1>1, Mapped, SessionInvariance, PTL DEF Spec, ImplementsCommand, C!CommandSpec
=============================================================================
