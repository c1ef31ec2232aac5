----------------------------- MODULE ProcessProofs -----------------------------
(***************************************************************************)
(* The safety properties of Process, for any nodes, any statuses and any   *)
(* number of processes one after the other.                                *)
(***************************************************************************)
EXTENDS ProcessProperties, TLAPS

Calls == conn \in ConnStates /\ cmd \in [Callers -> Commands] /\ stage \in 0 .. Down

\* The connection is only closed by the fifth interrupt or the end of the process, the
\* slurm server has been drained by then, and a process that is gone runs nothing.
Drained ==
    /\ stage < 6 => conn # "closed"
    /\ stage \in 5 .. 7 /\ Running(handler) => timedOut
    /\ stage = Down => \A c \in Callers : ~Running(c)

DInv == Calls /\ Drained

\* A job that routine is about to look for has been seen in the queue.
KInv == (job => pod) /\ (wpc \in {"kube", "cancel", "cancelled"} /\ job => listed)

\* The interrupts by their place in Interrupts.
LEMMA Stages ==
    /\ Waiting = 7 /\ Down = 8
    /\ stage \in 0 .. 8 =>
           /\ Called("slurm") <=> stage >= 4
           /\ Current("slurm") <=> stage = 4
           /\ Current("destruct") <=> stage = 5
<1>1. Len(Interrupts) = 6 /\ Interrupts[4] = "slurm" /\ Interrupts[5] = "destruct"
  BY DEF Interrupts
<1>2. \A k \in 1 .. 6 : /\ Interrupts[k] = "slurm" => k = 4
                        /\ Interrupts[k] = "destruct" => k = 5
  BY DEF Interrupts
<1> QED
  BY <1>1, <1>2 DEF Waiting, Down, Called, Current

-----------------------------------------------------------------------------
(* ActiveJobKeepsPod.                                                      *)

\* Steps that neither know the job nor go on in routine.
LEMMA KFrame == KInv /\ UNCHANGED <<wpc, listed, bindVars>> => KInv'
  BY DEF KInv, bindVars

\* Every step keeps the pod of a job that is in the queue.
LEMMA KStep == KInv /\ [Next]_vars => KInv'
<1> SUFFICES ASSUME KInv, [Next]_vars PROVE KInv'
  OBVIOUS
<1>1. CASE ActorEnds \/ InterruptReturns \/ DestructReturns
  BY <1>1, KFrame DEF ActorEnds, InterruptReturns, DestructReturns, routineVars
<1>2. CASE HandlerCalls \/ HandlerReturns
  BY <1>2, KFrame DEF HandlerCalls, HandlerReturns, routineVars
<1>3. CASE \E c \in Callers : Begun(c) \/ Ended(c)
  BY <1>3, KFrame DEF Begun, Ended, routineVars
<1>4. CASE NodeChanges \/ Faults \/ Starts
  BY <1>4, KFrame DEF NodeChanges, Faults, Starts, routineVars
<1>5. CASE WatchStops \/ Exits \/ Panics
  BY <1>5 DEF WatchStops, Exits, Panics, Ending, KInv, bindVars
<1>6. CASE WatchTicks \/ StatusFetched \/ Patches \/ PatchFails \/ RoutineReturns
  BY <1>6 DEF WatchTicks, StatusFetched, Patches, PatchFails, RoutineReturns, KInv, bindVars
<1>7. CASE QueueFetched \/ CancelsOther \/ CancelReturns
  BY <1>7 DEF QueueFetched, CancelsOther, CancelReturns, KInv, bindVars
<1>8. CASE EvictsJobless
  BY <1>8 DEF EvictsJobless, KInv
<1>9. CASE JobEnds
  BY <1>9 DEF JobEnds, KInv, routineVars
<1>10. CASE UNCHANGED vars
  BY <1>10, KFrame DEF vars, routineVars
<1> QED
  BY <1>1, <1>2, <1>3, <1>4, <1>5, <1>6, <1>7, <1>8, <1>9, <1>10
     DEF Next, GroupStep, CommandStep, RoutineStep

\* A pod that was bound, with its job in the queue, when the behaviour starts is not evicted
\* before that job has left the queue, whatever becomes of the connection, of Slurm or of
\* the process (routine's early return, Returns of Command).
THEOREM PodKept == Spec => []ActiveJobKeepsPod
<1>1. Init => KInv
  BY DEF Init, KInv
<1>2. KInv => ActiveJobKeepsPod
  BY DEF KInv, ActiveJobKeepsPod
<1> QED
  BY <1>1, <1>2, KStep, PTL DEF Spec

-----------------------------------------------------------------------------
(* DrainedFirst.                                                           *)

\* The steps of Command keep its types.
LEMMA CallsType ==
    ASSUME conn \in ConnStates, cmd \in [Callers -> Commands],
           \/ \E c \in Callers : Call(c) \/ Begins(c) \/ Ends(c) \/ Returns(c)
           \/ Breaks \/ Hangs \/ Destruct \/ Dies \/ Dials
    PROVE  conn' \in ConnStates /\ cmd' \in [Callers -> Commands]
<1> USE DEF ConnStates, Commands, Statuses, Remotes
<1>1. ASSUME NEW c \in Callers, Call(c) \/ Begins(c) PROVE cmd' \in [Callers -> Commands]
  BY <1>1 DEF Call, Begins
<1>2. ASSUME NEW c \in Callers, Ends(c) PROVE cmd' \in [Callers -> Commands]
  BY <1>2 DEF Ends
<1>3. ASSUME NEW c \in Callers, Returns(c) PROVE cmd' \in [Callers -> Commands]
  BY <1>3 DEF Returns, Rest
<1>4. CASE Dies \/ Dials
  BY <1>4 DEF Dies, Dials, Rest, NoCommand
<1>5. CASE Breaks \/ Hangs \/ Destruct
  BY <1>5 DEF Breaks, Hangs, Destruct
<1> QED
  BY <1>1, <1>2, <1>3, <1>4, <1>5 DEF Call, Begins, Ends, Returns

\* Which commands run after a step of Command.
LEMMA WhoRuns ==
    ASSUME cmd \in [Callers -> Commands], NEW c \in Callers
    PROVE  /\ Call(c) => \A d \in Callers \ {c} : Running(d)' = Running(d)
           /\ Begins(c) \/ Ends(c) => \A d \in Callers : Running(d)' = Running(d)
           /\ Returns(c) => \A d \in Callers : Running(d)' => Running(d)
<1> USE DEF Running, Commands
<1>1. Call(c) => \A d \in Callers \ {c} : Running(d)' = Running(d)
  BY DEF Call
<1>2. Begins(c) \/ Ends(c) => \A d \in Callers : Running(d)' = Running(d)
  BY DEF Begins, Ends
<1>3. Returns(c) => \A d \in Callers : Running(d)' => Running(d)
  BY DEF Returns
<1> QED
  BY <1>1, <1>2, <1>3

\* Every step keeps DInv.
LEMMA DStep == DInv /\ [Next]_vars => DInv'
<1> SUFFICES ASSUME DInv, [Next]_vars PROVE DInv'
  OBVIOUS
<1>1. /\ Waiting = 7 /\ Down = 8 /\ stage \in 0 .. 8
      /\ conn \in ConnStates /\ cmd \in [Callers -> Commands]
      /\ handler \in Callers /\ watcher \in Callers /\ handler # watcher
  BY Stages, ProcessAssumption DEF DInv, Calls
<1> USE DEF DInv, Calls, Drained
<1>2. CASE UNCHANGED <<commandVars, stage, timedOut>>
  BY <1>1, <1>2 DEF commandVars, Running, Down, Waiting
<1>3. CASE ActorEnds
  BY <1>1, <1>3 DEF ActorEnds, commandVars, Running
<1>4. CASE InterruptReturns
  <2>1. /\ stage \in 1 .. 6 /\ stage # 5 /\ stage' = stage + 1
        /\ timedOut' = (timedOut \/ (stage = 4 /\ Running(handler)))
    BY <1>1, <1>4, Stages DEF InterruptReturns, Interrupts
  <2>2. conn' = conn /\ cmd' = cmd
    BY <1>4 DEF InterruptReturns, commandVars
  <2>3. stage' < 6 => conn' # "closed"
    BY <1>1, <2>1, <2>2
  <2>4. ASSUME stage' \in 5 .. 7, Running(handler) PROVE timedOut'
    <3>1. CASE stage = 4
      BY <2>1, <2>4, <3>1, Zenon
    <3>2. CASE stage # 4
      <4>1. timedOut
        BY <1>1, <2>1, <2>4, <3>2
      <4> QED
        BY <2>1, <4>1, Zenon
    <3> QED
      BY <3>1, <3>2
  <2>5. stage' \in 0 .. Down' /\ stage' # Down'
    BY <1>1, <2>1, Stages DEF Down, Waiting
  <2> QED
    BY <1>1, <2>2, <2>3, <2>4, <2>5 DEF Running
<1>5. CASE DestructReturns
  <2>1. stage = 5 /\ stage' = 6 /\ timedOut' = timedOut
    BY <1>1, <1>5, Stages DEF DestructReturns
  <2>2. conn' \in ConnStates /\ cmd' = cmd
    BY <1>5 DEF DestructReturns, Destruct, ConnStates
  <2> QED
    BY <1>1, <2>1, <2>2 DEF Running
<1>6. CASE Exits \/ Panics
  <2>1. Dies /\ stage' = 8
    BY <1>1, <1>6 DEF Exits, Panics, Ending
  <2>2. \A c \in Callers : ~Running(c)'
    BY <2>1 DEF Dies, Running
  <2> QED
    BY <1>1, <2>1, <2>2, CallsType, Stages
<1>7. CASE Starts
  <2>1. Dials /\ stage' = 0
    BY <1>7 DEF Starts
  <2> QED
    BY <1>1, <2>1, CallsType DEF Dials
<1>8. CASE HandlerCalls
  <2>1. stage < 4 /\ stage' = stage /\ conn' = conn
    BY <1>1, <1>8, Stages DEF HandlerCalls, groupVars, Call
  <2> QED
    BY <1>1, <1>8, <2>1, CallsType DEF HandlerCalls
<1>9. CASE WatchTicks \/ CancelsOther \/ EvictsJobless
  <2>1. CASE Call(watcher)
    <3>1. /\ stage # 8 /\ stage' = stage /\ timedOut' = timedOut /\ conn' = conn
          /\ Running(handler)' = Running(handler)
      BY <1>1, <1>9, <2>1, WhoRuns
         DEF WatchTicks, CancelsOther, EvictsJobless, Alive, groupVars, Call
    <3> QED
      BY <1>1, <2>1, <3>1, CallsType
  <2> QED
    BY <1>2, <1>9, <2>1 DEF WatchTicks, CancelsOther, EvictsJobless, groupVars
<1>10. CASE HandlerReturns \/ QueueFetched \/ CancelReturns \/ StatusFetched \/ CommandStep
  <2>1. PICK c \in Callers : Begins(c) \/ Ends(c) \/ Returns(c)
    BY <1>1, <1>10 DEF HandlerReturns, QueueFetched, CancelReturns, StatusFetched, CommandStep,
                       Begun, Ended
  <2>2. stage' = stage /\ timedOut' = timedOut /\ conn' = conn
    BY <1>10, <2>1 DEF HandlerReturns, QueueFetched, CancelReturns, StatusFetched, CommandStep,
                       Begun, Ended, groupVars, Begins, Ends, Returns
  <2>3. \A d \in Callers : Running(d)' => Running(d)
    BY <1>1, <2>1, WhoRuns
  <2> QED
    BY <1>1, <2>1, <2>2, <2>3, CallsType
<1>11. CASE Faults
  BY <1>1, <1>11, CallsType DEF Faults, Breaks, Hangs, groupVars, Running
<1>12. CASE WatchStops \/ Patches \/ PatchFails \/ RoutineReturns \/ JobEnds \/ NodeChanges
  BY <1>2, <1>12 DEF WatchStops, Patches, PatchFails, RoutineReturns, JobEnds, NodeChanges, groupVars
<1>13. CASE UNCHANGED vars
  BY <1>2, <1>13 DEF vars, groupVars
<1> QED
  BY <1>3, <1>4, <1>5, <1>6, <1>7, <1>8, <1>9, <1>10, <1>11, <1>12, <1>13
     DEF Next, GroupStep, RoutineStep

\* sshHandler.Destruct does not cut off a handler that Shutdown still waited for.
THEOREM DrainedCorrect == Spec => []DrainedFirst
<1>1. Init => DInv
  BY Stages DEF Init, CommandInit, NoCommand, DInv, Calls, Drained, ConnStates, Commands,
     Statuses, Remotes, Running
<1>2. DInv => DrainedFirst
  BY Stages, ProcessAssumption DEF DInv, Calls, Drained, DrainedFirst
<1> QED
  BY <1>1, <1>2, DStep, PTL DEF Spec
=============================================================================
