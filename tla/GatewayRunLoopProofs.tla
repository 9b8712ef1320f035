------------------------ MODULE GatewayRunLoopProofs ------------------------
(* Theorems about the process loop.  What is proved of the command queue   *)
(* alone carries over, because the loop only takes steps of the queue.     *)
EXTENDS GatewayRunLoop, CommandLanesProofs

\* A step of the loop, of a request or of the work in the process is a step of
\* the command queue or leaves the queue alone.
LEMMA LoopStepIsQueueStep ==
  ASSUME [LoopNext]_allVars
  PROVE  [Next]_vars
<1>1. CASE Work
  BY <1>1 DEF Work, Next
<1>2. CASE \E c \in Calls : RegisterRun(c)
  BY <1>2 DEF RegisterRun
<1>3. CASE StartSucceeds \/ StartFails \/ StopSignal
  BY <1>3 DEF StartSucceeds, StartFails, StopSignal
<1>4. CASE RestartSignal
  BY <1>4 DEF RestartSignal, Next
<1>5. CASE PollTasks
  BY <1>5 DEF PollTasks, Next
<1>6. CASE PollRuns \/ DrainEnds \/ CloseSettles \/ ForceExit
  BY <1>6 DEF PollRuns, DrainEnds, CloseSettles, ForceExit
<1>7. RequestOver => [Next]_vars
  BY DEF RequestOver, Wake, Next
<1>8. CASE ReleaseAndExit \/ ReacquireFails
  BY <1>8 DEF ReleaseAndExit, ReacquireFails
<1>9. CASE ReleaseForInProcess \/ Reacquire
  BY <1>7, <1>9 DEF ReleaseForInProcess, Reacquire
<1>10. CASE UNCHANGED allVars
  BY <1>10 DEF allVars
<1> QED
  BY <1>1, <1>2, <1>3, <1>4, <1>5, <1>6, <1>8, <1>9, <1>10 DEF LoopNext, RequestStep

\* Every behaviour of the process loop is one of the command queue.
THEOREM LoopKeepsQueue == LoopSpec => QueueSteps
<1>1. LoopInit => Init
  BY DEF LoopInit
<1>2. [LoopNext]_allVars => [Next]_vars
  BY LoopStepIsQueueStep
<1> QED
  BY <1>1, <1>2, PTL DEF LoopSpec, QueueSteps, Spec

\* Hence the invariant of the queue holds under signals and restarts.
THEOREM LoopKeepsQueueInvariant == LoopSpec => []IInv
  BY LoopKeepsQueue, Invariance, PTL DEF QueueSteps

-----------------------------------------------------------------------------
(* The drain.                                                              *)

\* A wait of the drain is only ever "waiting" while the request drains, and a
\* teardown reached with everything drained has seen the task wait drained.
DrainInv ==
  /\ waiting = "waiting" => request = "draining"
  /\ request # "none" => shuttingDown
  /\ InTeardown /\ report = "drained" => waiting = "drained"

\* DrainInv is preserved.
LEMMA DrainInvStep ==
  ASSUME DrainInv, [LoopNext]_allVars
  PROVE  DrainInv'
<1> USE DEF DrainInv, InTeardown, Alive, AfterDrain
<1>1. CASE Work
  <2>1. UNCHANGED <<loop, request, isRestart, report, shuttingDown>>
    BY <1>1 DEF Work
  <2>2. UNCHANGED waiting
    BY <1>1 DEF Work, Enqueue, Refuse, Accept, Complete, CurrentCompletion,
                StaleCompletion, SetConcurrency, ClearLane, waitVars
  <2> QED
    BY <2>1, <2>2
<1>2. CASE \E c \in Calls : RegisterRun(c)
  BY <1>2 DEF RegisterRun, vars, waitVars
<1>3. CASE StartSucceeds \/ StartFails
  BY <1>3 DEF StartSucceeds, StartFails, vars, waitVars
<1>4. CASE StopSignal
  BY <1>4 DEF StopSignal, vars, waitVars
<1>5. CASE RestartSignal
  BY <1>5 DEF RestartSignal, WaitForActive
<1>6. CASE PollTasks
  BY <1>6 DEF PollTasks, WaitDrained, WaitTimeout, loopVars
<1>7. CASE PollRuns \/ CloseSettles \/ ForceExit \/ ReleaseAndExit \/ ReacquireFails
  BY <1>7 DEF PollRuns, CloseSettles, ForceExit, ReleaseAndExit, ReacquireFails,
              vars, waitVars
<1>8. CASE DrainEnds
  BY <1>8 DEF DrainEnds, vars, waitVars
<1>9. CASE RequestOver /\ request # "draining"
  BY <1>9 DEF RequestOver, Wake, ResetAllLanes, vars, waitVars
<1>10. CASE ReleaseForInProcess
  <2>1. CASE lock
    BY <1>10, <2>1 DEF ReleaseForInProcess, vars, waitVars
  <2>2. CASE ~lock
    BY <1>9, <1>10, <2>2 DEF ReleaseForInProcess
  <2> QED
    BY <2>1, <2>2
<1>11. CASE Reacquire
  BY <1>9, <1>11 DEF Reacquire
<1>12. CASE UNCHANGED allVars
  BY <1>12 DEF allVars, loopVars, vars, waitVars
<1> QED
  BY <1>1, <1>2, <1>3, <1>4, <1>5, <1>6, <1>7, <1>8, <1>10, <1>11, <1>12
     DEF LoopNext, RequestStep

\* Turns that held a slot when a restart came have ended by the time its server
\* closes, unless a wait timed out.
THEOREM RestartWaitsForTurns == LoopSpec => []InFlightTurnsFinish
<1>1. LoopInit => DrainInv
  BY DEF LoopInit, Init, DrainInv, InTeardown
<1>2. DrainInv /\ [LoopNext]_allVars => DrainInv'
  BY DrainInvStep
<1>3. IInv /\ DrainInv => InFlightTurnsFinish
  BY DEF IInv, DrainInv, InFlightTurnsFinish, DrainedMeansEnded
<1> QED
  BY <1>1, <1>2, <1>3, LoopKeepsQueueInvariant, PTL DEF LoopSpec

-----------------------------------------------------------------------------
(* The refusal of new work.                                                *)

\* Work is refused only while a restart is in progress whose resolver the loop
\* awaits; this is what an early signal breaks.
RefusalInv ==
  /\ loop \in {"starting", "awaiting", "exited"}
  /\ gatewayDraining => shuttingDown /\ loop # "starting"

\* RefusalInv is preserved if no signal arrives during a start.
LEMMA RefusalInvStep ==
  ASSUME "earlySignal" \notin Faults, RefusalInv, [LoopNext]_allVars
  PROVE  RefusalInv'
<1> USE DEF RefusalInv, Alive
<1>1. CASE Work
  <2>1. UNCHANGED <<loop, shuttingDown>>
    BY <1>1 DEF Work
  <2>2. UNCHANGED gatewayDraining
    BY <1>1 DEF Work, Enqueue, Refuse, Accept, Complete, CurrentCompletion,
                StaleCompletion, SetConcurrency, ClearLane, laneVars
  <2> QED
    BY <2>1, <2>2
<1>2. CASE \E c \in Calls : RegisterRun(c)
  BY <1>2 DEF RegisterRun, vars, laneVars
<1>3. CASE StartSucceeds \/ StartFails \/ StopSignal
  BY <1>3 DEF StartSucceeds, StartFails, StopSignal, vars, laneVars
<1>4. CASE RestartSignal
  BY <1>4 DEF RestartSignal
<1>5. CASE PollTasks
  BY <1>5 DEF PollTasks, WaitDrained, WaitTimeout, loopVars, laneVars
<1>6. CASE PollRuns \/ DrainEnds \/ CloseSettles
  BY <1>6 DEF PollRuns, DrainEnds, CloseSettles, vars, laneVars
<1>7. CASE ForceExit \/ ReleaseAndExit \/ ReacquireFails
  <2>1. loop' = "exited" /\ UNCHANGED <<gatewayDraining, shuttingDown>>
    BY <1>7 DEF ForceExit, ReleaseAndExit, ReacquireFails, vars, laneVars
  <2> QED
    BY <2>1
<1>8. CASE RequestOver /\ loop # "exited"
  BY <1>8 DEF RequestOver, Wake, ResetAllLanes, vars, laneVars
<1>9. CASE ReleaseForInProcess
  <2>1. CASE lock
    BY <1>9, <2>1 DEF ReleaseForInProcess, vars, laneVars
  <2>2. CASE ~lock
    BY <1>8, <1>9, <2>2 DEF ReleaseForInProcess
  <2> QED
    BY <2>1, <2>2
<1>10. CASE Reacquire
  BY <1>8, <1>10 DEF Reacquire
<1>11. CASE UNCHANGED allVars
  BY <1>11 DEF allVars, loopVars, vars, laneVars
<1> QED
  BY <1>1, <1>2, <1>3, <1>4, <1>5, <1>6, <1>7, <1>9, <1>10, <1>11
     DEF LoopNext, RequestStep

\* If no signal arrives during a start, a gateway that serves outside of a stop
\* or restart accepts work, whatever starts and closes fail.
THEOREM RestartedGatewayAcceptsWork ==
  "earlySignal" \notin Faults => (LoopSpec => []ServingAcceptsWork)
<1> SUFFICES ASSUME "earlySignal" \notin Faults
             PROVE  LoopSpec => []ServingAcceptsWork
  OBVIOUS
<1>1. LoopInit => RefusalInv
  BY DEF LoopInit, Init, RefusalInv
<1>2. RefusalInv /\ [LoopNext]_allVars => RefusalInv'
  BY RefusalInvStep
<1>3. RefusalInv => ServingAcceptsWork
  BY DEF RefusalInv, ServingAcceptsWork
<1> QED
  BY <1>1, <1>2, <1>3, PTL DEF LoopSpec

-----------------------------------------------------------------------------
(* The server and the lock.                                                *)

\* Where the loop, the request and the server can be together.
Together ==
  /\ shuttingDown <=> request # "none"
  /\ request = "reacquiring" => isRestart
  /\ Alive /\ request = "closing" => server
  /\ Alive /\ isRestart /\ shuttingDown => loop = "awaiting"
  /\ Alive /\ isRestart /\ request \in {"releasing", "reacquiring"} => ~server

\* The server the loop refers to listens, and no other does unless a close has
\* failed; while the loop starts one it refers to none.
OneServer ==
  /\ Alive /\ server => listening = 1 /\ loop = "awaiting"
  /\ Alive /\ listening = 1 => server \/ "closeFails" \in errors

\* The lock is given up by a failed start or on the way to taking it again.
LockKept == Alive /\ ~lock => request = "reacquiring" \/ "startFails" \in errors

ServerInv == LoopState /\ Together /\ OneServer /\ LockKept

\* ServerInv is preserved if no signal arrives during a start.
LEMMA ServerInvStep ==
  ASSUME "earlySignal" \notin Faults, ServerInv, [LoopNext]_allVars
  PROVE  ServerInv'
<1> USE DEF ServerInv, LoopState, Together, OneServer, LockKept, Alive, AfterDrain
<1>1. CASE Work
  <2>1. embedded' \subseteq Calls
    BY <1>1 DEF Work
  <2> QED
    BY <1>1, <2>1 DEF Work
<1>2. CASE \E c \in Calls : RegisterRun(c)
  BY <1>2 DEF RegisterRun
<1>3. CASE StartSucceeds
  <2>1. LoopState'
    <3>1. listening' \in 0 .. 1
      BY <1>3 DEF StartSucceeds
    <3> QED
      BY <1>3, <3>1, Zenon DEF StartSucceeds
  <2>2. (Together /\ OneServer /\ LockKept)'
    BY <1>3 DEF StartSucceeds
  <2> QED
    BY <2>1, <2>2
<1>4. CASE StartFails
  BY <1>4 DEF StartFails, FaultKinds
<1>5. CASE StopSignal
  BY <1>5 DEF StopSignal
<1>6. CASE RestartSignal
  BY <1>6 DEF RestartSignal
<1>7. CASE PollTasks
  BY <1>7 DEF PollTasks, loopVars
<1>8. CASE PollRuns
  BY <1>8 DEF PollRuns
<1>9. CASE DrainEnds
  BY <1>9 DEF DrainEnds
<1>10. CASE CloseSettles
  <2>1. listening = 1 /\ listening' \in 0 .. 1
    BY <1>10 DEF CloseSettles
  <2>2. errors' \subseteq FaultKinds /\ errors \subseteq errors'
    BY <1>10 DEF CloseSettles, FaultKinds
  <2>3. LoopState'
    BY <1>10, <2>1, <2>2 DEF CloseSettles
  <2>4. (Together /\ OneServer /\ LockKept)'
    BY <1>10, <2>1, <2>2 DEF CloseSettles
  <2> QED
    BY <2>3, <2>4
<1>11. CASE ForceExit \/ ReleaseAndExit
  <2>1. /\ loop' = "exited" /\ lock' = FALSE /\ listening' = 0
        /\ UNCHANGED <<firstStart, server, shuttingDown, request, isRestart,
                       embedded, runsWait, report, errors>>
    BY <1>11 DEF ForceExit, ReleaseAndExit
  <2>2. LoopState'
    <3>1. listening' \in 0 .. 1
      BY <2>1
    <3> QED
      BY <2>1, <3>1, Zenon
  <2>3. (Together /\ OneServer /\ LockKept)'
    BY <2>1
  <2> QED
    BY <2>2, <2>3
<1>12. CASE ReleaseForInProcess
  BY <1>12 DEF ReleaseForInProcess, RequestOver, Wake
<1>13. CASE Reacquire
  <2>1. loop' \in {"starting", "awaiting", "exited"} /\ listening' \in 0 .. 1
    BY <1>13 DEF Reacquire, RequestOver, Wake
  <2>2. LoopState'
    BY <1>13, <2>1, Zenon DEF Reacquire, RequestOver
  <2>3. (Together /\ OneServer /\ LockKept)'
    BY <1>13 DEF Reacquire, RequestOver, Wake
  <2> QED
    BY <2>2, <2>3
<1>14. CASE ReacquireFails
  <2>1. LoopState'
    BY <1>14 DEF ReacquireFails
  <2>2. (Together /\ OneServer /\ LockKept)'
    BY <1>14 DEF ReacquireFails
  <2> QED
    BY <2>1, <2>2
<1>15. CASE UNCHANGED allVars
  BY <1>15 DEF allVars, loopVars
<1> QED
  BY <1>1, <1>2, <1>3, <1>4, <1>5, <1>6, <1>7, <1>8, <1>9, <1>10, <1>11, <1>12,
     <1>13, <1>14, <1>15
     DEF LoopNext, RequestStep

\* The invariant of the server and the lock holds if no signal arrives during a
\* start.
THEOREM ServerInvariance == "earlySignal" \notin Faults => (LoopSpec => []ServerInv)
<1> SUFFICES ASSUME "earlySignal" \notin Faults
             PROVE  LoopSpec => []ServerInv
  OBVIOUS
<1>1. LoopInit => ServerInv
  <2> SUFFICES ASSUME LoopInit PROVE ServerInv
    OBVIOUS
  <2>1. LoopState
    <3>1. listening \in 0 .. 1
      BY DEF LoopInit
    <3> QED
      BY <3>1, Zenon DEF LoopInit, LoopState
  <2>2. Together /\ OneServer /\ LockKept
    BY DEF LoopInit, Together, OneServer, LockKept, Alive
  <2> QED
    BY <2>1, <2>2 DEF ServerInv
<1>2. ServerInv /\ [LoopNext]_allVars => ServerInv'
  BY ServerInvStep
<1> QED
  BY <1>1, <1>2, PTL DEF LoopSpec

\* Every variable of the loop and of the queue under it has its type.
THEOREM LoopTypeCorrect == "earlySignal" \notin Faults => (LoopSpec => []LoopTypeOK)
<1>1. IInv /\ ServerInv => LoopTypeOK
  BY DEF IInv, ServerInv, LoopTypeOK
<1> QED
  BY <1>1, ServerInvariance, LoopKeepsQueueInvariant, PTL

\* Between requests no server listens that the loop cannot close, unless a close
\* has failed.
THEOREM ServersAreReachable == "earlySignal" \notin Faults => (LoopSpec => []NoOrphanServer)
<1>1. ServerInv => NoOrphanServer
  BY DEF ServerInv, OneServer, NoOrphanServer
<1> QED
  BY <1>1, ServerInvariance, PTL

\* A gateway that serves outside of a request holds the gateway lock, unless a
\* start has failed.
THEOREM ServingHoldsTheLock == "earlySignal" \notin Faults => (LoopSpec => []LockWhileServing)
<1>1. ServerInv => LockWhileServing
  BY DEF ServerInv, Together, LockKept, LockWhileServing
<1> QED
  BY <1>1, ServerInvariance, PTL

=============================================================================
