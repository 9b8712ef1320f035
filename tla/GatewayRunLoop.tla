--------------------------- MODULE GatewayRunLoop ---------------------------
(***************************************************************************)
(* The gateway's process loop (cli/gateway-cli/run-loop.ts) driving the    *)
(* command queue through in-process restarts.                              *)
(*                                                                         *)
(* Two asynchronous activities of one process interleave: the loop, which  *)
(* starts a server and then awaits restartResolver, and the request made   *)
(* by a signal, which drains, closes the server, releases and re-acquires  *)
(* the gateway lock and then calls restartResolver.  A step of either ends *)
(* at an await.  SIGUSR1 stands for an authorised one: what authorises and *)
(* coalesces restart requests (infra/restart.ts) is left to its own model. *)
(***************************************************************************)
EXTENDS CommandLanes

CONSTANT Faults   \* what may go wrong, of FaultKinds

FaultKinds == {"startFails",   \* a start fails although the port is free
               "closeFails",   \* server.close() rejects before it frees the port
               "earlySignal"}  \* SIGUSR1 arrives while a start is in progress

ASSUME FaultsAssumption == Faults \subseteq FaultKinds

VARIABLES
  loop,          \* "starting", "awaiting" (restartResolver is current), "exited"
  firstStart,    \* no start has succeeded yet
  server,        \* the loop's reference to a server is set
  listening,     \* servers of this process that are started and not closed
  lock,          \* this process holds the gateway lock
  shuttingDown,  \* a stop or restart request is in progress
  request,       \* where that request is: "none", "draining", "closing",
                 \* "releasing" or "reacquiring"
  isRestart,     \* the request in progress is a restart
  embedded,      \* calls registered as active embedded runs
  runsWait,      \* waitForActiveEmbeddedRuns of the drain: "none", "waiting",
                 \* "drained" or "timedOut"
  report,        \* what the last drain reported: "none", "drained", "timedOut"
  errors         \* the faults that have occurred so far

loopVars == <<loop, firstStart, server, listening, lock, shuttingDown,
              request, isRestart, embedded, runsWait, report, errors>>
allVars == <<vars, loopVars>>

Alive == loop # "exited"

LoopInit ==
  /\ Init
  /\ loop = "starting"
  /\ firstStart = TRUE
  /\ server = FALSE
  /\ listening = 0
  /\ lock = TRUE
  /\ shuttingDown = FALSE
  /\ request = "none"
  /\ isRestart = FALSE
  /\ embedded = {}
  /\ runsWait = "none"
  /\ report = "none"
  /\ errors = {}

-----------------------------------------------------------------------------
(* Work: calls are made and end, lanes are cleared and configured; an agent *)
(* turn registers itself as an embedded run some time after its call has    *)
(* started, until it ends, replacing an older run of its session.           *)

Work ==
  /\ Alive
  /\ \/ \E l \in Lanes : Enqueue(l) /\ UNCHANGED embedded
     \/ \E c \in Calls, result \in Results :
           Complete(c, result) /\ embedded' = embedded \ {c}
     \/ \E l \in Lanes, raw \in RawLimits :
           SetConcurrency(l, raw) /\ UNCHANGED embedded
     \/ \E l \in Lanes : ClearLane(l) /\ UNCHANGED embedded
  /\ UNCHANGED <<loop, firstStart, server, listening, lock, shuttingDown,
                 request, isRestart, runsWait, report, errors>>

RegisterRun(c) ==
  /\ Alive
  /\ c \in running
  /\ embedded' = {d \in embedded : laneOf[d] # laneOf[c]} \cup {c}
  /\ UNCHANGED <<vars, loop, firstStart, server, listening, lock, shuttingDown,
                 request, isRestart, runsWait, report, errors>>

-----------------------------------------------------------------------------
(* The loop.                                                               *)

\* params.start() resolves.  The port is exclusive: a start succeeds only if
\* no server of this process still listens.
StartSucceeds ==
  /\ loop = "starting"
  /\ listening = 0
  /\ server' = TRUE
  /\ listening' = 1
  /\ firstStart' = FALSE
  /\ loop' = "awaiting"
  /\ UNCHANGED <<vars, lock, shuttingDown, request, isRestart, embedded,
                 runsWait, report, errors>>

\* params.start() rejects: fatal the first time, afterwards the lock is
\* released and the process stays alive.
StartFails ==
  /\ loop = "starting"
  /\ "startFails" \in Faults \/ listening > 0
  /\ loop' = IF firstStart THEN "exited" ELSE "awaiting"
  /\ server' = FALSE
  /\ lock' = FALSE
  /\ errors' = errors \cup {"startFails"}
  /\ UNCHANGED <<vars, firstStart, listening, shuttingDown, request, isRestart,
                 embedded, runsWait, report>>

-----------------------------------------------------------------------------
(* The request.                                                            *)

AfterDrainWithoutClose == "releasing"
AfterDrainAlwaysCloses == "closing"
\* await server?.close(): with no server there is nothing to await.
AfterDrain == IF server THEN "closing" ELSE "releasing"

\* SIGTERM or SIGINT.
StopSignal ==
  /\ Alive
  /\ ~shuttingDown
  /\ shuttingDown' = TRUE
  /\ isRestart' = FALSE
  /\ request' = AfterDrain
  /\ UNCHANGED <<vars, loop, firstStart, server, listening, lock, embedded,
                 runsWait, report, errors>>

\* An authorised SIGUSR1: refuse new work, then wait for what is active.
RestartSignal ==
  /\ Alive
  /\ ~shuttingDown
  /\ "earlySignal" \in Faults \/ loop # "starting"
  /\ \A l \in Lanes : generation[l] < MaxGeneration   \* bound
  /\ shuttingDown' = TRUE
  /\ isRestart' = TRUE
  /\ WaitForActive
  /\ gatewayDraining' = TRUE
  /\ runsWait' = IF embedded = {} THEN "drained" ELSE "waiting"
  /\ IF ActiveCalls = {} /\ embedded = {}
     THEN request' = AfterDrain /\ report' = "drained"
     ELSE request' = "draining" /\ report' = "none"
  /\ UNCHANGED <<loop, firstStart, server, listening, lock, embedded, errors>>

\* waitForActiveTasks polls, or its deadline passes.
PollTasks ==
  /\ Alive
  /\ request = "draining"
  /\ WaitDrained \/ WaitTimeout
  /\ UNCHANGED loopVars

\* So does waitForActiveEmbeddedRuns.
PollRuns ==
  /\ Alive
  /\ request = "draining"
  /\ runsWait = "waiting"
  /\ runsWait' = IF embedded = {} THEN "drained" ELSE "timedOut"
  /\ UNCHANGED <<vars, loop, firstStart, server, listening, lock, shuttingDown,
                 request, isRestart, embedded, report, errors>>

\* Both waits are over.  On a timeout the runs are told to abort, which they
\* do when they can.
DrainEndsAsDrained ==
  /\ Alive
  /\ request = "draining"
  /\ waiting # "waiting"
  /\ runsWait # "waiting"
  /\ report' = "drained"
  /\ request' = AfterDrain
  /\ UNCHANGED <<vars, loop, firstStart, server, listening, lock, shuttingDown,
                 isRestart, embedded, runsWait, errors>>

DrainEnds ==
  /\ Alive
  /\ request = "draining"
  /\ waiting # "waiting"
  /\ runsWait # "waiting"
  /\ report' = IF waiting = "drained" /\ runsWait = "drained"
               THEN "drained" ELSE "timedOut"
  /\ request' = AfterDrain
  /\ UNCHANGED <<vars, loop, firstStart, server, listening, lock, shuttingDown,
                 isRestart, embedded, runsWait, errors>>

\* server.close() settles; its error is logged and the request goes on.
CloseSettles ==
  /\ Alive
  /\ request = "closing"
  /\ \/ listening' = listening - 1 /\ UNCHANGED errors
     \/ /\ "closeFails" \in Faults
        /\ errors' = errors \cup {"closeFails"}
        /\ UNCHANGED listening
  /\ server' = FALSE
  /\ request' = "releasing"
  /\ UNCHANGED <<vars, loop, firstStart, lock, shuttingDown, isRestart, embedded,
                 runsWait, report>>

\* The watchdog: its delay exceeds the drain's deadline, and it is disarmed
\* when the close has settled.
ForceExit ==
  /\ Alive
  /\ request = "closing"
  /\ loop' = "exited"
  /\ lock' = FALSE
  /\ listening' = 0
  /\ UNCHANGED <<vars, firstStart, server, shuttingDown, request, isRestart,
                 embedded, runsWait, report, errors>>

\* restartResolver?.(): wakes the loop if it awaits, which resets the lanes and
\* starts again; a resolver from an earlier iteration does nothing.
WakeWithoutReset ==
  IF loop = "awaiting"
  THEN loop' = "starting" /\ UNCHANGED vars
  ELSE UNCHANGED <<vars, loop>>

Wake ==
  IF loop = "awaiting"
  THEN loop' = "starting" /\ ResetAllLanes
  ELSE UNCHANGED <<vars, loop>>

RequestOver ==
  /\ shuttingDown' = FALSE
  /\ request' = "none"
  /\ Wake

\* The lock is released; a stop, and a restart handed to a fresh process or to
\* a supervisor, then exits.
ReleaseAndExit ==
  /\ Alive
  /\ request = "releasing"
  /\ loop' = "exited"
  /\ lock' = FALSE
  /\ listening' = 0
  /\ UNCHANGED <<vars, firstStart, server, shuttingDown, request, isRestart,
                 embedded, runsWait, report, errors>>

\* No respawn is possible: the restart goes on in this process.
ReleaseWithoutReacquire ==
  /\ Alive
  /\ request = "releasing"
  /\ isRestart
  /\ lock' = FALSE
  /\ RequestOver
  /\ UNCHANGED <<firstStart, server, listening, isRestart, embedded, runsWait, report, errors>>

ReleaseForInProcess ==
  /\ Alive
  /\ request = "releasing"
  /\ isRestart
  /\ lock' = FALSE
  /\ IF lock
     THEN request' = "reacquiring" /\ UNCHANGED <<vars, shuttingDown, loop>>
     ELSE RequestOver
  /\ UNCHANGED <<firstStart, server, listening, isRestart, embedded, runsWait, report, errors>>

Reacquire ==
  /\ Alive
  /\ request = "reacquiring"
  /\ lock' = TRUE
  /\ RequestOver
  /\ UNCHANGED <<firstStart, server, listening, isRestart, embedded, runsWait, report, errors>>

\* Another gateway took the lock.
ReacquireFails ==
  /\ Alive
  /\ request = "reacquiring"
  /\ loop' = "exited"
  /\ listening' = 0
  /\ UNCHANGED <<vars, firstStart, server, lock, shuttingDown, request, isRestart,
                 embedded, runsWait, report, errors>>

RequestStep ==
  \/ PollTasks
  \/ PollRuns
  \/ DrainEnds
  \/ CloseSettles
  \/ ForceExit
  \/ ReleaseAndExit
  \/ ReleaseForInProcess
  \/ Reacquire
  \/ ReacquireFails

LoopNext ==
  \/ Work
  \/ \E c \in Calls : RegisterRun(c)
  \/ StartSucceeds
  \/ StartFails
  \/ StopSignal
  \/ RestartSignal
  \/ RequestStep

LoopSpec == LoopInit /\ [][LoopNext]_allVars

(* The waits of a request have deadlines, the close has the watchdog and   *)
(* the lock a timeout, so a request goes on.  Nothing else is promised:    *)
(* no signal comes, no call is made or ends, and a start may hang.         *)
FairLoopSpec == LoopSpec /\ WF_allVars(RequestStep)

-----------------------------------------------------------------------------
(* Properties                                                              *)

LoopState ==
  /\ loop \in {"starting", "awaiting", "exited"}
  /\ firstStart \in BOOLEAN
  /\ server \in BOOLEAN
  /\ listening \in 0 .. 1
  /\ lock \in BOOLEAN
  /\ shuttingDown \in BOOLEAN
  /\ request \in {"none", "draining", "closing", "releasing", "reacquiring"}
  /\ isRestart \in BOOLEAN
  /\ embedded \subseteq Calls
  /\ runsWait \in {"none", "waiting", "drained", "timedOut"}
  /\ report \in {"none", "drained", "timedOut"}
  /\ errors \subseteq FaultKinds

\* Every variable of the loop has its type, next to those of the queue.
LoopTypeOK == TypeOK /\ LoopState

\* A gateway that serves and is not being stopped or restarted accepts work:
\* the refusal a restart switched on does not outlive it.
ServingAcceptsWork == server /\ ~shuttingDown => ~gatewayDraining

\* Between requests a server listens only if the loop can close it, unless a
\* close has failed.
NoOrphanServer ==
  listening = 1 /\ Alive /\ ~shuttingDown => server \/ "closeFails" \in errors

\* A serving gateway holds the gateway lock, except while a request passes it on
\* and unless a start has failed.
LockWhileServing ==
  server /\ Alive /\ ~shuttingDown => lock \/ "startFails" \in errors

InTeardown ==
  Alive /\ isRestart /\ request \in {"closing", "releasing", "reacquiring"}

\* If a restart reports its work drained, every turn that held a slot when the
\* signal came has ended before the server is closed.
InFlightTurnsFinish ==
  InTeardown /\ report = "drained" => watched \cap running = {}

\* The refusal of new work ends: the process exits or its queue reopens.
DrainingEnds == gatewayDraining ~> (~gatewayDraining \/ loop = "exited")

\* Signals, restarts and exits only take steps of the command queue, which
\* therefore keeps all its properties under them.
QueueSteps == Spec

=============================================================================
