--------------------------- MODULE GatewayRestart ---------------------------
(***************************************************************************)
(* What asks the gateway to restart, and when it does (infra/restart.ts,   *)
(* gateway/server-reload-handlers.ts, the SIGUSR1 handler and the restart  *)
(* of cli/gateway-cli/run-loop.ts), with the replies it waits for.         *)
(*                                                                         *)
(* The state of infra/restart.ts belongs to the process and survives its   *)
(* servers.  An authorised signal is emitted, authorised and consumed in   *)
(* one handler, so its token and authorisation are never seen in between.  *)
(* Times are counted down in ticks of the clock.  A restart is taken       *)
(* within the process; GatewayRunLoop has the rest of the process loop.    *)
(***************************************************************************)
EXTENDS ReplyDispatcher

CONSTANTS Cooldown,    \* RESTART_COOLDOWN_MS
          Delays,      \* values of delayMs
          MaxWait,     \* the longest wait of a poll for an idle gateway
          MaxPolls     \* bound: polls under way at a time

ASSUME TimesAssumption ==
  Cooldown \in Nat /\ Delays \subseteq Nat /\ MaxWait \in Nat /\ MaxPolls \in Nat \ {0}

Polls == 1 .. MaxPolls

None == -1

VARIABLES
  loop,           \* "starting" (in params.start()) or "awaiting" the resolver
  server,         \* a server is up
  request,        \* the restart in progress: "none", "draining", "closing"
  checked,        \* preRestartCheck is set
  busy,           \* there are operations in the lanes or embedded runs
  cooldown,       \* what is left of the cooldown of the last emission
  timer,          \* what is left until pendingRestartTimer fires, or None
  poll,           \* poll[p]: the age of a poll of deferGatewayRestartUntilIdle, or None
  restartQueued,  \* the configuration watcher of this server has asked
  owed,           \* history: a restart was asked for, and no start has begun since
  early,          \* history: a signal was emitted during a start
  cause           \* history: what the last emission was due to

loopVars == <<loop, server, request, checked, busy>>
restartVars == <<cooldown, timer, poll, restartQueued>>
history == <<owed, early, cause>>
vars == <<replyVars, loopVars, restartVars, history>>

Init ==
  /\ RepliesInit
  /\ loop = "starting" /\ server = FALSE /\ request = "none"
  /\ checked = FALSE /\ busy = FALSE
  /\ cooldown = 0 /\ timer = None
  /\ poll = [p \in Polls |-> None]
  /\ restartQueued = FALSE
  /\ owed = FALSE /\ early = FALSE /\ cause = "none"

\* getActiveCounts().totalActive <= 0, and the same of preRestartCheck.
Idle == ~busy /\ ~RepliesPending

-----------------------------------------------------------------------------
(* emitGatewayRestart, with the handler of the signal: a restart begins,   *)
(* unless one is in progress.                                              *)
Emit(why) ==
  /\ timer' = None
  /\ cooldown' = Cooldown
  /\ request' = IF request = "none" THEN "draining" ELSE request
  /\ early' = (early \/ (request = "none" /\ loop = "starting"))
  /\ cause' = why

\* deferGatewayRestartUntilIdle, called with nothing pending or not.
EmitOrPoll ==
  \/ /\ Idle
     /\ Emit("idle")
     /\ UNCHANGED poll
  \/ /\ ~Idle
     /\ \E p \in Polls :
          /\ poll[p] = None /\ \A q \in Polls : q < p => poll[q] # None
          /\ poll' = [poll EXCEPT ![p] = 0]
     /\ timer' = None
     /\ UNCHANGED <<cooldown, request, early, cause>>

NeverExpired(p) == FALSE
Expired(p) == poll[p] = MaxWait

\* The interval of a poll: it ends in an emission when the gateway is idle or
\* when the wait has been long enough.
PollEnds(p) ==
  /\ poll[p] # None
  /\ Idle \/ Expired(p)
  /\ poll' = [poll EXCEPT ![p] = None]
  /\ Emit(IF Idle THEN "idle" ELSE "timeout")
  /\ UNCHANGED <<replyVars, loop, server, checked, busy, restartQueued, owed>>

(* scheduleGatewaySigusr1Restart: the cooldown is added, and an earlier    *)
(* restart that is scheduled stays.                                        *)
Schedule(delay) ==
  /\ timer' = IF timer = None \/ delay + cooldown < timer THEN delay + cooldown ELSE timer
  /\ owed' = TRUE

\* A client changes the configuration, updates the gateway or asks for a restart.
ClientAsks(delay) ==
  /\ server
  /\ Schedule(delay)
  /\ UNCHANGED <<replyVars, loopVars, cooldown, poll, restartQueued, early, cause>>

\* A SIGUSR1 that is not authorised, with commands.restart; ignored in a shutdown.
ExternalSignal ==
  /\ request = "none"
  /\ Schedule(0)
  /\ UNCHANGED <<replyVars, loopVars, cooldown, poll, restartQueued, early, cause>>

TimerFires ==
  /\ timer = 0
  /\ IF checked
     THEN EmitOrPoll
     ELSE Emit("unchecked") /\ UNCHANGED poll
  /\ UNCHANGED <<replyVars, loop, server, checked, busy, restartQueued, owed>>

\* requestGatewayRestart, once for a server.
WatcherAsks ==
  /\ server /\ ~restartQueued
  /\ restartQueued' = TRUE
  /\ owed' = TRUE
  /\ \/ /\ Idle
        /\ Emit("idle")
        /\ UNCHANGED poll
     \/ /\ ~Idle
        /\ \E p \in Polls :
             /\ poll[p] = None /\ \A q \in Polls : q < p => poll[q] # None
             /\ poll' = [poll EXCEPT ![p] = 0]
        /\ UNCHANGED <<timer, cooldown, request, early, cause>>
  /\ UNCHANGED <<replyVars, loop, server, checked, busy>>

Less(time) == IF time > 0 THEN time - 1 ELSE time

Tick ==
  /\ cooldown' = Less(cooldown)
  /\ timer' = Less(timer)
  /\ poll' = [p \in Polls |-> IF poll[p] \in 0 .. MaxWait - 1 THEN poll[p] + 1 ELSE poll[p]]
  /\ UNCHANGED <<replyVars, loopVars, restartQueued, history>>

-----------------------------------------------------------------------------
(* The process loop.                                                       *)

\* Active work has ended, or the drain has timed out.
DrainEnds ==
  /\ request = "draining"
  /\ request' = "closing"
  /\ UNCHANGED <<replyVars, loop, server, checked, busy, restartVars, history>>

\* The server is closed and the loop is woken, if it awaits that.
CloseEnds ==
  /\ request = "closing"
  /\ request' = "none"
  /\ server' = FALSE
  /\ IF loop = "awaiting"
     THEN loop' = "starting" /\ owed' = FALSE
     ELSE UNCHANGED <<loop, owed>>
  /\ UNCHANGED <<replyVars, checked, busy, restartVars, early, cause>>

\* The new server has a watcher of its own.
StartEnds ==
  /\ loop = "starting"
  /\ loop' = "awaiting"
  /\ server' = TRUE /\ checked' = TRUE /\ restartQueued' = FALSE
  /\ UNCHANGED <<replyVars, request, busy, cooldown, timer, poll, history>>

\* Work in the lanes comes, while it is not refused, and ends.
Work ==
  /\ busy \/ (server /\ request = "none")
  /\ busy' = ~busy
  /\ UNCHANGED <<replyVars, loop, server, request, checked, restartVars, history>>

\* A message comes in and is answered.
Answer(d) ==
  /\ (server /\ Create(d)) \/ Reply(d)
  /\ UNCHANGED <<loopVars, restartVars, history>>

Next ==
  \/ \E delay \in Delays : ClientAsks(delay)
  \/ ExternalSignal
  \/ WatcherAsks
  \/ TimerFires
  \/ \E p \in Polls : PollEnds(p)
  \/ Tick
  \/ DrainEnds \/ CloseEnds \/ StartEnds
  \/ Work
  \/ \E d \in Dispatchers : Answer(d)

Spec == Init /\ [][Next]_vars

(* Time passes and timers fire; a drain has a deadline, and a close and a  *)
(* start end.  No run, delivery or operation has to end.                   *)
Fairness ==
  /\ WF_vars(Tick) /\ WF_vars(TimerFires)
  /\ \A p \in Polls : WF_vars(PollEnds(p))
  /\ WF_vars(DrainEnds) /\ WF_vars(CloseEnds) /\ WF_vars(StartEnds)

FairSpec == Spec /\ Fairness

-----------------------------------------------------------------------------
(* Properties                                                              *)

RestartState ==
  /\ loop \in {"starting", "awaiting"} /\ request \in {"none", "draining", "closing"}
  /\ server \in BOOLEAN /\ checked \in BOOLEAN /\ busy \in BOOLEAN
  /\ restartQueued \in BOOLEAN /\ owed \in BOOLEAN /\ early \in BOOLEAN
  /\ cooldown \in 0 .. Cooldown
  /\ timer \in Int /\ timer >= None
  /\ poll \in [Polls -> None .. MaxWait]
  /\ cause \in {"none", "idle", "timeout", "unchecked"}

\* Types, and the count that each dispatcher keeps.
RestartTypeOK == RepliesTypeOK /\ RestartState

\* A restart for which the gateway was found idle interrupts no answer: no run
\* may still reply, and no reply waits in a chain, however the count was reached.
RepliesFirst ==
  [][request = "none" /\ request' = "draining" /\ cause' = "idle"
       => \A d \in Dispatchers : run[d] # "running" /\ chain[d] = 0]_vars

\* Whoever asks, a server start that begins after the request follows, although
\* requests are coalesced, timers are dropped by an emission, emissions are ignored
\* during a restart, and work may never end; unless a signal met a start.
RequestsServed == owed ~> (~owed \/ early)

=============================================================================
