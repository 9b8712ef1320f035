----------------------------- MODULE AgentTurns -----------------------------
(***************************************************************************)
(* Agent turns on the lanes of the command queue                           *)
(* (agents/pi-embedded-runner/run.ts, agents/lanes.ts,                     *)
(* agents/pi-embedded-runner/lanes.ts, cron/service/ops.ts,                *)
(* gateway/server-lanes.ts), through restarts of the gateway.              *)
(*                                                                         *)
(* A turn is a chain of calls: the task of each enqueues the next, on      *)
(* another lane, and awaits it; the last one's task is the run of the      *)
(* model.  A run may ask a turn of another session and wait for a while.   *)
(* A task of a session's lane enqueues in the handler that starts it, and  *)
(* goes on before any other event when its call has settled; a cron job    *)
(* awaits other things as well.                                            *)
(***************************************************************************)
EXTENDS CommandLanes

CONSTANTS Sessions,                     \* sessions, which name their lanes
          Main, Subagent, Nested, Cron, \* the global lanes
          Kinds,                        \* the entry points in use from outside
          ConfigLimits,                 \* configured limits of global lanes
          MaxTurns                      \* bound: turns made in a behaviour

ASSUME TurnLanesAssumption ==
  /\ Cardinality({Main, Subagent, Nested, Cron}) = 4
  /\ Sessions # {} /\ {Main, Subagent, Nested, Cron} \cap Sessions = {}
  /\ Lanes = Sessions \cup {Main, Subagent, Nested, Cron}
\* A chain has at most three calls.
ASSUME MaxTurnsAssumption == MaxTurns \in Nat /\ MaxCalls >= 3 * MaxTurns

Turns == 1 .. MaxTurns

VARIABLES
  nextTurn,  \* the number of the next turn
  kind,      \* kind[t]: which entry point made turn t
  session,   \* session[t]: the session turn t belongs to
  turnOf,    \* turnOf[c]: the turn call c is made for, 0 if it is not made
  depth,     \* depth[c]: the place of call c in its chain
  inner,     \* inner[c]: the call that the task of call c awaits, or 0
  asked,     \* asked[t]: the turn that the run of turn t waits for, or 0
  overran    \* history: a restart reset the lanes after its drain timed out

turnVars == <<nextTurn, kind, session, turnOf, depth, inner, asked>>
allVars == <<vars, turnVars, overran>>

-----------------------------------------------------------------------------
(* The lanes of a turn.                                                    *)

resolveGlobalLane(lane) == IF lane = Cron THEN Nested ELSE lane

resolveNestedAgentLane(lane) == IF lane = Cron THEN Nested ELSE lane

\* The lane a turn is asked to run on, as its entry point names it.
LaneParam == [plain |-> Main, subagent |-> Subagent, nested |-> Nested, cron |-> Cron]

ASSUME ConfigLimitsAssumption == ConfigLimits \in [{Main, Subagent, Cron} -> Int]
ASSUME KindsAssumption == Kinds \subseteq DOMAIN LaneParam

LaneAsNamed(k) == LaneParam[k]

\* The lane of the last call.
GlobalLane(k) ==
  resolveGlobalLane(IF k = "cron" THEN resolveNestedAgentLane(LaneParam[k]) ELSE LaneParam[k])

\* A cron job that is run by hand holds a slot of the cron lane meanwhile.
Route(k, s) == (IF k = "cron" THEN <<Cron>> ELSE <<>>) \o <<s, GlobalLane(k)>>

RouteOf(c) == Route(kind[turnOf[c]], session[turnOf[c]])

\* Bound: sessions are alike, so the first turn is made for a fixed one.
FirstSession == CHOOSE s \in Sessions : TRUE

\* The limits; the nested lane and the sessions' keep theirs of one.
Configured ==
  [l \in Lanes |-> IF l \in DOMAIN ConfigLimits THEN ClampLimit(ConfigLimits[l]) ELSE 1]

-----------------------------------------------------------------------------
TurnsInit ==
  /\ Init
  /\ nextTurn = 1
  /\ kind = [t \in Turns |-> "nested"]
  /\ session = [t \in Turns |-> FirstSession]
  /\ turnOf = [c \in Calls |-> 0]
  /\ depth = [c \in Calls |-> 0]
  /\ inner = [c \in Calls |-> 0]
  /\ asked = [t \in Turns |-> 0]
  /\ overran = FALSE

\* The task of c has started and not made its call, or its call has settled.
Starts(c) == c \in running /\ inner[c] = 0
Settled(c) == c \in running /\ inner[c] # 0 /\ outcome[inner[c]] # "pending"

\* A task of a session's lane has to go on at once.
MustDescend(c) == Starts(c) /\ laneOf[c] \in Sessions
MustReturn(c) == Settled(c) /\ laneOf[c] \in Sessions

\* Nothing is left of the last handler and its continuations.
Quiet == \A c \in running : ~MustDescend(c) /\ ~MustReturn(c)

\* Calls whose task is the run of a model.
AtWork == {c \in running : depth[c] = Len(RouteOf(c))}

\* A job holds its slot of the cron lane around a turn.
IsJob(c) == laneOf[c] = Cron /\ c \notin AtWork

-----------------------------------------------------------------------------
(* runEmbeddedPiAgent, and the manual run of a cron job around it.         *)

FirstCall(k, s) ==
  /\ nextTurn \in Turns
  /\ nextTurn' = nextTurn + 1
  /\ kind' = [kind EXCEPT ![nextTurn] = k]
  /\ session' = [session EXCEPT ![nextTurn] = s]
  /\ turnOf' = [turnOf EXCEPT ![nextCall] = nextTurn]
  /\ depth' = [depth EXCEPT ![nextCall] = 1]
  /\ Enqueue(Route(k, s)[1])
  /\ UNCHANGED <<inner, overran>>

MakeTurn(k, s) ==
  /\ nextTurn \in Turns /\ Quiet
  /\ maxConcurrent = Configured
  /\ nextTurn = 1 => s = FirstSession
  /\ FirstCall(k, s)
  /\ UNCHANGED asked

DescendInSession(c) ==
  /\ Starts(c)
  /\ laneOf[c] \in Sessions \/ (IsJob(c) /\ Quiet)
  /\ inner' = [inner EXCEPT ![c] = nextCall]
  /\ turnOf' = [turnOf EXCEPT ![nextCall] = turnOf[c]]
  /\ depth' = [depth EXCEPT ![nextCall] = depth[c] + 1]
  /\ Enqueue(session[turnOf[c]])
  /\ UNCHANGED <<nextTurn, kind, session, asked, overran>>

\* The next call is accepted, or refused when the gateway drains by now.
Descend(c) ==
  /\ Starts(c)
  /\ laneOf[c] \in Sessions \/ (IsJob(c) /\ Quiet)
  /\ inner' = [inner EXCEPT ![c] = nextCall]
  /\ turnOf' = [turnOf EXCEPT ![nextCall] = turnOf[c]]
  /\ depth' = [depth EXCEPT ![nextCall] = depth[c] + 1]
  /\ Enqueue(RouteOf(c)[depth[c] + 1])
  /\ UNCHANGED <<nextTurn, kind, session, asked, overran>>

\* The task of c has no more to do than the call it awaited.
Return(c) ==
  /\ Settled(c)
  /\ IF IsJob(c) THEN Quiet ELSE \A d \in running : ~MustDescend(d)
  /\ Complete(c, IF outcome[inner[c]] = "resolved" THEN "resolved" ELSE "rejected")
  /\ UNCHANGED <<turnVars, overran>>

\* A job that is not due any more, or that needs no turn.
JobEnds(c) ==
  /\ Starts(c) /\ IsJob(c) /\ Quiet
  /\ Complete(c, "resolved")
  /\ UNCHANGED <<turnVars, overran>>

\* The run ends; what it returns makes no difference to the lanes.
RunEnds(c) ==
  /\ c \in AtWork /\ asked[turnOf[c]] = 0 /\ Quiet
  /\ Complete(c, "resolved")
  /\ UNCHANGED <<turnVars, overran>>

Task(c) == Descend(c) \/ Return(c) \/ JobEnds(c) \/ RunEnds(c)

\* sessions_send: a turn on the nested lane, awaited until it ends or for as
\* long as the tool was told.
Ask(c, s) ==
  /\ c \in AtWork /\ asked[turnOf[c]] = 0 /\ Quiet
  /\ asked' = [asked EXCEPT ![turnOf[c]] = nextTurn]
  /\ FirstCall("nested", s)

AskEnds(t) ==
  /\ asked[t] # 0 /\ Quiet
  /\ asked' = [asked EXCEPT ![t] = 0]
  /\ UNCHANGED <<vars, nextTurn, kind, session, turnOf, depth, inner, overran>>

\* applyGatewayLaneConcurrency, before the server takes a turn: no lane has
\* anything to pump.  A hot reload sets the limits again at any time; that is left
\* to CommandLanes, where limits change between any two steps.
Configure ==
  /\ nextTurn = 1 /\ maxConcurrent # Configured
  /\ maxConcurrent' = Configured
  /\ UNCHANGED <<queue, active, generation, gatewayDraining, callVars, waitVars>>
  /\ UNCHANGED <<turnVars, overran>>

\* clearSessionQueues: a user's stop drops the turns that wait.
ClearSession(s) ==
  /\ Quiet
  /\ ClearLane(s)
  /\ UNCHANGED <<turnVars, overran>>

-----------------------------------------------------------------------------
(* A restart: refuse new calls and wait for the active ones, then reset.   *)

WaitWithoutRefusing ==
  /\ WaitForActive
  /\ gatewayDraining' = gatewayDraining

DrainBegins ==
  /\ WaitForActive
  /\ gatewayDraining' = TRUE

Drainage ==
  /\ Quiet
  /\ maxConcurrent = Configured
  /\ \A l \in Lanes : generation[l] < MaxGeneration   \* bound
  /\ waiting = "idle"
  /\ DrainBegins
  /\ UNCHANGED <<turnVars, overran>>

Poll ==
  /\ Quiet
  /\ WaitDrained \/ WaitTimeout
  /\ UNCHANGED <<turnVars, overran>>

Reset ==
  /\ Quiet
  /\ waiting \in {"drained", "timedOut"}
  /\ overran' = (overran \/ waiting = "timedOut")
  /\ ResetAllLanes
  /\ UNCHANGED turnVars

TurnsNext ==
  \/ \E k \in Kinds, s \in Sessions : MakeTurn(k, s)
  \/ \E c \in Calls : Task(c)
  \/ \E c \in Calls, s \in Sessions : Ask(c, s)
  \/ \E t \in Turns : AskEnds(t)
  \/ Configure
  \/ \E s \in Sessions : ClearSession(s)
  \/ Drainage
  \/ Poll
  \/ Reset

TurnsSpec == TurnsInit /\ [][TurnsNext]_allVars

(* Tasks go on and runs end, an answer comes or the wait for it times   *)
(* out.  Nobody has to make, ask, clear, configure or restart.             *)
TurnsFairness ==
  /\ \A c \in Calls : WF_allVars(Task(c))
  /\ \A t \in Turns : WF_allVars(AskEnds(t))

FairTurnsSpec == TurnsSpec /\ TurnsFairness

-----------------------------------------------------------------------------
(* Properties                                                              *)

\* Types; a call is made for a turn, on the lane that its place in the route of
\* the turn says, and awaits the next call of the same turn.
TurnsTypeOK ==
  /\ TypeOK
  /\ nextTurn \in 1 .. MaxTurns + 1
  /\ kind \in [Turns -> DOMAIN LaneParam] /\ session \in [Turns -> Sessions]
  /\ asked \in [Turns -> 0 .. MaxTurns]
  /\ overran \in BOOLEAN
  /\ \A c \in 1 .. nextCall - 1 :
       /\ turnOf[c] \in 1 .. nextTurn - 1
       /\ depth[c] \in 1 .. Len(RouteOf(c))
       /\ laneOf[c] = RouteOf(c)[depth[c]]
       /\ inner[c] # 0 => turnOf[inner[c]] = turnOf[c] /\ depth[inner[c]] = depth[c] + 1

\* The transcript of a session has one writer: no two runs of its turns are at
\* work together, whichever lanes they came through and whatever restarts, unless
\* a restart went on over turns that outlived its drain.
OneTurnPerSession ==
  ~overran =>
    \A c, d \in AtWork : session[turnOf[c]] = session[turnOf[d]] => c = d

\* A drain that completes leaves no run at work, also none of the calls that were
\* queued when it began and have started since, whose next call was refused; unless
\* turns have outlived an earlier drain, which no later one waits for.
DrainedMeansIdle == ~overran /\ waiting = "drained" => AtWork = {}

UnderWay(t) == \E c \in Calls : turnOf[c] = t /\ outcome[c] = "pending"

\* Every turn comes to an end: no chain of calls, of a cron job around a turn or of
\* turns that ask each other, waits for a slot that it holds itself.
TurnsEnd == \A t \in Turns : UnderWay(t) ~> ~UnderWay(t)

=============================================================================
