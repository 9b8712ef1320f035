---------------------------- MODULE CommandLanes ----------------------------
(***************************************************************************)
(* The in-process command queue of the gateway (process/command-queue.ts). *)
(*                                                                         *)
(* A lane is a FIFO of queued calls and a set of active calls.  Every      *)
(* handler runs to completion on the JavaScript event loop, so one action  *)
(* is one handler, the trailing pump of the lane included; a task's body   *)
(* is everything between its start and its Complete.  A call stands for    *)
(* its queue entry, its promise and the task id drawn when it starts.      *)
(***************************************************************************)
EXTENDS Integers, Sequences, FiniteSets

CONSTANTS Lanes,          \* the lanes ("main", "session:<key>", ...)
          RawLimits,      \* values passed to setCommandLaneConcurrency
          MaxCalls,       \* bound: calls made in a behaviour
          MaxGeneration   \* bound: resets of the lanes in a behaviour

ASSUME LanesAssumption == Lanes # {}
ASSUME RawLimitsAssumption == RawLimits \subseteq Int
ASSUME MaxCallsAssumption == MaxCalls \in Nat
ASSUME MaxGenerationAssumption == MaxGeneration \in Nat

Calls == 1 .. MaxCalls

VARIABLES
  queue,            \* queue[l]: accepted calls of lane l not started yet
  active,           \* active[l]: calls holding a slot of lane l
  maxConcurrent,    \* maxConcurrent[l]: slots of lane l
  generation,       \* generation[l]: lifecycle of lane l, bumped by a reset
  gatewayDraining,  \* new calls are refused
  nextCall,         \* the number of the next call
  laneOf,           \* laneOf[c]: the lane call c was made on
  startGen,         \* startGen[c]: generation of the lane when c was started
  running,          \* calls whose task body is executing
  outcome,          \* outcome[c]: what the caller's promise says
  watched,          \* the active calls waitForActiveTasks found at its start
  waiting           \* what the last waitForActiveTasks has reported

laneVars == <<queue, active, maxConcurrent, generation, gatewayDraining>>
callVars == <<nextCall, laneOf, startGen, running, outcome>>
waitVars == <<watched, waiting>>
vars == <<laneVars, callVars, waitVars>>

Limits == {n \in Nat : n >= 1}

Results == {"resolved", "rejected"}

Outcomes == {"new", "refused", "pending", "cleared"} \cup Results

Queued(l) == {queue[l][i] : i \in 1 .. Len(queue[l])}

ActiveCalls == UNION {active[l] : l \in Lanes}

-----------------------------------------------------------------------------
(* The pump: start queued calls, oldest first, while a slot is free.       *)

UnclampedLimit(raw) == raw
ClampLimit(raw) == IF raw < 1 THEN 1 ELSE raw

PumpEverything(q, a, limit) == Len(q)
\* How many queued calls the loop of the pump starts.
PumpCount(q, a, limit) ==
  LET free == limit - Cardinality(a)
  IN  IF free <= 0 THEN 0 ELSE IF free <= Len(q) THEN free ELSE Len(q)

Started(q, a, limit) == {q[i] : i \in 1 .. PumpCount(q, a, limit)}

RestOffByOne(q, a, limit) ==
  LET k == PumpCount(q, a, limit) IN SubSeq(q, IF k = 0 THEN 1 ELSE k, Len(q))

Rest(q, a, limit) == SubSeq(q, PumpCount(q, a, limit) + 1, Len(q))

\* drainLane(l) when its queue is q, its active calls a and its limit m;
\* the calls in done have just left the set of running ones.
Drain(l, q, a, m, done) ==
  /\ queue' = [queue EXCEPT ![l] = Rest(q, a, m)]
  /\ active' = [active EXCEPT ![l] = a \cup Started(q, a, m)]
  /\ running' = (running \ done) \cup Started(q, a, m)
  /\ startGen' = [c \in Calls |-> IF c \in Started(q, a, m)
                                  THEN generation[l] ELSE startGen[c]]

-----------------------------------------------------------------------------
Init ==
  /\ queue = [l \in Lanes |-> <<>>]
  /\ active = [l \in Lanes |-> {}]
  /\ maxConcurrent = [l \in Lanes |-> 1]
  /\ generation = [l \in Lanes |-> 0]
  /\ gatewayDraining = FALSE
  /\ nextCall = 1
  /\ laneOf = [c \in Calls |-> CHOOSE l \in Lanes : TRUE]
  /\ startGen = [c \in Calls |-> 0]
  /\ running = {}
  /\ outcome = [c \in Calls |-> "new"]
  /\ watched = {}
  /\ waiting = "idle"

-----------------------------------------------------------------------------
(* enqueueCommandInLane: refused while draining, else pushed and drained.  *)

Refuse(l) ==
  /\ nextCall \in Calls
  /\ gatewayDraining
  /\ nextCall' = nextCall + 1
  /\ laneOf' = [laneOf EXCEPT ![nextCall] = l]
  /\ outcome' = [outcome EXCEPT ![nextCall] = "refused"]
  /\ UNCHANGED <<laneVars, startGen, running, waitVars>>

Accept(l) ==
  /\ nextCall \in Calls
  /\ ~gatewayDraining
  /\ nextCall' = nextCall + 1
  /\ laneOf' = [laneOf EXCEPT ![nextCall] = l]
  /\ outcome' = [outcome EXCEPT ![nextCall] = "pending"]
  /\ Drain(l, Append(queue[l], nextCall), active[l], maxConcurrent[l], {})
  /\ UNCHANGED <<maxConcurrent, generation, gatewayDraining, waitVars>>

Enqueue(l) == Refuse(l) \/ Accept(l)

(* The task body of call c ends.  A completion of the lane's current       *)
(* generation frees the slot and pumps; a stale one, of a task that was    *)
(* running across a reset, only settles its promise.                       *)

CompletionWithoutPump(c, result) ==
  LET l == laneOf[c]
  IN  /\ c \in running
      /\ startGen[c] = generation[l]
      /\ outcome' = [outcome EXCEPT ![c] = result]
      /\ active' = [active EXCEPT ![l] = @ \ {c}]
      /\ running' = running \ {c}
      /\ UNCHANGED <<queue, startGen, maxConcurrent, generation,
                     gatewayDraining, nextCall, laneOf, waitVars>>

CurrentCompletion(c, result) ==
  LET l == laneOf[c]
  IN  /\ c \in running
      /\ startGen[c] = generation[l]
      /\ outcome' = [outcome EXCEPT ![c] = result]
      /\ Drain(l, queue[l], active[l] \ {c}, maxConcurrent[l], {c})
      /\ UNCHANGED <<maxConcurrent, generation, gatewayDraining,
                     nextCall, laneOf, waitVars>>

StaleCompletion(c, result) ==
  /\ c \in running
  /\ startGen[c] # generation[laneOf[c]]
  /\ outcome' = [outcome EXCEPT ![c] = result]
  /\ running' = running \ {c}
  /\ UNCHANGED <<laneVars, nextCall, laneOf, startGen, waitVars>>

Complete(c, result) == CurrentCompletion(c, result) \/ StaleCompletion(c, result)

(* setCommandLaneConcurrency: clamp, store and drain.                      *)
SetConcurrency(l, raw) ==
  /\ maxConcurrent' = [maxConcurrent EXCEPT ![l] = ClampLimit(raw)]
  /\ Drain(l, queue[l], active[l], ClampLimit(raw), {})
  /\ UNCHANGED <<generation, gatewayDraining, nextCall, laneOf, outcome, waitVars>>

(* clearCommandLane: drop what waits, rejecting every dropped promise.     *)
ClearRejectsHeadOnly(l) ==
  /\ queue' = [queue EXCEPT ![l] = <<>>]
  /\ outcome' = [c \in Calls |-> IF queue[l] # <<>> /\ c = Head(queue[l])
                                 THEN "cleared" ELSE outcome[c]]
  /\ UNCHANGED <<active, maxConcurrent, generation, gatewayDraining,
                 nextCall, laneOf, startGen, running, waitVars>>

ClearLane(l) ==
  /\ queue' = [queue EXCEPT ![l] = <<>>]
  /\ outcome' = [c \in Calls |-> IF c \in Queued(l) THEN "cleared" ELSE outcome[c]]
  /\ UNCHANGED <<active, maxConcurrent, generation, gatewayDraining,
                 nextCall, laneOf, startGen, running, waitVars>>

(* markGatewayDraining.                                                    *)
MarkDraining ==
  /\ gatewayDraining' = TRUE
  /\ UNCHANGED <<queue, active, maxConcurrent, generation, callVars, waitVars>>

(* resetAllLanes: forget the active calls, keep the queued ones and pump   *)
(* them.  Its one caller awaits waitForActiveTasks first, whose result is  *)
(* then forgotten.                                                         *)
LaneStarts(l) == Started(queue[l], {}, maxConcurrent[l])

ResetAllLanes ==
  /\ waiting # "waiting"
  /\ \A l \in Lanes : generation[l] < MaxGeneration
  /\ gatewayDraining' = FALSE
  /\ generation' = [l \in Lanes |-> generation[l] + 1]
  /\ active' = [l \in Lanes |-> LaneStarts(l)]
  /\ queue' = [l \in Lanes |-> Rest(queue[l], {}, maxConcurrent[l])]
  /\ running' = running \cup UNION {LaneStarts(l) : l \in Lanes}
  /\ startGen' = [c \in Calls |-> IF \E l \in Lanes : c \in LaneStarts(l)
                                  THEN generation[laneOf[c]] + 1
                                  ELSE startGen[c]]
  /\ watched' = {}
  /\ waiting' = "idle"
  /\ UNCHANGED <<maxConcurrent, nextCall, laneOf, outcome>>

(* waitForActiveTasks: a snapshot of the active calls, then a poll that    *)
(* reports once none of them holds a slot, or when the deadline passes.  A *)
(* restart marks the queue draining in the same handler.                   *)

StillWatched == watched \cap ActiveCalls # {}

WaitForActive ==
  /\ waiting # "waiting"
  /\ gatewayDraining' \in {gatewayDraining, TRUE}
  /\ watched' = ActiveCalls
  /\ waiting' = IF ActiveCalls = {} THEN "drained" ELSE "waiting"
  /\ UNCHANGED <<queue, active, maxConcurrent, generation, callVars>>

DrainedAtOnce ==
  /\ waiting = "waiting"
  /\ waiting' = "drained"
  /\ UNCHANGED <<laneVars, callVars, watched>>

WaitDrained ==
  /\ waiting = "waiting"
  /\ ~StillWatched
  /\ waiting' = "drained"
  /\ UNCHANGED <<laneVars, callVars, watched>>

WaitTimeout ==
  /\ waiting = "waiting"
  /\ StillWatched
  /\ waiting' = "timedOut"
  /\ UNCHANGED <<laneVars, callVars, watched>>

Next ==
  \/ \E l \in Lanes : Enqueue(l)
  \/ \E c \in Calls, result \in Results : Complete(c, result)
  \/ \E l \in Lanes, raw \in RawLimits : SetConcurrency(l, raw)
  \/ \E l \in Lanes : ClearLane(l)
  \/ MarkDraining
  \/ ResetAllLanes
  \/ WaitForActive
  \/ WaitDrained
  \/ WaitTimeout

Spec == Init /\ [][Next]_vars

(* Task bodies end, and the poll of waitForActiveTasks is a timer.  Nothing *)
(* else is promised: no caller has to enqueue, clear or reset.             *)
Fairness ==
  /\ \A c \in Calls : WF_vars(\E result \in Results : Complete(c, result))
  /\ WF_vars(WaitDrained \/ WaitTimeout)

FairSpec == Spec /\ Fairness

-----------------------------------------------------------------------------
(* Properties                                                              *)

\* Every variable has its type; task results are only given to real calls.
TypeOK ==
  /\ queue \in [Lanes -> Seq(Calls)]
  /\ active \in [Lanes -> SUBSET Calls]
  /\ maxConcurrent \in [Lanes -> Limits]
  /\ generation \in [Lanes -> Nat]
  /\ gatewayDraining \in BOOLEAN
  /\ nextCall \in 1 .. MaxCalls + 1
  /\ laneOf \in [Calls -> Lanes]
  /\ startGen \in [Calls -> Nat]
  /\ running \subseteq Calls
  /\ outcome \in [Calls -> Outcomes]
  /\ watched \subseteq Calls
  /\ waiting \in {"idle", "waiting", "drained", "timedOut"}

\* The pump is work-conserving: between handlers no lane has both a queued
\* call and a free slot, whatever enqueues, completions, limit changes and
\* resets came before.  A violation is a message that waits for nothing.
NoStrandedWork ==
  \A l \in Lanes : queue[l] # <<>> => Cardinality(active[l]) >= maxConcurrent[l]

\* A promise is pending exactly while its call is queued in its own lane, once,
\* or its task body runs: no accepted call is lost or left unsettled, neither
\* by a clear nor by a reset.
PendingAccounted ==
  /\ \A c \in Calls : outcome[c] = "pending" <=>
                        c \in running \/ c \in Queued(laneOf[c])
  /\ \A l \in Lanes : \A c \in Queued(l) : laneOf[c] = l /\ c \notin running

\* A lane's slots are held by exactly the running calls it started in its
\* current generation: a completion from before a reset frees no slot of the
\* new lifecycle, and no slot stays taken by a call that has ended.
SlotsAreCurrent ==
  \A l \in Lanes :
    active[l] = {c \in running : laneOf[c] = l /\ startGen[c] = generation[l]}

HasStarted(c) == c \in running \/ outcome[c] \in Results

\* Calls of one lane start in the order they were made, across resets and
\* changes of the limit: whatever still waits is younger than all that started.
StartedInOrder ==
  \A l \in Lanes, c, d \in Calls :
    /\ c \in Queued(l)
    /\ HasStarted(d)
    /\ laneOf[d] = l
    => d < c

\* When waitForActiveTasks reports "drained", every call it found active has
\* ended, although others may have started in their slots.
DrainedMeansEnded == waiting = "drained" => watched \cap running = {}

\* A step that gives a call a slot leaves its lane within the limit in force,
\* even when the limit was lowered while more calls were active.
StartsWithinLimit ==
  [][\A l \in Lanes :
       ~(active'[l] \subseteq active[l])
         => Cardinality(active'[l]) <= maxConcurrent'[l]]_vars

\* Every accepted call's promise settles once task bodies end, whatever is
\* cleared, reset or reconfigured meanwhile.
AcceptedSettles ==
  \A c \in Calls : outcome[c] = "pending" ~> outcome[c] # "pending"

Stage(c) ==
  IF outcome[c] # "pending" THEN outcome[c]
  ELSE IF c \in running THEN "executing" ELSE "waiting"

Contract == INSTANCE LaneContract WITH
              stage <- [c \in Calls |-> Stage(c)],
              lane <- laneOf

\* The queue keeps the contract its callers rely on: calls only move forward
\* and start in order within a lane.
ContractSpec == Contract!Spec

=============================================================================
