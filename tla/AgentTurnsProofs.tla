-------------------------- MODULE AgentTurnsProofs --------------------------
(* Theorems about agent turns, on top of those of the command queue: for     *)
(* every number of sessions, turns, calls and restarts and every configured  *)
(* limit of the global lanes.                                                *)
EXTENDS AgentTurns, CommandLanesProofs

-----------------------------------------------------------------------------
(* The lanes and the routes                                                *)

\* The cron lane is none of the other global lanes.
LEMMA CronLaneIsApart == Cron \notin {Main, Subagent, Nested}
<1> SUFFICES ASSUME Cron \in {Main, Subagent, Nested} PROVE FALSE
  OBVIOUS
<1>1. {Main, Subagent, Nested, Cron} = (({} \cup {Main}) \cup {Subagent}) \cup {Nested}
  OBVIOUS
<1>2. IsFiniteSet({}) /\ Cardinality({}) = 0
  BY FS_EmptySet
<1> DEFINE A == {} \cup {Main}
           B == A \cup {Subagent}
           C == B \cup {Nested}
<1>3. IsFiniteSet(A) /\ Cardinality(A) \in 0 .. 1
  BY <1>2, FS_AddElement
<1> HIDE DEF A
<1>4. IsFiniteSet(B) /\ Cardinality(B) \in 0 .. 2
  BY <1>3, FS_AddElement
<1> HIDE DEF B
<1>5. Cardinality(C) \in 0 .. 3
  BY <1>4, FS_AddElement
<1>6. Cardinality(C) = 4
  BY <1>1, TurnLanesAssumption DEF A, B, TurnLanesAssumption
<1> HIDE DEF C
<1> QED
  BY <1>5, <1>6

\* A route ends in the session's lane and then a global one, which is not the
\* cron lane; what comes before is the cron lane.
LEMMA RouteShape ==
  ASSUME NEW k \in DOMAIN LaneParam, NEW s \in Sessions
  PROVE  LET r == Route(k, s)
         IN  /\ Len(r) \in {2, 3}
             /\ r[Len(r) - 1] = s
             /\ \A i \in 1 .. Len(r) :
                  /\ r[i] \in Lanes
                  /\ r[i] \in Sessions => i = Len(r) - 1
                  /\ r[i] = Cron => i # Len(r)
<1> DEFINE g == GlobalLane(k)
<1>1. /\ Lanes = Sessions \cup {Main, Subagent, Nested, Cron}
      /\ {Main, Subagent, Nested, Cron} \cap Sessions = {}
      /\ Cron \notin {Main, Subagent, Nested}
  BY CronLaneIsApart, TurnLanesAssumption DEF TurnLanesAssumption
<1>2. k \in {"plain", "subagent", "nested", "cron"}
  BY DEF LaneParam
<1>3. g \in {Main, Subagent, Nested}
  BY <1>1, <1>2 DEF GlobalLane, resolveGlobalLane, resolveNestedAgentLane, LaneParam
<1> HIDE DEF g
<1>4. Route(k, s) = (IF k = "cron" THEN <<Cron>> ELSE <<>>) \o <<s, g>>
  BY Zenon DEF Route, g
<1>5. /\ <<s, g>> \in Seq(Lanes) /\ Len(<<s, g>>) = 2
      /\ <<s, g>>[1] = s /\ <<s, g>>[2] = g
  BY <1>1, <1>3
<1>6. CASE k = "cron"
  <2>1. <<Cron>> \in Seq(Lanes) /\ Len(<<Cron>>) = 1 /\ <<Cron>>[1] = Cron
    BY <1>1
  <2>2. Route(k, s) = <<Cron>> \o <<s, g>>
    BY <1>4, <1>6
  <2>3. /\ Len(Route(k, s)) = 3
        /\ \A i \in 1 .. 3 : Route(k, s)[i] = IF i <= 1 THEN <<Cron>>[i] ELSE <<s, g>>[i - 1]
    BY <1>5, <2>1, <2>2, ConcatProperties
  <2>4. Route(k, s)[1] = Cron /\ Route(k, s)[2] = s /\ Route(k, s)[3] = g
    BY <1>5, <2>1, <2>3
  <2> HIDE DEF Route
  <2> QED
    BY <2>3, <2>4, <1>1, <1>3
<1>7. CASE k # "cron"
  <2>1. Route(k, s) = <<s, g>>
    BY <1>4, <1>5, <1>7, ConcatEmptySeq
  <2>2. Len(Route(k, s)) = 2 /\ Route(k, s)[1] = s /\ Route(k, s)[2] = g
    BY <1>5, <2>1
  <2> QED
    BY <2>2, <1>1, <1>3
<1> QED
  BY <1>6, <1>7

-----------------------------------------------------------------------------
(* What the queue does for a turn                                          *)

\* The calls that a step started had not started before and are of their lane's
\* current generation; the others keep lane and generation, and only those in
\* done have ended.
Moves(done) ==
  /\ generation' = generation
  /\ running \ done \subseteq running' /\ done \cap running' = {}
  /\ \A c \in running' : c \in running \/ (~HasStarted(c) /\ startGen'[c] = generation[laneOf'[c]])
  /\ \A c \in running : laneOf'[c] = laneOf[c] /\ (c \in running' => startGen'[c] = startGen[c])

\* A call is made: refused while the gateway drains, else queued or started.
LEMMA EnqueueEffect ==
  ASSUME IInv, NEW l \in Lanes, Enqueue(l)
  PROVE  /\ nextCall \in Calls
         /\ nextCall' = nextCall + 1
         /\ laneOf' = [laneOf EXCEPT ![nextCall] = l]
         /\ outcome' = [outcome EXCEPT ![nextCall] = IF gatewayDraining THEN "refused" ELSE "pending"]
         /\ UNCHANGED <<maxConcurrent, gatewayDraining, watched, waiting>>
         /\ Moves({})
<1>1. \A c \in running : c \in Calls /\ c # nextCall
  BY StateFacts
<1>2. CASE Refuse(l)
  BY <1>1, <1>2 DEF Refuse, laneVars, waitVars, Moves, IInv, TypeOK
<1>3. CASE Accept(l)
  <2> DEFINE q == Append(queue[l], nextCall)
             s == Started(q, active[l], maxConcurrent[l])
  <2>1. /\ nextCall \in Calls /\ ~gatewayDraining
        /\ nextCall' = nextCall + 1
        /\ laneOf' = [laneOf EXCEPT ![nextCall] = l]
        /\ outcome' = [outcome EXCEPT ![nextCall] = "pending"]
        /\ running' = (running \ {}) \cup s
        /\ startGen' = [c \in Calls |-> IF c \in s THEN generation[l] ELSE startGen[c]]
        /\ UNCHANGED <<generation, maxConcurrent, gatewayDraining, watched, waiting>>
    BY <1>3 DEF Accept, Drain, waitVars
  <2>2. /\ q \in Seq(Calls)
        /\ ReadyToDrain(l, q, active[l], maxConcurrent[l], {})
    BY <1>3, AcceptReady
  <2>3. active[l] \in SUBSET Calls /\ maxConcurrent[l] \in Limits
    BY StateFacts
  <2>4. \A c \in Elems(q) : c \notin running /\ laneOf'[c] = l
    BY <2>2 DEF ReadyToDrain, MidQueue
  <2> HIDE DEF q
  <2>5. s \subseteq Elems(q) /\ s \subseteq Calls
    BY <2>2, <2>3, PumpSplits
  <2> HIDE DEF s
  <2>6. \A c \in s : ~HasStarted(c)
    <3>1. [Next]_vars /\ ~ResetAllLanes
      BY <1>3, <2>1, StateFacts DEF Next, Enqueue, ResetAllLanes, IInv, TypeOK
    <3>2. \A c \in Calls : HasStarted(c) /\ c \in running' => c \in running
      BY <3>1, StartedOnce
    <3> QED
      BY <2>1, <2>4, <2>5, <3>2
  <2>7. Moves({})
    BY <1>1, <2>1, <2>4, <2>5, <2>6 DEF Moves, IInv, TypeOK
  <2> QED
    BY <2>1, <2>7
<1> QED
  BY <1>2, <1>3 DEF Enqueue

\* A call ends: its slot, if it holds one, goes to a call that waits.
LEMMA CompleteEffect ==
  ASSUME IInv, NEW c \in Calls, NEW result \in Results, Complete(c, result)
  PROVE  /\ c \in running
         /\ outcome' = [outcome EXCEPT ![c] = result]
         /\ UNCHANGED <<nextCall, laneOf, maxConcurrent, gatewayDraining, watched, waiting>>
         /\ Moves({c})
<1>1. \A d \in running : d \in Calls
  BY StateFacts
<1>2. CASE StaleCompletion(c, result)
  BY <1>1, <1>2 DEF StaleCompletion, laneVars, waitVars, Moves
<1>3. CASE CurrentCompletion(c, result)
  <2> DEFINE l == laneOf[c]
             s == Started(queue[l], active[l] \ {c}, maxConcurrent[l])
  <2>1. /\ c \in running
        /\ outcome' = [outcome EXCEPT ![c] = result]
        /\ running' = (running \ {c}) \cup s
        /\ startGen' = [d \in Calls |-> IF d \in s THEN generation[l] ELSE startGen[d]]
        /\ UNCHANGED <<nextCall, laneOf, maxConcurrent, gatewayDraining, watched, waiting, generation>>
    BY <1>3 DEF CurrentCompletion, Drain, waitVars
  <2>2. l \in Lanes
    BY DEF IInv, TypeOK
  <2> HIDE DEF l
  <2>3. active[l] \ {c} \in SUBSET Calls /\ maxConcurrent[l] \in Limits
    BY <2>2, StateFacts
  <2>4. \A d \in s : d \in Queued(l) /\ ~HasStarted(d)
    BY <2>2, <2>3, StartsAreQueued
  <2> HIDE DEF s
  <2>5. \A d \in s : d \in Calls /\ laneOf[d] = l /\ d \notin running
    BY <2>2, <2>4, StateFacts DEF HasStarted
  <2>6. Moves({c})
    BY <1>1, <2>1, <2>4, <2>5 DEF Moves
  <2> QED
    BY <2>1, <2>6
<1> QED
  BY <1>2, <1>3 DEF Complete

\* A clear drops what waits in a lane, and nothing else.
LEMMA ClearEffect ==
  ASSUME IInv, NEW l \in Lanes, ClearLane(l)
  PROVE  /\ \A c \in Calls : /\ outcome'[c] = "pending" => outcome[c] = "pending"
                             /\ HasStarted(c) => HasStarted(c)'
         /\ UNCHANGED <<nextCall, laneOf, maxConcurrent, gatewayDraining, watched, waiting>>
         /\ Moves({})
<1>1. \A c \in Queued(l) : ~HasStarted(c)
  BY StateFacts
<1> QED
  BY <1>1 DEF ClearLane, Moves, HasStarted, Results, waitVars, IInv, TypeOK

-----------------------------------------------------------------------------
(* The inductive invariant                                                 *)

Made == {c \in Calls : c < nextCall}

TurnTypes ==
  /\ nextTurn \in 1 .. MaxTurns + 1
  /\ kind \in [Turns -> DOMAIN LaneParam]
  /\ session \in [Turns -> Sessions]
  /\ asked \in [Turns -> 0 .. MaxTurns]
  /\ overran \in BOOLEAN
  /\ turnOf \in [Calls -> 0 .. MaxTurns]
  /\ depth \in [Calls -> Nat]
  /\ inner \in [Calls -> 0 .. MaxCalls]

\* A call is made for a turn, on the lane of its place in the route.
Placed ==
  \A c \in Made :
    /\ turnOf[c] \in 1 .. nextTurn - 1
    /\ depth[c] \in 1 .. Len(RouteOf(c))
    /\ laneOf[c] = RouteOf(c)[depth[c]]

\* A task that has made its next call runs until that call has settled.
Linked ==
  \A c \in Calls : inner[c] # 0 =>
    /\ inner[c] \in Made
    /\ turnOf[inner[c]] = turnOf[c] /\ depth[inner[c]] = depth[c] + 1
    /\ HasStarted(c)
    /\ outcome[inner[c]] = "pending" => c \in running

\* Every call but the first of a chain is awaited by the one before it.
Parented == \A d \in Made : depth[d] > 1 => \E p \in Calls : inner[p] = d

\* A session's lane has one slot, and one call at most holds it.
OneSlot == \A s \in Sessions : maxConcurrent[s] = 1 /\ Cardinality(active[s]) <= 1

Refusing == gatewayDraining <=> waiting # "idle"

\* Until a restart goes on over work that goes on, the calls that run in a
\* session's lane hold its slot, and a drain watches those that have got past it.
Watching ==
  ~overran => \A p \in running : laneOf[p] \in Sessions =>
    /\ startGen[p] = generation[laneOf[p]]
    /\ waiting # "idle" /\ inner[p] # 0 /\ outcome[inner[p]] = "pending" => p \in watched

Chains == TurnTypes /\ Placed /\ Linked /\ Parented

TurnsInv == IInv /\ Chains /\ OneSlot /\ Refusing /\ Watching

\* Facts about the calls of a state that satisfies the invariant.
LEMMA ChainFacts ==
  ASSUME IInv, Chains
  PROVE  /\ Made = 1 .. nextCall - 1 /\ nextCall \in Nat /\ Made \subseteq Calls /\ nextCall \notin Made
         /\ \A c \in Calls : HasStarted(c) => c \in Made
         /\ \A c \in running : c \in Made
         /\ \A c \in Made :
              /\ turnOf[c] \in Turns /\ turnOf[c] < nextTurn
              /\ kind[turnOf[c]] \in DOMAIN LaneParam /\ session[turnOf[c]] \in Sessions
              /\ Len(RouteOf(c)) \in {2, 3} /\ depth[c] \in 1 .. Len(RouteOf(c))
              /\ laneOf[c] \in Sessions => /\ depth[c] = Len(RouteOf(c)) - 1
                                           /\ laneOf[c] = session[turnOf[c]]
              /\ laneOf[c] = Cron => depth[c] # Len(RouteOf(c))
<1>1. nextCall \in 1 .. MaxCalls + 1 /\ MaxCalls \in Nat
  BY MaxCallsAssumption DEF IInv, TypeOK
<1>2. Made = 1 .. nextCall - 1 /\ nextCall \in Nat /\ Made \subseteq Calls /\ nextCall \notin Made
  BY <1>1 DEF Made, Calls
<1>3. \A c \in Calls : HasStarted(c) => c \in Made
  <2>1. \A c \in Calls : c \in Nat /\ (outcome[c] # "new" => c < nextCall)
    BY <1>1 DEF IInv, NewIsFuture, Calls
  <2>2. \A c \in running : outcome[c] = "pending"
    BY StateFacts
  <2> QED
    BY <2>1, <2>2 DEF HasStarted, Results, Made
<1>4. \A c \in running : c \in Made
  BY <1>3, StateFacts DEF HasStarted
<1>5. ASSUME NEW c \in Made
      PROVE  /\ turnOf[c] \in Turns /\ turnOf[c] < nextTurn
             /\ kind[turnOf[c]] \in DOMAIN LaneParam /\ session[turnOf[c]] \in Sessions
             /\ Len(RouteOf(c)) \in {2, 3} /\ depth[c] \in 1 .. Len(RouteOf(c))
             /\ laneOf[c] \in Sessions => /\ depth[c] = Len(RouteOf(c)) - 1
                                          /\ laneOf[c] = session[turnOf[c]]
             /\ laneOf[c] = Cron => depth[c] # Len(RouteOf(c))
  <2>1. /\ turnOf[c] \in 1 .. nextTurn - 1
        /\ depth[c] \in 1 .. Len(RouteOf(c))
        /\ laneOf[c] = RouteOf(c)[depth[c]]
    BY DEF Chains, Placed
  <2>2. turnOf[c] \in Turns /\ turnOf[c] < nextTurn
    BY <2>1, MaxTurnsAssumption DEF MaxTurnsAssumption, Chains, TurnTypes, Turns
  <2>3. kind[turnOf[c]] \in DOMAIN LaneParam /\ session[turnOf[c]] \in Sessions
    BY <2>2 DEF Chains, TurnTypes
  <2>4. /\ Len(RouteOf(c)) \in {2, 3}
        /\ RouteOf(c)[Len(RouteOf(c)) - 1] = session[turnOf[c]]
        /\ \A i \in 1 .. Len(RouteOf(c)) :
             /\ RouteOf(c)[i] \in Lanes
             /\ RouteOf(c)[i] \in Sessions => i = Len(RouteOf(c)) - 1
             /\ RouteOf(c)[i] = Cron => i # Len(RouteOf(c))
    BY <2>3, RouteShape DEF RouteOf
  <2> QED
    BY <2>1, <2>2, <2>3, <2>4
<1> QED
  BY <1>2, <1>3, <1>4, <1>5

\* A run at work has been called by a task that runs in the lane of its session.
LEMMA RunHasParent ==
  ASSUME IInv, Chains, NEW d \in AtWork
  PROVE  /\ outcome[d] = "pending" /\ d \in Made
         /\ \E p \in running : /\ inner[p] = d
                               /\ laneOf[p] = session[turnOf[d]]
                               /\ laneOf[p] \in Sessions
<1>1. d \in running /\ d \in Made /\ depth[d] = Len(RouteOf(d)) /\ outcome[d] = "pending"
  BY ChainFacts, StateFacts DEF AtWork
<1>2. depth[d] > 1
  <2>1. \A n : n = depth[d] /\ n \in {2, 3} => n > 1
    OBVIOUS
  <2>2. depth[d] \in {2, 3}
    BY <1>1, ChainFacts
  <2> QED
    BY <2>1, <2>2
<1>3. PICK p \in Calls : inner[p] = d
  BY <1>1, <1>2 DEF Chains, Parented
<1>4. d # 0
  BY <1>1, ChainFacts, MaxCallsAssumption DEF Calls
<1>5. turnOf[d] = turnOf[p] /\ depth[d] = depth[p] + 1 /\ p \in running
  BY <1>1, <1>3, <1>4 DEF Chains, Linked
<1>6. p \in Made
  BY <1>5, ChainFacts
<1>7. RouteOf(p) = RouteOf(d)
  BY <1>5 DEF RouteOf
<1>8. depth[p] = Len(RouteOf(p)) - 1
  <2>1. depth[p] \in Nat
    BY DEF Chains, TurnTypes
  <2>2. Len(RouteOf(p)) = depth[p] + 1
    BY <1>1, <1>5, <1>7, Zenon
  <2>3. \A n : n = depth[p] + 1 => depth[p] = n - 1
    BY <2>1
  <2> QED
    BY <2>2, <2>3
<1>9. /\ kind[turnOf[p]] \in DOMAIN LaneParam /\ session[turnOf[p]] \in Sessions
  BY <1>6, ChainFacts
<1>10. RouteOf(p)[Len(RouteOf(p)) - 1] = session[turnOf[p]]
  BY <1>9, RouteShape DEF RouteOf
<1>11. laneOf[p] = session[turnOf[d]]
  BY <1>5, <1>6, <1>8, <1>10 DEF Chains, Placed
<1> QED
  BY <1>1, <1>3, <1>5, <1>9, <1>11

-----------------------------------------------------------------------------
(* The chains of calls                                                     *)

\* What a call needs to keep its place while others are made or end.
LEMMA RouteKept ==
  ASSUME IInv, Chains, NEW c \in Made, turnOf'[c] = turnOf[c],
         kind'[turnOf[c]] = kind[turnOf[c]], session'[turnOf[c]] = session[turnOf[c]]
  PROVE  RouteOf(c)' = RouteOf(c)
  BY DEF RouteOf, Route, GlobalLane, resolveGlobalLane, resolveNestedAgentLane

\* The first call of a turn starts a chain.
LEMMA FirstCallKeepsChains ==
  ASSUME IInv, Chains, NEW k \in DOMAIN LaneParam, NEW s \in Sessions, FirstCall(k, s),
         asked' \in [Turns -> 0 .. MaxTurns]
  PROVE  Chains'
<1> DEFINE l == Route(k, s)[1]
<1>1. /\ nextTurn \in Turns /\ nextTurn' = nextTurn + 1
      /\ kind' = [kind EXCEPT ![nextTurn] = k]
      /\ session' = [session EXCEPT ![nextTurn] = s]
      /\ turnOf' = [turnOf EXCEPT ![nextCall] = nextTurn]
      /\ depth' = [depth EXCEPT ![nextCall] = 1]
      /\ inner' = inner /\ overran' = overran
      /\ Enqueue(l)
  BY DEF FirstCall
<1>2. Len(Route(k, s)) \in {2, 3} /\ 1 \in 1 .. Len(Route(k, s)) /\ l \in Lanes
  <2>1. Len(Route(k, s)) \in {2, 3} /\ \A i \in 1 .. Len(Route(k, s)) : Route(k, s)[i] \in Lanes
    BY RouteShape
  <2>2. \A n \in {2, 3} : 1 \in 1 .. n
    OBVIOUS
  <2> QED
    BY <2>1, <2>2
<1> HIDE DEF l
<1>3. /\ nextCall \in Calls
      /\ nextCall' = nextCall + 1
      /\ laneOf' = [laneOf EXCEPT ![nextCall] = l]
      /\ outcome' = [outcome EXCEPT ![nextCall] = IF gatewayDraining THEN "refused" ELSE "pending"]
      /\ running \subseteq running'
  BY <1>1, <1>2, EnqueueEffect DEF Moves
<1>4. /\ nextCall \notin Made /\ Made \subseteq Calls
      /\ Made' = Made \cup {nextCall}
  <2>1. Made = 1 .. nextCall - 1 /\ nextCall \in Nat /\ Made \subseteq Calls /\ nextCall \notin Made
    BY ChainFacts
  <2>2. Made' = {c \in Calls : c < nextCall + 1}
    BY <1>3 DEF Made, Calls
  <2> QED
    BY <2>1, <2>2, <1>3 DEF Made, Calls
<1>5. /\ laneOf'[nextCall] = l /\ turnOf'[nextCall] = nextTurn /\ depth'[nextCall] = 1
      /\ kind'[nextTurn] = k /\ session'[nextTurn] = s
      /\ \A c \in Calls \ {nextCall} :
           laneOf'[c] = laneOf[c] /\ turnOf'[c] = turnOf[c] /\ depth'[c] = depth[c]
           /\ outcome'[c] = outcome[c]
      /\ \A t \in Turns \ {nextTurn} : kind'[t] = kind[t] /\ session'[t] = session[t]
  BY <1>1, <1>3 DEF Chains, TurnTypes, IInv, TypeOK
<1>6. TurnTypes'
  <2>1. nextTurn' \in 1 .. MaxTurns + 1
    BY <1>1, MaxTurnsAssumption DEF MaxTurnsAssumption, Turns
  <2>2. turnOf' \in [Calls -> 0 .. MaxTurns]
    BY <1>1, <1>3, MaxTurnsAssumption DEF MaxTurnsAssumption, Turns, Chains, TurnTypes
  <2>3. depth' \in [Calls -> Nat]
    BY <1>1, <1>3 DEF Chains, TurnTypes
  <2>4. kind' \in [Turns -> DOMAIN LaneParam] /\ session' \in [Turns -> Sessions]
    BY <1>1 DEF Chains, TurnTypes
  <2> QED
    BY <1>1, <2>1, <2>2, <2>3, <2>4 DEF Chains, TurnTypes
<1>7. Placed'
  <2>1. ASSUME NEW c \in Made
        PROVE  /\ turnOf'[c] \in 1 .. nextTurn' - 1
               /\ depth'[c] \in 1 .. Len(RouteOf(c)')
               /\ laneOf'[c] = RouteOf(c)'[depth'[c]]
    <3>1. turnOf[c] \in Turns /\ turnOf[c] # nextTurn
      BY ChainFacts, <1>1 DEF Turns
    <3>2. RouteOf(c)' = RouteOf(c)
      BY <1>4, <1>5, <3>1, RouteKept
    <3>3. turnOf[c] \in 1 .. nextTurn' - 1
      BY <1>1 DEF Chains, Placed, TurnTypes
    <3> QED
      BY <1>4, <1>5, <3>2, <3>3 DEF Chains, Placed
  <2>2. ASSUME NEW c \in Calls, c = nextCall
        PROVE  /\ turnOf'[c] \in 1 .. nextTurn' - 1
               /\ depth'[c] \in 1 .. Len(RouteOf(c)')
               /\ laneOf'[c] = RouteOf(c)'[depth'[c]]
    <3>1. turnOf'[c] = nextTurn /\ depth'[c] = 1 /\ laneOf'[c] = l
      BY <1>5, <2>2
    <3>2. RouteOf(c)' = Route(k, s)
      BY <1>5, <3>1 DEF RouteOf, Route, GlobalLane, resolveGlobalLane, resolveNestedAgentLane
    <3>3. nextTurn \in 1 .. nextTurn' - 1
      BY <1>1 DEF Turns
    <3> QED
      BY <1>2, <3>1, <3>2, <3>3 DEF l
  <2> QED
    BY <1>3, <1>4, <2>1, <2>2 DEF Placed
<1>8. Linked'
  <2>1. ASSUME NEW c \in Calls, inner[c] # 0
        PROVE  /\ inner[c] \in Made'
               /\ turnOf'[inner[c]] = turnOf'[c] /\ depth'[inner[c]] = depth'[c] + 1
               /\ HasStarted(c)'
               /\ outcome'[inner[c]] = "pending" => c \in running'
    <3>1. /\ inner[c] \in Made
          /\ turnOf[inner[c]] = turnOf[c] /\ depth[inner[c]] = depth[c] + 1
          /\ HasStarted(c)
          /\ outcome[inner[c]] = "pending" => c \in running
      BY <2>1 DEF Chains, Linked
    <3>2. c # nextCall /\ inner[c] # nextCall /\ inner[c] \in Calls
      BY <3>1, <1>4, ChainFacts
    <3>3. HasStarted(c)'
      BY <1>3, <1>5, <3>1, <3>2 DEF HasStarted
    <3> QED
      BY <1>3, <1>4, <1>5, <3>1, <3>2, <3>3
  <2> QED
    BY <1>1, <2>1 DEF Linked
<1>9. Parented'
  <2>1. ASSUME NEW d \in Made', depth'[d] > 1
        PROVE  \E p \in Calls : inner'[p] = d
    <3>1. d \in Made /\ depth[d] > 1
      BY <1>4, <1>5, <2>1
    <3> QED
      BY <1>1, <3>1 DEF Chains, Parented
  <2> QED
    BY <2>1 DEF Parented
<1> QED
  BY <1>6, <1>7, <1>8, <1>9 DEF Chains

\* A task that makes its next call continues its chain.
LEMMA DescendKeepsChains ==
  ASSUME IInv, Chains, NEW c \in Calls, Descend(c)
  PROVE  /\ Chains'
         /\ c \in running /\ inner[c] = 0 /\ inner' = [inner EXCEPT ![c] = nextCall]
         /\ \E l \in Lanes : Enqueue(l)
<1> DEFINE l == RouteOf(c)[depth[c] + 1]
<1>1. /\ c \in running /\ inner[c] = 0
      /\ laneOf[c] \in Sessions \/ IsJob(c)
      /\ inner' = [inner EXCEPT ![c] = nextCall]
      /\ turnOf' = [turnOf EXCEPT ![nextCall] = turnOf[c]]
      /\ depth' = [depth EXCEPT ![nextCall] = depth[c] + 1]
      /\ Enqueue(l)
      /\ UNCHANGED <<nextTurn, kind, session, asked, overran>>
  BY DEF Descend, Starts
<1>2. c \in Made
  BY <1>1, ChainFacts
<1>3. /\ turnOf[c] \in Turns /\ turnOf[c] < nextTurn
      /\ kind[turnOf[c]] \in DOMAIN LaneParam /\ session[turnOf[c]] \in Sessions
      /\ Len(RouteOf(c)) \in {2, 3} /\ depth[c] \in 1 .. Len(RouteOf(c))
      /\ laneOf[c] \in Sessions => depth[c] = Len(RouteOf(c)) - 1
  BY <1>2, ChainFacts
<1>4. depth[c] # Len(RouteOf(c))
  <2>1. \A n \in {2, 3} : n - 1 # n
    OBVIOUS
  <2>2. CASE laneOf[c] \in Sessions
    BY <1>3, <2>1, <2>2
  <2>3. CASE IsJob(c)
    BY <1>1, <2>3 DEF IsJob, AtWork
  <2> QED
    BY <1>1, <2>2, <2>3
<1>5. depth[c] + 1 \in 1 .. Len(RouteOf(c)) /\ depth[c] \in Nat
  <2>1. \A n \in {2, 3} : \A d \in 1 .. n : d # n => d + 1 \in 1 .. n /\ d \in Nat
    OBVIOUS
  <2> QED
    BY <1>3, <1>4, <2>1
<1>6. l \in Lanes
  BY <1>3, <1>5, RouteShape DEF RouteOf
<1> HIDE DEF l
<1>7. /\ nextCall \in Calls
      /\ nextCall' = nextCall + 1
      /\ laneOf' = [laneOf EXCEPT ![nextCall] = l]
      /\ outcome' = [outcome EXCEPT ![nextCall] = IF gatewayDraining THEN "refused" ELSE "pending"]
      /\ running \subseteq running'
  BY <1>1, <1>6, EnqueueEffect DEF Moves
<1>8. /\ nextCall \notin Made /\ Made \subseteq Calls /\ nextCall # 0
      /\ Made' = Made \cup {nextCall}
  <2>1. Made = 1 .. nextCall - 1 /\ nextCall \in Nat /\ Made \subseteq Calls /\ nextCall \notin Made
    BY ChainFacts
  <2>2. Made' = {d \in Calls : d < nextCall + 1}
    BY <1>7 DEF Made, Calls
  <2> QED
    BY <2>1, <2>2, <1>7 DEF Made, Calls
<1>9. /\ laneOf'[nextCall] = l /\ turnOf'[nextCall] = turnOf[c] /\ depth'[nextCall] = depth[c] + 1
      /\ inner'[c] = nextCall
      /\ \A d \in Calls \ {nextCall} :
           laneOf'[d] = laneOf[d] /\ turnOf'[d] = turnOf[d] /\ depth'[d] = depth[d]
           /\ outcome'[d] = outcome[d]
      /\ \A d \in Calls \ {c} : inner'[d] = inner[d]
  BY <1>1, <1>7 DEF Chains, TurnTypes, IInv, TypeOK
<1>10. TurnTypes'
  <2>1. turnOf' \in [Calls -> 0 .. MaxTurns]
    BY <1>1, <1>7 DEF Chains, TurnTypes
  <2>2. depth' \in [Calls -> Nat]
    BY <1>1, <1>5, <1>7 DEF Chains, TurnTypes
  <2>3. inner' \in [Calls -> 0 .. MaxCalls]
    BY <1>1, <1>7, MaxCallsAssumption DEF Chains, TurnTypes, Calls
  <2> QED
    BY <1>1, <2>1, <2>2, <2>3 DEF Chains, TurnTypes
<1>11. Placed'
  <2>1. ASSUME NEW d \in Made
        PROVE  /\ turnOf'[d] \in 1 .. nextTurn' - 1
               /\ depth'[d] \in 1 .. Len(RouteOf(d)')
               /\ laneOf'[d] = RouteOf(d)'[depth'[d]]
    <3>1. RouteOf(d)' = RouteOf(d)
      BY <1>1, <1>8, <1>9, RouteKept
    <3> QED
      BY <1>1, <1>8, <1>9, <3>1 DEF Chains, Placed
  <2>2. ASSUME NEW d \in Calls, d = nextCall
        PROVE  /\ turnOf'[d] \in 1 .. nextTurn' - 1
               /\ depth'[d] \in 1 .. Len(RouteOf(d)')
               /\ laneOf'[d] = RouteOf(d)'[depth'[d]]
    <3>1. turnOf'[d] = turnOf[c] /\ depth'[d] = depth[c] + 1 /\ laneOf'[d] = l
      BY <1>9, <2>2
    <3>2. RouteOf(d)' = RouteOf(c)
      BY <1>1, <3>1 DEF RouteOf, Route, GlobalLane, resolveGlobalLane, resolveNestedAgentLane
    <3>3. turnOf[c] \in 1 .. nextTurn' - 1
      BY <1>1, <1>2 DEF Chains, Placed
    <3> QED
      BY <1>5, <3>1, <3>2, <3>3 DEF l
  <2> QED
    BY <1>7, <1>8, <2>1, <2>2 DEF Placed
<1>12. Linked'
  <2>1. ASSUME NEW d \in Calls, inner'[d] # 0
        PROVE  /\ inner'[d] \in Made'
               /\ turnOf'[inner'[d]] = turnOf'[d] /\ depth'[inner'[d]] = depth'[d] + 1
               /\ HasStarted(d)'
               /\ outcome'[inner'[d]] = "pending" => d \in running'
    <3>1. CASE d = c
      <4>1. d # nextCall /\ d \in running'
        BY <1>1, <1>2, <1>7, <1>8, <3>1
      <4> QED
        BY <1>8, <1>9, <3>1, <4>1 DEF HasStarted
    <3>2. CASE d # c
      <4>1. /\ inner'[d] = inner[d] /\ inner[d] \in Made
            /\ turnOf[inner[d]] = turnOf[d] /\ depth[inner[d]] = depth[d] + 1
            /\ HasStarted(d)
            /\ outcome[inner[d]] = "pending" => d \in running
        BY <2>1, <1>9, <3>2 DEF Chains, Linked
      <4>2. d # nextCall /\ inner[d] # nextCall /\ inner[d] \in Calls
        BY <4>1, <1>8, ChainFacts
      <4>3. HasStarted(d)'
        BY <1>7, <1>9, <4>1, <4>2 DEF HasStarted
      <4> QED
        BY <1>7, <1>8, <1>9, <4>1, <4>2, <4>3
    <3> QED
      BY <3>1, <3>2
  <2> QED
    BY <2>1 DEF Linked
<1>13. Parented'
  <2>1. ASSUME NEW d \in Made', depth'[d] > 1
        PROVE  \E p \in Calls : inner'[p] = d
    <3>1. CASE d = nextCall
      BY <1>9, <3>1
    <3>2. CASE d # nextCall
      <4>1. d \in Made /\ depth[d] > 1
        BY <1>8, <1>9, <2>1, <3>2
      <4>2. PICK p \in Calls : inner[p] = d
        BY <4>1 DEF Chains, Parented
      <4>3. d # 0
        BY <4>1, <1>8, MaxCallsAssumption DEF Calls
      <4>4. p # c
        BY <1>1, <4>2, <4>3
      <4> QED
        BY <1>9, <4>2, <4>4
    <3> QED
      BY <3>1, <3>2
  <2> QED
    BY <2>1 DEF Parented
<1> QED
  BY <1>1, <1>6, <1>10, <1>11, <1>12, <1>13 DEF Chains

\* Chains keep while calls that await nothing end or are dropped.
LEMMA OthersKeepChains ==
  ASSUME IInv, Chains, UNCHANGED <<nextTurn, kind, session, turnOf, depth, inner, nextCall, laneOf>>,
         asked' \in [Turns -> 0 .. MaxTurns], overran' \in BOOLEAN,
         \A c \in Calls : /\ outcome'[c] = "pending" => outcome[c] = "pending"
                          /\ HasStarted(c) => HasStarted(c)',
         \A c \in running \ running' : inner[c] = 0 \/ outcome'[inner[c]] # "pending"
  PROVE  Chains'
<1>1. Made' = Made /\ Made \subseteq Calls
  BY ChainFacts DEF Made
<1>2. TurnTypes'
  BY DEF Chains, TurnTypes
<1>3. \A c \in Made : RouteOf(c)' = RouteOf(c)
  BY RouteKept
<1>4. Placed'
  BY <1>1, <1>3 DEF Chains, Placed
<1>5. Linked'
  <2>1. ASSUME NEW c \in Calls, inner[c] # 0
        PROVE  /\ inner[c] \in Made'
               /\ turnOf[inner[c]] = turnOf[c] /\ depth[inner[c]] = depth[c] + 1
               /\ HasStarted(c)'
               /\ outcome'[inner[c]] = "pending" => c \in running'
    <3>1. /\ inner[c] \in Made
          /\ turnOf[inner[c]] = turnOf[c] /\ depth[inner[c]] = depth[c] + 1
          /\ HasStarted(c)
          /\ outcome[inner[c]] = "pending" => c \in running
      BY <2>1 DEF Chains, Linked
    <3> QED
      BY <1>1, <2>1, <3>1
  <2> QED
    BY <2>1 DEF Linked
<1>6. Parented'
  BY <1>1 DEF Chains, Parented
<1> QED
  BY <1>2, <1>4, <1>5, <1>6 DEF Chains
-----------------------------------------------------------------------------
(* The steps of the turns, as steps of the queue                           *)

\* The entry points from outside and sessions_send name lanes of a turn.
LEMMA FirstLane ==
  ASSUME NEW k \in DOMAIN LaneParam, NEW s \in Sessions
  PROVE  Route(k, s)[1] \in Lanes
<1>1. Len(Route(k, s)) \in {2, 3} /\ \A i \in 1 .. Len(Route(k, s)) : Route(k, s)[i] \in Lanes
  BY RouteShape
<1>2. \A n \in {2, 3} : 1 \in 1 .. n
  OBVIOUS
<1> QED
  BY <1>1, <1>2

\* The sessions are lanes, and "nested" is a kind of turn.
LEMMA TurnConstants ==
  /\ Sessions \subseteq Lanes
  /\ "nested" \in DOMAIN LaneParam
  /\ Kinds \subseteq DOMAIN LaneParam
  BY TurnLanesAssumption, KindsAssumption DEF TurnLanesAssumption, LaneParam, KindsAssumption

\* A call whose task is not awaited by it, or whose awaited call has settled,
\* ends, and the chains keep.
LEMMA EndKeepsChains ==
  ASSUME IInv, Chains, NEW c \in Calls, NEW result \in Results, Complete(c, result),
         UNCHANGED <<turnVars, overran>>,
         inner[c] = 0 \/ outcome[inner[c]] # "pending"
  PROVE  Chains'
<1>1. /\ c \in running
      /\ outcome' = [outcome EXCEPT ![c] = result]
      /\ UNCHANGED <<nextCall, laneOf>>
      /\ running \ {c} \subseteq running'
  BY CompleteEffect DEF Moves
<1>2. \A d \in Calls : /\ outcome'[d] = "pending" => outcome[d] = "pending"
                       /\ HasStarted(d) => HasStarted(d)'
  BY <1>1 DEF HasStarted, Results, IInv, TypeOK
<1>3. \A d \in running \ running' : d = c
  BY <1>1
<1>4. inner[c] \in Calls \/ inner[c] = 0
  BY ChainFacts DEF Chains, Linked
<1>5. \A d \in running \ running' : inner[d] = 0 \/ outcome'[inner[d]] # "pending"
  BY <1>2, <1>3, <1>4
<1>6. UNCHANGED <<nextTurn, kind, session, turnOf, depth, inner, asked, overran>>
  BY DEF turnVars
<1> QED
  BY <1>1, <1>2, <1>5, <1>6, OthersKeepChains DEF Chains, TurnTypes

\* A step of a turn that ends a call ends one that awaits nothing.
LEMMA TaskEnds ==
  ASSUME IInv, Chains, NEW c \in Calls, Return(c) \/ JobEnds(c) \/ RunEnds(c)
  PROVE  /\ \E result \in Results : Complete(c, result)
         /\ inner[c] = 0 \/ outcome[inner[c]] # "pending"
         /\ UNCHANGED <<turnVars, overran>>
<1>1. CASE Return(c)
  BY <1>1 DEF Return, Settled, Results
<1>2. CASE JobEnds(c)
  BY <1>2 DEF JobEnds, Starts, Results
<1>3. CASE RunEnds(c)
  <2>1. c \in AtWork /\ Complete(c, "resolved") /\ UNCHANGED <<turnVars, overran>>
    BY <1>3 DEF RunEnds
  <2>2. inner[c] = 0
    <3> SUFFICES ASSUME inner[c] # 0 PROVE FALSE
      OBVIOUS
    <3>1. /\ inner[c] \in Made /\ turnOf[inner[c]] = turnOf[c]
          /\ depth[inner[c]] = depth[c] + 1
      BY DEF Chains, Linked
    <3>2. RouteOf(inner[c]) = RouteOf(c)
      BY <3>1 DEF RouteOf
    <3>3. depth[c] = Len(RouteOf(c))
      BY <2>1 DEF AtWork
    <3>4. Len(RouteOf(c)) \in {2, 3} /\ depth[c] + 1 \in 1 .. Len(RouteOf(c))
      BY <3>1, <3>2, ChainFacts
    <3>5. \A n \in {2, 3} : n + 1 \notin 1 .. n
      OBVIOUS
    <3> QED
      BY <3>3, <3>4, <3>5
  <2> QED
    BY <2>1, <2>2 DEF Results
<1> QED
  BY <1>1, <1>2, <1>3

\* Every step but that of the configuration is one of the command queue, and
\* keeps the limits.
LEMMA QueueStep ==
  ASSUME IInv, Chains, [TurnsNext]_allVars, ~Configure
  PROVE  [Next]_vars /\ maxConcurrent' = maxConcurrent
<1>1. ASSUME NEW l \in Lanes, Enqueue(l)
      PROVE  [Next]_vars /\ maxConcurrent' = maxConcurrent
  BY <1>1, EnqueueEffect DEF Next
<1>2. ASSUME NEW k \in Kinds, NEW s \in Sessions, MakeTurn(k, s)
      PROVE  [Next]_vars /\ maxConcurrent' = maxConcurrent
  BY <1>1, <1>2, FirstLane, TurnConstants DEF MakeTurn, FirstCall
<1>3. ASSUME NEW c \in Calls, Task(c)
      PROVE  [Next]_vars /\ maxConcurrent' = maxConcurrent
  <2>1. CASE Descend(c)
    BY <1>1, <2>1, DescendKeepsChains
  <2>2. CASE Return(c) \/ JobEnds(c) \/ RunEnds(c)
    <3>1. PICK result \in Results : Complete(c, result)
      BY <2>2, TaskEnds
    <3> QED
      BY <3>1, CompleteEffect DEF Next
  <2> QED
    BY <1>3, <2>1, <2>2 DEF Task
<1>4. ASSUME NEW c \in Calls, NEW s \in Sessions, Ask(c, s)
      PROVE  [Next]_vars /\ maxConcurrent' = maxConcurrent
  BY <1>1, <1>4, FirstLane, TurnConstants DEF Ask, FirstCall
<1>5. CASE \E t \in Turns : AskEnds(t)
  BY <1>5 DEF AskEnds, vars, laneVars
<1>6. CASE \E s \in Sessions : ClearSession(s)
  BY <1>6, TurnConstants, ClearEffect DEF ClearSession, Next
<1>7. CASE Drainage
  BY <1>7 DEF Drainage, DrainBegins, WaitForActive, Next
<1>8. CASE Poll
  BY <1>8 DEF Poll, WaitDrained, WaitTimeout, laneVars, Next
<1>9. CASE Reset
  BY <1>9 DEF Reset, ResetAllLanes, Next
<1>10. CASE UNCHANGED allVars
  BY <1>10 DEF allVars, vars, laneVars
<1> QED
  BY <1>2, <1>3, <1>4, <1>5, <1>6, <1>7, <1>8, <1>9, <1>10 DEF TurnsNext

\* The configuration comes before any turn, when every queue is empty.
LEMMA ConfigureKeepsQueue ==
  ASSUME IInv, Chains, Configure
  PROVE  IInv'
<1>1. /\ nextTurn = 1 /\ maxConcurrent' = Configured
      /\ UNCHANGED <<queue, active, generation, gatewayDraining>>
      /\ UNCHANGED <<nextCall, laneOf, startGen, running, outcome, watched, waiting>>
  BY DEF Configure, callVars, waitVars
<1>2. Made = {}
  <2>1. \A n \in Nat : n \notin 1 .. 1 - 1
    OBVIOUS
  <2> QED
    BY <1>1, <2>1 DEF Chains, Placed, TurnTypes
<1>3. \A l \in Lanes : queue[l] = <<>>
  <2> SUFFICES ASSUME NEW l \in Lanes, queue[l] # <<>> PROVE FALSE
    OBVIOUS
  <2>1. queue[l] \in Seq(Calls) /\ Queued(l) \subseteq Calls
        /\ \A c \in Queued(l) : c < nextCall
    BY StateFacts
  <2>2. Len(queue[l]) >= 1
    BY <2>1, EmptySeq
  <2>3. queue[l][1] \in Queued(l)
    BY <2>1, <2>2 DEF Queued
  <2> QED
    BY <1>2, <2>1, <2>3 DEF Made
<1>4. Configured \in [Lanes -> Limits]
  <2>1. ASSUME NEW l \in Lanes
        PROVE  (IF l \in DOMAIN ConfigLimits THEN ClampLimit(ConfigLimits[l]) ELSE 1) \in Limits
    <3>1. l \in DOMAIN ConfigLimits => ConfigLimits[l] \in Int
      BY ConfigLimitsAssumption DEF ConfigLimitsAssumption
    <3>2. \A raw \in Int : ClampLimit(raw) \in Limits
      BY DEF ClampLimit, Limits
    <3> QED
      BY <3>1, <3>2 DEF Limits
  <2> QED
    BY <2>1 DEF Configured
<1>5. TypeOK'
  BY <1>1, <1>4 DEF IInv, TypeOK
<1>6. LaneInv'
  <2>1. QueuesOrdered' /\ PendingAccounted' /\ SlotsAreCurrent' /\ StartedInOrder' /\ StartGenReached'
    BY <1>1 DEF IInv, LaneInv, QueuesOrdered, PendingAccounted, SlotsAreCurrent,
                StartedInOrder, StartGenReached, HasStarted, Queued
  <2>2. NoStrandedWork'
    BY <1>1, <1>3 DEF NoStrandedWork
  <2> QED
    BY <2>1, <2>2 DEF LaneInv
<1>7. NewIsFuture' /\ WatchedAreCurrent' /\ DrainedMeansEnded'
  BY <1>1 DEF IInv, NewIsFuture, WatchedAreCurrent, DrainedMeansEnded, HasStarted
<1> QED
  BY <1>5, <1>6, <1>7 DEF IInv
-----------------------------------------------------------------------------
(* The invariant is inductive                                              *)

\* Every step keeps the chains.
LEMMA ChainsStep ==
  ASSUME IInv, Chains, [TurnsNext]_allVars
  PROVE  Chains'
<1>1. /\ asked \in [Turns -> 0 .. MaxTurns] /\ overran \in BOOLEAN
      /\ nextTurn \in Turns => nextTurn \in 0 .. MaxTurns
      /\ 0 \in 0 .. MaxTurns
  BY MaxTurnsAssumption DEF MaxTurnsAssumption, Chains, TurnTypes, Turns
<1>2. ASSUME NEW k \in Kinds, NEW s \in Sessions, MakeTurn(k, s)
      PROVE  Chains'
  BY <1>1, <1>2, TurnConstants, FirstCallKeepsChains DEF MakeTurn
<1>3. ASSUME NEW c \in Calls, Task(c)
      PROVE  Chains'
  <2>1. CASE Descend(c)
    BY <2>1, DescendKeepsChains
  <2>2. CASE Return(c) \/ JobEnds(c) \/ RunEnds(c)
    BY <2>2, TaskEnds, EndKeepsChains
  <2> QED
    BY <1>3, <2>1, <2>2 DEF Task
<1>4. ASSUME NEW c \in Calls, NEW s \in Sessions, Ask(c, s)
      PROVE  Chains'
  <2>1. nextTurn \in Turns /\ asked' = [asked EXCEPT ![turnOf[c]] = nextTurn]
        /\ FirstCall("nested", s)
    BY <1>4 DEF Ask, FirstCall
  <2>2. asked' \in [Turns -> 0 .. MaxTurns]
    BY <1>1, <2>1
  <2> QED
    BY <2>1, <2>2, TurnConstants, FirstCallKeepsChains
<1>5. ASSUME UNCHANGED <<nextTurn, kind, session, turnOf, depth, inner, nextCall, laneOf>>,
             asked' \in [Turns -> 0 .. MaxTurns], overran' \in BOOLEAN,
             outcome' = outcome, running \subseteq running'
      PROVE  Chains'
  <2>1. \A c \in Calls : /\ outcome'[c] = "pending" => outcome[c] = "pending"
                         /\ HasStarted(c) => HasStarted(c)'
    BY <1>5 DEF HasStarted
  <2>2. running \ running' = {}
    BY <1>5
  <2> QED
    BY <1>5, <2>1, <2>2, OthersKeepChains
<1>6. ASSUME NEW t \in Turns, AskEnds(t)
      PROVE  Chains'
  <2>1. asked' = [asked EXCEPT ![t] = 0]
        /\ UNCHANGED <<vars, nextTurn, kind, session, turnOf, depth, inner, overran>>
    BY <1>6 DEF AskEnds
  <2>2. asked' \in [Turns -> 0 .. MaxTurns]
    BY <1>1, <2>1
  <2> QED
    BY <1>1, <1>5, <2>1, <2>2 DEF vars, callVars
<1>7. ASSUME NEW s \in Sessions, ClearSession(s)
      PROVE  Chains'
  <2>1. s \in Lanes /\ ClearLane(s) /\ UNCHANGED <<turnVars, overran>>
    BY <1>7, TurnConstants DEF ClearSession
  <2>2. /\ \A c \in Calls : /\ outcome'[c] = "pending" => outcome[c] = "pending"
                            /\ HasStarted(c) => HasStarted(c)'
        /\ UNCHANGED <<nextCall, laneOf>>
        /\ running \ {} \subseteq running'
    BY <2>1, ClearEffect DEF Moves
  <2>3. running \ running' = {}
    BY <2>2
  <2>4. asked' \in [Turns -> 0 .. MaxTurns] /\ overran' \in BOOLEAN
        /\ UNCHANGED <<nextTurn, kind, session, turnOf, depth, inner>>
    BY <1>1, <2>1 DEF turnVars
  <2> QED
    BY <2>2, <2>3, <2>4, OthersKeepChains
<1>8. CASE Configure \/ Drainage \/ Poll
  <2>1. UNCHANGED <<turnVars, overran, nextCall, laneOf, outcome, running>>
    BY <1>8 DEF Configure, Drainage, DrainBegins, WaitForActive, Poll, WaitDrained,
                WaitTimeout, callVars
  <2> QED
    BY <1>1, <1>5, <2>1 DEF turnVars
<1>9. CASE Reset
  <2>1. UNCHANGED <<turnVars, nextCall, laneOf, outcome>> /\ running \subseteq running'
        /\ overran' \in BOOLEAN
    BY <1>9 DEF Reset, ResetAllLanes
  <2> QED
    BY <1>1, <1>5, <2>1 DEF turnVars
<1>10. CASE UNCHANGED allVars
  BY <1>1, <1>5, <1>10 DEF allVars, vars, callVars, turnVars
<1> QED
  BY <1>2, <1>3, <1>4, <1>6, <1>7, <1>8, <1>9, <1>10 DEF TurnsNext

\* A session's lane keeps its one slot.
LEMMA OneSlotStep ==
  ASSUME IInv, Chains, OneSlot, [TurnsNext]_allVars
  PROVE  OneSlot'
<1>1. CASE Configure
  <2>1. maxConcurrent' = Configured /\ active' = active
    BY <1>1 DEF Configure
  <2>2. \A s \in Sessions : s \in Lanes /\ s \notin {Main, Subagent, Cron}
    BY TurnLanesAssumption DEF TurnLanesAssumption
  <2>3. \A s \in Sessions : Configured[s] = 1
    BY <2>2, ConfigLimitsAssumption DEF Configured, ConfigLimitsAssumption
  <2> QED
    BY <2>1, <2>3 DEF OneSlot
<1>2. CASE ~Configure
  <2>1. [Next]_vars /\ maxConcurrent' = maxConcurrent
    BY <1>2, QueueStep
  <2>2. Within
    BY <2>1, WithinStep
  <2>3. ASSUME NEW s \in Sessions
        PROVE  maxConcurrent'[s] = 1 /\ Cardinality(active'[s]) <= 1
    <3>1. s \in Lanes /\ maxConcurrent[s] = 1 /\ Cardinality(active[s]) <= 1
      BY TurnConstants DEF OneSlot
    <3>2. CASE active'[s] \subseteq active[s]
      <4>1. active[s] \in SUBSET Calls
        BY <3>1, StateFacts
      <4>2. IsFiniteSet(active[s])
        BY <4>1, CallsFinite
      <4>3. Cardinality(active'[s]) <= Cardinality(active[s])
        BY <3>2, <4>2, FS_Subset
      <4>4. active'[s] \in SUBSET Calls
        BY <3>2, <4>1
      <4>5. Cardinality(active[s]) \in Nat /\ Cardinality(active'[s]) \in Nat
        BY <4>1, <4>4, CallsFinite
      <4> QED
        BY <2>1, <3>1, <4>3, <4>5
    <3>3. CASE ~(active'[s] \subseteq active[s])
      BY <2>1, <2>2, <3>1, <3>3 DEF Within
    <3> QED
      BY <3>2, <3>3
  <2> QED
    BY <2>3 DEF OneSlot
<1> QED
  BY <1>1, <1>2

\* Calls are refused from the start of a drain to the reset after it.
LEMMA RefusingStep ==
  ASSUME IInv, Chains, Refusing, [TurnsNext]_allVars
  PROVE  Refusing'
<1>1. ASSUME UNCHANGED <<gatewayDraining, waiting>>
      PROVE  Refusing'
  BY <1>1 DEF Refusing
<1>2. ASSUME NEW k \in DOMAIN LaneParam, NEW s \in Sessions, FirstCall(k, s)
      PROVE  Refusing'
  <2>1. Enqueue(Route(k, s)[1]) /\ Route(k, s)[1] \in Lanes
    BY <1>2, FirstLane DEF FirstCall
  <2> QED
    BY <1>1, <2>1, EnqueueEffect
<1>3. ASSUME NEW c \in Calls, Task(c)
      PROVE  Refusing'
  <2>1. CASE Descend(c)
    <3>1. PICK l \in Lanes : Enqueue(l)
      BY <2>1, DescendKeepsChains
    <3> QED
      BY <1>1, <3>1, EnqueueEffect
  <2>2. CASE Return(c) \/ JobEnds(c) \/ RunEnds(c)
    <3>1. PICK result \in Results : Complete(c, result)
      BY <2>2, TaskEnds
    <3> QED
      BY <1>1, <3>1, CompleteEffect
  <2> QED
    BY <1>3, <2>1, <2>2 DEF Task
<1>4. CASE \E s \in Sessions : ClearSession(s)
  BY <1>1, <1>4, TurnConstants, ClearEffect DEF ClearSession
<1>5. CASE Configure \/ (\E t \in Turns : AskEnds(t)) \/ UNCHANGED allVars
  BY <1>1, <1>5 DEF Configure, AskEnds, allVars, vars, laneVars, waitVars
<1>6. CASE Drainage
  BY <1>6 DEF Drainage, DrainBegins, WaitForActive, Refusing
<1>7. CASE Poll
  BY <1>7 DEF Poll, WaitDrained, WaitTimeout, laneVars, Refusing
<1>8. CASE Reset
  BY <1>8 DEF Reset, ResetAllLanes, Refusing
<1> QED
  BY <1>2, <1>3, <1>4, <1>5, <1>6, <1>7, <1>8, TurnConstants DEF TurnsNext, MakeTurn, Ask

\* The watch of the sessions' lanes keeps while calls start and end, when no call
\* but a refused one is made by a running task.
LEMMA MovesKeepWatching ==
  ASSUME IInv, Chains, Watching, NEW done, Moves(done),
         UNCHANGED <<watched, waiting, overran>>,
         \A p \in running : waiting # "idle" /\ inner'[p] # 0 /\ outcome'[inner'[p]] = "pending"
                              => inner[p] # 0 /\ outcome[inner[p]] = "pending",
         \A p \in Calls \ running : inner'[p] = inner[p], running' \subseteq Calls
  PROVE  Watching'
<1> SUFFICES ASSUME ~overran, NEW p \in running', laneOf'[p] \in Sessions
             PROVE  /\ startGen'[p] = generation'[laneOf'[p]]
                    /\ waiting # "idle" /\ inner'[p] # 0 /\ outcome'[inner'[p]] = "pending"
                         => p \in watched
  BY DEF Watching
<1>1. generation' = generation
  BY DEF Moves
<1>2. CASE p \in running
  <2>1. laneOf'[p] = laneOf[p] /\ startGen'[p] = startGen[p]
    BY <1>2 DEF Moves
  <2> QED
    BY <1>1, <1>2, <2>1 DEF Watching
<1>3. CASE p \notin running
  <2>1. ~HasStarted(p) /\ startGen'[p] = generation[laneOf'[p]]
    BY <1>3 DEF Moves
  <2>2. p \in Calls /\ inner'[p] = inner[p]
    BY <1>3
  <2>3. inner[p] = 0
    BY <2>1, <2>2 DEF Chains, Linked
  <2> QED
    BY <1>1, <2>1, <2>2, <2>3
<1> QED
  BY <1>2, <1>3
\* Every step keeps the watch of the sessions' lanes.
LEMMA WatchingStep ==
  ASSUME IInv, IInv', Chains, Refusing, Watching, [TurnsNext]_allVars
  PROVE  Watching'
<1>0. /\ running \subseteq Calls /\ running' \subseteq Calls
      /\ \A p \in Calls : inner[p] # 0 => inner[p] \in Calls \ {nextCall}
  <2>1. nextCall \notin Made /\ Made \subseteq Calls
    BY ChainFacts
  <2>2. \A p \in Calls : inner[p] # 0 => inner[p] \in Made
    BY DEF Chains, Linked
  <2> QED
    BY <2>1, <2>2 DEF IInv, TypeOK
<1>1. ASSUME NEW k \in DOMAIN LaneParam, NEW s \in Sessions, FirstCall(k, s)
      PROVE  Watching'
  <2>1. inner' = inner /\ overran' = overran
        /\ Enqueue(Route(k, s)[1]) /\ Route(k, s)[1] \in Lanes
    BY <1>1, FirstLane DEF FirstCall
  <2>2. /\ outcome' = [outcome EXCEPT ![nextCall] = IF gatewayDraining THEN "refused" ELSE "pending"]
        /\ UNCHANGED <<watched, waiting>>
        /\ Moves({})
    BY <2>1, EnqueueEffect
  <2>3. \A p \in running : inner[p] # 0 => outcome'[inner[p]] = outcome[inner[p]]
    <3>1. \A d \in Calls \ {nextCall} : outcome'[d] = outcome[d]
      BY <2>2 DEF IInv, TypeOK
    <3> QED
      BY <1>0, <3>1
  <2> QED
    BY <1>0, <2>1, <2>2, <2>3, MovesKeepWatching
<1>2. ASSUME NEW c \in Calls, Descend(c)
      PROVE  Watching'
  <2>1. /\ c \in running /\ inner' = [inner EXCEPT ![c] = nextCall]
        /\ \E l \in Lanes : Enqueue(l)
        /\ overran' = overran
    BY <1>2, DescendKeepsChains DEF Descend
  <2>2. /\ outcome' = [outcome EXCEPT ![nextCall] = IF gatewayDraining THEN "refused" ELSE "pending"]
        /\ UNCHANGED <<watched, waiting>>
        /\ Moves({}) /\ nextCall \in Calls
    BY <2>1, EnqueueEffect
  <2>3. \A p \in Calls \ {c} : inner'[p] = inner[p]
    BY <2>1 DEF Chains, TurnTypes
  <2>4. waiting # "idle" => outcome'[inner'[c]] = "refused"
    BY <2>1, <2>2 DEF Refusing, IInv, TypeOK, Chains, TurnTypes
  <2>5. \A p \in running \ {c} : inner'[p] # 0 => outcome'[inner'[p]] = outcome[inner[p]]
    <3>1. \A d \in Calls \ {nextCall} : outcome'[d] = outcome[d]
      BY <2>2 DEF IInv, TypeOK
    <3> QED
      BY <1>0, <2>3, <3>1
  <2>6. \A p \in running : waiting # "idle" /\ inner'[p] # 0 /\ outcome'[inner'[p]] = "pending"
                              => inner[p] # 0 /\ outcome[inner[p]] = "pending"
    <3> SUFFICES ASSUME NEW p \in running, waiting # "idle", inner'[p] # 0,
                        outcome'[inner'[p]] = "pending"
                 PROVE  inner[p] # 0 /\ outcome[inner[p]] = "pending"
      OBVIOUS
    <3>1. p # c
      BY <2>4
    <3> QED
      BY <1>0, <2>3, <2>5, <3>1
  <2> QED
    BY <1>0, <2>1, <2>2, <2>3, <2>6, MovesKeepWatching
<1>3. ASSUME NEW c \in Calls, Return(c) \/ JobEnds(c) \/ RunEnds(c)
      PROVE  Watching'
  <2>1. PICK result \in Results : Complete(c, result)
    BY <1>3, TaskEnds
  <2>2. UNCHANGED <<inner, overran>>
    BY <1>3, TaskEnds DEF turnVars
  <2>3. /\ outcome' = [outcome EXCEPT ![c] = result]
        /\ UNCHANGED <<watched, waiting>>
        /\ Moves({c})
    BY <2>1, CompleteEffect
  <2>4. \A d \in Calls : outcome'[d] = "pending" => outcome[d] = "pending"
    BY <2>3 DEF Results, IInv, TypeOK
  <2> QED
    BY <1>0, <2>2, <2>3, <2>4, MovesKeepWatching
<1>4. ASSUME NEW s \in Sessions, ClearSession(s)
      PROVE  Watching'
  <2>1. s \in Lanes /\ ClearLane(s) /\ UNCHANGED <<inner, overran>>
    BY <1>4, TurnConstants DEF ClearSession, turnVars
  <2>2. /\ \A d \in Calls : outcome'[d] = "pending" => outcome[d] = "pending"
        /\ UNCHANGED <<watched, waiting>>
        /\ Moves({})
    BY <2>1, ClearEffect
  <2> QED
    BY <1>0, <2>1, <2>2, MovesKeepWatching
<1>5. CASE Configure \/ (\E t \in Turns : AskEnds(t)) \/ UNCHANGED allVars
  <2>1. UNCHANGED <<overran, running, laneOf, startGen, generation, waiting, inner, outcome, watched>>
    BY <1>5 DEF Configure, AskEnds, allVars, turnVars, vars, laneVars, callVars, waitVars
  <2> QED
    BY <2>1 DEF Watching
<1>6. CASE Drainage
  <2>1. /\ UNCHANGED <<overran, running, laneOf, startGen, generation, inner, outcome, active>>
        /\ watched' = ActiveCalls
    BY <1>6 DEF Drainage, DrainBegins, WaitForActive, turnVars, callVars
  <2>2. \A p \in running : startGen[p] = generation[laneOf[p]] => p \in ActiveCalls
    BY <1>0 DEF ActiveCalls, IInv, TypeOK, LaneInv, SlotsAreCurrent
  <2> QED
    BY <2>1, <2>2 DEF Watching
<1>7. CASE Poll
  <2>1. /\ UNCHANGED <<overran, running, laneOf, startGen, generation, inner, outcome, watched>>
        /\ waiting = "waiting"
    BY <1>7 DEF Poll, WaitDrained, WaitTimeout, turnVars, laneVars, callVars
  <2> QED
    BY <2>1 DEF Watching
<1>8. CASE Reset
  <2>1. /\ Quiet /\ waiting \in {"drained", "timedOut"}
        /\ overran' = (overran \/ waiting = "timedOut")
        /\ ResetAllLanes
    BY <1>8 DEF Reset
  <2>2. /\ running' = running \cup UNION {LaneStarts(l) : l \in Lanes}
        /\ generation' = [l \in Lanes |-> generation[l] + 1]
        /\ startGen' = [c \in Calls |-> IF \E l \in Lanes : c \in LaneStarts(l)
                                        THEN generation[laneOf[c]] + 1
                                        ELSE startGen[c]]
        /\ waiting' = "idle" /\ laneOf' = laneOf
    BY <2>1 DEF ResetAllLanes
  <2> SUFFICES ASSUME ~overran', NEW p \in running', laneOf[p] \in Sessions
               PROVE  startGen'[p] = generation'[laneOf[p]]
    BY <2>2 DEF Watching
  <2>3. ~overran /\ waiting = "drained"
    BY <2>1
  <2>4. p \notin running
    <3> SUFFICES ASSUME p \in running PROVE FALSE
      OBVIOUS
    <3>1. inner[p] # 0 /\ outcome[inner[p]] = "pending"
      BY <2>1 DEF Quiet, MustDescend, MustReturn, Starts, Settled
    <3>2. p \in watched
      BY <2>3, <3>1 DEF Watching
    <3> QED
      BY <2>3, <3>2 DEF IInv, DrainedMeansEnded
  <2>5. \E l \in Lanes : p \in LaneStarts(l)
    BY <2>2, <2>4
  <2> QED
    BY <1>0, <2>2, <2>5 DEF IInv, TypeOK
<1> QED
  BY <1>1, <1>2, <1>3, <1>4, <1>5, <1>6, <1>7, <1>8, TurnConstants
     DEF TurnsNext, MakeTurn, Ask, Task

\* The initial state satisfies the invariant.
LEMMA TurnsInvInit == TurnsInit => TurnsInv
<1> SUFFICES ASSUME TurnsInit PROVE TurnsInv
  OBVIOUS
<1>1. IInv /\ nextCall = 1
  BY IInvInit DEF TurnsInit, Init
<1>2. Made = {}
  BY <1>1, MaxCallsAssumption DEF Made, Calls
<1>3. TurnTypes
  <2>1. nextTurn \in 1 .. MaxTurns + 1 /\ 0 \in 0 .. MaxTurns
    BY MaxTurnsAssumption DEF TurnsInit, MaxTurnsAssumption
  <2>2. FirstSession \in Sessions
    BY TurnLanesAssumption DEF TurnLanesAssumption, FirstSession
  <2>3. inner \in [Calls -> 0 .. MaxCalls] /\ depth \in [Calls -> Nat]
    BY MaxCallsAssumption DEF TurnsInit
  <2>4. turnOf \in [Calls -> 0 .. MaxTurns] /\ asked \in [Turns -> 0 .. MaxTurns]
    BY <2>1 DEF TurnsInit
  <2>5. kind \in [Turns -> DOMAIN LaneParam] /\ session \in [Turns -> Sessions]
    BY <2>2, TurnConstants DEF TurnsInit
  <2> QED
    BY <2>1, <2>3, <2>4, <2>5 DEF TurnsInit, TurnTypes
<1>4. Placed /\ Parented
  BY <1>2 DEF Placed, Parented
<1>5. Linked
  BY DEF TurnsInit, Linked
<1>6. OneSlot
  BY TurnConstants, FS_EmptySet DEF TurnsInit, Init, OneSlot
<1>7. Refusing /\ Watching
  BY DEF TurnsInit, Init, Refusing, Watching
<1> QED
  BY <1>1, <1>3, <1>4, <1>5, <1>6, <1>7 DEF TurnsInv, Chains

\* Every step preserves the invariant.
LEMMA TurnsInvStep == TurnsInv /\ [TurnsNext]_allVars => TurnsInv'
<1> SUFFICES ASSUME TurnsInv, [TurnsNext]_allVars PROVE TurnsInv'
  OBVIOUS
<1>1. IInv'
  BY QueueStep, ConfigureKeepsQueue, IInvStep DEF TurnsInv
<1>2. Chains'
  BY ChainsStep DEF TurnsInv
<1>3. OneSlot'
  BY OneSlotStep DEF TurnsInv
<1>4. Refusing'
  BY RefusingStep DEF TurnsInv
<1>5. Watching'
  BY <1>1, WatchingStep DEF TurnsInv
<1> QED
  BY <1>1, <1>2, <1>3, <1>4, <1>5 DEF TurnsInv

-----------------------------------------------------------------------------
(* The theorems                                                            *)

\* The invariant of the turns holds in every reachable state.
THEOREM TurnsInvariance == TurnsSpec => []TurnsInv
  BY TurnsInvInit, TurnsInvStep, PTL DEF TurnsSpec

\* Every call is made for a turn, on the lane of its place in the turn's route, and
\* awaits the next call of the same turn.
THEOREM TurnsTypeCorrect == TurnsSpec => []TurnsTypeOK
<1>1. TurnsInv => TurnsTypeOK
  <2> SUFFICES ASSUME TurnsInv PROVE TurnsTypeOK
    OBVIOUS
  <2>1. TypeOK /\ TurnTypes
    BY DEF TurnsInv, IInv, Chains
  <2>2. Made = 1 .. nextCall - 1 /\ Made \subseteq Calls
    BY ChainFacts DEF TurnsInv
  <2>3. \A c \in Made :
          /\ turnOf[c] \in 1 .. nextTurn - 1
          /\ depth[c] \in 1 .. Len(RouteOf(c))
          /\ laneOf[c] = RouteOf(c)[depth[c]]
          /\ inner[c] # 0 => turnOf[inner[c]] = turnOf[c] /\ depth[inner[c]] = depth[c] + 1
    BY <2>2 DEF TurnsInv, Chains, Placed, Linked
  <2> QED
    BY <2>1, <2>2, <2>3 DEF TurnsTypeOK, TurnTypes
<1> QED
  BY <1>1, TurnsInvariance, PTL

\* Unless a restart went on over turns that outlived its drain, two runs at work are
\* never of one session, whatever lanes their turns came through.
THEOREM OneWriterPerSession == TurnsSpec => []OneTurnPerSession
<1>1. TurnsInv => OneTurnPerSession
  <2> SUFFICES ASSUME TurnsInv, ~overran, NEW c \in AtWork, NEW d \in AtWork,
                      session[turnOf[c]] = session[turnOf[d]]
               PROVE  c = d
    BY DEF OneTurnPerSession
  <2> DEFINE s == session[turnOf[c]]
  <2>1. PICK p \in running : inner[p] = c /\ laneOf[p] = s /\ s \in Sessions
    BY RunHasParent DEF TurnsInv
  <2>2. PICK q \in running : inner[q] = d /\ laneOf[q] = s
    BY RunHasParent DEF TurnsInv
  <2>3. p \in active[s] /\ q \in active[s] /\ s \in Lanes
    <3>1. startGen[p] = generation[s] /\ startGen[q] = generation[s]
      BY <2>1, <2>2 DEF TurnsInv, Watching
    <3>2. s \in Lanes
      BY <2>1, TurnConstants
    <3> QED
      BY <2>1, <2>2, <3>1, <3>2 DEF TurnsInv, IInv, LaneInv, SlotsAreCurrent
  <2> HIDE DEF s
  <2>4. active[s] \in SUBSET Calls /\ Cardinality(active[s]) <= 1
    BY <2>1, <2>3, StateFacts DEF TurnsInv, OneSlot
  <2>5. p = q
    <3> SUFFICES ASSUME p # q PROVE FALSE
      OBVIOUS
    <3>1. IsFiniteSet(active[s]) /\ Cardinality(active[s]) \in Nat
      BY <2>4, CallsFinite
    <3>2. {p, q} \subseteq active[s]
      BY <2>3
    <3>3. IsFiniteSet({p}) /\ Cardinality({p}) = 1
      BY FS_Singleton
    <3>4. Cardinality({p} \cup {q}) = Cardinality({p}) + 1
      BY <3>3, FS_AddElement
    <3>5. {p, q} = {p} \cup {q}
      OBVIOUS
    <3>6. Cardinality({p, q}) <= Cardinality(active[s])
      BY <3>1, <3>2, FS_Subset
    <3> QED
      BY <2>4, <3>1, <3>3, <3>4, <3>5, <3>6
  <2> QED
    BY <2>1, <2>2, <2>5
<1> QED
  BY <1>1, TurnsInvariance, PTL

\* A drain that completes leaves no run at work, unless turns have outlived an
\* earlier one.
THEOREM DrainLeavesIdle == TurnsSpec => []DrainedMeansIdle
<1>1. TurnsInv => DrainedMeansIdle
  <2> SUFFICES ASSUME TurnsInv, ~overran, waiting = "drained", NEW d \in AtWork
               PROVE  FALSE
    BY DEF DrainedMeansIdle
  <2>1. outcome[d] = "pending" /\ d \in Made
    BY RunHasParent DEF TurnsInv
  <2>2. PICK p \in running : inner[p] = d /\ laneOf[p] \in Sessions
    BY RunHasParent DEF TurnsInv
  <2>3. d # 0
    BY <2>1, ChainFacts, MaxCallsAssumption DEF TurnsInv, Calls
  <2>4. p \in watched
    BY <2>1, <2>2, <2>3 DEF TurnsInv, Watching
  <2> QED
    BY <2>2, <2>4 DEF TurnsInv, IInv, DrainedMeansEnded
<1> QED
  BY <1>1, TurnsInvariance, PTL

=============================================================================
