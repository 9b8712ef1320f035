------------------------- MODULE CommandLanesProofs -------------------------
(***************************************************************************)
(* Proofs about CommandLanes for every set of lanes, every set of          *)
(* configured limits and every number of calls and resets.                 *)
(***************************************************************************)
EXTENDS CommandLanes, FiniteSetTheorems, SequenceTheorems, TLAPS

Elems(q) == {q[i] : i \in 1 .. Len(q)}

Increasing(q) == \A i, j \in 1 .. Len(q) : i < j => q[i] < q[j]

-----------------------------------------------------------------------------
(* The pump                                                                *)

\* Sets of calls are finite, so the slots in use can be counted.
LEMMA CallsFinite ==
  ASSUME NEW a \in SUBSET Calls
  PROVE  IsFiniteSet(a) /\ Cardinality(a) \in Nat
<1>1. IsFiniteSet(Calls)
  BY MaxCallsAssumption, FS_Interval DEF Calls
<1>2. IsFiniteSet(a)
  BY <1>1, FS_Subset
<1> QED
  BY <1>2, FS_CardinalityType

\* The pump starts no more calls than wait, and stops early only when every
\* slot is taken.
LEMMA PumpCountBounds ==
  ASSUME NEW q \in Seq(Calls), NEW a \in SUBSET Calls, NEW m \in Limits
  PROVE  /\ PumpCount(q, a, m) \in 0 .. Len(q)
         /\ PumpCount(q, a, m) < Len(q) => Cardinality(a) + PumpCount(q, a, m) >= m
         /\ PumpCount(q, a, m) > 0 => Cardinality(a) + PumpCount(q, a, m) <= m
<1>1. Cardinality(a) \in Nat /\ Len(q) \in Nat /\ m \in Nat
  BY CallsFinite, LenProperties DEF Limits
<1> QED
  BY <1>1 DEF PumpCount

\* The pump splits the queue: the calls started and the calls left.
LEMMA PumpSplits ==
  ASSUME NEW q \in Seq(Calls), NEW a \in SUBSET Calls, NEW m \in Limits
  PROVE  /\ Started(q, a, m) \subseteq Elems(q)
         /\ Started(q, a, m) \subseteq Calls
         /\ Rest(q, a, m) \in Seq(Calls)
         /\ Len(Rest(q, a, m)) = Len(q) - PumpCount(q, a, m)
         /\ \A i \in 1 .. Len(Rest(q, a, m)) :
               Rest(q, a, m)[i] = q[PumpCount(q, a, m) + i]
         /\ Elems(q) = Started(q, a, m) \cup Elems(Rest(q, a, m))
<1> DEFINE k == PumpCount(q, a, m)
           r == Rest(q, a, m)
<1>1. k \in 0 .. Len(q) /\ Len(q) \in Nat
  BY PumpCountBounds, LenProperties
<1>2. \A i \in 1 .. Len(q) : q[i] \in Calls
  BY ElementOfSeq
<1> HIDE DEF k
<1>3. r = SubSeq(q, k + 1, Len(q))
  BY DEF Rest, k
<1> HIDE DEF r
<1>4. /\ r \in Seq(Calls)
      /\ Len(r) = IF k + 1 <= Len(q) THEN Len(q) - (k + 1) + 1 ELSE 0
      /\ \A i \in 1 .. Len(q) - (k + 1) + 1 : r[i] = q[k + 1 + i - 1]
  <2>1. \A i \in k + 1 .. Len(q) : q[i] \in Calls
    BY <1>1, <1>2
  <2> QED
    BY <1>1, <1>3, <2>1, SubSeqProperties
<1>5. Len(r) = Len(q) - k /\ \A i \in 1 .. Len(r) : r[i] = q[k + i]
  BY <1>1, <1>4
<1>6. Started(q, a, m) = {q[i] : i \in 1 .. k}
  BY DEF Started, k
<1>7. Elems(q) = {q[i] : i \in 1 .. k} \cup Elems(r)
  <2>1. ASSUME NEW i \in 1 .. Len(q)
        PROVE  q[i] \in {q[j] : j \in 1 .. k} \cup Elems(r)
    <3>1. CASE i <= k
      BY <3>1, <1>1
    <3>2. CASE i > k
      <4>1. i - k \in 1 .. Len(r) /\ r[i - k] = q[k + (i - k)]
        BY <3>2, <1>1, <1>5
      <4>2. k + (i - k) = i
        BY <1>1
      <4> QED
        BY <4>1, <4>2 DEF Elems
    <3> QED
      BY <3>1, <3>2, <1>1
  <2>2. ASSUME NEW i \in 1 .. k
        PROVE  q[i] \in Elems(q)
    BY <1>1 DEF Elems
  <2>3. ASSUME NEW i \in 1 .. Len(r)
        PROVE  r[i] \in Elems(q)
    <3>1. k + i \in 1 .. Len(q)
      BY <1>1, <1>5
    <3> QED
      BY <3>1, <1>5 DEF Elems
  <2> QED
    BY <2>1, <2>2, <2>3 DEF Elems
<1>8. Started(q, a, m) \subseteq Elems(q)
  BY <1>6, <1>7
<1>9. Elems(q) \subseteq Calls
  BY <1>2 DEF Elems
<1> QED
  BY <1>4, <1>5, <1>6, <1>7, <1>8, <1>9 DEF k, r

\* On an increasing queue the pump starts the oldest calls and leaves an
\* increasing queue of younger ones.
LEMMA PumpInOrder ==
  ASSUME NEW q \in Seq(Calls), NEW a \in SUBSET Calls, NEW m \in Limits,
         Increasing(q)
  PROVE  /\ Increasing(Rest(q, a, m))
         /\ \A c \in Started(q, a, m), d \in Elems(Rest(q, a, m)) : c < d
<1> DEFINE k == PumpCount(q, a, m)
           r == Rest(q, a, m)
<1>1. k \in 0 .. Len(q) /\ Len(q) \in Nat
  BY PumpCountBounds, LenProperties
<1>2. Len(r) = Len(q) - k /\ \A i \in 1 .. Len(r) : r[i] = q[k + i]
  BY PumpSplits
<1>3. Started(q, a, m) = {q[i] : i \in 1 .. k}
  BY DEF Started
<1> HIDE DEF k, r
<1>4. ASSUME NEW i \in 1 .. Len(r), NEW j \in 1 .. Len(r), i < j
      PROVE  r[i] < r[j]
  <2>1. k + i \in 1 .. Len(q) /\ k + j \in 1 .. Len(q) /\ k + i < k + j
    BY <1>1, <1>2, <1>4
  <2> QED
    BY <2>1, <1>2 DEF Increasing
<1>5. ASSUME NEW i \in 1 .. k, NEW j \in 1 .. Len(r)
      PROVE  q[i] < r[j]
  <2>1. i \in 1 .. Len(q) /\ k + j \in 1 .. Len(q) /\ i < k + j
    BY <1>1, <1>2
  <2> QED
    BY <2>1, <1>2 DEF Increasing
<1>6. Increasing(r)
  BY <1>4 DEF Increasing
<1>7. \A c \in Started(q, a, m), d \in Elems(r) : c < d
  BY <1>3, <1>5 DEF Elems
<1> QED
  BY <1>6, <1>7 DEF r

\* Calls that are numbered in increasing order are distinct, so a pump that
\* starts k of them takes k slots.
LEMMA StartedCount ==
  ASSUME NEW q \in Seq(Calls), NEW a \in SUBSET Calls, NEW m \in Limits,
         Increasing(q)
  PROVE  Cardinality(Started(q, a, m)) = PumpCount(q, a, m)
<1> DEFINE k == PumpCount(q, a, m)
           s == Started(q, a, m)
           f == [i \in 1 .. k |-> q[i]]
<1>1. k \in 0 .. Len(q) /\ Len(q) \in Nat
  BY PumpCountBounds, LenProperties
<1>2. s = {q[i] : i \in 1 .. k}
  BY DEF Started
<1>3. \A i \in 1 .. Len(q) : q[i] \in Nat
  <2>1. \A i \in 1 .. Len(q) : q[i] \in Calls
    BY ElementOfSeq
  <2> QED
    BY <2>1, MaxCallsAssumption DEF Calls
<1> HIDE DEF k, s
<1>4. f \in [1 .. k -> s]
  BY <1>2
<1>5. \A i, j \in 1 .. k : i # j => q[i] # q[j]
  <2> SUFFICES ASSUME NEW i \in 1 .. k, NEW j \in 1 .. k, i < j
               PROVE  q[i] < q[j]
    BY <1>1, <1>3
  <2> QED
    BY <1>1 DEF Increasing
<1>6. f \in Injection(1 .. k, s)
  BY <1>4, <1>5 DEF Injection, IsInjective
<1>7. f \in Surjection(1 .. k, s)
  BY <1>2, <1>4 DEF Surjection
<1>8. ExistsBijection(1 .. k, s)
  BY <1>6, <1>7 DEF ExistsBijection, Bijection
<1>9. IsFiniteSet(1 .. k) /\ Cardinality(1 .. k) = k
  BY <1>1, FS_Interval
<1> QED
  BY <1>8, <1>9, FS_Bijection DEF k, s

\* After a pump a call waits only if every slot is taken, and a pump that
\* started something stays within the limit.
LEMMA PumpFillsSlots ==
  ASSUME NEW q \in Seq(Calls), NEW a \in SUBSET Calls, NEW m \in Limits,
         Increasing(q), Elems(q) \cap a = {}
  PROVE  /\ Rest(q, a, m) # <<>> => Cardinality(a \cup Started(q, a, m)) >= m
         /\ Started(q, a, m) # {} => Cardinality(a \cup Started(q, a, m)) <= m
<1> DEFINE k == PumpCount(q, a, m)
           s == Started(q, a, m)
           r == Rest(q, a, m)
<1>1. /\ k \in 0 .. Len(q)
      /\ k < Len(q) => Cardinality(a) + k >= m
      /\ k > 0 => Cardinality(a) + k <= m
      /\ Len(q) \in Nat
  BY PumpCountBounds, LenProperties
<1>2. s \subseteq Elems(q) /\ s \subseteq Calls /\ Len(r) = Len(q) - k /\ r \in Seq(Calls)
  BY PumpSplits
<1>3. Cardinality(s) = k
  BY StartedCount
<1>4. k = 0 => s = {}
  BY DEF Started
<1> HIDE DEF k, s, r
<1>5. Cardinality(a \cup s) = Cardinality(a) + k
  <2>1. a \cap s = {}
    BY <1>2
  <2>2. IsFiniteSet(a) /\ IsFiniteSet(s) /\ Cardinality(a) \in Nat
    BY <1>2, CallsFinite
  <2>3. Cardinality(a \cup s) = Cardinality(a) + Cardinality(s) - Cardinality(a \cap s)
    BY <2>2, FS_Union
  <2>4. Cardinality(a \cap s) = 0
    BY <2>1, FS_EmptySet
  <2> QED
    BY <1>1, <1>3, <2>2, <2>3, <2>4
<1>6. r # <<>> => k < Len(q)
  <2> SUFFICES ASSUME r # <<>> PROVE k < Len(q)
    OBVIOUS
  <2>1. Len(r) \in Nat \ {0}
    BY <1>2, EmptySeq
  <2> QED
    BY <1>1, <1>2, <2>1
<1>7. s # {} => k > 0
  BY <1>1, <1>4
<1> QED
  BY <1>1, <1>5, <1>6, <1>7 DEF k, s, r

-----------------------------------------------------------------------------
(* Type correctness                                                        *)

\* A drain of lane l leaves the four variables it assigns well typed.
LEMMA DrainTypes ==
  ASSUME TypeOK,
         NEW l \in Lanes, NEW q \in Seq(Calls), NEW a \in SUBSET Calls,
         NEW m \in Limits, NEW done, Drain(l, q, a, m, done)
  PROVE  /\ queue' \in [Lanes -> Seq(Calls)]
         /\ active' \in [Lanes -> SUBSET Calls]
         /\ running' \subseteq Calls
         /\ startGen' \in [Calls -> Nat]
<1>1. Started(q, a, m) \subseteq Calls /\ Rest(q, a, m) \in Seq(Calls)
  BY PumpSplits
<1> QED
  BY <1>1 DEF Drain, TypeOK

\* TypeOK is kept by every step: in particular a completion, an enqueue and a
\* change of the limit leave queues of calls and sets of calls.
LEMMA TypeStep ==
  ASSUME TypeOK, [Next]_vars
  PROVE  TypeOK'
<1>1. \A l \in Lanes : /\ queue[l] \in Seq(Calls)
                       /\ active[l] \in SUBSET Calls
                       /\ maxConcurrent[l] \in Limits
                       /\ Queued(l) \subseteq Calls
  <2>1. \A l \in Lanes : queue[l] \in Seq(Calls)
    BY DEF TypeOK
  <2>2. \A l \in Lanes : \A i \in 1 .. Len(queue[l]) : queue[l][i] \in Calls
    BY <2>1, ElementOfSeq
  <2> QED
    BY <2>1, <2>2 DEF TypeOK, Queued
<1>2. ASSUME NEW l \in Lanes, Refuse(l)
      PROVE  TypeOK'
  <2>1. nextCall + 1 \in 1 .. MaxCalls + 1
    BY <1>2, MaxCallsAssumption DEF Refuse, Calls
  <2> QED
    BY <1>2, <2>1 DEF Refuse, TypeOK, Outcomes, laneVars, waitVars
<1>3. ASSUME NEW l \in Lanes, Accept(l)
      PROVE  TypeOK'
  <2>1. nextCall + 1 \in 1 .. MaxCalls + 1 /\ nextCall \in Calls
    BY <1>3, MaxCallsAssumption DEF Accept, Calls
  <2>2. Append(queue[l], nextCall) \in Seq(Calls)
    BY <1>1, <2>1
  <2>3. /\ queue' \in [Lanes -> Seq(Calls)]
        /\ active' \in [Lanes -> SUBSET Calls]
        /\ running' \subseteq Calls
        /\ startGen' \in [Calls -> Nat]
    BY <1>1, <1>3, <2>2, DrainTypes DEF Accept
  <2>4. laneOf' \in [Calls -> Lanes] /\ outcome' \in [Calls -> Outcomes]
    BY <1>3, <2>1 DEF Accept, TypeOK, Outcomes
  <2>5. UNCHANGED <<maxConcurrent, generation, gatewayDraining, waitVars>>
    BY <1>3 DEF Accept
  <2>6. nextCall' = nextCall + 1
    BY <1>3 DEF Accept
  <2> QED
    BY <2>1, <2>3, <2>4, <2>5, <2>6 DEF TypeOK, waitVars
<1>4. ASSUME NEW c \in Calls, NEW result \in Results, CurrentCompletion(c, result)
      PROVE  TypeOK'
  <2> DEFINE l == laneOf[c]
  <2>1. l \in Lanes /\ active[l] \ {c} \in SUBSET Calls
    BY <1>1 DEF TypeOK
  <2>2. /\ outcome' = [outcome EXCEPT ![c] = result]
        /\ Drain(l, queue[l], active[l] \ {c}, maxConcurrent[l], {c})
        /\ UNCHANGED <<maxConcurrent, generation, gatewayDraining,
                       nextCall, laneOf, waitVars>>
    BY <1>4 DEF CurrentCompletion
  <2> HIDE DEF l
  <2>3. /\ queue' \in [Lanes -> Seq(Calls)]
        /\ active' \in [Lanes -> SUBSET Calls]
        /\ running' \subseteq Calls
        /\ startGen' \in [Calls -> Nat]
    BY <1>1, <2>1, <2>2, DrainTypes
  <2>4. outcome' \in [Calls -> Outcomes]
    BY <2>2 DEF TypeOK, Outcomes
  <2> QED
    BY <2>2, <2>3, <2>4 DEF TypeOK, waitVars
<1>5. ASSUME NEW c \in Calls, NEW result \in Results, StaleCompletion(c, result)
      PROVE  TypeOK'
  BY <1>5 DEF StaleCompletion, TypeOK, Outcomes, laneVars, waitVars
<1>6. ASSUME NEW l \in Lanes, NEW raw \in RawLimits, SetConcurrency(l, raw)
      PROVE  TypeOK'
  <2>1. ClampLimit(raw) \in Limits
    BY RawLimitsAssumption DEF ClampLimit, Limits
  <2>2. /\ queue' \in [Lanes -> Seq(Calls)]
        /\ active' \in [Lanes -> SUBSET Calls]
        /\ running' \subseteq Calls
        /\ startGen' \in [Calls -> Nat]
    BY <1>1, <1>6, <2>1, DrainTypes DEF SetConcurrency
  <2>3. maxConcurrent' \in [Lanes -> Limits]
    BY <1>6, <2>1 DEF SetConcurrency, TypeOK
  <2>4. UNCHANGED <<generation, gatewayDraining, nextCall, laneOf, outcome, waitVars>>
    BY <1>6 DEF SetConcurrency
  <2> QED
    BY <2>2, <2>3, <2>4 DEF TypeOK, waitVars
<1>7. ASSUME NEW l \in Lanes, ClearLane(l)
      PROVE  TypeOK'
  <2>1. queue' \in [Lanes -> Seq(Calls)]
    BY <1>7, EmptySeq DEF ClearLane, TypeOK
  <2> QED
    BY <1>7, <2>1 DEF ClearLane, TypeOK, Outcomes, waitVars
<1>8. CASE MarkDraining
  BY <1>8 DEF MarkDraining, TypeOK, callVars, waitVars
<1>9. CASE ResetAllLanes
  <2>1. \A l \in Lanes : /\ LaneStarts(l) \subseteq Calls
                         /\ Rest(queue[l], {}, maxConcurrent[l]) \in Seq(Calls)
    BY <1>1, PumpSplits DEF LaneStarts
  <2>2. /\ queue' = [l \in Lanes |-> Rest(queue[l], {}, maxConcurrent[l])]
        /\ active' = [l \in Lanes |-> LaneStarts(l)]
        /\ running' = running \cup UNION {LaneStarts(l) : l \in Lanes}
        /\ generation' = [l \in Lanes |-> generation[l] + 1]
        /\ startGen' = [c \in Calls |-> IF \E l \in Lanes : c \in LaneStarts(l)
                                        THEN generation[laneOf[c]] + 1
                                        ELSE startGen[c]]
        /\ gatewayDraining' = FALSE /\ watched' = {} /\ waiting' = "idle"
        /\ UNCHANGED <<maxConcurrent, nextCall, laneOf, outcome>>
    BY <1>9 DEF ResetAllLanes
  <2>3. queue' \in [Lanes -> Seq(Calls)] /\ active' \in [Lanes -> SUBSET Calls]
    BY <2>1, <2>2
  <2>4. running' \subseteq Calls
    BY <2>1, <2>2 DEF TypeOK
  <2>5. generation' \in [Lanes -> Nat]
    BY <2>2 DEF TypeOK
  <2>6. startGen' \in [Calls -> Nat]
    BY <2>2 DEF TypeOK
  <2> QED
    BY <2>2, <2>3, <2>4, <2>5, <2>6 DEF TypeOK
<1>10. CASE WaitForActive
  <2>1. gatewayDraining' \in BOOLEAN
    BY <1>10 DEF WaitForActive, TypeOK
  <2>2. watched' \subseteq Calls
    BY <1>10 DEF WaitForActive, TypeOK, ActiveCalls
  <2>3. waiting' \in {"idle", "waiting", "drained", "timedOut"}
    BY <1>10 DEF WaitForActive
  <2>4. /\ UNCHANGED <<queue, active, maxConcurrent, generation>>
        /\ UNCHANGED <<nextCall, laneOf, startGen, running, outcome>>
    BY <1>10 DEF WaitForActive, callVars
  <2> QED
    BY <2>1, <2>2, <2>3, <2>4 DEF TypeOK
<1>11. CASE WaitDrained \/ WaitTimeout
  BY <1>11 DEF WaitDrained, WaitTimeout, TypeOK, laneVars, callVars
<1>12. CASE UNCHANGED vars
  BY <1>12 DEF vars, laneVars, callVars, waitVars, TypeOK
<1> QED
  BY <1>2, <1>3, <1>4, <1>5, <1>6, <1>7, <1>8, <1>9, <1>10, <1>11, <1>12
     DEF Next, Enqueue, Complete

\* Initially every lane is empty, with one slot.
LEMMA TypeInit == Init => TypeOK
<1> SUFFICES ASSUME Init PROVE TypeOK
  OBVIOUS
<1>1. queue \in [Lanes -> Seq(Calls)]
  BY EmptySeq DEF Init
<1>2. laneOf \in [Calls -> Lanes]
  BY LanesAssumption DEF Init
<1>3. nextCall \in 1 .. MaxCalls + 1
  BY MaxCallsAssumption DEF Init
<1>4. 1 \in Limits /\ 0 \in Nat
  BY DEF Limits
<1> QED
  BY <1>1, <1>2, <1>3, <1>4 DEF Init, TypeOK, Outcomes

\* The command queue is type-correct in every reachable state.
THEOREM TypeCorrect == Spec => []TypeOK
<1>1. TypeOK /\ [Next]_vars => TypeOK'
  BY TypeStep
<1> QED
  BY <1>1, TypeInit, PTL DEF Spec

-----------------------------------------------------------------------------
(* The inductive invariant                                                 *)

\* Queues are in arrival order.
QueuesOrdered == \A l \in Lanes : Increasing(queue[l])

\* Call numbers are drawn once: what has happened is exactly what is numbered
\* below nextCall.
NewIsFuture == \A c \in Calls : outcome[c] = "new" <=> nextCall <= c

\* No running call comes from a generation its lane has not reached.
StartGenReached == \A c \in running : startGen[c] <= generation[laneOf[c]]

\* What a wait watches has been started, and in the current generation.
WatchedAreCurrent ==
  \A c \in watched : /\ HasStarted(c)
                     /\ c \in running => startGen[c] = generation[laneOf[c]]

LaneInv == /\ QueuesOrdered
           /\ NoStrandedWork
           /\ PendingAccounted
           /\ SlotsAreCurrent
           /\ StartedInOrder
           /\ StartGenReached

IInv == /\ TypeOK
        /\ LaneInv
        /\ NewIsFuture
        /\ WatchedAreCurrent
        /\ DrainedMeansEnded

(* The lanes after a handler has changed queue, promises or slots of lane  *)
(* l, before it drains it: lane l's queue is then q, its active calls are  *)
(* a, and the calls in done have ended.                                    *)

MidQueue(l, q, j) == IF j = l THEN Elems(q) ELSE Queued(j)

MidActive(l, a, j) == IF j = l THEN a ELSE active[j]

ReadyToDrain(l, q, a, m, done) ==
  /\ generation' = generation
  /\ maxConcurrent' = [maxConcurrent EXCEPT ![l] = m]
  /\ Increasing(q)
  /\ \A j \in Lanes \ {l} : /\ Increasing(queue[j])
                            /\ queue[j] # <<>>
                                 => Cardinality(active[j]) >= maxConcurrent[j]
  /\ \A c \in Calls : outcome'[c] = "pending" <=>
                        c \in running \ done \/ c \in MidQueue(l, q, laneOf'[c])
  /\ \A j \in Lanes : \A c \in MidQueue(l, q, j) : laneOf'[c] = j /\ c \notin running
  /\ \A j \in Lanes :
       MidActive(l, a, j) = {c \in running \ done :
                               laneOf'[c] = j /\ startGen[c] = generation[j]}
  /\ \A j \in Lanes : \A c \in MidQueue(l, q, j), d \in Calls :
       /\ d \in running \ done \/ outcome'[d] \in Results
       /\ laneOf'[d] = j
       => d < c
  /\ \A c \in running \ done : startGen[c] <= generation[laneOf'[c]]

\* Draining a lane that is ready for it re-establishes LaneInv.
LEMMA DrainKeepsLaneInv ==
  ASSUME TypeOK, laneOf' \in [Calls -> Lanes],
         NEW l \in Lanes, NEW q \in Seq(Calls), NEW a \in SUBSET Calls,
         NEW m \in Limits, NEW done \in SUBSET Calls,
         Drain(l, q, a, m, done), ReadyToDrain(l, q, a, m, done)
  PROVE  LaneInv'
<1> DEFINE s == Started(q, a, m)
           r == Rest(q, a, m)
<1>1. /\ s \subseteq Elems(q) /\ s \subseteq Calls
      /\ r \in Seq(Calls)
      /\ Elems(q) = s \cup Elems(r)
  BY PumpSplits
<1>2. Increasing(r) /\ \A c \in s, d \in Elems(r) : c < d
  BY PumpInOrder DEF ReadyToDrain
<1>3. r # <<>> => Cardinality(a \cup s) >= m
  <2>1. Elems(q) \cap a = {}
    BY DEF ReadyToDrain, MidQueue, MidActive
  <2> QED
    BY <2>1, PumpFillsSlots DEF ReadyToDrain
<1>4. /\ queue' = [queue EXCEPT ![l] = r]
      /\ active' = [active EXCEPT ![l] = a \cup s]
      /\ running' = (running \ done) \cup s
      /\ startGen' = [c \in Calls |-> IF c \in s THEN generation[l] ELSE startGen[c]]
  BY DEF Drain
<1> HIDE DEF s, r
<1>5. /\ queue'[l] = r
      /\ \A j \in Lanes \ {l} : queue'[j] = queue[j]
      /\ active'[l] = a \cup s
      /\ \A j \in Lanes \ {l} : active'[j] = active[j]
      /\ maxConcurrent'[l] = m
      /\ \A j \in Lanes \ {l} : maxConcurrent'[j] = maxConcurrent[j]
  BY <1>4 DEF TypeOK, ReadyToDrain
<1>6. /\ Queued(l)' = Elems(r)
      /\ \A j \in Lanes \ {l} : Queued(j)' = Queued(j)
  BY <1>5 DEF Queued, Elems
<1>7. \A c \in s : c \notin Elems(r) /\ c \notin running
  <2>1. \A c \in s : c \notin running
    BY <1>1 DEF ReadyToDrain, MidQueue
  <2>2. \A c \in s : c \notin Elems(r)
    <3>1. \A c \in s : c \in Int
      BY <1>1, MaxCallsAssumption DEF Calls
    <3> QED
      BY <1>2, <3>1
  <2> QED
    BY <2>1, <2>2
<1>8. \A c \in s : laneOf'[c] = l
  BY <1>1 DEF ReadyToDrain, MidQueue
<1>9. generation' = generation /\ running \subseteq Calls
  BY DEF ReadyToDrain, TypeOK
<1>10. QueuesOrdered'
  <2>1. \A j \in Lanes : Increasing(queue'[j])
    BY <1>2, <1>5 DEF ReadyToDrain
  <2> QED
    BY <2>1 DEF QueuesOrdered, Increasing
<1>11. NoStrandedWork'
  <2>1. \A j \in Lanes \ {l} :
           queue[j] # <<>> => Cardinality(active[j]) >= maxConcurrent[j]
    BY DEF ReadyToDrain
  <2>2. \A j \in Lanes :
           queue'[j] # <<>> => Cardinality(active'[j]) >= maxConcurrent'[j]
    BY <2>1, <1>3, <1>5
  <2> QED
    BY <2>2 DEF NoStrandedWork
<1>12. PendingAccounted'
  <2>1. ASSUME NEW c \in Calls
        PROVE  outcome'[c] = "pending" <=> c \in running' \/ c \in Queued(laneOf[c])'
    <3>1. outcome'[c] = "pending" <=>
            c \in running \ done \/ c \in MidQueue(l, q, laneOf'[c])
      BY DEF ReadyToDrain
    <3>2. CASE laneOf'[c] = l
      BY <3>1, <3>2, <1>1, <1>4, <1>6 DEF MidQueue
    <3>3. CASE laneOf'[c] # l
      <4>1. c \notin s
        BY <3>3, <1>8
      <4> QED
        BY <3>1, <3>3, <4>1, <1>4, <1>6 DEF MidQueue
    <3> QED
      BY <3>2, <3>3
  <2>2. ASSUME NEW j \in Lanes, NEW c \in Queued(j)'
        PROVE  laneOf'[c] = j /\ c \notin running'
    <3>1. CASE j = l
      <4>1. c \in Elems(r) /\ c \in MidQueue(l, q, l)
        BY <2>2, <3>1, <1>1, <1>6 DEF MidQueue
      <4>2. laneOf'[c] = l /\ c \notin running
        BY <4>1 DEF ReadyToDrain
      <4> QED
        BY <3>1, <4>1, <4>2, <1>4, <1>7
    <3>2. CASE j # l
      <4>1. Queued(j)' = Queued(j)
        BY <2>2, <3>2, <1>6
      <4>2. c \in MidQueue(l, q, j)
        BY <2>2, <3>2, <4>1 DEF MidQueue
      <4>3. laneOf'[c] = j /\ c \notin running
        BY <4>2 DEF ReadyToDrain
      <4> QED
        BY <3>2, <4>3, <1>4, <1>8
    <3> QED
      BY <3>1, <3>2
  <2> QED
    BY <2>1, <2>2 DEF PendingAccounted
<1>13. SlotsAreCurrent'
  <2>1. ASSUME NEW j \in Lanes
        PROVE  active'[j] = {c \in running' : laneOf'[c] = j
                                              /\ startGen'[c] = generation'[j]}
    <3>1. MidActive(l, a, j) = {c \in running \ done :
                                  laneOf'[c] = j /\ startGen[c] = generation[j]}
      BY DEF ReadyToDrain
    <3>2. \A c \in running \ done : c \in Calls /\ c \notin s /\ startGen'[c] = startGen[c]
      BY <1>4, <1>7, <1>9
    <3>3. \A c \in s : c \in Calls /\ startGen'[c] = generation[l]
      BY <1>1, <1>4
    <3>4. CASE j = l
      BY <3>1, <3>2, <3>3, <3>4, <1>4, <1>5, <1>8, <1>9 DEF MidActive
    <3>5. CASE j # l
      BY <3>1, <3>2, <3>3, <3>5, <1>4, <1>5, <1>8, <1>9 DEF MidActive
    <3> QED
      BY <3>4, <3>5
  <2> QED
    BY <2>1 DEF SlotsAreCurrent
<1>14. StartedInOrder'
  <2>1. ASSUME NEW j \in Lanes, NEW c \in Calls, NEW d \in Calls,
               c \in Queued(j)', d \in running' \/ outcome'[d] \in Results,
               laneOf'[d] = j
        PROVE  d < c
    <3>1. c \in MidQueue(l, q, j)
      BY <2>1, <1>1, <1>6 DEF MidQueue
    <3>2. CASE d \in running \ done \/ outcome'[d] \in Results
      BY <2>1, <3>1, <3>2 DEF ReadyToDrain
    <3>3. CASE d \in s
      <4>1. j = l
        BY <2>1, <3>3, <1>8
      <4> QED
        BY <2>1, <3>3, <4>1, <1>2, <1>6
    <3> QED
      BY <2>1, <3>2, <3>3, <1>4
  <2> QED
    BY <2>1 DEF StartedInOrder, HasStarted
<1>15. StartGenReached'
  <2>1. ASSUME NEW c \in running'
        PROVE  startGen'[c] <= generation'[laneOf'[c]]
    <3>1. CASE c \in s
      <4>1. c \in Calls /\ laneOf'[c] = l /\ startGen'[c] = generation[l]
        BY <3>1, <1>1, <1>4, <1>8
      <4> QED
        BY <4>1, <1>9 DEF TypeOK
    <3>2. CASE c \notin s
      <4>1. c \in running \ done
        BY <2>1, <3>2, <1>4
      <4>2. c \in Calls /\ startGen'[c] = startGen[c]
        BY <3>2, <4>1, <1>4, <1>9
      <4>3. startGen[c] <= generation[laneOf'[c]]
        BY <4>1 DEF ReadyToDrain
      <4> QED
        BY <4>2, <4>3, <1>9
    <3> QED
      BY <3>1, <3>2
  <2> QED
    BY <2>1 DEF StartGenReached
<1> QED
  BY <1>10, <1>11, <1>12, <1>13, <1>14, <1>15 DEF LaneInv

\* Facts about a state that satisfies the invariant, used by every step.
LEMMA StateFacts ==
  ASSUME IInv
  PROVE  /\ \A l \in Lanes : /\ queue[l] \in Seq(Calls)
                             /\ active[l] \in SUBSET Calls
                             /\ maxConcurrent[l] \in Limits
                             /\ Elems(queue[l]) = Queued(l)
                             /\ Queued(l) \subseteq Calls
         /\ \A l \in Lanes : \A c \in Queued(l) :
               outcome[c] = "pending" /\ laneOf[c] = l /\ ~HasStarted(c) /\ c < nextCall
         /\ \A c \in running : outcome[c] = "pending" /\ c \in Calls /\ c < nextCall
         /\ nextCall \in Nat
<1>1. \A l \in Lanes : /\ queue[l] \in Seq(Calls)
                       /\ active[l] \in SUBSET Calls
                       /\ maxConcurrent[l] \in Limits
                       /\ Elems(queue[l]) = Queued(l)
  BY DEF IInv, TypeOK, Elems, Queued
<1>2. \A l \in Lanes : \A i \in 1 .. Len(queue[l]) : queue[l][i] \in Calls
  BY <1>1, ElementOfSeq
<1>3. \A l \in Lanes : Queued(l) \subseteq Calls
  BY <1>2 DEF Queued
<1>4. nextCall \in Nat /\ \A c \in Calls : c \in Nat
  BY MaxCallsAssumption DEF IInv, TypeOK, Calls
<1>5. \A c \in Calls : outcome[c] = "pending" => c < nextCall
  BY <1>4 DEF IInv, NewIsFuture
<1>6. \A l \in Lanes : \A c \in Queued(l) :
         outcome[c] = "pending" /\ laneOf[c] = l /\ c \notin running
  BY <1>3 DEF IInv, LaneInv, PendingAccounted
<1>7. \A c \in running : outcome[c] = "pending" /\ c \in Calls
  BY DEF IInv, LaneInv, PendingAccounted, TypeOK
<1> QED
  BY <1>1, <1>3, <1>4, <1>5, <1>6, <1>7 DEF HasStarted, Results

\* Pushing the call drawn by enqueueCommandInLane leaves the lane ready to drain.
LEMMA AcceptReady ==
  ASSUME IInv, NEW l \in Lanes, Accept(l)
  PROVE  /\ Append(queue[l], nextCall) \in Seq(Calls)
         /\ laneOf' \in [Calls -> Lanes]
         /\ ReadyToDrain(l, Append(queue[l], nextCall), active[l], maxConcurrent[l], {})
<1> DEFINE q == Append(queue[l], nextCall)
<1>1. nextCall \in Calls /\ nextCall \in Nat
  BY StateFacts DEF Accept
<1>2. /\ laneOf' = [laneOf EXCEPT ![nextCall] = l]
      /\ outcome' = [outcome EXCEPT ![nextCall] = "pending"]
      /\ maxConcurrent' = maxConcurrent /\ generation' = generation
  BY DEF Accept
<1>3. /\ queue[l] \in Seq(Calls) /\ Len(queue[l]) \in Nat
      /\ q \in Seq(Calls)
      /\ Len(q) = Len(queue[l]) + 1
      /\ \A i \in 1 .. Len(queue[l]) : q[i] = queue[l][i]
      /\ q[Len(queue[l]) + 1] = nextCall
  BY <1>1, StateFacts, LenProperties
<1>4. outcome[nextCall] = "new" /\ nextCall \notin running
  BY <1>1, StateFacts DEF IInv, NewIsFuture
<1>5. Elems(q) = Queued(l) \cup {nextCall}
  <2>1. \A i \in 1 .. Len(q) : i \in 1 .. Len(queue[l]) \/ i = Len(queue[l]) + 1
    BY <1>3
  <2>2. \A i \in 1 .. Len(queue[l]) : i \in 1 .. Len(q)
    BY <1>3
  <2>3. Len(queue[l]) + 1 \in 1 .. Len(q)
    BY <1>3
  <2> HIDE DEF q
  <2>4. ASSUME NEW x \in Elems(q) PROVE x \in Queued(l) \cup {nextCall}
    BY <1>3, <2>1, <2>4 DEF Elems, Queued
  <2>5. ASSUME NEW x \in Queued(l) PROVE x \in Elems(q)
    BY <1>3, <2>2, <2>5 DEF Elems, Queued
  <2>6. nextCall \in Elems(q)
    BY <1>3, <2>3 DEF Elems
  <2> QED
    BY <2>4, <2>5, <2>6
<1> HIDE DEF q
<1>6. /\ laneOf' \in [Calls -> Lanes]
      /\ laneOf'[nextCall] = l /\ outcome'[nextCall] = "pending"
      /\ \A c \in Calls \ {nextCall} : laneOf'[c] = laneOf[c] /\ outcome'[c] = outcome[c]
  BY <1>1, <1>2 DEF IInv, TypeOK
<1>7. Increasing(q)
  <2>1. ASSUME NEW i \in 1 .. Len(q), NEW j \in 1 .. Len(q), i < j
        PROVE  q[i] < q[j]
    <3>1. i \in 1 .. Len(queue[l]) /\ q[i] = queue[l][i]
      BY <1>3, <2>1
    <3>2. CASE j = Len(queue[l]) + 1
      <4>1. q[i] \in Queued(l)
        BY <3>1 DEF Queued
      <4> QED
        BY <1>3, <3>2, <4>1, StateFacts
    <3>3. CASE j \in 1 .. Len(queue[l])
      BY <1>3, <3>1, <3>3, <2>1 DEF IInv, LaneInv, QueuesOrdered, Increasing
    <3> QED
      BY <1>3, <3>2, <3>3
  <2> QED
    BY <2>1 DEF Increasing
<1>8. \A j \in Lanes \ {l} : /\ Increasing(queue[j])
                             /\ queue[j] # <<>>
                                  => Cardinality(active[j]) >= maxConcurrent[j]
  BY DEF IInv, LaneInv, QueuesOrdered, NoStrandedWork
<1>9. \A j \in Lanes : /\ nextCall \notin Queued(j)
                       /\ MidQueue(l, q, j) = IF j = l THEN Queued(l) \cup {nextCall}
                                              ELSE Queued(j)
  <2>1. \A j \in Lanes : nextCall \notin Queued(j)
    BY <1>1, StateFacts
  <2> QED
    BY <2>1, <1>5 DEF MidQueue
<1>10. \A c \in Calls : outcome'[c] = "pending" <=>
                          c \in running \ {} \/ c \in MidQueue(l, q, laneOf'[c])
  <2> SUFFICES ASSUME NEW c \in Calls \ {nextCall}
               PROVE  outcome'[c] = "pending" <=>
                        c \in running \/ c \in MidQueue(l, q, laneOf'[c])
    BY <1>6, <1>9
  <2>1. outcome[c] = "pending" <=> c \in running \/ c \in Queued(laneOf[c])
    BY DEF IInv, LaneInv, PendingAccounted
  <2>2. laneOf[c] \in Lanes
    BY DEF IInv, TypeOK
  <2> QED
    BY <1>6, <1>9, <2>1, <2>2
<1>11. \A j \in Lanes : \A c \in MidQueue(l, q, j) : laneOf'[c] = j /\ c \notin running
  BY <1>4, <1>6, <1>9, StateFacts DEF HasStarted
<1>12. \A j \in Lanes :
         MidActive(l, active[l], j) = {c \in running \ {} :
                               laneOf'[c] = j /\ startGen[c] = generation[j]}
  <2>1. \A c \in running : laneOf'[c] = laneOf[c]
    BY <1>4, <1>6, StateFacts
  <2>2. \A j \in Lanes :
          active[j] = {c \in running : laneOf[c] = j /\ startGen[c] = generation[j]}
    BY DEF IInv, LaneInv, SlotsAreCurrent
  <2>3. \A j \in Lanes : MidActive(l, active[l], j) = active[j]
    BY DEF MidActive
  <2> QED
    BY <2>1, <2>2, <2>3
<1>13. \A j \in Lanes : \A c \in MidQueue(l, q, j), d \in Calls :
         /\ d \in running \ {} \/ outcome'[d] \in Results
         /\ laneOf'[d] = j
         => d < c
  <2> SUFFICES ASSUME NEW j \in Lanes, NEW c \in MidQueue(l, q, j), NEW d \in Calls,
                      d \in running \/ outcome'[d] \in Results, laneOf'[d] = j
               PROVE  d < c
    OBVIOUS
  <2>1. d # nextCall
    BY <1>4, <1>6 DEF Results
  <2>2. HasStarted(d) /\ laneOf[d] = j
    BY <2>1, <1>6 DEF HasStarted
  <2>3. CASE c = nextCall
    <3>1. outcome[d] # "new"
      BY <2>2, StateFacts DEF HasStarted, Results
    <3> QED
      BY <2>3, <3>1, <1>1, MaxCallsAssumption DEF IInv, NewIsFuture, Calls
  <2>4. CASE c # nextCall
    <3>1. c \in Queued(j) /\ c \in Calls
      BY <2>4, <1>9, StateFacts
    <3> QED
      BY <2>2, <3>1 DEF IInv, LaneInv, StartedInOrder
  <2> QED
    BY <2>3, <2>4
<1>14. \A c \in running \ {} : startGen[c] <= generation[laneOf'[c]]
  BY <1>4, <1>6, StateFacts DEF IInv, LaneInv, StartGenReached
<1>15. maxConcurrent' = [maxConcurrent EXCEPT ![l] = maxConcurrent[l]]
  BY <1>2 DEF IInv, TypeOK
<1> QED
  BY <1>2, <1>3, <1>6, <1>7, <1>8, <1>10, <1>11, <1>12, <1>13, <1>14, <1>15
     DEF ReadyToDrain, q

\* A completion of the current generation leaves its lane ready to drain, with
\* the slot of the ended call free.
LEMMA CompletionReady ==
  ASSUME IInv, NEW c \in Calls, NEW result \in Results, CurrentCompletion(c, result),
         NEW l \in Lanes, l = laneOf[c]
  PROVE  ReadyToDrain(l, queue[l], active[l] \ {c}, maxConcurrent[l], {c})
<1> DEFINE q == queue[l]
           a == active[l] \ {c}
<1>1. /\ c \in running /\ startGen[c] = generation[l]
      /\ outcome' = [outcome EXCEPT ![c] = result]
      /\ UNCHANGED <<maxConcurrent, generation, laneOf>>
  BY DEF CurrentCompletion
<1>2. \A j \in Lanes : MidQueue(l, q, j) = Queued(j)
  BY StateFacts DEF MidQueue
<1>3. /\ outcome'[c] = result
      /\ \A d \in Calls \ {c} : outcome'[d] = outcome[d]
  BY <1>1 DEF IInv, TypeOK
<1>4. \A j \in Lanes : c \notin Queued(j)
  BY <1>1, StateFacts DEF HasStarted
<1>5. \A j \in Lanes : Increasing(queue[j])
  BY DEF IInv, LaneInv, QueuesOrdered
<1>6. \A j \in Lanes : queue[j] # <<>> => Cardinality(active[j]) >= maxConcurrent[j]
  BY DEF IInv, LaneInv, NoStrandedWork
<1>7. \A d \in Calls : outcome'[d] = "pending" <=>
                         d \in running \ {c} \/ d \in MidQueue(l, q, laneOf'[d])
  <2> SUFFICES ASSUME NEW d \in Calls
               PROVE  outcome'[d] = "pending" <=>
                        d \in running \ {c} \/ d \in Queued(laneOf[d])
    BY <1>1, <1>2 DEF IInv, TypeOK
  <2>1. outcome[d] = "pending" <=> d \in running \/ d \in Queued(laneOf[d])
    BY DEF IInv, LaneInv, PendingAccounted
  <2>2. CASE d = c
    BY <2>2, <1>3, <1>4 DEF Results
  <2>3. CASE d # c
    BY <2>1, <2>3, <1>3
  <2> QED
    BY <2>2, <2>3
<1>8. \A j \in Lanes : \A d \in MidQueue(l, q, j) : laneOf'[d] = j /\ d \notin running
  BY <1>1, <1>2, StateFacts DEF HasStarted
<1>9. \A j \in Lanes :
        MidActive(l, a, j) = {d \in running \ {c} :
                                laneOf'[d] = j /\ startGen[d] = generation[j]}
  <2>1. \A j \in Lanes :
          active[j] = {d \in running : laneOf[d] = j /\ startGen[d] = generation[j]}
    BY DEF IInv, LaneInv, SlotsAreCurrent
  <2>2. \A j \in Lanes : MidActive(l, a, j) = active[j] \ {c}
    BY <2>1 DEF MidActive
  <2> QED
    BY <2>1, <2>2, <1>1
<1>10. \A j \in Lanes : \A d \in MidQueue(l, q, j), e \in Calls :
         /\ e \in running \ {c} \/ outcome'[e] \in Results
         /\ laneOf'[e] = j
         => e < d
  <2> SUFFICES ASSUME NEW j \in Lanes, NEW d \in Queued(j), NEW e \in Calls,
                      e \in running \ {c} \/ outcome'[e] \in Results, laneOf[e] = j
               PROVE  e < d
    BY <1>1, <1>2
  <2>1. HasStarted(e)
    BY <1>1, <1>3 DEF HasStarted
  <2>2. d \in Calls
    BY StateFacts
  <2> QED
    BY <2>1, <2>2 DEF IInv, LaneInv, StartedInOrder
<1>11. \A d \in running \ {c} : startGen[d] <= generation[laneOf'[d]]
  BY <1>1 DEF IInv, LaneInv, StartGenReached
<1>12. maxConcurrent' = [maxConcurrent EXCEPT ![l] = maxConcurrent[l]]
  BY <1>1 DEF IInv, TypeOK
<1> QED
  BY <1>1, <1>5, <1>6, <1>7, <1>8, <1>9, <1>10, <1>11, <1>12 DEF ReadyToDrain

\* A new limit leaves the lane ready to drain under that limit.
LEMMA ConcurrencyReady ==
  ASSUME IInv, NEW l \in Lanes, NEW raw \in RawLimits, SetConcurrency(l, raw)
  PROVE  ReadyToDrain(l, queue[l], active[l], ClampLimit(raw), {})
<1> DEFINE q == queue[l]
<1>1. /\ maxConcurrent' = [maxConcurrent EXCEPT ![l] = ClampLimit(raw)]
      /\ UNCHANGED <<generation, laneOf, outcome>>
  BY DEF SetConcurrency
<1>2. \A j \in Lanes : MidQueue(l, q, j) = Queued(j)
  BY StateFacts DEF MidQueue
<1>3. \A j \in Lanes : Increasing(queue[j])
  BY DEF IInv, LaneInv, QueuesOrdered
<1>4. \A j \in Lanes : queue[j] # <<>> => Cardinality(active[j]) >= maxConcurrent[j]
  BY DEF IInv, LaneInv, NoStrandedWork
<1>5. \A d \in Calls : outcome'[d] = "pending" <=>
                         d \in running \ {} \/ d \in MidQueue(l, q, laneOf'[d])
  BY <1>1, <1>2 DEF IInv, TypeOK, LaneInv, PendingAccounted
<1>6. \A j \in Lanes : \A d \in MidQueue(l, q, j) : laneOf'[d] = j /\ d \notin running
  BY <1>1, <1>2, StateFacts DEF HasStarted
<1>7. \A j \in Lanes :
        MidActive(l, active[l], j) = {d \in running \ {} :
                                laneOf'[d] = j /\ startGen[d] = generation[j]}
  BY <1>1 DEF IInv, LaneInv, SlotsAreCurrent, MidActive
<1>8. \A j \in Lanes : \A d \in MidQueue(l, q, j), e \in Calls :
         /\ e \in running \ {} \/ outcome'[e] \in Results
         /\ laneOf'[e] = j
         => e < d
  BY <1>1, <1>2, StateFacts DEF IInv, LaneInv, StartedInOrder, HasStarted
<1>9. \A d \in running \ {} : startGen[d] <= generation[laneOf'[d]]
  BY <1>1 DEF IInv, LaneInv, StartGenReached
<1> QED
  BY <1>1, <1>3, <1>4, <1>5, <1>6, <1>7, <1>8, <1>9 DEF ReadyToDrain

\* A reset re-establishes LaneInv: every lane starts its oldest queued calls in
\* the new generation and the calls still running from before hold no slot.
LEMMA ResetKeepsLaneInv ==
  ASSUME IInv, ResetAllLanes
  PROVE  LaneInv'
<1> DEFINE R(l) == Rest(queue[l], {}, maxConcurrent[l])
           AllStarts == UNION {LaneStarts(l) : l \in Lanes}
<1>1. /\ queue' = [l \in Lanes |-> R(l)]
      /\ active' = [l \in Lanes |-> LaneStarts(l)]
      /\ generation' = [l \in Lanes |-> generation[l] + 1]
      /\ running' = running \cup AllStarts
      /\ startGen' = [c \in Calls |-> IF \E l \in Lanes : c \in LaneStarts(l)
                                      THEN generation[laneOf[c]] + 1
                                      ELSE startGen[c]]
      /\ UNCHANGED <<maxConcurrent, nextCall, laneOf, outcome>>
  BY DEF ResetAllLanes
<1>2. \A l \in Lanes : /\ LaneStarts(l) \subseteq Queued(l)
                       /\ LaneStarts(l) \subseteq Calls
                       /\ R(l) \in Seq(Calls)
                       /\ Queued(l) = LaneStarts(l) \cup Elems(R(l))
  <2> TAKE l \in Lanes
  <2>1. /\ queue[l] \in Seq(Calls) /\ maxConcurrent[l] \in Limits
        /\ Elems(queue[l]) = Queued(l)
    BY StateFacts
  <2>2. {} \in SUBSET Calls
    OBVIOUS
  <2> DEFINE q == queue[l]
             m == maxConcurrent[l]
  <2>3. q \in Seq(Calls) /\ m \in Limits
    BY <2>1
  <2> HIDE DEF q, m
  <2>4. /\ Started(q, {}, m) \subseteq Elems(q)
        /\ Started(q, {}, m) \subseteq Calls
        /\ Rest(q, {}, m) \in Seq(Calls)
        /\ Elems(q) = Started(q, {}, m) \cup Elems(Rest(q, {}, m))
    BY <2>2, <2>3, PumpSplits
  <2> QED
    BY <2>1, <2>4 DEF LaneStarts, q, m
<1>3. \A l \in Lanes : /\ Increasing(R(l))
                       /\ \A c \in LaneStarts(l), d \in Elems(R(l)) : c < d
  BY StateFacts, PumpInOrder DEF LaneStarts, IInv, LaneInv, QueuesOrdered
<1>4. \A l \in Lanes :
        R(l) # <<>> => Cardinality(LaneStarts(l)) >= maxConcurrent[l]
  <2> SUFFICES ASSUME NEW l \in Lanes, R(l) # <<>>
               PROVE  Cardinality(LaneStarts(l)) >= maxConcurrent[l]
    OBVIOUS
  <2>1. {} \cup LaneStarts(l) = LaneStarts(l)
    OBVIOUS
  <2>2. Cardinality({} \cup LaneStarts(l)) >= maxConcurrent[l]
    BY StateFacts, PumpFillsSlots DEF LaneStarts, IInv, LaneInv, QueuesOrdered
  <2> QED
    BY <2>1, <2>2
<1> HIDE DEF R
<1>5. \A l \in Lanes : Queued(l)' = Elems(R(l))
  BY <1>1 DEF Queued, Elems
<1>6. \A l \in Lanes : \A c \in LaneStarts(l) :
        c \in Calls /\ laneOf[c] = l /\ c \notin running /\ c \notin Elems(R(l))
  <2>1. \A l \in Lanes : \A c \in LaneStarts(l) :
          c \in Calls /\ c \in Int /\ laneOf[c] = l /\ c \notin running
    BY <1>2, StateFacts, MaxCallsAssumption DEF HasStarted, Calls
  <2> QED
    BY <2>1, <1>3
<1>7. \A c \in Calls : c \in AllStarts <=> c \in LaneStarts(laneOf[c])
  BY <1>6 DEF IInv, TypeOK
<1>8. QueuesOrdered'
  <2>1. \A l \in Lanes : Increasing(queue'[l])
    BY <1>1, <1>3
  <2> QED
    BY <2>1 DEF QueuesOrdered, Increasing
<1>9. NoStrandedWork'
  BY <1>1, <1>4 DEF NoStrandedWork
<1>10. PendingAccounted'
  <2>1. ASSUME NEW c \in Calls
        PROVE  outcome[c] = "pending" <=> c \in running' \/ c \in Queued(laneOf[c])'
    <3>1. laneOf[c] \in Lanes
      BY DEF IInv, TypeOK
    <3>2. outcome[c] = "pending" <=> c \in running \/ c \in Queued(laneOf[c])
      BY DEF IInv, LaneInv, PendingAccounted
    <3>3. c \in Queued(laneOf[c]) <=>
            c \in LaneStarts(laneOf[c]) \/ c \in Queued(laneOf[c])'
      BY <3>1, <1>1, <1>2, <1>5
    <3>4. c \in running' <=> c \in running \/ c \in LaneStarts(laneOf[c])
      BY <1>1, <1>7
    <3> QED
      BY <3>2, <3>3, <3>4
  <2>2. ASSUME NEW l \in Lanes, NEW c \in Elems(R(l))
        PROVE  laneOf[c] = l /\ c \notin running'
    <3>1. c \in Queued(l) /\ c \in Calls
      BY <2>2, <1>2, StateFacts
    <3>2. laneOf[c] = l /\ c \notin running
      BY <3>1, StateFacts DEF HasStarted
    <3>3. c \notin LaneStarts(l)
      BY <2>2, <1>6
    <3> QED
      BY <3>1, <3>2, <3>3, <1>1, <1>7
  <2> QED
    BY <2>1, <2>2, <1>1, <1>5 DEF PendingAccounted
<1>11. SlotsAreCurrent'
  <2>1. ASSUME NEW l \in Lanes
        PROVE  active'[l] = {c \in running' : laneOf[c] = l
                                              /\ startGen'[c] = generation'[l]}
    <3>1. \A c \in LaneStarts(l) : /\ c \in running' /\ laneOf[c] = l
                                   /\ startGen'[c] = generation'[l]
      BY <1>1, <1>6, <1>7
    <3>2. ASSUME NEW c \in running', laneOf[c] = l, startGen'[c] = generation'[l]
          PROVE  c \in LaneStarts(l)
      <4>1. c \in Calls
        BY <1>1, <1>6, StateFacts
      <4>2. CASE c \in AllStarts
        BY <3>2, <4>1, <4>2, <1>7
      <4>3. CASE c \notin AllStarts
        <5>1. c \in running /\ startGen'[c] = startGen[c]
          BY <3>2, <4>1, <4>3, <1>1
        <5>2. startGen[c] <= generation[l]
          BY <3>2, <5>1 DEF IInv, LaneInv, StartGenReached
        <5>3. generation'[l] = generation[l] + 1 /\ generation[l] \in Nat
              /\ startGen[c] \in Nat
          BY <4>1, <1>1 DEF IInv, TypeOK
        <5>4. startGen'[c] # generation'[l]
          BY <5>1, <5>2, <5>3
        <5> QED
          BY <3>2, <5>4
      <4> QED
        BY <4>2, <4>3
    <3> QED
      BY <3>1, <3>2, <1>1
  <2> QED
    BY <2>1, <1>1 DEF SlotsAreCurrent
<1>12. StartedInOrder'
  <2>1. ASSUME NEW l \in Lanes, NEW c \in Calls, NEW d \in Calls,
               c \in Elems(R(l)), d \in running' \/ outcome[d] \in Results,
               laneOf[d] = l
        PROVE  d < c
    <3>1. CASE d \in LaneStarts(l)
      BY <2>1, <3>1, <1>3
    <3>2. CASE d \notin LaneStarts(l)
      <4>1. HasStarted(d)
        BY <2>1, <3>2, <1>1, <1>7 DEF HasStarted
      <4>2. c \in Queued(l)
        BY <2>1, <1>2
      <4> QED
        BY <2>1, <4>1, <4>2 DEF IInv, LaneInv, StartedInOrder
    <3> QED
      BY <3>1, <3>2
  <2> QED
    BY <2>1, <1>1, <1>5 DEF StartedInOrder, HasStarted
<1>13. StartGenReached'
  <2>1. ASSUME NEW c \in running'
        PROVE  startGen'[c] <= generation'[laneOf[c]]
    <3>1. c \in Calls /\ laneOf[c] \in Lanes
      BY <1>1, <1>6, StateFacts DEF IInv, TypeOK
    <3>2. generation'[laneOf[c]] = generation[laneOf[c]] + 1
          /\ generation[laneOf[c]] \in Nat /\ startGen[c] \in Nat
      BY <3>1, <1>1 DEF IInv, TypeOK
    <3>3. CASE c \in AllStarts
      BY <3>1, <3>2, <3>3, <1>1
    <3>4. CASE c \notin AllStarts
      <4>1. startGen'[c] = startGen[c] /\ c \in running
        BY <2>1, <3>1, <3>4, <1>1
      <4>2. startGen[c] <= generation[laneOf[c]]
        BY <4>1 DEF IInv, LaneInv, StartGenReached
      <4> QED
        BY <3>2, <4>1, <4>2
    <3> QED
      BY <3>3, <3>4
  <2> QED
    BY <2>1, <1>1 DEF StartGenReached
<1> QED
  BY <1>8, <1>9, <1>10, <1>11, <1>12, <1>13 DEF LaneInv

\* Clearing a lane settles everything it drops and starts nothing.
LEMMA ClearKeepsLaneInv ==
  ASSUME IInv, NEW l \in Lanes, ClearLane(l)
  PROVE  LaneInv'
<1>1. /\ queue' = [queue EXCEPT ![l] = <<>>]
      /\ outcome' = [c \in Calls |-> IF c \in Queued(l) THEN "cleared" ELSE outcome[c]]
      /\ UNCHANGED <<active, maxConcurrent, generation, laneOf, startGen, running>>
  BY DEF ClearLane
<1>2. /\ queue'[l] = <<>> /\ Len(queue'[l]) = 0
      /\ \A j \in Lanes \ {l} : queue'[j] = queue[j]
  BY <1>1, EmptySeq DEF IInv, TypeOK
<1>3. Queued(l)' = {} /\ \A j \in Lanes \ {l} : Queued(j)' = Queued(j)
  BY <1>2 DEF Queued
<1>4. \A j \in Lanes \ {l} : \A c \in Queued(j) : c \notin Queued(l)
  BY StateFacts
<1>5. QueuesOrdered'
  BY <1>2 DEF IInv, LaneInv, QueuesOrdered, Increasing
<1>6. NoStrandedWork'
  BY <1>1, <1>2 DEF IInv, LaneInv, NoStrandedWork
<1>7. PendingAccounted'
  <2>1. ASSUME NEW c \in Calls
        PROVE  outcome'[c] = "pending" <=> c \in running \/ c \in Queued(laneOf[c])'
    <3>1. outcome[c] = "pending" <=> c \in running \/ c \in Queued(laneOf[c])
      BY DEF IInv, LaneInv, PendingAccounted
    <3>2. laneOf[c] \in Lanes
      BY DEF IInv, TypeOK
    <3>3. CASE c \in Queued(l)
      <4>1. laneOf[c] = l /\ c \notin running
        BY <3>3, StateFacts DEF HasStarted
      <4> QED
        BY <3>3, <4>1, <1>1, <1>3
    <3>4. CASE c \notin Queued(l)
      BY <3>1, <3>2, <3>4, <1>1, <1>3
    <3> QED
      BY <3>3, <3>4
  <2>2. \A j \in Lanes : \A c \in Queued(j)' : laneOf[c] = j /\ c \notin running
    BY <1>3, StateFacts DEF HasStarted
  <2> QED
    BY <2>1, <2>2, <1>1 DEF PendingAccounted
<1>8. SlotsAreCurrent'
  BY <1>1 DEF IInv, LaneInv, SlotsAreCurrent
<1>9. StartedInOrder'
  <2>1. ASSUME NEW j \in Lanes, NEW c \in Calls, NEW d \in Calls,
               c \in Queued(j)', d \in running \/ outcome'[d] \in Results,
               laneOf[d] = j
        PROVE  d < c
    <3>1. c \in Queued(j)
      BY <2>1, <1>3
    <3>2. HasStarted(d)
      BY <2>1, <1>1 DEF HasStarted, Results
    <3> QED
      BY <2>1, <3>1, <3>2 DEF IInv, LaneInv, StartedInOrder
  <2> QED
    BY <2>1, <1>1 DEF StartedInOrder, HasStarted
<1>10. StartGenReached'
  BY <1>1 DEF IInv, LaneInv, StartGenReached
<1> QED
  BY <1>5, <1>6, <1>7, <1>8, <1>9, <1>10 DEF LaneInv

\* LaneInv is kept by every step.
LEMMA LaneInvStep ==
  ASSUME IInv, [Next]_vars
  PROVE  LaneInv'
<1>1. ASSUME NEW l \in Lanes, Refuse(l)
      PROVE  LaneInv'
  <2>1. /\ nextCall \in Calls
        /\ laneOf' = [laneOf EXCEPT ![nextCall] = l]
        /\ outcome' = [outcome EXCEPT ![nextCall] = "refused"]
        /\ UNCHANGED <<queue, active, maxConcurrent, generation, startGen, running>>
    BY <1>1 DEF Refuse, laneVars
  <2>2. /\ outcome'[nextCall] = "refused"
        /\ \A c \in Calls \ {nextCall} : laneOf'[c] = laneOf[c] /\ outcome'[c] = outcome[c]
    BY <2>1 DEF IInv, TypeOK
  <2>3. nextCall \notin running /\ \A j \in Lanes : nextCall \notin Queued(j)
    BY StateFacts
  <2>4. \A j \in Lanes : Queued(j)' = Queued(j) /\ Queued(j) \subseteq Calls
    BY <2>1, StateFacts DEF Queued
  <2>5. \A c \in Calls : laneOf[c] \in Lanes /\ laneOf'[c] \in Lanes
    BY <2>1 DEF IInv, TypeOK
  <2>6. QueuesOrdered' /\ NoStrandedWork'
    BY <2>1 DEF IInv, LaneInv, QueuesOrdered, NoStrandedWork, Increasing
  <2>7. PendingAccounted'
    <3>1. ASSUME NEW c \in Calls
          PROVE  outcome'[c] = "pending" <=> c \in running \/ c \in Queued(laneOf'[c])
      <4>1. CASE c = nextCall
        BY <4>1, <2>2, <2>3, <2>5
      <4>2. CASE c # nextCall
        BY <4>2, <2>2 DEF IInv, LaneInv, PendingAccounted
      <4> QED
        BY <4>1, <4>2
    <3>2. \A j \in Lanes : \A c \in Queued(j) : laneOf'[c] = j /\ c \notin running
      BY <2>2, <2>3, <2>4, StateFacts DEF HasStarted
    <3> QED
      BY <3>1, <3>2, <2>1, <2>4, <2>5 DEF PendingAccounted
  <2>8. SlotsAreCurrent'
    <3>1. \A c \in running : laneOf'[c] = laneOf[c]
      BY <2>2, <2>3, StateFacts
    <3> QED
      BY <3>1, <2>1 DEF IInv, LaneInv, SlotsAreCurrent
  <2>9. StartedInOrder'
    <3>1. ASSUME NEW j \in Lanes, NEW c \in Calls, NEW d \in Calls,
                 c \in Queued(j), d \in running \/ outcome'[d] \in Results,
                 laneOf'[d] = j
          PROVE  d < c
      <4>1. d # nextCall
        BY <3>1, <2>2, <2>3 DEF Results
      <4>2. HasStarted(d) /\ laneOf[d] = j
        BY <3>1, <4>1, <2>2 DEF HasStarted
      <4> QED
        BY <3>1, <4>2 DEF IInv, LaneInv, StartedInOrder
    <3> QED
      BY <3>1, <2>1, <2>4 DEF StartedInOrder, HasStarted
  <2>10. StartGenReached'
    BY <2>1, <2>2, <2>3, StateFacts DEF IInv, LaneInv, StartGenReached
  <2> QED
    BY <2>6, <2>7, <2>8, <2>9, <2>10 DEF LaneInv
<1>2. ASSUME NEW l \in Lanes, Accept(l)
      PROVE  LaneInv'
  <2>1. Drain(l, Append(queue[l], nextCall), active[l], maxConcurrent[l], {})
    BY <1>2 DEF Accept
  <2> DEFINE q == Append(queue[l], nextCall)
  <2>2. /\ q \in Seq(Calls)
        /\ laneOf' \in [Calls -> Lanes]
        /\ ReadyToDrain(l, q, active[l], maxConcurrent[l], {})
    BY <1>2, AcceptReady
  <2>3. active[l] \in SUBSET Calls /\ maxConcurrent[l] \in Limits
    BY StateFacts
  <2> HIDE DEF q
  <2>4. Drain(l, q, active[l], maxConcurrent[l], {})
    BY <2>1 DEF q
  <2> QED
    BY <2>2, <2>3, <2>4, DrainKeepsLaneInv DEF IInv
<1>3. ASSUME NEW c \in Calls, NEW result \in Results, CurrentCompletion(c, result)
      PROVE  LaneInv'
  <2> DEFINE l == laneOf[c]
  <2>1. /\ Drain(l, queue[l], active[l] \ {c}, maxConcurrent[l], {c})
        /\ laneOf' = laneOf
    BY <1>3 DEF CurrentCompletion
  <2>2. l \in Lanes /\ laneOf' \in [Calls -> Lanes]
    BY <2>1 DEF IInv, TypeOK
  <2>3. ReadyToDrain(l, queue[l], active[l] \ {c}, maxConcurrent[l], {c})
    BY <1>3, <2>2, CompletionReady
  <2>4. /\ queue[l] \in Seq(Calls) /\ active[l] \ {c} \in SUBSET Calls
        /\ maxConcurrent[l] \in Limits /\ {c} \in SUBSET Calls
    BY <2>2, StateFacts
  <2> HIDE DEF l
  <2> QED
    BY <2>1, <2>2, <2>3, <2>4, DrainKeepsLaneInv DEF IInv
<1>4. ASSUME NEW c \in Calls, NEW result \in Results, StaleCompletion(c, result)
      PROVE  LaneInv'
  <2>1. /\ c \in running /\ startGen[c] # generation[laneOf[c]]
        /\ outcome' = [outcome EXCEPT ![c] = result]
        /\ running' = running \ {c}
        /\ UNCHANGED <<queue, active, maxConcurrent, generation, laneOf, startGen>>
    BY <1>4 DEF StaleCompletion, laneVars
  <2>2. outcome'[c] = result /\ \A d \in Calls \ {c} : outcome'[d] = outcome[d]
    BY <2>1 DEF IInv, TypeOK
  <2>3. \A j \in Lanes : /\ c \notin Queued(j) /\ Queued(j)' = Queued(j)
                         /\ Queued(j) \subseteq Calls
    BY <2>1, StateFacts DEF HasStarted, Queued
  <2>4. \A d \in Calls : laneOf[d] \in Lanes
    BY DEF IInv, TypeOK
  <2>5. QueuesOrdered' /\ NoStrandedWork' /\ StartGenReached'
    BY <2>1 DEF IInv, LaneInv, QueuesOrdered, NoStrandedWork, StartGenReached, Increasing
  <2>6. PendingAccounted'
    <3>1. ASSUME NEW d \in Calls
          PROVE  outcome'[d] = "pending" <=>
                   d \in running \ {c} \/ d \in Queued(laneOf[d])
      <4>1. outcome[d] = "pending" <=> d \in running \/ d \in Queued(laneOf[d])
        BY DEF IInv, LaneInv, PendingAccounted
      <4> QED
        BY <4>1, <2>2, <2>3, <2>4 DEF Results
    <3> QED
      BY <3>1, <2>1, <2>3, <2>4, StateFacts DEF PendingAccounted, HasStarted
  <2>7. SlotsAreCurrent'
    BY <2>1 DEF IInv, LaneInv, SlotsAreCurrent
  <2>8. StartedInOrder'
    <3>1. ASSUME NEW j \in Lanes, NEW d \in Calls, NEW e \in Calls,
                 d \in Queued(j), e \in running \ {c} \/ outcome'[e] \in Results,
                 laneOf[e] = j
          PROVE  e < d
      <4>1. HasStarted(e)
        BY <3>1, <2>1, <2>2 DEF HasStarted
      <4> QED
        BY <3>1, <4>1 DEF IInv, LaneInv, StartedInOrder
    <3> QED
      BY <3>1, <2>1, <2>3 DEF StartedInOrder, HasStarted
  <2> QED
    BY <2>5, <2>6, <2>7, <2>8 DEF LaneInv
<1>5. ASSUME NEW l \in Lanes, NEW raw \in RawLimits, SetConcurrency(l, raw)
      PROVE  LaneInv'
  <2>1. /\ Drain(l, queue[l], active[l], ClampLimit(raw), {})
        /\ laneOf' = laneOf
    BY <1>5 DEF SetConcurrency
  <2>2. ClampLimit(raw) \in Limits /\ laneOf' \in [Calls -> Lanes]
    BY <2>1, RawLimitsAssumption DEF ClampLimit, Limits, IInv, TypeOK
  <2> QED
    BY <1>5, <2>1, <2>2, ConcurrencyReady, StateFacts, DrainKeepsLaneInv DEF IInv
<1>6. ASSUME UNCHANGED <<laneVars, callVars>>
      PROVE  LaneInv'
  <2>1. UNCHANGED <<queue, active, maxConcurrent, generation, laneOf, startGen,
                    running, outcome>>
    BY <1>6 DEF laneVars, callVars
  <2> QED
    BY <2>1 DEF IInv, LaneInv, QueuesOrdered, NoStrandedWork, PendingAccounted,
                SlotsAreCurrent, StartedInOrder, StartGenReached, HasStarted,
                Queued, Increasing
<1>7. CASE MarkDraining \/ WaitForActive
  <2>1. UNCHANGED <<queue, active, maxConcurrent, generation, laneOf, startGen,
                    running, outcome>>
    BY <1>7 DEF MarkDraining, WaitForActive, callVars
  <2> QED
    BY <2>1 DEF IInv, LaneInv, QueuesOrdered, NoStrandedWork, PendingAccounted,
                SlotsAreCurrent, StartedInOrder, StartGenReached, HasStarted,
                Queued, Increasing
<1>8. CASE WaitDrained \/ WaitTimeout
  BY <1>6, <1>8 DEF WaitDrained, WaitTimeout
<1>9. CASE UNCHANGED vars
  BY <1>6, <1>9 DEF vars
<1> QED
  BY <1>1, <1>2, <1>3, <1>4, <1>5, <1>7, <1>8, <1>9,
     ClearKeepsLaneInv, ResetKeepsLaneInv DEF Next, Enqueue, Complete

\* Call numbers are drawn by Enqueue only, and settle nothing else.
LEMMA NewIsFutureStep ==
  ASSUME IInv, [Next]_vars
  PROVE  NewIsFuture'
<1>1. ASSUME NEW l \in Lanes, Enqueue(l)
      PROVE  NewIsFuture'
  <2>1. /\ nextCall \in Calls /\ nextCall' = nextCall + 1
        /\ \/ outcome' = [outcome EXCEPT ![nextCall] = "refused"]
           \/ outcome' = [outcome EXCEPT ![nextCall] = "pending"]
    BY <1>1 DEF Enqueue, Refuse, Accept
  <2>2. nextCall \in Nat /\ \A c \in Calls : c \in Nat
    BY StateFacts, MaxCallsAssumption DEF Calls
  <2> QED
    BY <2>1, <2>2 DEF IInv, NewIsFuture, TypeOK
<1>2. ASSUME NEW c \in Calls, NEW result \in Results, Complete(c, result)
      PROVE  NewIsFuture'
  <2>1. /\ c \in running /\ nextCall' = nextCall
        /\ outcome' = [outcome EXCEPT ![c] = result]
    BY <1>2 DEF Complete, CurrentCompletion, StaleCompletion
  <2>2. outcome[c] = "pending"
    BY <2>1, StateFacts
  <2> QED
    BY <2>1, <2>2 DEF IInv, NewIsFuture, TypeOK, Results
<1>3. ASSUME NEW l \in Lanes, ClearLane(l)
      PROVE  NewIsFuture'
  <2>1. /\ nextCall' = nextCall
        /\ outcome' = [c \in Calls |-> IF c \in Queued(l) THEN "cleared" ELSE outcome[c]]
    BY <1>3 DEF ClearLane
  <2>2. \A c \in Queued(l) : outcome[c] = "pending"
    BY StateFacts
  <2> QED
    BY <2>1, <2>2 DEF IInv, NewIsFuture
<1>4. ASSUME UNCHANGED <<nextCall, outcome>>
      PROVE  NewIsFuture'
  BY <1>4 DEF IInv, NewIsFuture
<1> QED
  BY <1>1, <1>2, <1>3, <1>4
     DEF Next, SetConcurrency, MarkDraining, ResetAllLanes, WaitForActive,
         WaitDrained, WaitTimeout, vars, callVars

\* A pump starts calls that were queued, and so have not started before.
LEMMA StartsAreQueued ==
  ASSUME IInv, NEW l \in Lanes, NEW a \in SUBSET Calls, NEW m \in Limits
  PROVE  \A c \in Started(queue[l], a, m) : c \in Queued(l) /\ ~HasStarted(c)
<1>1. queue[l] \in Seq(Calls) /\ Elems(queue[l]) = Queued(l)
  BY StateFacts
<1>2. Started(queue[l], a, m) \subseteq Elems(queue[l])
  BY <1>1, PumpSplits
<1> QED
  BY <1>1, <1>2, StateFacts

\* Outside a reset, a call that has started stays started, in its lane, and is
\* never started again.
LEMMA StartedOnce ==
  ASSUME IInv, [Next]_vars, ~ResetAllLanes
  PROVE  /\ generation' = generation
         /\ \A c \in Calls : HasStarted(c) =>
              /\ HasStarted(c)'
              /\ laneOf'[c] = laneOf[c]
              /\ c \in running' => c \in running /\ startGen'[c] = startGen[c]
<1> DEFINE Kept == /\ generation' = generation
                   /\ \A c \in Calls : HasStarted(c) =>
                        /\ HasStarted(c)'
                        /\ laneOf'[c] = laneOf[c]
                        /\ c \in running' => c \in running /\ startGen'[c] = startGen[c]
<1>1. ASSUME NEW l \in Lanes, Refuse(l)
      PROVE  Kept
  <2>1. /\ nextCall \in Calls /\ ~HasStarted(nextCall)
        /\ laneOf' = [laneOf EXCEPT ![nextCall] = l]
        /\ outcome' = [outcome EXCEPT ![nextCall] = "refused"]
        /\ UNCHANGED <<generation, running, startGen>>
    BY <1>1, StateFacts DEF Refuse, laneVars, IInv, NewIsFuture, HasStarted, Results
  <2> QED
    BY <2>1 DEF HasStarted, IInv, TypeOK
<1>2. ASSUME NEW l \in Lanes, Accept(l)
      PROVE  Kept
  <2> DEFINE q == Append(queue[l], nextCall)
             s == Started(q, active[l], maxConcurrent[l])
  <2>1. /\ nextCall \in Calls /\ ~HasStarted(nextCall)
        /\ laneOf' = [laneOf EXCEPT ![nextCall] = l]
        /\ outcome' = [outcome EXCEPT ![nextCall] = "pending"]
        /\ running' = (running \ {}) \cup s
        /\ startGen' = [c \in Calls |-> IF c \in s THEN generation[l] ELSE startGen[c]]
        /\ generation' = generation
    BY <1>2, StateFacts DEF Accept, Drain, IInv, NewIsFuture, HasStarted, Results
  <2>2. \A c \in s : ~HasStarted(c)
    <3>1. /\ q \in Seq(Calls)
          /\ ReadyToDrain(l, q, active[l], maxConcurrent[l], {})
      BY <1>2, AcceptReady
    <3>2. active[l] \in SUBSET Calls /\ maxConcurrent[l] \in Limits
      BY StateFacts
    <3> HIDE DEF q
    <3>3. s \subseteq Elems(q) /\ s \subseteq Calls
      BY <3>1, <3>2, PumpSplits
    <3>4. \A c \in Elems(q) : c \notin running /\ laneOf'[c] = l
      BY <3>1 DEF ReadyToDrain, MidQueue
    <3>5. \A c \in s : outcome'[c] = "pending"
      BY <3>1, <3>3, <3>4 DEF ReadyToDrain, MidQueue
    <3>6. \A c \in s : c # nextCall => outcome[c] = "pending"
      BY <2>1, <3>3, <3>5 DEF IInv, TypeOK
    <3> QED
      BY <2>1, <3>3, <3>4, <3>6 DEF HasStarted, Results
  <2> HIDE DEF s
  <2> QED
    BY <2>1, <2>2 DEF HasStarted, IInv, TypeOK
<1>3. ASSUME NEW c \in Calls, NEW result \in Results, CurrentCompletion(c, result)
      PROVE  Kept
  <2> DEFINE l == laneOf[c]
             s == Started(queue[l], active[l] \ {c}, maxConcurrent[l])
  <2>1. /\ c \in running
        /\ outcome' = [outcome EXCEPT ![c] = result]
        /\ running' = (running \ {c}) \cup s
        /\ startGen' = [d \in Calls |-> IF d \in s THEN generation[l] ELSE startGen[d]]
        /\ generation' = generation /\ laneOf' = laneOf
    BY <1>3 DEF CurrentCompletion, Drain
  <2>2. \A d \in s : ~HasStarted(d)
    <3>1. l \in Lanes
      BY DEF IInv, TypeOK
    <3>2. active[l] \ {c} \in SUBSET Calls /\ maxConcurrent[l] \in Limits
      BY <3>1, StateFacts
    <3> QED
      BY <3>1, <3>2, StartsAreQueued
  <2> HIDE DEF s
  <2> QED
    BY <2>1, <2>2 DEF HasStarted, IInv, TypeOK
<1>4. ASSUME NEW c \in Calls, NEW result \in Results, StaleCompletion(c, result)
      PROVE  Kept
  BY <1>4 DEF StaleCompletion, laneVars, HasStarted, IInv, TypeOK
<1>5. ASSUME NEW l \in Lanes, NEW raw \in RawLimits, SetConcurrency(l, raw)
      PROVE  Kept
  <2> DEFINE m == ClampLimit(raw)
             s == Started(queue[l], active[l], m)
  <2>1. /\ running' = (running \ {}) \cup s
        /\ startGen' = [d \in Calls |-> IF d \in s THEN generation[l] ELSE startGen[d]]
        /\ generation' = generation /\ laneOf' = laneOf /\ outcome' = outcome
    BY <1>5 DEF SetConcurrency, Drain
  <2>2. \A d \in s : ~HasStarted(d)
    <3>1. m \in Limits
      BY RawLimitsAssumption DEF ClampLimit, Limits
    <3>2. active[l] \in SUBSET Calls
      BY StateFacts
    <3> HIDE DEF m
    <3> QED
      BY <3>1, <3>2, StartsAreQueued
  <2> HIDE DEF s
  <2> QED
    BY <2>1, <2>2 DEF HasStarted, IInv, TypeOK
<1>6. ASSUME NEW l \in Lanes, ClearLane(l)
      PROVE  Kept
  <2>1. /\ outcome' = [c \in Calls |-> IF c \in Queued(l) THEN "cleared" ELSE outcome[c]]
        /\ UNCHANGED <<generation, running, startGen, laneOf>>
    BY <1>6 DEF ClearLane
  <2>2. \A c \in Queued(l) : ~HasStarted(c)
    BY StateFacts
  <2> QED
    BY <2>1, <2>2 DEF HasStarted, IInv, TypeOK
<1>7. ASSUME UNCHANGED <<generation, running, startGen, laneOf, outcome>>
      PROVE  Kept
  BY <1>7 DEF HasStarted
<1>8. CASE \/ MarkDraining \/ WaitForActive \/ WaitDrained \/ WaitTimeout
           \/ UNCHANGED vars
  BY <1>7, <1>8 DEF MarkDraining, WaitForActive, WaitDrained, WaitTimeout,
                    vars, laneVars, callVars
<1> QED
  BY <1>1, <1>2, <1>3, <1>4, <1>5, <1>6, <1>8 DEF Next, Enqueue, Complete

\* The calls a wait watches stay current, and none of them runs once the wait
\* has reported "drained".
LEMMA WatchStep ==
  ASSUME IInv, [Next]_vars
  PROVE  WatchedAreCurrent' /\ DrainedMeansEnded'
<1>1. \A c \in watched : c \in Calls
  BY DEF IInv, TypeOK
<1>2. CASE ResetAllLanes
  BY <1>2 DEF ResetAllLanes, WatchedAreCurrent, DrainedMeansEnded
<1>3. CASE WaitForActive
  <2>1. /\ watched' = ActiveCalls
        /\ waiting' = IF ActiveCalls = {} THEN "drained" ELSE "waiting"
        /\ UNCHANGED <<running, startGen, generation, laneOf, outcome>>
    BY <1>3 DEF WaitForActive, laneVars, callVars
  <2>2. \A c \in ActiveCalls : c \in running /\ startGen[c] = generation[laneOf[c]]
    BY DEF ActiveCalls, IInv, LaneInv, SlotsAreCurrent
  <2>3. WatchedAreCurrent'
    BY <2>1, <2>2 DEF WatchedAreCurrent, HasStarted
  <2>4. DrainedMeansEnded'
    BY <2>1 DEF DrainedMeansEnded
  <2> QED
    BY <2>3, <2>4
<1>4. CASE ~ResetAllLanes /\ watched' = watched
  <2>1. WatchedAreCurrent'
    BY <1>1, <1>4, StartedOnce DEF WatchedAreCurrent, IInv
  <2>2. watched' \cap running' \subseteq watched \cap running
    BY <1>1, <1>4, StartedOnce DEF WatchedAreCurrent, IInv
  <2>3. CASE WaitDrained
    <3>1. watched \cap ActiveCalls = {} /\ running' = running
      BY <2>3 DEF WaitDrained, StillWatched, callVars
    <3>2. \A c \in watched \cap running : c \in ActiveCalls
      BY <1>1 DEF ActiveCalls, IInv, TypeOK, LaneInv, SlotsAreCurrent, WatchedAreCurrent
    <3> QED
      BY <1>4, <2>1, <3>1, <3>2 DEF DrainedMeansEnded
  <2>4. CASE waiting' = "drained" => waiting = "drained"
    BY <2>1, <2>2, <2>4 DEF DrainedMeansEnded, IInv
  <2>5. waiting' = "drained" => waiting = "drained" \/ WaitDrained \/ WaitForActive
    BY <1>4 DEF Next, Enqueue, Refuse, Accept, Complete, CurrentCompletion,
                StaleCompletion, SetConcurrency, ClearLane, MarkDraining,
                WaitTimeout, vars, waitVars
  <2> QED
    BY <1>3, <2>3, <2>4, <2>5
<1> QED
  BY <1>2, <1>3, <1>4 DEF Next, Enqueue, Refuse, Accept, Complete, CurrentCompletion,
                StaleCompletion, SetConcurrency, ClearLane, MarkDraining,
                WaitDrained, WaitTimeout, vars, waitVars

-----------------------------------------------------------------------------
(* The theorems                                                            *)

\* The initial state satisfies the inductive invariant.
LEMMA IInvInit == Init => IInv
<1> SUFFICES ASSUME Init PROVE IInv
  OBVIOUS
<1>1. TypeOK
  BY TypeInit
<1>2. \A l \in Lanes : queue[l] = <<>> /\ Len(queue[l]) = 0 /\ Queued(l) = {}
  BY EmptySeq DEF Init, Queued
<1>3. LaneInv
  <2>1. QueuesOrdered /\ NoStrandedWork
    BY <1>2 DEF QueuesOrdered, Increasing, NoStrandedWork
  <2>2. PendingAccounted
    BY <1>1, <1>2 DEF Init, PendingAccounted, TypeOK
  <2>3. SlotsAreCurrent /\ StartGenReached
    BY DEF Init, SlotsAreCurrent, StartGenReached
  <2>4. StartedInOrder
    BY <1>2 DEF StartedInOrder
  <2> QED
    BY <2>1, <2>2, <2>3, <2>4 DEF LaneInv
<1>4. NewIsFuture
  BY MaxCallsAssumption DEF Init, NewIsFuture, Calls
<1>5. WatchedAreCurrent /\ DrainedMeansEnded
  BY DEF Init, WatchedAreCurrent, DrainedMeansEnded
<1> QED
  BY <1>1, <1>3, <1>4, <1>5 DEF IInv

\* Every step preserves the inductive invariant.
LEMMA IInvStep == IInv /\ [Next]_vars => IInv'
<1> SUFFICES ASSUME IInv, [Next]_vars PROVE IInv'
  OBVIOUS
<1>1. TypeOK'
  BY TypeStep DEF IInv
<1> QED
  BY <1>1, LaneInvStep, NewIsFutureStep, WatchStep DEF IInv

\* The inductive invariant holds in every reachable state.
THEOREM Invariance == Spec => []IInv
  BY IInvInit, IInvStep, PTL DEF Spec

\* For every number of lanes, calls, resets and limits, no lane ever has both a
\* queued call and a free slot between two handlers.
THEOREM WorkConserving == Spec => []NoStrandedWork
<1>1. IInv => NoStrandedWork
  BY DEF IInv, LaneInv
<1> QED
  BY <1>1, Invariance, PTL

\* No accepted call is lost: its promise is pending exactly while it is queued
\* or running.
THEOREM NothingLost == Spec => []PendingAccounted
<1>1. IInv => PendingAccounted
  BY DEF IInv, LaneInv
<1> QED
  BY <1>1, Invariance, PTL

\* Slots are held by exactly the running calls of the current generation.
THEOREM SlotAccounting == Spec => []SlotsAreCurrent
<1>1. IInv => SlotsAreCurrent
  BY DEF IInv, LaneInv
<1> QED
  BY <1>1, Invariance, PTL

\* The calls of a lane start in the order they were made.
THEOREM FifoOrder == Spec => []StartedInOrder
<1>1. IInv => StartedInOrder
  BY DEF IInv, LaneInv
<1> QED
  BY <1>1, Invariance, PTL

\* A "drained" report of waitForActiveTasks is true of the calls it watched.
THEOREM DrainReportSound == Spec => []DrainedMeansEnded
<1>1. IInv => DrainedMeansEnded
  BY DEF IInv
<1> QED
  BY <1>1, Invariance, PTL

-----------------------------------------------------------------------------
(* Starts within the limit                                                 *)

\* Draining lane l gives slots only up to the limit it drains under.
LEMMA DrainWithinLimit ==
  ASSUME TypeOK, NEW l \in Lanes, NEW q \in Seq(Calls), NEW a \in SUBSET Calls,
         NEW m \in Limits, NEW done,
         Increasing(q), Elems(q) \cap a = {}, a \subseteq active[l],
         Drain(l, q, a, m, done), maxConcurrent' = [maxConcurrent EXCEPT ![l] = m]
  PROVE  \A j \in Lanes : ~(active'[j] \subseteq active[j])
                            => Cardinality(active'[j]) <= maxConcurrent'[j]
<1>1. /\ active'[l] = a \cup Started(q, a, m)
      /\ \A j \in Lanes \ {l} : active'[j] = active[j]
      /\ maxConcurrent'[l] = m
  BY DEF Drain, TypeOK
<1>2. Started(q, a, m) # {} => Cardinality(a \cup Started(q, a, m)) <= m
  BY PumpFillsSlots
<1> QED
  BY <1>1, <1>2

Within ==
  \A l \in Lanes : ~(active'[l] \subseteq active[l])
                     => Cardinality(active'[l]) <= maxConcurrent'[l]

\* A step that gives a lane's slots to calls leaves the lane within its limit.
LEMMA WithinStep ==
  ASSUME IInv, [Next]_vars
  PROVE  Within
<1> USE DEF Within
<1>1. \A l \in Lanes : /\ Increasing(queue[l])
                       /\ queue[l] \in Seq(Calls)
                       /\ maxConcurrent[l] \in Limits
                       /\ active[l] \subseteq running
                       /\ active[l] \subseteq Calls
                       /\ Elems(queue[l]) \cap running = {}
  BY StateFacts DEF IInv, LaneInv, QueuesOrdered, SlotsAreCurrent, HasStarted
<1>2. \A l \in Lanes : maxConcurrent = [maxConcurrent EXCEPT ![l] = maxConcurrent[l]]
  BY DEF IInv, TypeOK
<1>3. ASSUME NEW l \in Lanes, Accept(l)
      PROVE  Within
  <2> DEFINE q == Append(queue[l], nextCall)
  <2>1. /\ Drain(l, q, active[l], maxConcurrent[l], {})
        /\ maxConcurrent' = maxConcurrent
    BY <1>3 DEF Accept
  <2>2. /\ q \in Seq(Calls)
        /\ ReadyToDrain(l, q, active[l], maxConcurrent[l], {})
    BY <1>3, AcceptReady
  <2> HIDE DEF q
  <2>3. Increasing(q) /\ Elems(q) \cap running = {}
    BY <2>2 DEF ReadyToDrain, MidQueue
  <2>4. Elems(q) \cap active[l] = {}
    BY <1>1, <2>3
  <2> QED
    BY <1>1, <1>2, <2>1, <2>2, <2>3, <2>4, DrainWithinLimit DEF IInv
<1>4. ASSUME NEW c \in Calls, NEW result \in Results, CurrentCompletion(c, result)
      PROVE  Within
  <2> DEFINE l == laneOf[c]
  <2>1. /\ Drain(l, queue[l], active[l] \ {c}, maxConcurrent[l], {c})
        /\ maxConcurrent' = maxConcurrent
    BY <1>4 DEF CurrentCompletion
  <2>2. l \in Lanes
    BY DEF IInv, TypeOK
  <2> HIDE DEF l
  <2>3. /\ Elems(queue[l]) \cap (active[l] \ {c}) = {}
        /\ active[l] \ {c} \in SUBSET Calls
    BY <1>1, <2>2
  <2> QED
    BY <1>1, <1>2, <2>1, <2>2, <2>3, DrainWithinLimit DEF IInv
<1>5. ASSUME NEW l \in Lanes, NEW raw \in RawLimits, SetConcurrency(l, raw)
      PROVE  Within
  <2> DEFINE m == ClampLimit(raw)
  <2>1. /\ Drain(l, queue[l], active[l], m, {})
        /\ maxConcurrent' = [maxConcurrent EXCEPT ![l] = m]
    BY <1>5 DEF SetConcurrency
  <2>2. m \in Limits
    BY RawLimitsAssumption DEF ClampLimit, Limits
  <2> HIDE DEF m
  <2>3. Elems(queue[l]) \cap active[l] = {}
    BY <1>1
  <2> QED
    BY <1>1, <2>1, <2>2, <2>3, DrainWithinLimit DEF IInv
<1>6. CASE ResetAllLanes
  <2>1. ASSUME NEW l \in Lanes
        PROVE  LaneStarts(l) # {} => Cardinality(LaneStarts(l)) <= maxConcurrent[l]
    <3> DEFINE q == queue[l]
               m == maxConcurrent[l]
    <3>1. q \in Seq(Calls) /\ m \in Limits /\ Increasing(q) /\ {} \in SUBSET Calls
      BY <1>1
    <3>2. {} \cup LaneStarts(l) = LaneStarts(l)
      OBVIOUS
    <3>3. LaneStarts(l) = Started(q, {}, m)
      BY DEF LaneStarts
    <3> HIDE DEF q, m
    <3>4. Started(q, {}, m) # {} => Cardinality({} \cup Started(q, {}, m)) <= m
      BY <3>1, PumpFillsSlots
    <3> QED
      BY <3>2, <3>3, <3>4 DEF m
  <2>2. active' = [l \in Lanes |-> LaneStarts(l)] /\ maxConcurrent' = maxConcurrent
    BY <1>6 DEF ResetAllLanes
  <2> QED
    BY <2>1, <2>2
<1>7. CASE active' = active
  BY <1>7
<1> QED
  BY <1>3, <1>4, <1>5, <1>6, <1>7
     DEF Next, Enqueue, Refuse, Complete, StaleCompletion, ClearLane, MarkDraining,
         WaitForActive, WaitDrained, WaitTimeout, vars, laneVars

\* In every step of every behaviour, a lane whose active calls grow ends the
\* step within the limit then in force.
THEOREM LimitRespected == Spec => StartsWithinLimit
<1>1. IInv /\ [Next]_vars => [Within]_vars
  BY WithinStep
<1> QED
  BY <1>1, Invariance, PTL DEF Spec, StartsWithinLimit, Within

-----------------------------------------------------------------------------
(* The refinement of LaneContract                                          *)

\* How a step may change the promise of a call.
LEMMA PromiseStep ==
  ASSUME IInv, [Next]_vars, NEW c \in Calls
  PROVE  /\ \/ outcome'[c] = outcome[c] /\ (c \in running => c \in running')
            \/ outcome[c] = "new" /\ outcome'[c] \in {"refused", "pending"}
            \/ c \in running /\ outcome'[c] \in Results
            \/ outcome[c] = "pending" /\ c \notin running /\ outcome'[c] = "cleared"
         /\ outcome[c] # "new" => laneOf'[c] = laneOf[c]
<1> DEFINE Moves == /\ \/ outcome'[c] = outcome[c] /\ (c \in running => c \in running')
                       \/ outcome[c] = "new" /\ outcome'[c] \in {"refused", "pending"}
                       \/ c \in running /\ outcome'[c] \in Results
                       \/ /\ outcome[c] = "pending" /\ c \notin running
                          /\ outcome'[c] = "cleared"
                    /\ outcome[c] # "new" => laneOf'[c] = laneOf[c]
<1>1. ASSUME NEW l \in Lanes, Enqueue(l)
      PROVE  Moves
  <2>1. /\ nextCall \in Calls /\ laneOf' = [laneOf EXCEPT ![nextCall] = l]
        /\ \/ outcome' = [outcome EXCEPT ![nextCall] = "refused"]
           \/ outcome' = [outcome EXCEPT ![nextCall] = "pending"]
        /\ running \subseteq running'
    BY <1>1 DEF Enqueue, Refuse, Accept, Drain
  <2>2. outcome[nextCall] = "new"
    BY <2>1, StateFacts DEF IInv, NewIsFuture
  <2> QED
    BY <2>1, <2>2 DEF IInv, TypeOK
<1>2. ASSUME NEW d \in Calls, NEW result \in Results, Complete(d, result)
      PROVE  Moves
  <2>1. /\ d \in running /\ outcome' = [outcome EXCEPT ![d] = result]
        /\ running \ {d} \subseteq running' /\ laneOf' = laneOf
    BY <1>2 DEF Complete, CurrentCompletion, StaleCompletion, Drain
  <2> QED
    BY <2>1 DEF IInv, TypeOK
<1>3. ASSUME NEW l \in Lanes, ClearLane(l)
      PROVE  Moves
  <2>1. /\ outcome' = [d \in Calls |-> IF d \in Queued(l) THEN "cleared" ELSE outcome[d]]
        /\ UNCHANGED <<running, laneOf>>
    BY <1>3 DEF ClearLane
  <2>2. \A d \in Queued(l) : outcome[d] = "pending" /\ d \notin running
    BY StateFacts DEF HasStarted
  <2> QED
    BY <2>1, <2>2
<1>4. ASSUME UNCHANGED <<outcome, laneOf>>, running \subseteq running'
      PROVE  Moves
  BY <1>4
<1>5. CASE \E l \in Lanes, raw \in RawLimits : SetConcurrency(l, raw)
  BY <1>4, <1>5 DEF SetConcurrency, Drain
<1>6. CASE ResetAllLanes
  BY <1>4, <1>6 DEF ResetAllLanes
<1>7. CASE \/ MarkDraining \/ WaitForActive \/ WaitDrained \/ WaitTimeout
           \/ UNCHANGED vars
  BY <1>4, <1>7 DEF MarkDraining, WaitForActive, WaitDrained, WaitTimeout,
                    vars, callVars
<1> QED
  BY <1>1, <1>2, <1>3, <1>5, <1>6, <1>7 DEF Next

\* Every step of the command queue is a step of its contract, or stutters.
LEMMA ContractStep ==
  ASSUME IInv, IInv', [Next]_vars
  PROVE  Contract!Advance
<1>1. ASSUME NEW c \in Calls
      PROVE  /\ Stage(c)' \in Contract!Stages
             /\ Stage(c)' # Stage(c) => <<Stage(c), Stage(c)'>> \in Contract!Forward
             /\ Stage(c) # "new" => laneOf'[c] = laneOf[c]
  <2>1. /\ \/ outcome'[c] = outcome[c] /\ (c \in running => c \in running')
           \/ outcome[c] = "new" /\ outcome'[c] \in {"refused", "pending"}
           \/ c \in running /\ outcome'[c] \in Results
           \/ outcome[c] = "pending" /\ c \notin running /\ outcome'[c] = "cleared"
        /\ outcome[c] # "new" => laneOf'[c] = laneOf[c]
    BY PromiseStep
  <2>2. outcome[c] \in Outcomes /\ outcome'[c] \in Outcomes
    BY DEF IInv, TypeOK
  <2>3. c \in running => outcome[c] = "pending"
    BY StateFacts
  <2> QED
    BY <2>1, <2>2, <2>3 DEF Stage, Outcomes, Results, Contract!Stages, Contract!Forward
<1>2. ASSUME NEW c \in Calls, NEW d \in Calls,
             Stage(c)' = "executing", d < c, laneOf'[d] = laneOf'[c]
      PROVE  Stage(d)' # "waiting"
  <2> SUFFICES ASSUME outcome'[d] = "pending", d \notin running'
               PROVE  FALSE
    BY <1>1 DEF Stage, Outcomes, Results, IInv, TypeOK
  <2>1. d \in Queued(laneOf[d])'
    BY DEF IInv, LaneInv, PendingAccounted
  <2>2. c \in running'
    BY <1>2 DEF Stage, IInv, TypeOK, Outcomes, Results
  <2>3. laneOf'[d] \in Lanes
    BY DEF IInv, TypeOK
  <2>4. c < d
    BY <1>2, <2>1, <2>2, <2>3 DEF IInv, LaneInv, StartedInOrder, HasStarted
  <2> QED
    BY <1>2, <2>4, MaxCallsAssumption DEF Calls
<1>3. laneOf' \in [Calls -> Lanes]
  BY DEF IInv, TypeOK
<1> QED
  BY <1>1, <1>2, <1>3 DEF Contract!Advance, Contract!StartsNow

\* The command queue implements the contract its callers rely on, for every
\* value of its constants.
THEOREM Refinement == Spec => ContractSpec
<1>1. Init => Contract!Init
  <2> SUFFICES ASSUME Init PROVE Contract!Init
    OBVIOUS
  <2>1. \A c \in Calls : Stage(c) = "new"
    BY DEF Init, Stage
  <2>2. laneOf \in [Calls -> Lanes]
    BY LanesAssumption DEF Init
  <2> QED
    BY <2>1, <2>2 DEF Contract!Init
<1>2. IInv /\ IInv' /\ [Next]_vars
        => [Contract!Advance]_<<[c \in Calls |-> Stage(c)], laneOf>>
  BY ContractStep
<1> QED
  BY <1>1, <1>2, Invariance, PTL DEF Spec, ContractSpec, Contract!Spec

=============================================================================
