------------------------ MODULE GatewayRestartProofs ------------------------
(* Theorems about the dispatchers and the restarts that wait for them: for   *)
(* any number of dispatchers, replies and polls, any cooldown and any        *)
(* delays, the counts are true and an idle restart interrupts no answer.     *)
EXTENDS GatewayRestart, TLAPS

\* withReplyDispatcher marks a dispatcher complete when its run has settled.
NoLateReplies == LateReplies = FALSE

\* A dispatcher not in use has nothing, and only a complete one is cleared.
Unused ==
  \A d \in Dispatchers :
    /\ run[d] = "new" => chain[d] = 0
    /\ clearing[d] => run[d] = "complete"

RepliesInv == RepliesTypeOK /\ Unused

USE RepliesAssumption, TimesAssumption DEF RepliesAssumption, TimesAssumption

-----------------------------------------------------------------------------
(* The dispatchers.                                                        *)

\* A new dispatcher is registered with its reservation.
LEMMA CreateKeeps ==
  ASSUME RepliesInv, NEW d \in Dispatchers, Create(d)
  PROVE  RepliesInv'
  BY DEF RepliesInv, RepliesTypeOK, Unused, Create

\* A reply comes only before the dispatcher is marked complete.
LEMMA SendKeeps ==
  ASSUME NoLateReplies, RepliesInv, NEW d \in Dispatchers, Send(d)
  PROVE  RepliesInv'
  BY DEF NoLateReplies, RepliesInv, RepliesTypeOK, Unused, Send

\* A delivery leaves the reservation to its owner.
LEMMA DeliveredKeeps ==
  ASSUME RepliesInv, NEW d \in Dispatchers, Delivered(d)
  PROVE  RepliesInv'
  BY DEF RepliesInv, RepliesTypeOK, Unused, Delivered, Count, ReservationOver

\* Marking a dispatcher complete has its reservation cleared.
LEMMA MarkCompleteKeeps ==
  ASSUME RepliesInv, NEW d \in Dispatchers, MarkComplete(d)
  PROVE  RepliesInv'
  BY DEF RepliesInv, RepliesTypeOK, Unused, MarkComplete

\* The cleared reservation may end the registration.
LEMMA ClearReservationKeeps ==
  ASSUME RepliesInv, NEW d \in Dispatchers, ClearReservation(d)
  PROVE  RepliesInv'
  BY DEF RepliesInv, RepliesTypeOK, Unused, ClearReservation, Count, ReservationOver

\* The steps of an answer, while nothing else changes.
LEMMA AnswerKeeps ==
  ASSUME NoLateReplies, RepliesInv, NEW d \in Dispatchers, Answer(d)
  PROVE  RepliesInv'
  BY CreateKeeps, SendKeeps, DeliveredKeeps, MarkCompleteKeeps, ClearReservationKeeps
     DEF Answer, Reply

\* What leaves the replies alone keeps their invariant.
LEMMA RepliesUnchanged ==
  ASSUME RepliesInv, UNCHANGED replyVars
  PROVE  RepliesInv'
  BY DEF RepliesInv, RepliesTypeOK, Unused, replyVars

\* An idle gateway answers nobody: whatever runs or waits is registered, and what
\* is registered is counted.
LEMMA IdleMeansSilent ==
  ASSUME RepliesInv, Idle, NEW d \in Dispatchers
  PROVE  run[d] # "running" /\ chain[d] = 0
<1>1. chain[d] \in Nat
  BY DEF RepliesInv, RepliesTypeOK
<1>2. d \notin registered
  BY <1>1 DEF RepliesInv, RepliesTypeOK, Idle, RepliesPending
<1> QED
  BY <1>1, <1>2 DEF RepliesInv, RepliesTypeOK

-----------------------------------------------------------------------------
(* The restarts.                                                           *)

Inv == RepliesInv /\ RestartState

\* The invariant includes the types.
LEMMA InvIsTypeOK == Inv => RestartTypeOK
  BY DEF Inv, RepliesInv, RestartTypeOK

\* A poll begins with age zero.
LEMMA PollBegins ==
  ASSUME RestartState, NEW p \in Polls
  PROVE  /\ [poll EXCEPT ![p] = 0] \in [Polls -> None .. MaxWait]
         /\ [poll EXCEPT ![p] = None] \in [Polls -> None .. MaxWait]
  BY DEF RestartState, None

\* An emitted signal keeps the types, whatever it finds.
LEMMA EmitTypes ==
  ASSUME RestartState, NEW why \in {"idle", "timeout", "unchecked"}, Emit(why)
  PROVE  /\ timer' = None /\ cooldown' \in 0 .. Cooldown
         /\ request' \in {"none", "draining", "closing"}
         /\ early' \in BOOLEAN /\ cause' = why
  BY DEF Emit, RestartState

\* So does a request that emits at once or starts to poll.
LEMMA EmitOrPollTypes ==
  ASSUME RestartState, EmitOrPoll
  PROVE  /\ timer' = None /\ cooldown' \in 0 .. Cooldown
         /\ request' \in {"none", "draining", "closing"}
         /\ early' \in BOOLEAN /\ cause' \in {"none", "idle", "timeout", "unchecked"}
         /\ poll' \in [Polls -> None .. MaxWait]
<1>1. CASE Idle /\ Emit("idle") /\ UNCHANGED poll
  BY <1>1, EmitTypes DEF RestartState
<1>2. CASE ~Idle
  BY <1>2, PollBegins DEF EmitOrPoll, RestartState
<1> QED
  BY <1>1, <1>2 DEF EmitOrPoll

\* So does a request that is scheduled.
LEMMA ScheduleTypes ==
  ASSUME RestartState, NEW delay \in Nat, Schedule(delay)
  PROVE  timer' \in Int /\ timer' >= None /\ owed' = TRUE
  BY DEF Schedule, RestartState, None

\* The invariant of dispatchers, requests and polls holds in every reachable state.
THEOREM RestartInvariance == NoLateReplies => (Spec => []Inv)
<1> SUFFICES ASSUME NoLateReplies PROVE Spec => []Inv
  OBVIOUS
<1>1. Init => Inv
  <2> SUFFICES ASSUME Init PROVE Inv
    OBVIOUS
  <2>1. RepliesInv
    BY DEF Init, RepliesInit, RepliesInv, RepliesTypeOK, Unused
  <2>2. RestartState
    <3>1. poll \in [Polls -> None .. MaxWait]
      BY DEF Init, None
    <3>2. cooldown \in 0 .. Cooldown /\ timer \in Int /\ timer >= None
      BY DEF Init, None
    <3>3. loop = "starting" /\ request = "none" /\ cause = "none"
      BY DEF Init
    <3>4. /\ server \in BOOLEAN /\ checked \in BOOLEAN /\ busy \in BOOLEAN
          /\ restartQueued \in BOOLEAN /\ owed \in BOOLEAN /\ early \in BOOLEAN
      BY DEF Init
    <3> QED
      BY <3>1, <3>2, <3>3, <3>4 DEF RestartState
  <2> QED
    BY <2>1, <2>2 DEF Inv
<1>2. Inv /\ [Next]_vars => Inv'
  <2> SUFFICES ASSUME Inv, [Next]_vars
               PROVE  Inv'
    OBVIOUS
  <2> USE DEF Inv
  <2>1. CASE UNCHANGED vars
    BY <2>1, RepliesUnchanged DEF vars, loopVars, restartVars, history, RestartState
  <2>2. ASSUME NEW delay \in Delays, ClientAsks(delay)
        PROVE  Inv'
    <3>1. delay \in Nat
      OBVIOUS
    <3> QED
      BY <2>2, <3>1, ScheduleTypes, RepliesUnchanged DEF ClientAsks, loopVars, RestartState
  <2>3. CASE ExternalSignal
    BY <2>3, ScheduleTypes, RepliesUnchanged DEF ExternalSignal, loopVars, RestartState
  <2>4. CASE WatcherAsks
    <3>1. CASE Idle /\ Emit("idle") /\ UNCHANGED poll
      BY <2>4, <3>1, EmitTypes, RepliesUnchanged DEF WatcherAsks, RestartState, None
    <3>2. CASE /\ \E p \in Polls : poll' = [poll EXCEPT ![p] = 0]
               /\ UNCHANGED <<timer, cooldown, request, early, cause>>
      <4>1. poll' \in [Polls -> None .. MaxWait]
        BY <3>2, PollBegins
      <4> QED
        BY <2>4, <3>2, <4>1, RepliesUnchanged DEF WatcherAsks, RestartState
    <3> QED
      BY <2>4, <3>1, <3>2 DEF WatcherAsks
  <2>5. CASE TimerFires
    <3>1. CASE EmitOrPoll
      BY <2>5, <3>1, EmitOrPollTypes, RepliesUnchanged DEF TimerFires, RestartState, None
    <3>2. CASE Emit("unchecked") /\ UNCHANGED poll
      BY <2>5, <3>2, EmitTypes, RepliesUnchanged DEF TimerFires, RestartState, None
    <3> QED
      BY <2>5, <3>1, <3>2 DEF TimerFires
  <2>6. ASSUME NEW p \in Polls, PollEnds(p)
        PROVE  Inv'
    <3>1. PICK why \in {"idle", "timeout"} : Emit(why)
      BY <2>6 DEF PollEnds
    <3>2. poll' \in [Polls -> None .. MaxWait]
      BY <2>6, PollBegins DEF PollEnds
    <3> QED
      BY <2>6, <3>1, <3>2, EmitTypes, RepliesUnchanged DEF PollEnds, RestartState, None
  <2>7. CASE Tick
    <3>1. poll' \in [Polls -> None .. MaxWait]
      <4>1. \A p \in Polls : poll[p] \in None .. MaxWait
        BY DEF RestartState
      <4>2. \A p \in Polls :
              (IF poll[p] \in 0 .. MaxWait - 1 THEN poll[p] + 1 ELSE poll[p]) \in None .. MaxWait
        BY <4>1 DEF None
      <4> QED
        BY <2>7, <4>2 DEF Tick
    <3>2. cooldown' \in 0 .. Cooldown /\ timer' \in Int /\ timer' >= None
      BY <2>7 DEF Tick, Less, RestartState, None
    <3> QED
      BY <2>7, <3>1, <3>2, RepliesUnchanged DEF Tick, loopVars, history, RestartState
  <2>8. CASE DrainEnds
    BY <2>8, RepliesUnchanged DEF DrainEnds, restartVars, history, RestartState
  <2>9. CASE CloseEnds
    BY <2>9, RepliesUnchanged DEF CloseEnds, restartVars, RestartState
  <2>10. CASE StartEnds
    BY <2>10, RepliesUnchanged DEF StartEnds, history, RestartState
  <2>11. CASE Work
    BY <2>11, RepliesUnchanged DEF Work, restartVars, history, RestartState
  <2>12. ASSUME NEW d \in Dispatchers, Answer(d)
         PROVE  Inv'
    BY <2>12, AnswerKeeps DEF Answer, loopVars, restartVars, history, RestartState
  <2> QED
    BY <2>1, <2>2, <2>3, <2>4, <2>5, <2>6, <2>7, <2>8, <2>9, <2>10, <2>11, <2>12 DEF Next
<1> QED
  BY <1>1, <1>2, PTL DEF Spec

\* The state of the restarts has its types, and each dispatcher its count.
THEOREM RestartTypeCorrect == NoLateReplies => (Spec => []RestartTypeOK)
<1> SUFFICES ASSUME NoLateReplies PROVE Spec => []RestartTypeOK
  OBVIOUS
<1>1. Spec => []Inv
  BY RestartInvariance
<1> QED
  BY <1>1, InvIsTypeOK, PTL

\* A restart for which the gateway was found idle interrupts no answer.
THEOREM IdleRestartsInterruptNobody == NoLateReplies => (Spec => RepliesFirst)
<1> SUFFICES ASSUME NoLateReplies PROVE Spec => RepliesFirst
  OBVIOUS
<1> DEFINE Silent == \A d \in Dispatchers : run[d] # "running" /\ chain[d] = 0
<1>1. Inv /\ [Next]_vars => [request = "none" /\ request' = "draining" /\ cause' = "idle" => Silent]_vars
  <2> SUFFICES ASSUME Inv, [Next]_vars, vars' # vars,
                      request = "none", request' = "draining", cause' = "idle"
               PROVE  Silent
    OBVIOUS
  <2>1. Idle => Silent
    BY IdleMeansSilent DEF Inv
  <2> HIDE DEF Silent
  <2>2. ASSUME NEW delay \in Delays PROVE ~ClientAsks(delay)
    BY DEF ClientAsks, loopVars
  <2>3. ~ExternalSignal
    BY DEF ExternalSignal, loopVars
  <2>4. WatcherAsks => Idle
    BY DEF WatcherAsks
  <2>5. TimerFires => Idle
    BY DEF TimerFires, EmitOrPoll, Emit
  <2>6. ASSUME NEW p \in Polls PROVE PollEnds(p) => Idle
    BY DEF PollEnds, Emit
  <2>7. ~Tick /\ ~DrainEnds /\ ~CloseEnds /\ ~StartEnds /\ ~Work
    BY DEF Tick, DrainEnds, CloseEnds, StartEnds, Work, loopVars
  <2>8. ASSUME NEW d \in Dispatchers PROVE ~Answer(d)
    BY DEF Answer, loopVars
  <2> QED
    BY <2>1, <2>2, <2>3, <2>4, <2>5, <2>6, <2>7, <2>8 DEF Next
<1>2. Spec => []Inv
  BY RestartInvariance
<1> QED
  BY <1>1, <1>2, PTL DEF Spec, RepliesFirst

=============================================================================
