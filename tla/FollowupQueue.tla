---------------------------- MODULE FollowupQueue ----------------------------
(***************************************************************************)
(* The follow-up queue of one session (auto-reply/reply/queue/): messages  *)
(* that arrive while the session's agent is busy are kept and drained into *)
(* follow-up turns.                                                        *)
(*                                                                         *)
(* The registry maps the session's key to a queue object; a cleared object *)
(* can still be drained by a turn in flight while a new one takes its      *)
(* place.  The drain of an object is part of its record, since an object   *)
(* that drains starts no second drain.  Handlers run to their next await.  *)
(*                                                                         *)
(* A message may be delivered more than once.  The m of the model are      *)
(* deliveries: MessageOf tells which ones are of the same message.         *)
(***************************************************************************)
EXTENDS Integers, Sequences, FiniteSets

CONSTANTS
  MaxMsgs,      \* bound: deliveries that arrive
  MessageOf,    \* MessageOf[m]: the first delivery of the message of m
  MaxFailures,  \* bound: follow-up turns that fail
  MaxQueues,    \* bound: queue objects alive at once
  Keys,         \* destinations a reply can be routed to
  Modes,        \* queue modes in use: "collect", "followup"
  Caps,         \* caps in use
  Policies,     \* drop policies in use: "old", "new", "summarize"
  Races         \* orders of events that may happen, of RaceKinds

RaceKinds == {"overflowInTurn",  \* the cap is reached while a turn is in flight
              "overflowSingly",  \* it is reached in a mode that does not collect
              "policyChange",    \* settings change while a summary is due
              "clear",           \* /stop, /new or a kill clears the session's queue
              "interpose"}       \* an enqueue between the routing check and the batch

ASSUME BoundsAssumption == MaxMsgs \in Nat /\ MaxFailures \in Nat /\ MaxQueues \in Nat
ASSUME DeliveriesAssumption == MessageOf \in [1 .. MaxMsgs -> 1 .. MaxMsgs]
ASSUME CapsAssumption == Caps \subseteq Nat \ {0}
ASSUME RacesAssumption == Races \subseteq RaceKinds

Msgs == 1 .. MaxMsgs
QueueIds == 1 .. MaxQueues

\* Where a message came from: a routable key, nowhere in particular ("none"), or
\* a channel replies cannot be routed to ("cross").
Routes == Keys \cup {"none", "cross"}

VARIABLES
  current,   \* the object the registry holds for the session, 0 if none
  q,         \* q[id]: the queue objects
  mainRun,   \* the session's ordinary run: "idle", "active" or "finalizing"
  accepted,  \* deliveries as they were accepted (history)
  recent,    \* those of which the id is remembered for deduplication
  route,     \* route[m]
  fate,      \* fate[m]: what became of message m
  failures   \* turns that failed so far

log == <<accepted, recent>>
vars == <<current, q, mainRun, log, route, fate, failures>>

NoTurn == [shown |-> <<>>, take |-> 0, lines |-> <<>>, summary |-> FALSE]

EmptyQueue(s) ==
  [items |-> <<>>, mode |-> s.mode, cap |-> s.cap, drop |-> s.drop,
   dropped |-> 0, lines |-> <<>>, lastRun |-> FALSE,
   at |-> "off", force |-> FALSE, turn |-> NoTurn]

Settings == [mode : Modes, cap : Caps, drop : Policies]

NoQueue == EmptyQueue([mode |-> "none", cap |-> 1, drop |-> "none"])

InSeq(s) == {s[i] : i \in 1 .. Len(s)}

Backlog(b) == b.items # <<>> \/ b.dropped > 0

Init ==
  /\ current = 0
  /\ q = [id \in QueueIds |-> NoQueue]
  /\ mainRun = "idle"
  /\ accepted = <<>>
  /\ recent = {}
  /\ route = [m \in Msgs |-> "none"]
  /\ fate = [m \in Msgs |-> "new"]
  /\ failures = 0

-----------------------------------------------------------------------------
(* scheduleFollowupDrain on the registry value reg = [current, q]: nothing  *)
(* if there is no queue or it drains; an empty queue is deleted at once.    *)

Schedule(reg) ==
  IF reg.current = 0 \/ reg.q[reg.current].at # "off" THEN reg
  ELSE IF Backlog(reg.q[reg.current])
       THEN [reg EXCEPT !.q[reg.current].at = "debounce",
                        !.q[reg.current].force = FALSE]
       ELSE [current |-> 0, q |-> [reg.q EXCEPT ![reg.current] = NoQueue]]

FinishWithoutRetry(reg, id, b) ==
  [current |-> IF Backlog(b) THEN reg.current ELSE 0,
   q |-> [reg.q EXCEPT ![id] =
            IF Backlog(b) THEN [b EXCEPT !.at = "off", !.turn = NoTurn] ELSE NoQueue]]

\* The end of the drain of object id, now b: the key is deleted, whichever
\* object it holds, or a drain of the key is scheduled again.
Finish(reg, id, b) ==
  LET off == [b EXCEPT !.at = "off", !.turn = NoTurn]
  IN  IF Backlog(b) THEN Schedule([reg EXCEPT !.q[id] = off])
      ELSE [current |-> 0, q |-> [reg.q EXCEPT ![id] = NoQueue]]

Registry == [current |-> current, q |-> q]

Becomes(reg) == current' = reg.current /\ q' = reg.q

-----------------------------------------------------------------------------
(* enqueueFollowupRun                                                      *)

\* applyQueueDropPolicy makes room for one item.
DropCount(b) == IF Len(b.items) < b.cap THEN 0 ELSE Len(b.items) - b.cap + 1

Dropped(b) == SubSeq(b.items, 1, DropCount(b))

\* The newest lines within the cap; the older ones are gone but counted.
TrimLines(lines, cap) ==
  SubSeq(lines, IF Len(lines) > cap THEN Len(lines) - cap + 1 ELSE 1, Len(lines))

KeepLineUncounted(b) ==
  [b EXCEPT !.items = SubSeq(@, DropCount(b) + 1, Len(@)),
            !.lines = IF b.drop = "summarize"
                      THEN TrimLines(@ \o Dropped(b), b.cap) ELSE @]

MakeRoom(b) ==
  [b EXCEPT !.items = SubSeq(@, DropCount(b) + 1, Len(@)),
            !.dropped = IF b.drop = "summarize" THEN @ + DropCount(b) ELSE @,
            !.lines = IF b.drop = "summarize"
                      THEN TrimLines(@ \o Dropped(b), b.cap) ELSE @]

FateAfterDrop(b, d) ==
  IF d \in InSeq(Dropped(b)) \cup InSeq(b.lines)
  THEN IF b.drop # "summarize" THEN IF d \in InSeq(b.lines) THEN fate[d] ELSE "discarded"
       ELSE IF d \in InSeq(MakeRoom(b).lines) THEN "dropped" ELSE "discarded"
  ELSE fate[d]

\* The ids under which a message may find the registry's queue or a new one.
Target == IF current # 0 THEN {current}
          ELSE {id \in QueueIds : q[id].at = "off" /\
                  \A j \in QueueIds : j < id => q[j].at # "off"}

InTurn == \E id \in QueueIds : q[id].at = "turn"

\* The liveness re-check of the caller may see a follow-up turn as the active
\* run, once that turn has registered itself.
SeenActive(sees) == mainRun = "active" \/ (InTurn /\ sees)

NeverDeduplicated(m, b) == FALSE
Deduplicated(m, b) == \E n \in recent \cup InSeq(b.items) : MessageOf[n] = MessageOf[m]

Redelivery(m) == MessageOf[m] # m

\* The delivery m is accepted into b, which has made room for it.
Accept(m, b) == [MakeRoom(b) EXCEPT !.items = Append(@, m), !.lastRun = TRUE]

FinalizeIfIdle(reg, sees) == IF SeenActive(sees) THEN reg ELSE Schedule(reg)

\* A delivery for a session seen busy: enqueueFollowupRun by runReplyAgent, then
\* the re-check that schedules a drain if the run has ended meanwhile.  Messages come
\* in their order, which is no restriction, and are redelivered at any time.
Enqueue(m, r, s, id, sees) ==
  LET b == IF current = 0 THEN EmptyQueue(s)
           ELSE [q[id] EXCEPT !.mode = s.mode, !.cap = s.cap, !.drop = s.drop]
      refuse == DropCount(b) > 0 /\ b.drop = "new"
      after == IF Deduplicated(m, b) THEN b
               ELSE IF refuse THEN [b EXCEPT !.lastRun = TRUE]
               ELSE Accept(m, b)
  IN  /\ fate[m] = "new"
      /\ IF Redelivery(m) THEN fate[MessageOf[m]] # "new" /\ r = route[MessageOf[m]]
         ELSE \A n \in Msgs : n < m /\ ~Redelivery(n) => fate[n] # "new"
      /\ "overflowInTurn" \in Races \/ ~InTurn \/ DropCount(b) = 0
      /\ "overflowSingly" \in Races \/ s.mode = "collect" \/ (DropCount(b) = 0 /\ b.dropped = 0)
      /\ "policyChange" \in Races \/ s.drop = "summarize" \/ b.dropped = 0
      /\ "interpose" \in Races \/ \A j \in QueueIds : q[j].at # "collecting"
      /\ route' = [route EXCEPT ![m] = r]
      /\ Becomes(FinalizeIfIdle([current |-> id, q |-> [q EXCEPT ![id] = after]], sees))
      /\ IF Deduplicated(m, b)
         THEN fate' = [fate EXCEPT ![m] = "duplicate"] /\ UNCHANGED log
         ELSE IF refuse
         THEN fate' = [fate EXCEPT ![m] = "refused"] /\ UNCHANGED log
         ELSE /\ fate' = [d \in Msgs |-> IF d = m THEN "queued" ELSE FateAfterDrop(b, d)]
              /\ accepted' = Append(accepted, m)
              /\ recent' = recent \cup {m}
      /\ UNCHANGED <<mainRun, failures>>

\* The cache of ids keeps one for five minutes and at most 10000 (infra/dedupe.ts);
\* which one matters only for a message that is still to be redelivered.
Forgets(n) ==
  /\ n \in recent
  /\ \E m \in Msgs : fate[m] = "new" /\ MessageOf[m] = MessageOf[n]
  /\ recent' = recent \ {n}
  /\ UNCHANGED <<current, q, mainRun, accepted, route, fate, failures>>

-----------------------------------------------------------------------------
(* The session's ordinary run.  It counts as active while it is registered; *)
(* its last step schedules the drain.                                       *)

RunStarts == /\ mainRun = "idle"
             /\ \E m \in Msgs : fate[m] = "new"
             /\ mainRun' = "active"
             /\ UNCHANGED <<current, q, log, route, fate, failures>>

RunEnds == /\ mainRun = "active"
           /\ mainRun' = "finalizing"
           /\ UNCHANGED <<current, q, log, route, fate, failures>>

Finalize == /\ mainRun = "finalizing"
            /\ mainRun' = "idle"
            /\ Becomes(Schedule(Registry))
            /\ UNCHANGED <<log, route, fate, failures>>

-----------------------------------------------------------------------------
(* The drain.                                                              *)

\* hasCrossChannelItems
KeysOf(items) == {route[m] : m \in InSeq(items)} \ {"none", "cross"}

OnlyTwoKeysAreCross(items) == Cardinality(KeysOf(items)) > 1

CrossChannel(items) ==
  \/ \E m \in InSeq(items) : route[m] = "cross"
  \/ /\ KeysOf(items) # {}
     /\ \/ \E m \in InSeq(items) : route[m] = "none"
        \/ Cardinality(KeysOf(items)) > 1

HasSummary(b) == b.drop = "summarize" /\ b.dropped > 0

\* drainNextQueueItem: a turn for the oldest item, removed when it has ended.
NewestTurn(b) == [NoTurn EXCEPT !.shown = <<b.items[Len(b.items)]>>, !.take = 1]
ItemTurn(b) == [NoTurn EXCEPT !.shown = <<Head(b.items)>>, !.take = 1]

\* A turn whose prompt is the summary and which consumes the oldest item.
SummaryTurn(b) == [shown |-> <<>>, take |-> 1, lines |-> b.lines, summary |-> TRUE]

\* A turn for all items, and the summary if there is one.
BatchWithoutSummary(b) ==
  [shown |-> b.items, take |-> Len(b.items), lines |-> <<>>, summary |-> HasSummary(b)]

BatchTurn(b) ==
  [shown |-> b.items, take |-> Len(b.items),
   lines |-> IF HasSummary(b) THEN b.lines ELSE <<>>, summary |-> HasSummary(b)]

Begin(id, b, turn) ==
  /\ q' = [q EXCEPT ![id] = [b EXCEPT !.at = "turn", !.turn = turn]]
  /\ UNCHANGED current

Break(id, b) == Becomes(Finish(Registry, id, b))

\* The debounce is over and the mode is "collect": mixed destinations go one
\* by one for the rest of this drain, others are collected after an await.
CollectStep(id) ==
  LET cross == CrossChannel(q[id].items)
      b == [q[id] EXCEPT !.force = @ \/ cross]
  IN  /\ q[id].at = "debounce"
      /\ q[id].mode = "collect"
      /\ IF ~b.force
         THEN q' = [q EXCEPT ![id].at = "collecting"] /\ UNCHANGED current
         ELSE IF b.items = <<>> THEN Break(id, b) ELSE Begin(id, b, ItemTurn(b))
      /\ UNCHANGED <<mainRun, log, route, fate, failures>>

CollectBatch(id) ==
  LET b == q[id]
  IN  /\ b.at = "collecting"
      /\ IF b.items = <<>> /\ ~b.lastRun THEN Break(id, b)
         ELSE Begin(id, b, BatchTurn(b))
      /\ UNCHANGED <<mainRun, log, route, fate, failures>>

\* Any other mode: the summary first, then item by item.
IndividualStep(id) ==
  LET b == q[id]
  IN  /\ b.at = "debounce"
      /\ b.mode # "collect"
      /\ IF b.items = <<>> \/ (HasSummary(b) /\ ~b.lastRun) THEN Break(id, b)
         ELSE Begin(id, b, IF HasSummary(b) THEN SummaryTurn(b) ELSE ItemTurn(b))
      /\ UNCHANGED <<mainRun, log, route, fate, failures>>

\* What the drain leaves behind a turn that succeeded.
AfterTurnKeepingCount(b) ==
  [b EXCEPT !.items = SubSeq(@, b.turn.take + 1, Len(@)),
            !.lines = IF b.turn.summary THEN <<>> ELSE @]

AfterTurn(b) ==
  [b EXCEPT !.items = SubSeq(@, b.turn.take + 1, Len(@)),
            !.dropped = IF b.turn.summary THEN 0 ELSE @,
            !.lines = IF b.turn.summary THEN <<>> ELSE @]

TurnEnds(id) ==
  LET b == AfterTurn(q[id])
  IN  /\ q[id].at = "turn"
      /\ IF Backlog(b)
         THEN /\ q' = [q EXCEPT ![id] = [b EXCEPT !.at = "debounce", !.turn = NoTurn]]
              /\ UNCHANGED current
         ELSE Break(id, b)
      /\ fate' = [m \in Msgs |->
                    IF m \in InSeq(q[id].turn.shown) THEN "shown"
                    ELSE IF m \in InSeq(q[id].turn.lines) THEN "summarized"
                    ELSE fate[m]]
      /\ UNCHANGED <<mainRun, log, route, failures>>

\* The turn throws: nothing is removed and the key is scheduled again.
RemoveFailed(b) == [b EXCEPT !.items = SubSeq(@, b.turn.take + 1, Len(@))]
KeepFailed(b) == b

TurnFails(id) ==
  /\ q[id].at = "turn"
  /\ failures < MaxFailures
  /\ failures' = failures + 1
  /\ Break(id, KeepFailed(q[id]))
  /\ UNCHANGED <<mainRun, log, route, fate>>

DrainStep(id) ==
  CollectStep(id) \/ CollectBatch(id) \/ IndividualStep(id) \/ TurnEnds(id) \/ TurnFails(id)

-----------------------------------------------------------------------------
\* clearSessionQueues: the object is emptied and leaves the registry; a drain
\* of it in flight goes on.
Clear ==
  LET b == q[current]
  IN  /\ "clear" \in Races
      /\ current # 0
      /\ current' = 0
      /\ q' = [q EXCEPT ![current] =
                 IF b.at = "off" THEN NoQueue
                 ELSE [b EXCEPT !.items = <<>>, !.dropped = 0, !.lines = <<>>,
                                !.lastRun = FALSE]]
      /\ fate' = [m \in Msgs |-> IF m \in InSeq(b.items) \cup InSeq(b.lines)
                                 THEN "cleared" ELSE fate[m]]
      /\ UNCHANGED <<mainRun, log, route, failures>>

Next ==
  \/ \E m \in Msgs, r \in Routes, s \in Settings, id \in Target, sees \in BOOLEAN :
        Enqueue(m, r, s, id, sees)
  \/ \E n \in Msgs : Forgets(n)
  \/ RunStarts
  \/ RunEnds
  \/ Finalize
  \/ \E id \in QueueIds : DrainStep(id)
  \/ Clear

Spec == Init /\ [][Next]_vars

(* Runs and turns end, and a drain's awaits are resolved; a turn that fails *)
(* is tried again and does not fail for ever.                               *)
Fairness ==
  /\ \A id \in QueueIds : WF_vars(DrainStep(id))
  /\ WF_vars(RunEnds)
  /\ WF_vars(Finalize)

FairSpec == Spec /\ Fairness

-----------------------------------------------------------------------------
(* Properties                                                              *)

QueueType(b) ==
  /\ InSeq(b.items) \cup InSeq(b.lines) \subseteq Msgs
  /\ b.dropped \in Nat /\ Len(b.lines) <= b.dropped
  /\ b.at \in {"off", "debounce", "collecting", "turn"}
  /\ b.lastRun \in BOOLEAN /\ b.force \in BOOLEAN

\* Types; every line of a summary is of a message counted as dropped.
TypeOK ==
  /\ current \in 0 .. MaxQueues
  /\ \A id \in QueueIds : QueueType(q[id])
  /\ mainRun \in {"idle", "active", "finalizing"}
  /\ recent \subseteq InSeq(accepted) /\ InSeq(accepted) \subseteq Msgs
  /\ route \in [Msgs -> Routes]
  /\ fate \in [Msgs -> {"new", "queued", "shown", "dropped", "summarized",
                        "discarded", "refused", "duplicate", "cleared"}]
  /\ failures \in 0 .. MaxFailures

Waiting == IF current = 0 THEN {} ELSE InSeq(q[current].items)
Lines == IF current = 0 THEN {} ELSE InSeq(q[current].lines)
InTurns(f(_)) == UNION {InSeq(f(q[id].turn)) : id \in QueueIds}
ShownNow == InTurns(LAMBDA t : t.shown)
LinesNow == InTurns(LAMBDA t : t.lines)

\* A message accepted for the next turn waits in the session's queue or is in
\* the prompt of a turn, until a turn has shown it; so does the line of a message
\* that the cap has dropped, until a summary has.
NothingLost ==
  \A m \in Msgs :
    /\ fate[m] = "queued" => m \in Waiting \cup ShownNow
    /\ fate[m] = "dropped" => m \in Lines \cup LinesNow

\* No delivery is put into a turn's prompt twice, or again after a turn that showed
\* it has succeeded, and no prompt shows two deliveries of one message, even if its id
\* was forgotten while it waited.  A message that was accepted is accepted again, to be
\* shown again, only after its id has been forgotten.
ShownOnce ==
  /\ \A id \in QueueIds :
       LET shown == q[id].turn.shown
       IN  /\ \A i, j \in 1 .. Len(shown) : i # j => MessageOf[shown[i]] # MessageOf[shown[j]]
           /\ \A i \in 1 .. Len(shown) : fate[shown[i]] # "shown"
  /\ \A i, j \in 1 .. Len(accepted) :
       i < j /\ MessageOf[accepted[i]] = MessageOf[accepted[j]] => accepted[i] \notin recent

\* A message is not shown while one accepted before it still waits.
ShownInOrder ==
  \A i, j \in 1 .. Len(accepted) :
    i < j /\ fate[accepted[i]] = "queued" => fate[accepted[j]] # "shown"

\* A collected prompt has one destination.
OneDestination ==
  \A id \in QueueIds :
    LET shown == q[id].turn.shown
    IN  \A i, j \in 1 .. Len(shown) :
          i # j => route[shown[i]] = route[shown[j]] /\ route[shown[i]] # "cross"

\* Every accepted message, and the line of every dropped one, is dealt with.
MessagesLeave ==
  \A m \in Msgs : fate[m] \in {"queued", "dropped"} ~> fate[m] \notin {"queued", "dropped"}

HasBacklog == current # 0 /\ Backlog(q[current])

\* A backlog is worked off; the drain does not go on with nothing left to show.
BacklogEnds == HasBacklog ~> ~HasBacklog

=============================================================================
