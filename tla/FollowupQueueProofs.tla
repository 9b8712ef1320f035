------------------------- MODULE FollowupQueueProofs -------------------------
(***************************************************************************)
(* Theorems about the follow-up queue, for any number of messages, failing  *)
(* turns and objects, all caps and the orders of events each one names.     *)
(*                                                                          *)
(* Handlers are seen as functions of the registry's value: an object is put *)
(* in the place of another, woken, parked or deleted.  TypeInv has the      *)
(* types; Whole says that every object is sound and that no delivery is in  *)
(* two of them, which gives OneDestination and, with OnceInv on the         *)
(* deliveries of one message, ShownOnce; Kept says that the registry's      *)
(* object has all that waits, in order, which gives NothingLost and         *)
(* ShownInOrder when the settings are Quiet.                                *)
(***************************************************************************)
EXTENDS FollowupQueue, SequenceTheorems, FiniteSetTheorems, TLAPS

-----------------------------------------------------------------------------
(* Objects and the registry as values                                      *)

\* The values a turn, an object and the registry can have.
Turns == [shown : Seq(Msgs), take : Nat, lines : Seq(Msgs), summary : BOOLEAN]

QueueRecord ==
  [items : Seq(Msgs), mode : Modes \cup {"none"}, cap : Nat \ {0},
   drop : Policies \cup {"none"}, dropped : Nat, lines : Seq(Msgs), lastRun : BOOLEAN,
   at : {"off", "debounce", "collecting", "turn"}, force : BOOLEAN, turn : Turns]

Objects == {b \in QueueRecord : Len(b.lines) <= b.dropped}

Registries == [current : 0 .. MaxQueues, q : [QueueIds -> Objects]]

\* The object id becomes c; it is deleted, and the key with it.
Put(reg, id, c) == [current |-> reg.current, q |-> [reg.q EXCEPT ![id] = c]]
Delete(reg, id) == [current |-> 0, q |-> [reg.q EXCEPT ![id] = NoQueue]]

\* An object whose drain is scheduled; one whose drain is over.
Woken(b) == [b EXCEPT !.at = "debounce", !.force = FALSE]
Parked(b) == [b EXCEPT !.at = "off", !.turn = NoTurn]

\* The records that stand for nothing have their types.
LEMMA NothingType == NoTurn \in Turns /\ NoQueue \in Objects
<1>1. <<>> \in Seq(Msgs) /\ Len(<<>>) = 0
  BY EmptySeq
<1>2. NoTurn \in Turns
  BY <1>1 DEF NoTurn, Turns
<1> QED
  BY <1>1, <1>2 DEF NoQueue, EmptyQueue, Objects, QueueRecord

\* A new object has its type.
LEMMA EmptyQueueType ==
  ASSUME NEW s \in Settings
  PROVE  /\ EmptyQueue(s) \in Objects
         /\ EmptyQueue(s).items = <<>> /\ EmptyQueue(s).lines = <<>>
         /\ EmptyQueue(s).dropped = 0 /\ EmptyQueue(s).at = "off" /\ EmptyQueue(s).turn = NoTurn
         /\ EmptyQueue(s).mode = s.mode /\ EmptyQueue(s).drop = s.drop
<1>1. <<>> \in Seq(Msgs) /\ Len(<<>>) = 0 /\ NoTurn \in Turns
  BY EmptySeq, NothingType
<1>2. s.mode \in Modes /\ s.cap \in Nat \ {0} /\ s.drop \in Policies
  BY CapsAssumption DEF Settings, CapsAssumption
<1> QED
  BY <1>1, <1>2 DEF EmptyQueue, Objects, QueueRecord

\* An object that replaces another leaves the registry well typed.
LEMMA PutType ==
  ASSUME NEW reg \in Registries, NEW id \in QueueIds, NEW c \in Objects
  PROVE  /\ Put(reg, id, c) \in Registries
         /\ Put(reg, id, c).current = reg.current
         /\ \A j \in QueueIds : Put(reg, id, c).q[j] = IF j = id THEN c ELSE reg.q[j]
  BY DEF Put, Registries

\* Nor does an object that is deleted with the key disturb a type.
LEMMA DeleteType ==
  ASSUME NEW reg \in Registries, NEW id \in QueueIds
  PROVE  /\ Delete(reg, id) \in Registries
         /\ Delete(reg, id).current = 0
         /\ \A j \in QueueIds : Delete(reg, id).q[j] = IF j = id THEN NoQueue ELSE reg.q[j]
<1>1. 0 \in 0 .. MaxQueues
  BY BoundsAssumption DEF BoundsAssumption
<1> QED
  BY <1>1, NothingType DEF Delete, Registries

\* Starting or parking the drain of an object leaves all but the drain's part alone.
LEMMA WokenType ==
  ASSUME NEW b \in Objects
  PROVE  /\ Woken(b) \in Objects /\ Parked(b) \in Objects
         /\ \A c \in {Woken(b), Parked(b)} :
              /\ c.items = b.items /\ c.lines = b.lines /\ c.dropped = b.dropped
              /\ c.mode = b.mode /\ c.drop = b.drop /\ (Backlog(c) <=> Backlog(b))
         /\ Woken(b).at = "debounce" /\ Woken(b).turn = b.turn
         /\ Parked(b).at = "off" /\ Parked(b).turn = NoTurn
  BY NothingType DEF Woken, Parked, Objects, QueueRecord, Backlog

\* A drain is scheduled for the registry's object, unless it has one; or the object is
\* deleted when there is nothing to drain.
LEMMA ScheduleCases ==
  ASSUME NEW reg \in Registries
  PROVE  LET id == reg.current
         IN  \/ Schedule(reg) = reg
             \/ /\ id \in QueueIds /\ reg.q[id].at = "off"
                /\ \/ Backlog(reg.q[id]) /\ Schedule(reg) = Put(reg, id, Woken(reg.q[id]))
                   \/ ~Backlog(reg.q[id]) /\ Schedule(reg) = Delete(reg, id)
<1> DEFINE id == reg.current
<1>1. id = 0 \/ id \in QueueIds
  BY BoundsAssumption DEF BoundsAssumption, Registries, QueueIds
<1>2. CASE id = 0 \/ reg.q[id].at # "off"
  BY <1>2 DEF Schedule
<1>3. CASE id \in QueueIds /\ reg.q[id].at = "off"
  <2>1. CASE Backlog(reg.q[id])
    <3>1. Schedule(reg) = [reg EXCEPT !.q[id].at = "debounce", !.q[id].force = FALSE]
      BY <1>3, <2>1, BoundsAssumption DEF Schedule, QueueIds, BoundsAssumption
    <3>2. reg \in [current : 0 .. MaxQueues, q : [QueueIds -> QueueRecord]]
      BY DEF Registries, Objects
    <3> DEFINE b == [reg.q[id] EXCEPT !.at = "debounce"]
               reg1 == [reg EXCEPT !.q = [reg.q EXCEPT ![id] = b]]
    <3>3. reg1 = [reg EXCEPT !.q[id].at = "debounce"] /\ reg1.q[id] = b
          /\ reg1.current = reg.current /\ reg1.q = [reg.q EXCEPT ![id] = b]
      BY <1>3, <3>2
    <3>4. Schedule(reg) = [reg1 EXCEPT !.q = [reg1.q EXCEPT ![id] = [b EXCEPT !.force = FALSE]]]
      BY <3>1, <3>3
    <3>5. [reg1.q EXCEPT ![id] = [b EXCEPT !.force = FALSE]]
             = [reg.q EXCEPT ![id] = [b EXCEPT !.force = FALSE]]
      BY <1>3, <3>2, <3>3
    <3>6. [b EXCEPT !.force = FALSE] = Woken(reg.q[id])
      BY DEF Woken
    <3> HIDE DEF b
    <3>7. Schedule(reg) = Put(reg, id, Woken(reg.q[id]))
      BY <1>3, <3>2, <3>4, <3>5, <3>6 DEF Put
    <3> QED
      BY <1>3, <2>1, <3>7
  <2>2. CASE ~Backlog(reg.q[id])
    BY <1>3, <2>2, BoundsAssumption DEF Schedule, QueueIds, Delete, BoundsAssumption
  <2> QED
    BY <1>3, <2>1, <2>2
<1> QED
  BY <1>1, <1>2, <1>3

\* A drain that ends parks its object and schedules the key again, or deletes both.
LEMMA FinishCases ==
  ASSUME NEW reg \in Registries, NEW id \in QueueIds, NEW b \in Objects
  PROVE  \/ Backlog(b) /\ Finish(reg, id, b) = Schedule(Put(reg, id, Parked(b)))
         \/ ~Backlog(b) /\ Finish(reg, id, b) = Delete(reg, id)
<1>1. [reg EXCEPT !.q[id] = Parked(b)] = Put(reg, id, Parked(b))
  BY DEF Put, Registries
<1> QED
  BY <1>1 DEF Finish, Delete, Parked

\* Both leave the registry well typed.
LEMMA ScheduleType ==
  ASSUME NEW reg \in Registries
  PROVE  Schedule(reg) \in Registries
<1>1. \A id \in QueueIds : reg.q[id] \in Objects
  BY DEF Registries
<1> QED
  BY <1>1, ScheduleCases, PutType, DeleteType, WokenType

\* The end of a drain leaves the registry well typed.
LEMMA FinishType ==
  ASSUME NEW reg \in Registries, NEW id \in QueueIds, NEW b \in Objects
  PROVE  Finish(reg, id, b) \in Registries
  BY FinishCases, ScheduleType, PutType, DeleteType, WokenType

-----------------------------------------------------------------------------
(* Sequences of messages                                                   *)

\* What remains of a sequence without its first elements.
LEMMA SuffixProperties ==
  ASSUME NEW S, NEW s \in Seq(S), NEW n \in Nat
  PROVE  /\ SubSeq(s, n + 1, Len(s)) \in Seq(S)
         /\ Len(SubSeq(s, n + 1, Len(s))) = IF n < Len(s) THEN Len(s) - n ELSE 0
         /\ \A i \in 1 .. Len(SubSeq(s, n + 1, Len(s))) :
              i + n \in 1 .. Len(s) /\ SubSeq(s, n + 1, Len(s))[i] = s[i + n]
<1>1. Len(s) \in Nat /\ \A i \in n + 1 .. Len(s) : s[i] \in S
  BY LenProperties
<1>2. /\ SubSeq(s, n + 1, Len(s)) \in Seq(S)
      /\ Len(SubSeq(s, n + 1, Len(s))) = IF n + 1 <= Len(s) THEN Len(s) - (n + 1) + 1 ELSE 0
      /\ \A i \in 1 .. Len(s) - (n + 1) + 1 : SubSeq(s, n + 1, Len(s))[i] = s[n + 1 + i - 1]
  BY <1>1, SubSeqProperties
<1> QED
  BY <1>1, <1>2

\* The first elements of a sequence.
LEMMA PrefixProperties ==
  ASSUME NEW S, NEW s \in Seq(S), NEW n \in 0 .. Len(s)
  PROVE  /\ SubSeq(s, 1, n) \in Seq(S)
         /\ Len(SubSeq(s, 1, n)) = n
         /\ \A i \in 1 .. n : SubSeq(s, 1, n)[i] = s[i]
<1>1. Len(s) \in Nat /\ n \in Int /\ 1 \in Int /\ \A i \in 1 .. n : s[i] \in S
  BY LenProperties
<1>2. /\ SubSeq(s, 1, n) \in Seq(S)
      /\ Len(SubSeq(s, 1, n)) = IF 1 <= n THEN n - 1 + 1 ELSE 0
      /\ \A i \in 1 .. n - 1 + 1 : SubSeq(s, 1, n)[i] = s[1 + i - 1]
  BY <1>1, SubSeqProperties
<1> QED
  BY <1>1, <1>2

\* What is put after a sequence adds its elements.
LEMMA ConcatProperty ==
  ASSUME NEW S, NEW s \in Seq(S), NEW t \in Seq(S)
  PROVE  /\ s \o t \in Seq(S) /\ Len(s \o t) = Len(s) + Len(t)
         /\ InSeq(s \o t) = InSeq(s) \cup InSeq(t)
<1>1. /\ s \o t \in Seq(S) /\ Len(s \o t) = Len(s) + Len(t)
      /\ \A i \in 1 .. Len(s) + Len(t) :
           (s \o t)[i] = IF i <= Len(s) THEN s[i] ELSE t[i - Len(s)]
  BY ConcatProperties
<1>2. Len(s) \in Nat /\ Len(t) \in Nat
  BY LenProperties
<1>3. ASSUME NEW i \in 1 .. Len(s) + Len(t) PROVE (s \o t)[i] \in InSeq(s) \cup InSeq(t)
  BY <1>1, <1>2 DEF InSeq
<1>4. ASSUME NEW i \in 1 .. Len(s) PROVE s[i] \in InSeq(s \o t)
  <2>1. i \in 1 .. Len(s \o t) /\ (s \o t)[i] = s[i]
    BY <1>1, <1>2
  <2> QED
    BY <2>1 DEF InSeq
<1>5. ASSUME NEW i \in 1 .. Len(t) PROVE t[i] \in InSeq(s \o t)
  <2>1. i + Len(s) \in 1 .. Len(s \o t) /\ (s \o t)[i + Len(s)] = t[i]
    BY <1>1, <1>2
  <2> QED
    BY <2>1 DEF InSeq
<1> QED
  BY <1>1, <1>3, <1>4, <1>5 DEF InSeq

\* What is appended to a sequence is the one element it gains.
LEMMA AppendProperty ==
  ASSUME NEW S, NEW s \in Seq(S), NEW m \in S
  PROVE  InSeq(Append(s, m)) = InSeq(s) \cup {m}
<1>1. /\ Len(Append(s, m)) = Len(s) + 1 /\ Len(s) \in Nat
      /\ \A i \in 1 .. Len(s) : Append(s, m)[i] = s[i]
      /\ Append(s, m)[Len(s) + 1] = m
  BY AppendProperties, LenProperties
<1> QED
  BY <1>1 DEF InSeq

\* What is dropped to make room is the front of the queue.
LEMMA DroppedProperties ==
  ASSUME NEW b \in Objects
  PROVE  /\ DropCount(b) \in 0 .. Len(b.items)
         /\ Dropped(b) \in Seq(Msgs) /\ Len(Dropped(b)) = DropCount(b)
         /\ \A i \in 1 .. DropCount(b) : Dropped(b)[i] = b.items[i]
<1>1. b.items \in Seq(Msgs) /\ b.cap \in Nat \ {0} /\ Len(b.items) \in Nat
  BY LenProperties DEF Objects, QueueRecord
<1>2. DropCount(b) \in 0 .. Len(b.items)
  BY <1>1 DEF DropCount
<1> QED
  BY <1>1, <1>2, PrefixProperties DEF Dropped

\* The lines of the summary that are kept are the newest ones.
LEMMA TrimLinesProperties ==
  ASSUME NEW lines \in Seq(Msgs), NEW cap \in Nat
  PROVE  /\ TrimLines(lines, cap) \in Seq(Msgs) /\ Len(TrimLines(lines, cap)) <= Len(lines)
         /\ InSeq(TrimLines(lines, cap)) \subseteq InSeq(lines)
<1> DEFINE n == IF Len(lines) > cap THEN Len(lines) - cap ELSE 0
<1>1. Len(lines) \in Nat /\ n \in Nat
  BY LenProperties
<1>2. TrimLines(lines, cap) = SubSeq(lines, n + 1, Len(lines))
  BY <1>1 DEF TrimLines
<1> HIDE DEF n
<1> QED
  BY <1>1, <1>2, SuffixProperties DEF InSeq

\* Room for an item is made by dropping the oldest ones, which leave a line each when
\* the policy is to summarize.
LEMMA MakeRoomEffect ==
  ASSUME NEW b \in Objects
  PROVE  LET c == MakeRoom(b)
         IN  /\ c \in Objects
             /\ c.items = SubSeq(b.items, DropCount(b) + 1, Len(b.items))
             /\ c.mode = b.mode /\ c.drop = b.drop /\ c.at = b.at /\ c.turn = b.turn
             /\ c.cap = b.cap
             /\ InSeq(c.lines) \subseteq InSeq(b.lines) \cup InSeq(Dropped(b))
             /\ b.drop # "summarize" => c.lines = b.lines /\ c.dropped = b.dropped
             /\ b.drop = "summarize" => c.dropped = b.dropped + DropCount(b)
<1> DEFINE n == DropCount(b)
           items == SubSeq(b.items, n + 1, Len(b.items))
           all == b.lines \o Dropped(b)
           dropped == IF b.drop = "summarize" THEN b.dropped + n ELSE b.dropped
           lines == IF b.drop = "summarize" THEN TrimLines(all, b.cap) ELSE b.lines
<1>1. /\ b.items \in Seq(Msgs) /\ b.lines \in Seq(Msgs) /\ b.cap \in Nat /\ b.dropped \in Nat
      /\ Len(b.lines) <= b.dropped /\ Len(b.lines) \in Nat
  BY LenProperties DEF Objects, QueueRecord
<1>2. n \in Nat /\ Dropped(b) \in Seq(Msgs) /\ Len(Dropped(b)) = n
  <2>1. Len(b.items) \in Nat
    BY <1>1, LenProperties
  <2> QED
    BY <2>1, DroppedProperties
<1>3. all \in Seq(Msgs) /\ Len(all) = Len(b.lines) + n
      /\ InSeq(all) \subseteq InSeq(b.lines) \cup InSeq(Dropped(b))
  BY <1>1, <1>2, ConcatProperty
<1> HIDE DEF all, n
<1>4. items \in Seq(Msgs)
  BY <1>1, <1>2, SuffixProperties
<1>5. /\ lines \in Seq(Msgs) /\ dropped \in Nat /\ Len(lines) <= dropped
      /\ InSeq(lines) \subseteq InSeq(b.lines) \cup InSeq(Dropped(b))
  <2>1. /\ TrimLines(all, b.cap) \in Seq(Msgs) /\ Len(TrimLines(all, b.cap)) <= Len(all)
        /\ InSeq(TrimLines(all, b.cap)) \subseteq InSeq(all)
    BY <1>1, <1>3, TrimLinesProperties
  <2>2. Len(TrimLines(all, b.cap)) \in Nat
    BY <2>1, LenProperties
  <2> QED
    BY <1>1, <1>2, <1>3, <2>1, <2>2
<1>6. MakeRoom(b) = [b EXCEPT !.items = items, !.dropped = dropped, !.lines = lines]
  BY DEF MakeRoom, n, all, Objects, QueueRecord
<1> HIDE DEF items, dropped, lines
<1>7. /\ MakeRoom(b) \in QueueRecord
      /\ MakeRoom(b).items = items /\ MakeRoom(b).lines = lines /\ MakeRoom(b).dropped = dropped
      /\ MakeRoom(b).mode = b.mode /\ MakeRoom(b).drop = b.drop /\ MakeRoom(b).at = b.at
      /\ MakeRoom(b).turn = b.turn /\ MakeRoom(b).cap = b.cap
  BY <1>4, <1>5, <1>6 DEF Objects, QueueRecord
<1> QED
  BY <1>5, <1>7 DEF Objects, items, dropped, lines, n

\* An accepted message is the last of the items.
LEMMA AcceptEffect ==
  ASSUME NEW b \in Objects, NEW m \in Msgs
  PROVE  LET c == Accept(m, b)
         IN  /\ c \in Objects
             /\ c.items = Append(MakeRoom(b).items, m)
             /\ c.lines = MakeRoom(b).lines /\ c.dropped = MakeRoom(b).dropped
             /\ c.mode = b.mode /\ c.drop = b.drop /\ c.at = b.at /\ c.turn = b.turn
<1>1. MakeRoom(b) \in Objects
      /\ MakeRoom(b).mode = b.mode /\ MakeRoom(b).drop = b.drop /\ MakeRoom(b).at = b.at
      /\ MakeRoom(b).turn = b.turn
  BY MakeRoomEffect
<1> DEFINE items == Append(MakeRoom(b).items, m)
<1>2. items \in Seq(Msgs)
  BY <1>1, AppendProperties DEF Objects, QueueRecord
<1>3. Accept(m, b) = [MakeRoom(b) EXCEPT !.items = items, !.lastRun = TRUE]
  BY <1>1 DEF Accept, Objects, QueueRecord
<1> HIDE DEF items
<1> QED
  BY <1>1, <1>2, <1>3 DEF Objects, QueueRecord, items

\* A turn that succeeded takes its items, and the summary with it.
LEMMA AfterTurnEffect ==
  ASSUME NEW b \in Objects
  PROVE  LET c == AfterTurn(b)
         IN  /\ c \in Objects
             /\ c.items = SubSeq(b.items, b.turn.take + 1, Len(b.items))
             /\ c.lines = IF b.turn.summary THEN <<>> ELSE b.lines
             /\ c.dropped = IF b.turn.summary THEN 0 ELSE b.dropped
             /\ c.mode = b.mode /\ c.drop = b.drop /\ c.at = b.at /\ c.turn = b.turn
<1> DEFINE items == SubSeq(b.items, b.turn.take + 1, Len(b.items))
           lines == IF b.turn.summary THEN <<>> ELSE b.lines
           dropped == IF b.turn.summary THEN 0 ELSE b.dropped
<1>1. b.items \in Seq(Msgs) /\ b.turn.take \in Nat
  BY DEF Objects, QueueRecord, Turns
<1>2. items \in Seq(Msgs)
  BY <1>1, SuffixProperties
<1>3. lines \in Seq(Msgs) /\ dropped \in Nat /\ Len(lines) <= dropped
  BY EmptySeq DEF Objects, QueueRecord, Turns
<1>4. AfterTurn(b) = [b EXCEPT !.items = items, !.dropped = dropped, !.lines = lines]
  BY DEF AfterTurn, Objects, QueueRecord
<1> HIDE DEF items, lines, dropped
<1>5. /\ AfterTurn(b) \in Objects
      /\ AfterTurn(b).items = items /\ AfterTurn(b).lines = lines /\ AfterTurn(b).dropped = dropped
      /\ AfterTurn(b).mode = b.mode /\ AfterTurn(b).drop = b.drop /\ AfterTurn(b).at = b.at
      /\ AfterTurn(b).turn = b.turn
  BY <1>2, <1>3, <1>4 DEF Objects, QueueRecord
<1> QED
  BY <1>5 DEF items, lines, dropped

-----------------------------------------------------------------------------
(* Type correctness                                                        *)

\* Fates of messages dealt with, and of those that were never accepted.
Past == {"shown", "dropped", "summarized", "discarded", "cleared"}
Unseen == {"new", "refused", "duplicate"}

Fates == {"new", "queued", "shown", "dropped", "summarized", "discarded", "refused",
          "duplicate", "cleared"}

\* The type invariant, with the objects as records.
TypeInv ==
  /\ Registry \in Registries
  /\ mainRun \in {"idle", "active", "finalizing"}
  /\ accepted \in Seq(Msgs) /\ recent \subseteq InSeq(accepted)
  /\ route \in [Msgs -> Routes]
  /\ fate \in [Msgs -> Fates]
  /\ failures \in 0 .. MaxFailures

\* The object a message finds, with the settings of the moment, and what enqueueing
\* makes of it.
Refreshed(s, id) ==
  IF current = 0 THEN EmptyQueue(s)
  ELSE [q[id] EXCEPT !.mode = s.mode, !.cap = s.cap, !.drop = s.drop]

\* The cap is reached and the policy is to drop what is new.
Refuses(b) == DropCount(b) > 0 /\ b.drop = "new"

Enqueued(m, b) ==
  IF Deduplicated(m, b) THEN b
  ELSE IF Refuses(b) THEN [b EXCEPT !.lastRun = TRUE]
  ELSE Accept(m, b)

\* The registry's objects one by one.
LEMMA RegistryType ==
  ASSUME TypeInv
  PROVE  /\ current \in 0 .. MaxQueues /\ (current = 0 \/ current \in QueueIds)
         /\ q \in [QueueIds -> Objects]
         /\ \A id \in QueueIds : q[id] \in Objects
         /\ Registry.current = current /\ Registry.q = q
  BY BoundsAssumption DEF TypeInv, Registry, Registries, QueueIds, BoundsAssumption

\* A message finds the registry's object, or a new one in the place of one that
\* does not drain.
LEMMA RefreshedType ==
  ASSUME TypeInv, NEW s \in Settings, NEW id \in Target
  PROVE  LET b == Refreshed(s, id)
         IN  /\ id \in QueueIds /\ b \in Objects
             /\ b.mode = s.mode /\ b.drop = s.drop
             /\ \/ /\ current = 0 /\ b.items = <<>> /\ b.lines = <<>> /\ b.dropped = 0
                   /\ b.at = "off" /\ b.turn = NoTurn
                \/ /\ id = current /\ current # 0
                   /\ b.items = q[id].items /\ b.lines = q[id].lines /\ b.dropped = q[id].dropped
                   /\ b.at = q[id].at /\ b.turn = q[id].turn
<1>1. s.mode \in Modes /\ s.cap \in Nat \ {0} /\ s.drop \in Policies
  BY CapsAssumption DEF Settings, CapsAssumption
<1>2. CASE current = 0
  BY <1>2, EmptyQueueType DEF Refreshed, Target
<1>3. CASE current # 0
  <2>1. id = current /\ id \in QueueIds /\ q[id] \in Objects
    BY <1>3, RegistryType DEF Target
  <2>2. Refreshed(s, id) = [q[id] EXCEPT !.mode = s.mode, !.cap = s.cap, !.drop = s.drop]
    BY <1>3 DEF Refreshed
  <2> DEFINE o == q[id]
  <2> HIDE DEF o
  <2>3. o \in Objects /\ Refreshed(s, id) = [o EXCEPT !.mode = s.mode, !.cap = s.cap, !.drop = s.drop]
    BY <2>1, <2>2 DEF o
  <2>4. LET b == Refreshed(s, id)
        IN  /\ b \in Objects /\ b.mode = s.mode /\ b.drop = s.drop
            /\ b.items = o.items /\ b.lines = o.lines /\ b.dropped = o.dropped
            /\ b.at = o.at /\ b.turn = o.turn
    BY <1>1, <2>3 DEF Objects, QueueRecord
  <2> QED
    BY <1>3, <2>1, <2>4 DEF o
<1> QED
  BY <1>2, <1>3

\* Enqueueing keeps an object's type; the drain's part of it is left alone.
LEMMA EnqueuedType ==
  ASSUME NEW b \in Objects, NEW m \in Msgs
  PROVE  LET c == Enqueued(m, b)
         IN  /\ c \in Objects /\ c.at = b.at /\ c.turn = b.turn
             /\ c.mode = b.mode /\ c.drop = b.drop
             /\ Deduplicated(m, b) \/ Refuses(b) =>
                  c.items = b.items /\ c.lines = b.lines /\ c.dropped = b.dropped
<1>1. CASE Deduplicated(m, b)
  BY <1>1 DEF Enqueued
<1>2. CASE ~Deduplicated(m, b) /\ Refuses(b)
  BY <1>2 DEF Enqueued, Objects, QueueRecord
<1>3. CASE ~Deduplicated(m, b) /\ ~Refuses(b)
  BY <1>3, AcceptEffect DEF Enqueued
<1> QED
  BY <1>1, <1>2, <1>3

\* What a message that arrives does to the registry, to the fates and to the memory.
LEMMA EnqueueEffect ==
  ASSUME TypeInv, NEW m \in Msgs, NEW r \in Routes, NEW s \in Settings, NEW id \in Target,
         NEW sees \in BOOLEAN, Enqueue(m, r, s, id, sees)
  PROVE  LET b == Refreshed(s, id)
             reg == [current |-> id, q |-> [q EXCEPT ![id] = Enqueued(m, b)]]
         IN  /\ reg \in Registries /\ Registry' \in {reg, Schedule(reg)}
             /\ fate[m] = "new"
             /\ "overflowInTurn" \in Races \/ ~InTurn \/ DropCount(b) = 0
             /\ "overflowSingly" \in Races \/ s.mode = "collect" \/ (DropCount(b) = 0 /\ b.dropped = 0)
             /\ "policyChange" \in Races \/ s.drop = "summarize" \/ b.dropped = 0
             /\ "interpose" \in Races \/ \A j \in QueueIds : q[j].at # "collecting"
             /\ route' = [route EXCEPT ![m] = r]
             /\ \/ /\ Deduplicated(m, b) \/ Refuses(b)
                   /\ \E u \in Unseen : fate' = [fate EXCEPT ![m] = u]
                   /\ accepted' = accepted /\ recent' = recent
                \/ /\ ~Deduplicated(m, b) /\ ~Refuses(b)
                   /\ fate' = [d \in Msgs |-> IF d = m THEN "queued" ELSE FateAfterDrop(b, d)]
                   /\ accepted' = Append(accepted, m) /\ recent' = recent \cup {m}
             /\ mainRun' = mainRun /\ failures' = failures
<1> DEFINE b == Refreshed(s, id)
           reg == [current |-> id, q |-> [q EXCEPT ![id] = Enqueued(m, b)]]
<1>1. reg \in Registries
  <2>1. id \in QueueIds /\ b \in Objects
    BY RefreshedType
  <2>2. Enqueued(m, b) \in Objects
    BY <2>1, EnqueuedType
  <2> HIDE DEF b
  <2> QED
    BY <2>1, <2>2, RegistryType, BoundsAssumption DEF Registries, QueueIds, BoundsAssumption
<1>2. Becomes(FinalizeIfIdle(reg, sees))
  BY DEF Enqueue, Refreshed, Enqueued, Refuses
<1>3. Registry' \in {reg, Schedule(reg)}
  <2> HIDE DEF reg
  <2>1. PICK next \in {reg, Schedule(reg)} : next = FinalizeIfIdle(reg, sees)
    BY DEF FinalizeIfIdle
  <2>2. next \in Registries
    BY <1>1, <2>1, ScheduleType
  <2>3. Registry' = next
    BY <1>2, <2>1, <2>2 DEF Becomes, Registry, Registries
  <2> QED
    BY <2>1, <2>3
<1>4. \/ /\ Deduplicated(m, b) \/ Refuses(b)
         /\ \E u \in Unseen : fate' = [fate EXCEPT ![m] = u]
         /\ accepted' = accepted /\ recent' = recent
      \/ /\ ~Deduplicated(m, b) /\ ~Refuses(b)
         /\ fate' = [d \in Msgs |-> IF d = m THEN "queued" ELSE FateAfterDrop(b, d)]
         /\ accepted' = Append(accepted, m) /\ recent' = recent \cup {m}
  <2>1. IF Deduplicated(m, b)
        THEN fate' = [fate EXCEPT ![m] = "duplicate"] /\ UNCHANGED log
        ELSE IF Refuses(b)
        THEN fate' = [fate EXCEPT ![m] = "refused"] /\ UNCHANGED log
        ELSE /\ fate' = [d \in Msgs |-> IF d = m THEN "queued" ELSE FateAfterDrop(b, d)]
             /\ accepted' = Append(accepted, m)
             /\ recent' = recent \cup {m}
    BY DEF Enqueue, Refreshed, Refuses
  <2> HIDE DEF b
  <2>2. UNCHANGED log <=> accepted' = accepted /\ recent' = recent
    BY DEF log
  <2> QED
    BY <2>1, <2>2 DEF Unseen
<1> QED
  BY <1>1, <1>3, <1>4 DEF Enqueue, Refreshed

\* A turn that is begun is made of messages of the object.
LEMMA TurnsType ==
  ASSUME NEW b \in Objects
  PROVE  /\ b.items # <<>> => ItemTurn(b) \in Turns /\ SummaryTurn(b) \in Turns
         /\ BatchTurn(b) \in Turns
<1>1. b.items \in Seq(Msgs) /\ b.lines \in Seq(Msgs) /\ Len(b.items) \in Nat
  BY LenProperties DEF Objects, QueueRecord
<1>2. <<>> \in Seq(Msgs)
  BY EmptySeq
<1>3. BatchTurn(b) \in Turns
  BY <1>1, <1>2 DEF BatchTurn, HasSummary, Turns
<1>4. SummaryTurn(b) \in Turns
  BY <1>1, <1>2 DEF SummaryTurn, Turns
<1>5. ASSUME b.items # <<>> PROVE ItemTurn(b) \in Turns
  <2>1. Head(b.items) \in Msgs
    BY <1>1, <1>5, HeadTailProperties
  <2>2. <<Head(b.items)>> \in Seq(Msgs)
    BY <2>1
  <2> QED
    BY <2>2, NothingType DEF ItemTurn, Turns
<1> QED
  BY <1>3, <1>4, <1>5

\* The object of a drain whose prompt is t.
Begun(b, t) == [b EXCEPT !.at = "turn", !.turn = t]

Working(b) == [b EXCEPT !.at = "debounce", !.turn = NoTurn]

\* An object whose drain begins a turn, or goes on after one, keeps the rest.
LEMMA BegunType ==
  ASSUME NEW b \in Objects, NEW t \in Turns
  PROVE  /\ Begun(b, t) \in Objects /\ Begun(b, t).at = "turn" /\ Begun(b, t).turn = t
         /\ Begun(b, t).items = b.items /\ Begun(b, t).lines = b.lines
         /\ Begun(b, t).dropped = b.dropped /\ Begun(b, t).mode = b.mode /\ Begun(b, t).drop = b.drop
         /\ Working(b) \in Objects /\ Working(b).at = "debounce" /\ Working(b).turn = NoTurn
         /\ Working(b).items = b.items /\ Working(b).lines = b.lines
         /\ Working(b).dropped = b.dropped /\ Working(b).mode = b.mode /\ Working(b).drop = b.drop
  BY NothingType DEF Begun, Working, Objects, QueueRecord

\* The object with what this drain has found out about its destinations; the object
\* whose batch is about to be taken.
Forced(b) == [b EXCEPT !.force = @ \/ CrossChannel(b.items)]
Collecting(b) == [b EXCEPT !.at = "collecting"]

\* Both keep all but the drain's part.
LEMMA ForcedType ==
  ASSUME NEW b \in Objects
  PROVE  /\ Forced(b) \in Objects /\ Collecting(b) \in Objects /\ Collecting(b).at = "collecting"
         /\ Forced(b).at = b.at
         /\ \A c \in {Forced(b), Collecting(b)} :
              /\ c.items = b.items /\ c.lines = b.lines /\ c.dropped = b.dropped
              /\ c.mode = b.mode /\ c.drop = b.drop /\ c.turn = b.turn
         /\ ~Forced(b).force => ~CrossChannel(b.items)
<1> DEFINE force == b.force \/ CrossChannel(b.items)
<1>1. b.force \in BOOLEAN /\ force \in BOOLEAN
  BY DEF Objects, QueueRecord, CrossChannel
<1>2. Forced(b) = [b EXCEPT !.force = force]
  BY DEF Forced, Objects, QueueRecord
<1>3. ~force => ~CrossChannel(b.items)
  OBVIOUS
<1> HIDE DEF force
<1> QED
  BY <1>1, <1>2, <1>3 DEF Collecting, Objects, QueueRecord

\* What a step of the drain of object id does, in terms of objects: the object
\* becomes c, or its drain ends with c.
Goes(id, c) == Registry' = Put(Registry, id, c)
Ends(id, c) == Registry' = Finish(Registry, id, c)

CollectForm(id, b) ==
  /\ b.at = "debounce" /\ b.mode = "collect" /\ fate' = fate
  /\ \/ ~CrossChannel(b.items) /\ Goes(id, Collecting(b))
     \/ b.items = <<>> /\ Ends(id, Forced(b))
     \/ b.items # <<>> /\ Goes(id, Begun(Forced(b), ItemTurn(b)))

BatchForm(id, b) ==
  /\ b.at = "collecting" /\ fate' = fate
  /\ \/ b.items = <<>> /\ Ends(id, b)
     \/ Goes(id, Begun(b, BatchTurn(b)))

ItemForm(id, b) ==
  /\ b.at = "debounce" /\ b.mode # "collect" /\ fate' = fate
  /\ \/ b.items = <<>> /\ Ends(id, b)
     \/ HasSummary(b) /\ Ends(id, b)
     \/ HasSummary(b) /\ b.items # <<>> /\ Goes(id, Begun(b, SummaryTurn(b)))
     \/ ~HasSummary(b) /\ b.items # <<>> /\ Goes(id, Begun(b, ItemTurn(b)))

EndForm(id, b) ==
  /\ b.at = "turn"
  /\ \/ Backlog(AfterTurn(b)) /\ Goes(id, Working(AfterTurn(b)))
     \/ ~Backlog(AfterTurn(b)) /\ Ends(id, AfterTurn(b))
  /\ fate' = [m \in Msgs |-> IF m \in InSeq(b.turn.shown) THEN "shown"
                             ELSE IF m \in InSeq(b.turn.lines) THEN "summarized"
                             ELSE fate[m]]

FailForm(id, b) == b.at = "turn" /\ fate' = fate /\ Ends(id, b)

\* A step of a drain has one of these forms.
LEMMA DrainEffect ==
  ASSUME TypeInv, NEW id \in QueueIds, DrainStep(id)
  PROVE  /\ \/ CollectForm(id, q[id])
            \/ BatchForm(id, q[id])
            \/ ItemForm(id, q[id])
            \/ EndForm(id, q[id])
            \/ FailForm(id, q[id])
         /\ accepted' = accepted /\ recent' = recent /\ route' = route /\ mainRun' = mainRun
         /\ failures' \in 0 .. MaxFailures
<1>1. q[id] \in Objects
  BY RegistryType
<1>2. ASSUME NEW c \in Objects, q' = [q EXCEPT ![id] = c], UNCHANGED current PROVE Goes(id, c)
  BY <1>2 DEF Registry, Put, Goes
<1>3. ASSUME NEW c \in Objects, Break(id, c) PROVE Ends(id, c)
  BY <1>3, FinishType DEF Break, Becomes, Registry, Registries, TypeInv, Ends
<1>4. ASSUME NEW c \in Objects, NEW t \in Turns, Begin(id, c, t) PROVE Goes(id, Begun(c, t))
  <2>1. q' = [q EXCEPT ![id] = Begun(c, t)] /\ UNCHANGED current
    BY <1>4 DEF Begin, Begun
  <2> QED
    BY <1>2, <2>1, BegunType
<1>5. failures \in 0 .. MaxFailures /\ (failures < MaxFailures => failures + 1 \in 0 .. MaxFailures)
  BY BoundsAssumption DEF TypeInv, BoundsAssumption
<1>6. CASE CollectStep(id)
  <2> DEFINE b == q[id]
             c == [q[id] EXCEPT !.force = @ \/ CrossChannel(q[id].items)]
  <2>1. c = Forced(b)
    BY DEF Forced
  <2>2. c \in Objects /\ c.items = b.items /\ (~c.force => ~CrossChannel(b.items))
    BY <1>1, <2>1, ForcedType
  <2>3. /\ b.at = "debounce" /\ b.mode = "collect"
        /\ IF ~c.force THEN q' = [q EXCEPT ![id].at = "collecting"] /\ UNCHANGED current
           ELSE IF c.items = <<>> THEN Break(id, c) ELSE Begin(id, c, ItemTurn(c))
        /\ UNCHANGED <<mainRun, accepted, recent, route, fate, failures>>
    BY <1>6 DEF CollectStep, log
  <2>4. c.items = b.items => ItemTurn(c) = ItemTurn(b)
    BY DEF ItemTurn
  <2> HIDE DEF c
  <2>5. CASE ~c.force
    <3>1. q' = [q EXCEPT ![id] = Collecting(b)] /\ UNCHANGED current
      BY <2>3, <2>5 DEF Collecting
    <3>2. Goes(id, Collecting(b))
      BY <1>1, <1>2, <3>1, ForcedType
    <3> QED
      BY <1>5, <2>2, <2>3, <2>5, <3>2 DEF CollectForm
  <2>6. CASE c.force /\ b.items = <<>>
    <3>1. Ends(id, c)
      BY <1>3, <2>2, <2>3, <2>6
    <3> QED
      BY <1>5, <2>1, <2>3, <2>6, <3>1 DEF CollectForm
  <2>7. CASE c.force /\ b.items # <<>>
    <3>1. ItemTurn(c) = ItemTurn(b) /\ ItemTurn(c) \in Turns
      BY <2>2, <2>4, <2>7, TurnsType
    <3>2. Goes(id, Begun(c, ItemTurn(b)))
      BY <1>4, <2>2, <2>3, <2>7, <3>1
    <3> QED
      BY <1>5, <2>1, <2>3, <2>7, <3>2 DEF CollectForm
  <2> QED
    BY <2>5, <2>6, <2>7
<1>7. CASE CollectBatch(id)
  <2> DEFINE b == q[id]
  <2>1. /\ b.at = "collecting"
        /\ IF b.items = <<>> /\ ~b.lastRun THEN Break(id, b) ELSE Begin(id, b, BatchTurn(b))
        /\ UNCHANGED <<mainRun, accepted, recent, route, fate, failures>>
    BY <1>7 DEF CollectBatch, log
  <2>2. (Ends(id, b) /\ b.items = <<>>) \/ Goes(id, Begun(b, BatchTurn(b)))
    BY <1>1, <1>3, <1>4, <2>1, TurnsType
  <2> QED
    BY <1>5, <2>1, <2>2 DEF BatchForm
<1>8. CASE IndividualStep(id)
  <2> DEFINE b == q[id]
  <2>1. /\ b.at = "debounce" /\ b.mode # "collect"
        /\ IF b.items = <<>> \/ (HasSummary(b) /\ ~b.lastRun) THEN Break(id, b)
           ELSE Begin(id, b, IF HasSummary(b) THEN SummaryTurn(b) ELSE ItemTurn(b))
        /\ UNCHANGED <<mainRun, accepted, recent, route, fate, failures>>
    BY <1>8 DEF IndividualStep, log
  <2>2. CASE b.items = <<>> \/ (HasSummary(b) /\ ~b.lastRun)
    <3>1. Ends(id, b)
      BY <1>1, <1>3, <2>1, <2>2
    <3> QED
      BY <1>5, <2>1, <2>2, <3>1 DEF ItemForm
  <2>3. CASE b.items # <<>> /\ HasSummary(b) /\ b.lastRun
    <3>1. Goes(id, Begun(b, SummaryTurn(b)))
      BY <1>1, <1>4, <2>1, <2>3, TurnsType
    <3> QED
      BY <1>5, <2>1, <2>3, <3>1 DEF ItemForm
  <2>4. CASE b.items # <<>> /\ ~HasSummary(b)
    <3>1. Goes(id, Begun(b, ItemTurn(b)))
      BY <1>1, <1>4, <2>1, <2>4, TurnsType
    <3> QED
      BY <1>5, <2>1, <2>4, <3>1 DEF ItemForm
  <2> QED
    BY <2>2, <2>3, <2>4
<1>9. CASE TurnEnds(id)
  <2> DEFINE b == q[id]
             c == AfterTurn(b)
  <2>1. c \in Objects
    BY <1>1, AfterTurnEffect
  <2>2. /\ b.at = "turn"
        /\ IF Backlog(c) THEN q' = [q EXCEPT ![id] = Working(c)] /\ UNCHANGED current
           ELSE Break(id, c)
        /\ fate' = [m \in Msgs |-> IF m \in InSeq(b.turn.shown) THEN "shown"
                                   ELSE IF m \in InSeq(b.turn.lines) THEN "summarized"
                                   ELSE fate[m]]
        /\ UNCHANGED <<mainRun, accepted, recent, route, failures>>
    BY <1>9 DEF TurnEnds, Working, log
  <2>3. (Backlog(c) /\ Goes(id, Working(c))) \/ (~Backlog(c) /\ Ends(id, c))
    <3> HIDE DEF c
    <3>1. Working(c) \in Objects
      BY <2>1, BegunType, NothingType
    <3>2. Backlog(c) => Goes(id, Working(c))
      BY <1>2, <2>2, <3>1
    <3>3. ~Backlog(c) => Ends(id, c)
      BY <1>3, <2>1, <2>2
    <3> QED
      BY <3>2, <3>3
  <2> QED
    BY <1>5, <2>2, <2>3 DEF EndForm
<1>10. CASE TurnFails(id)
  <2>1. /\ q[id].at = "turn" /\ failures < MaxFailures /\ failures' = failures + 1
        /\ Break(id, q[id])
        /\ UNCHANGED <<mainRun, accepted, recent, route, fate>>
    BY <1>10 DEF TurnFails, KeepFailed, log
  <2>2. Ends(id, q[id])
    BY <1>1, <1>3, <2>1
  <2> QED
    BY <1>5, <2>1, <2>2 DEF FailForm
<1> QED
  BY <1>6, <1>7, <1>8, <1>9, <1>10 DEF DrainStep

\* Clearing the session's queue leaves an object that drains without items, and
\* deletes any other.
Emptied(b) == [b EXCEPT !.items = <<>>, !.dropped = 0, !.lines = <<>>, !.lastRun = FALSE]

\* An emptied object has its type, and its drain goes on as it was.
LEMMA EmptiedType ==
  ASSUME NEW b \in Objects
  PROVE  /\ Emptied(b) \in Objects /\ Emptied(b).items = <<>> /\ Emptied(b).lines = <<>>
         /\ Emptied(b).dropped = 0 /\ Emptied(b).at = b.at /\ Emptied(b).turn = b.turn
<1> DEFINE none == <<>>
           c == [b EXCEPT !.items = none, !.dropped = 0]
<1>1. none \in Seq(Msgs) /\ Len(none) = 0 /\ none = <<>>
  BY EmptySeq
<1>2. Emptied(b) = [c EXCEPT !.lines = none, !.lastRun = FALSE]
  BY DEF Emptied
<1> HIDE DEF none
<1>3. /\ c \in QueueRecord /\ c.items = none /\ c.dropped = 0 /\ c.at = b.at /\ c.turn = b.turn
  BY <1>1 DEF Objects, QueueRecord
<1> HIDE DEF c
<1>4. /\ Emptied(b) \in QueueRecord /\ Emptied(b).items = none /\ Emptied(b).lines = none
      /\ Emptied(b).dropped = 0 /\ Emptied(b).at = b.at /\ Emptied(b).turn = b.turn
  BY <1>1, <1>2, <1>3 DEF QueueRecord
<1>5. Len(none) <= 0
  BY <1>1
<1> QED
  BY <1>1, <1>4, <1>5 DEF Objects

\* What clearing does to the registry and to the fates.
LEMMA ClearEffect ==
  ASSUME TypeInv, Clear
  PROVE  LET b == q[current]
             c == IF b.at = "off" THEN NoQueue ELSE Emptied(b)
         IN  /\ current \in QueueIds /\ c \in Objects
             /\ current' = 0 /\ q' = [q EXCEPT ![current] = c]
             /\ c.items = <<>> /\ c.lines = <<>> /\ c.dropped = 0
             /\ (b.at = "off" /\ c = NoQueue) \/ (b.at # "off" /\ c.at = b.at /\ c.turn = b.turn)
             /\ fate' = [m \in Msgs |-> IF m \in InSeq(b.items) \cup InSeq(b.lines)
                                        THEN "cleared" ELSE fate[m]]
             /\ UNCHANGED <<mainRun, accepted, recent, route, failures>>
             /\ "clear" \in Races
<1> DEFINE b == q[current]
           c == IF b.at = "off" THEN NoQueue ELSE Emptied(b)
<1>1. current \in QueueIds /\ b \in Objects
  BY RegistryType DEF Clear
<1>2. /\ current' = 0 /\ q' = [q EXCEPT ![current] = c]
      /\ fate' = [m \in Msgs |-> IF m \in InSeq(b.items) \cup InSeq(b.lines)
                                 THEN "cleared" ELSE fate[m]]
      /\ UNCHANGED <<mainRun, accepted, recent, route, failures>> /\ "clear" \in Races
  BY DEF Clear, Emptied, log
<1>3. /\ Emptied(b) \in Objects /\ Emptied(b).items = <<>> /\ Emptied(b).lines = <<>>
      /\ Emptied(b).dropped = 0 /\ Emptied(b).at = b.at /\ Emptied(b).turn = b.turn
  BY <1>1, EmptiedType
<1>4. NoQueue \in Objects /\ NoQueue.items = <<>> /\ NoQueue.lines = <<>> /\ NoQueue.dropped = 0
  BY NothingType DEF NoQueue, EmptyQueue
<1>5. /\ c \in Objects /\ c.items = <<>> /\ c.lines = <<>> /\ c.dropped = 0
      /\ (b.at = "off" /\ c = NoQueue) \/ (b.at # "off" /\ c.at = b.at /\ c.turn = b.turn)
  <2>1. CASE b.at = "off"
    BY <1>4, <2>1
  <2>2. CASE b.at # "off"
    BY <1>3, <2>2
  <2> QED
    BY <2>1, <2>2
<1> HIDE DEF b, c
<1> QED
  BY <1>1, <1>2, <1>5 DEF b, c

\* The three ways in which the ordinary run moves on.
LEMMA RunEffect ==
  ASSUME TypeInv, RunStarts \/ RunEnds \/ Finalize
  PROVE  /\ Registry' \in {Registry, Schedule(Registry)}
         /\ mainRun' \in {"idle", "active", "finalizing"}
         /\ UNCHANGED <<accepted, recent, route, fate, failures>>
<1>1. CASE RunStarts \/ RunEnds
  BY <1>1 DEF RunStarts, RunEnds, Registry, log
<1>2. CASE Finalize
  <2>1. Schedule(Registry) \in Registries
    BY ScheduleType DEF TypeInv
  <2>2. Registry' = Schedule(Registry)
    BY <1>2, <2>1 DEF Finalize, Becomes, Registry, Registries
  <2> QED
    BY <1>2, <2>2 DEF Finalize, log
<1> QED
  BY <1>1, <1>2

\* At first all is well typed and no object is in use.
LEMMA InitEffect ==
  ASSUME Init
  PROVE  TypeInv /\ \A id \in QueueIds : q[id] = NoQueue
<1>1. Registry \in Registries
  BY NothingType, BoundsAssumption DEF Init, Registry, Registries, BoundsAssumption
<1>2. accepted \in Seq(Msgs) /\ recent \subseteq InSeq(accepted) /\ failures \in 0 .. MaxFailures
  BY EmptySeq, BoundsAssumption DEF Init, BoundsAssumption
<1>3. mainRun \in {"idle", "active", "finalizing"} /\ fate \in [Msgs -> Fates]
      /\ route \in [Msgs -> Routes]
  BY DEF Init, Fates, Routes
<1> QED
  BY <1>1, <1>2, <1>3 DEF Init, TypeInv

\* Every step keeps the types.
LEMMA TypeStep ==
  ASSUME TypeInv, [Next]_vars
  PROVE  TypeInv'
<1>1. CASE UNCHANGED vars
  BY <1>1 DEF vars, log, TypeInv, Registry
<1>2. ASSUME NEW m \in Msgs, NEW r \in Routes, NEW s \in Settings, NEW id \in Target,
             NEW sees \in BOOLEAN, Enqueue(m, r, s, id, sees)
      PROVE  TypeInv'
  <2> DEFINE b == Refreshed(s, id)
             reg == [current |-> id, q |-> [q EXCEPT ![id] = Enqueued(m, b)]]
  <2>1. /\ reg \in Registries /\ Registry' \in {reg, Schedule(reg)}
        /\ route' = [route EXCEPT ![m] = r]
        /\ \/ /\ \E u \in Unseen : fate' = [fate EXCEPT ![m] = u]
              /\ accepted' = accepted /\ recent' = recent
           \/ /\ fate' = [d \in Msgs |-> IF d = m THEN "queued" ELSE FateAfterDrop(b, d)]
              /\ accepted' = Append(accepted, m) /\ recent' = recent \cup {m}
        /\ mainRun' = mainRun /\ failures' = failures
    BY <1>2, EnqueueEffect
  <2>2. \A d \in Msgs : FateAfterDrop(b, d) \in Fates
    <3> HIDE DEF b
    <3> QED
      BY DEF FateAfterDrop, Fates, TypeInv
  <2> HIDE DEF b, reg
  <2>3. Registry' \in Registries
    BY <2>1, ScheduleType
  <2>4. Append(accepted, m) \in Seq(Msgs) /\ InSeq(Append(accepted, m)) = InSeq(accepted) \cup {m}
    BY AppendProperties, AppendProperty DEF TypeInv
  <2>5. fate' \in [Msgs -> Fates]
    BY <2>1, <2>2 DEF TypeInv, Fates, Unseen
  <2>6. accepted' \in Seq(Msgs) /\ recent' \subseteq InSeq(accepted')
    BY <2>1, <2>4 DEF TypeInv
  <2> QED
    BY <2>1, <2>3, <2>5, <2>6 DEF TypeInv
<1>3. CASE RunStarts \/ RunEnds \/ Finalize
  <2>1. Schedule(Registry) \in Registries /\ Registry \in Registries
    BY ScheduleType DEF TypeInv
  <2> QED
    BY <1>3, <2>1, RunEffect DEF TypeInv
<1>4. ASSUME NEW id \in QueueIds, DrainStep(id) PROVE TypeInv'
  <2> DEFINE b == q[id]
  <2>1. b \in Objects /\ Registry \in Registries
    BY RegistryType DEF TypeInv
  <2>2. /\ \/ CollectForm(id, b) \/ BatchForm(id, b) \/ ItemForm(id, b)
           \/ EndForm(id, b) \/ FailForm(id, b)
        /\ accepted' = accepted /\ recent' = recent /\ route' = route /\ mainRun' = mainRun
        /\ failures' \in 0 .. MaxFailures
    BY <1>4, DrainEffect
  <2> HIDE DEF b
  <2>3. ASSUME NEW c \in Objects, Goes(id, c) \/ Ends(id, c) PROVE Registry' \in Registries
    BY <2>1, <2>3, PutType, FinishType DEF Goes, Ends
  <2>4. /\ Forced(b) \in Objects /\ Collecting(b) \in Objects
        /\ AfterTurn(b) \in Objects /\ Working(AfterTurn(b)) \in Objects
    BY <2>1, ForcedType, AfterTurnEffect, BegunType, NothingType
  <2>5. \A c \in Objects, t \in Turns : Begun(c, t) \in Objects
    BY BegunType
  <2>6. Registry' \in Registries
    <3>1. CASE CollectForm(id, b)
      BY <2>1, <2>3, <2>4, <2>5, <3>1, TurnsType DEF CollectForm
    <3>2. CASE BatchForm(id, b)
      BY <2>1, <2>3, <2>4, <2>5, <3>2, TurnsType DEF BatchForm
    <3>3. CASE ItemForm(id, b)
      BY <2>1, <2>3, <2>4, <2>5, <3>3, TurnsType DEF ItemForm
    <3>4. CASE EndForm(id, b)
      BY <2>1, <2>3, <2>4, <3>4 DEF EndForm
    <3>5. CASE FailForm(id, b)
      BY <2>1, <2>3, <3>5 DEF FailForm
    <3> QED
      BY <2>2, <3>1, <3>2, <3>3, <3>4, <3>5
  <2>7. fate' \in [Msgs -> Fates]
    BY <2>2 DEF CollectForm, BatchForm, ItemForm, EndForm, FailForm, TypeInv, Fates
  <2> QED
    BY <2>2, <2>6, <2>7 DEF TypeInv
<1>5. CASE Clear
  <2> DEFINE c == IF q[current].at = "off" THEN NoQueue ELSE Emptied(q[current])
  <2>1. /\ current \in QueueIds /\ c \in Objects /\ current' = 0 /\ q' = [q EXCEPT ![current] = c]
        /\ UNCHANGED <<mainRun, accepted, recent, route, failures>>
    BY <1>5, ClearEffect
  <2>2. fate' \in [Msgs -> Fates]
    BY <1>5, ClearEffect DEF TypeInv, Fates
  <2> HIDE DEF c
  <2>3. Registry' \in Registries
    BY <2>1, RegistryType, BoundsAssumption DEF Registry, Registries, BoundsAssumption
  <2> QED
    BY <2>1, <2>2, <2>3 DEF TypeInv
<1>6. ASSUME NEW n \in Msgs, Forgets(n) PROVE TypeInv'
  BY <1>6 DEF Forgets, TypeInv, Registry
<1> QED
  BY <1>1, <1>2, <1>3, <1>4, <1>5, <1>6 DEF Next

\* Every reachable state is well typed, for any number of messages, failures and
\* objects, all modes, caps and policies, and every order of events.
THEOREM QueueInvariance == Spec => []TypeInv
<1>1. Init => TypeInv
  BY InitEffect
<1>2. TypeInv /\ [Next]_vars => TypeInv'
  BY TypeStep
<1> QED
  BY <1>1, <1>2, PTL DEF Spec

\* TypeOK: the registry, the objects and the fates have their types, and every line of
\* a summary is of a message counted as dropped.
THEOREM QueueTypeCorrect == Spec => []TypeOK
<1>1. TypeInv => TypeOK
  <2>1. ASSUME TypeInv, NEW id \in QueueIds PROVE QueueType(q[id])
    <3>1. q[id] \in Objects
      BY <2>1, RegistryType
    <3> QED
      BY <3>1, LenProperties DEF Objects, QueueRecord, QueueType, InSeq
  <2>2. ASSUME TypeInv PROVE InSeq(accepted) \subseteq Msgs /\ current \in 0 .. MaxQueues
    BY <2>2, RegistryType, LenProperties DEF TypeInv, InSeq
  <2> QED
    BY <2>1, <2>2 DEF TypeInv, TypeOK, Fates
<1> QED
  BY <1>1, QueueInvariance, PTL

-----------------------------------------------------------------------------
(* Every message is shown once, and a collected prompt has one destination *)

\* No message is twice in s; all of s goes to one destination.
Distinct(s) == \A i, j \in 1 .. Len(s) : i # j => s[i] # s[j]

OneRoute(s, rt) ==
  \A i, j \in 1 .. Len(s) : i # j => rt[s[i]] = rt[s[j]] /\ rt[s[i]] # "cross"

\* No item behind those that the turn in flight takes is in its prompt.
Takes(b) ==
  \A i \in 1 .. Len(b.items) : i > b.turn.take => b.items[i] \notin InSeq(b.turn.shown)

\* What is collected for a prompt, and the prompt, have one destination.
Routed(b, rt) ==
  /\ b.at = "collecting" => OneRoute(b.items, rt)
  /\ OneRoute(b.turn.shown, rt)

\* What holds of an object b, f being the fates and rt the routes: its items wait, its
\* lines are of messages dealt with, and what its turn shows was not shown before.
Sound(b, f, rt) ==
  /\ b.at # "turn" => b.turn = NoTurn
  /\ Distinct(b.items) /\ \A m \in InSeq(b.items) : f[m] = "queued"
  /\ \A m \in InSeq(b.lines) \cup InSeq(b.turn.lines) : f[m] \in Past
  /\ Distinct(b.turn.shown)
  /\ \A m \in InSeq(b.turn.shown) : f[m] \notin Unseen \cup {"shown"}
  /\ Takes(b)
  /\ "interpose" \notin Races => Routed(b, rt)

\* The messages an object has, waiting or in its turn.
Own(b) == InSeq(b.items) \cup InSeq(b.turn.shown)

\* All objects are sound and no message is in two of them.
Whole(reg, f, rt) ==
  /\ \A id \in QueueIds : Sound(reg.q[id], f, rt)
  /\ \A i, j \in QueueIds : i # j => Own(reg.q[i]) \cap Own(reg.q[j]) = {}

\* The deliveries in the log are those that were accepted.
Remembered(f, memory) == \A m \in Msgs : f[m] \notin Unseen <=> m \in InSeq(memory)

\* The parts of an object that is not idle have their types.
LEMMA PartsType ==
  ASSUME NEW b \in Objects
  PROVE  /\ b.items \in Seq(Msgs) /\ b.lines \in Seq(Msgs) /\ b.turn \in Turns
         /\ b.turn.shown \in Seq(Msgs) /\ b.turn.lines \in Seq(Msgs)
         /\ Len(b.items) \in Nat /\ Len(b.lines) \in Nat /\ Len(b.turn.shown) \in Nat
         /\ b.turn.take \in Nat
         /\ InSeq(b.items) \subseteq Msgs /\ InSeq(b.lines) \subseteq Msgs
         /\ InSeq(b.turn.shown) \subseteq Msgs /\ InSeq(b.turn.lines) \subseteq Msgs
<1>1. /\ b.items \in Seq(Msgs) /\ b.lines \in Seq(Msgs) /\ b.turn \in Turns
      /\ b.turn.shown \in Seq(Msgs) /\ b.turn.lines \in Seq(Msgs) /\ b.turn.take \in Nat
  BY DEF Objects, QueueRecord, Turns
<1>2. \A s \in Seq(Msgs) : Len(s) \in Nat /\ InSeq(s) \subseteq Msgs
  BY LenProperties DEF InSeq
<1> QED
  BY <1>1, <1>2

\* The empty sequence has no element.
LEMMA NothingIn == InSeq(<<>>) = {} /\ Distinct(<<>>) /\ \A rt : OneRoute(<<>>, rt)
<1>1. Len(<<>>) = 0
  BY EmptySeq
<1> QED
  BY <1>1 DEF InSeq, Distinct, OneRoute

\* An object without turn shows nothing.
LEMMA IdleSound ==
  ASSUME NEW b, b.turn = NoTurn
  PROVE  /\ InSeq(b.turn.shown) = {} /\ InSeq(b.turn.lines) = {} /\ Takes(b)
         /\ Distinct(b.turn.shown) /\ \A rt : OneRoute(b.turn.shown, rt)
         /\ b.turn.take = Len(b.turn.shown) /\ ~b.turn.summary /\ b.turn.lines = <<>>
<1>1. NoTurn.shown = <<>> /\ NoTurn.lines = <<>> /\ NoTurn.take = 0 /\ ~NoTurn.summary
  BY DEF NoTurn
<1>2. Len(<<>>) = 0
  BY EmptySeq
<1> QED
  BY <1>1, <1>2, NothingIn DEF Takes

\* An object that holds nothing is sound.
LEMMA NothingSound == \A f, rt : Sound(NoQueue, f, rt) /\ Own(NoQueue) = {}
<1>1. NoQueue.turn = NoTurn /\ NoQueue.items = <<>> /\ NoQueue.lines = <<>> /\ NoQueue.at = "off"
  BY DEF NoQueue, EmptyQueue
<1> QED
  BY <1>1, NothingIn, IdleSound DEF Sound, Own, Routed

\* An object stays sound when the fates and the routes change for other messages only.
LEMMA SoundKept ==
  ASSUME NEW b \in Objects, NEW f \in [Msgs -> Fates], NEW g \in [Msgs -> Fates],
         NEW rt, NEW rt2, Sound(b, f, rt),
         \A m \in InSeq(b.items) : g[m] = "queued",
         \A m \in Msgs : f[m] \in Past => g[m] \in Past,
         \A m \in InSeq(b.turn.shown) : g[m] \notin Unseen \cup {"shown"},
         \A m \in Msgs : f[m] \notin Unseen => rt2[m] = rt[m]
  PROVE  Sound(b, g, rt2)
<1>1. \A m \in Own(b) : rt2[m] = rt[m]
  BY PartsType DEF Sound, Own, Unseen
<1>2. \A i \in 1 .. Len(b.items) : rt2[b.items[i]] = rt[b.items[i]]
  BY <1>1 DEF Own, InSeq
<1>3. \A i \in 1 .. Len(b.turn.shown) : rt2[b.turn.shown[i]] = rt[b.turn.shown[i]]
  BY <1>1 DEF Own, InSeq
<1>4. Routed(b, rt) => Routed(b, rt2)
  BY <1>2, <1>3 DEF OneRoute, Routed
<1>5. \A m \in InSeq(b.lines) \cup InSeq(b.turn.lines) : g[m] \in Past
  BY PartsType DEF Sound
<1> QED
  BY <1>4, <1>5 DEF Sound

\* Object id becomes c while the fates change from f to g and the routes from rt to rt2:
\* c is sound, shares no message with the others, and the change leaves those alone.
Replaces(reg, next, id, c, f, g, rt, rt2) ==
  /\ next.q = [reg.q EXCEPT ![id] = c]
  /\ Sound(c, g, rt2)
  /\ \A j \in QueueIds \ {id} : Own(c) \cap Own(reg.q[j]) = {}
  /\ \A m \in Msgs : f[m] \in Past => g[m] \in Past
  /\ \A m \in Msgs : f[m] \notin Unseen => rt2[m] = rt[m]
  /\ \A j \in QueueIds \ {id} :
       /\ \A m \in InSeq(reg.q[j].items) : g[m] = "queued"
       /\ \A m \in InSeq(reg.q[j].turn.shown) : g[m] \notin Unseen \cup {"shown"}

\* Such a replacement keeps all objects sound and apart.
LEMMA StepWhole ==
  ASSUME NEW reg \in Registries, NEW next \in Registries, NEW id \in QueueIds, NEW c \in Objects,
         NEW f \in [Msgs -> Fates], NEW g \in [Msgs -> Fates], NEW rt, NEW rt2,
         Whole(reg, f, rt), Replaces(reg, next, id, c, f, g, rt, rt2)
  PROVE  Whole(next, g, rt2)
<1>1. \A j \in QueueIds : reg.q[j] \in Objects /\ next.q[j] = IF j = id THEN c ELSE reg.q[j]
  BY DEF Registries, Replaces
<1>2. \A j \in QueueIds : Sound(next.q[j], g, rt2)
  <2>1. ASSUME NEW j \in QueueIds, j # id PROVE Sound(next.q[j], g, rt2)
    <3>1. Sound(reg.q[j], f, rt) /\ reg.q[j] \in Objects /\ next.q[j] = reg.q[j]
      BY <1>1, <2>1 DEF Whole
    <3> QED
      BY <2>1, <3>1, SoundKept DEF Replaces
  <2> QED
    BY <1>1, <2>1 DEF Replaces
<1>3. \A i, j \in QueueIds : i # j => Own(next.q[i]) \cap Own(next.q[j]) = {}
  BY <1>1 DEF Whole, Replaces
<1> QED
  BY <1>2, <1>3 DEF Whole

\* The object becomes c, which holds no message that it did not hold.
LEMMA PutWhole ==
  ASSUME NEW reg \in Registries, NEW id \in QueueIds, NEW c \in Objects,
         NEW f \in [Msgs -> Fates], NEW rt, Whole(reg, f, rt),
         Sound(c, f, rt), Own(c) \subseteq Own(reg.q[id])
  PROVE  Whole(Put(reg, id, c), f, rt)
<1>1. /\ Put(reg, id, c) \in Registries /\ Put(reg, id, c).current = reg.current
      /\ Put(reg, id, c).q = [reg.q EXCEPT ![id] = c]
  BY PutType DEF Put
<1>2. \A j \in QueueIds \ {id} : Own(c) \cap Own(reg.q[j]) = {}
  BY DEF Whole
<1>3. \A j \in QueueIds : Sound(reg.q[j], f, rt)
  BY DEF Whole
<1>4. \A j \in QueueIds \ {id} :
        /\ \A m \in InSeq(reg.q[j].items) : f[m] = "queued"
        /\ \A m \in InSeq(reg.q[j].turn.shown) : f[m] \notin Unseen \cup {"shown"}
  BY <1>3 DEF Sound
<1>5. Replaces(reg, Put(reg, id, c), id, c, f, f, rt, rt)
  BY <1>1, <1>2, <1>4 DEF Replaces
<1> QED
  BY <1>1, <1>5, StepWhole

\* So does deleting an object.
LEMMA DeleteWhole ==
  ASSUME NEW reg \in Registries, NEW id \in QueueIds,
         NEW f \in [Msgs -> Fates], NEW rt, Whole(reg, f, rt)
  PROVE  Whole(Delete(reg, id), f, rt)
<1>1. Whole(Put(reg, id, NoQueue), f, rt)
  BY NothingSound, NothingType, PutWhole
<1>2. Delete(reg, id).q = Put(reg, id, NoQueue).q
  BY DEF Delete, Put
<1> QED
  BY <1>1, <1>2 DEF Whole

\* The drain's part of an object may be reset.
LEMMA WokenSound ==
  ASSUME NEW b \in Objects, NEW f, NEW rt, Sound(b, f, rt)
  PROVE  /\ Sound(Parked(b), f, rt) /\ Own(Parked(b)) \subseteq Own(b)
         /\ b.at = "off" => Sound(Woken(b), f, rt) /\ Own(Woken(b)) = Own(b)
<1>1. Parked(b).items = b.items /\ Parked(b).lines = b.lines
      /\ Parked(b).at = "off" /\ Parked(b).turn = NoTurn
  BY WokenType
<1>2. Woken(b).items = b.items /\ Woken(b).lines = b.lines
      /\ Woken(b).at = "debounce" /\ Woken(b).turn = b.turn
  BY WokenType
<1>3. Sound(Parked(b), f, rt) /\ Own(Parked(b)) \subseteq Own(b)
  <2>1. /\ InSeq(Parked(b).turn.shown) = {} /\ InSeq(Parked(b).turn.lines) = {} /\ Takes(Parked(b))
        /\ Distinct(Parked(b).turn.shown) /\ OneRoute(Parked(b).turn.shown, rt)
    BY <1>1, IdleSound
  <2> QED
    BY <1>1, <2>1 DEF Sound, Own, Routed
<1>4. ASSUME b.at = "off" PROVE Sound(Woken(b), f, rt) /\ Own(Woken(b)) = Own(b)
  BY <1>2, <1>4 DEF Sound, Own, Takes, Routed
<1> QED
  BY <1>3, <1>4

\* Scheduling a drain keeps all objects sound and apart.
LEMMA ScheduleWhole ==
  ASSUME NEW reg \in Registries, NEW f \in [Msgs -> Fates], NEW rt, Whole(reg, f, rt)
  PROVE  Whole(Schedule(reg), f, rt)
<1> DEFINE id == reg.current
<1>1. CASE Schedule(reg) = reg
  BY <1>1
<1>2. CASE id \in QueueIds /\ reg.q[id].at = "off" /\ Schedule(reg) = Put(reg, id, Woken(reg.q[id]))
  <2>1. reg.q[id] \in Objects /\ Sound(reg.q[id], f, rt)
    BY <1>2 DEF Registries, Whole
  <2>2. /\ Woken(reg.q[id]) \in Objects /\ Sound(Woken(reg.q[id]), f, rt)
        /\ Own(Woken(reg.q[id])) = Own(reg.q[id])
    BY <1>2, <2>1, WokenSound, WokenType
  <2> QED
    BY <1>2, <2>2, PutWhole
<1>3. CASE id \in QueueIds /\ Schedule(reg) = Delete(reg, id)
  BY <1>3, DeleteWhole
<1> QED
  BY <1>1, <1>2, <1>3, ScheduleCases

\* So does the end of a drain.
LEMMA FinishWhole ==
  ASSUME NEW reg \in Registries, NEW id \in QueueIds, NEW b \in Objects,
         NEW f \in [Msgs -> Fates], NEW rt, Whole(reg, f, rt),
         Sound(b, f, rt), Own(b) \subseteq Own(reg.q[id])
  PROVE  Whole(Finish(reg, id, b), f, rt)
<1>1. CASE Finish(reg, id, b) = Schedule(Put(reg, id, Parked(b)))
  <2>1. /\ Parked(b) \in Objects /\ Sound(Parked(b), f, rt)
        /\ Own(Parked(b)) \subseteq Own(reg.q[id])
    BY WokenSound, WokenType
  <2>2. Whole(Put(reg, id, Parked(b)), f, rt) /\ Put(reg, id, Parked(b)) \in Registries
    BY <2>1, PutWhole, PutType
  <2> QED
    BY <1>1, <2>2, ScheduleWhole
<1>2. CASE Finish(reg, id, b) = Delete(reg, id)
  BY <1>2, DeleteWhole
<1> QED
  BY <1>1, <1>2, FinishCases

\* Items that do not cross channels have one destination.
LEMMA OneRouteForAll ==
  ASSUME NEW items \in Seq(Msgs), ~CrossChannel(items), route \in [Msgs -> Routes]
  PROVE  OneRoute(items, route)
<1> SUFFICES ASSUME NEW x \in InSeq(items), NEW y \in InSeq(items)
             PROVE  route[x] = route[y] /\ route[x] # "cross"
  BY DEF OneRoute, InSeq
<1> DEFINE K == KeysOf(items)
<1>1. route[x] # "cross" /\ route[y] # "cross"
  BY DEF CrossChannel
<1>2. CASE K = {}
  BY <1>1, <1>2 DEF KeysOf
<1>3. CASE K # {}
  <2>1. route[x] \in K /\ route[y] \in K /\ ~(Cardinality(K) > 1)
    BY <1>1, <1>3 DEF CrossChannel, KeysOf
  <2>2. IsFiniteSet(K)
    <3>1. IsFiniteSet(1 .. Len(items))
      BY LenProperties, FS_Interval
    <3> DEFINE T == {route[items[i]] : i \in 1 .. Len(items)}
               F == [i \in 1 .. Len(items) |-> route[items[i]]]
    <3>2. F \in Surjection(1 .. Len(items), T)
      BY DEF Surjection
    <3>3. IsFiniteSet(T)
      BY <3>1, <3>2, FS_Surjection
    <3>4. K \subseteq T
      BY DEF KeysOf, InSeq
    <3> QED
      BY <3>3, <3>4, FS_Subset
  <2> HIDE DEF K
  <2>3. ASSUME route[x] # route[y] PROVE FALSE
    <3> DEFINE u == route[x]
               v == route[y]
               U == {u}
               P == U \cup {v}
    <3>1. u # v
      BY <2>3
    <3> HIDE DEF u, v
    <3>2. Cardinality(U) = 1 /\ IsFiniteSet(U) /\ v \notin U /\ u \in U
      BY <3>1, FS_Singleton
    <3> HIDE DEF U
    <3>3. Cardinality(P) = IF v \in U THEN Cardinality(U) ELSE Cardinality(U) + 1
      BY <3>2, FS_AddElement
    <3> HIDE DEF P
    <3>4. Cardinality(P) = 2
      BY <3>2, <3>3
    <3>5. Cardinality(P) <= Cardinality(K) /\ Cardinality(K) \in Nat
      BY <2>1, <2>2, FS_Subset, FS_CardinalityType DEF P, U, u, v
    <3> QED
      BY <2>1, <3>4, <3>5
  <2> QED
    BY <1>1, <2>3
<1> QED
  BY <1>2, <1>3

\* An object whose drain begins a turn with prompt t is sound if the prompt is made of
\* its items and its lines.
LEMMA BegunSound ==
  ASSUME NEW b \in Objects, NEW t \in Turns, NEW f, NEW rt, Sound(b, f, rt),
         InSeq(t.shown) \subseteq InSeq(b.items), Distinct(t.shown),
         InSeq(t.lines) \subseteq InSeq(b.lines),
         \A i \in 1 .. Len(b.items) : i > t.take => b.items[i] \notin InSeq(t.shown),
         "interpose" \notin Races => OneRoute(t.shown, rt)
  PROVE  Sound(Begun(b, t), f, rt) /\ Own(Begun(b, t)) \subseteq Own(b)
<1> DEFINE c == Begun(b, t)
<1>1. c.at = "turn" /\ c.turn = t /\ c.items = b.items /\ c.lines = b.lines
  BY BegunType
<1> HIDE DEF c
<1>2. Takes(c) /\ ("interpose" \notin Races => Routed(c, rt))
  BY <1>1 DEF Takes, Routed
<1>3. Sound(c, f, rt)
  BY <1>1, <1>2 DEF Sound, Unseen
<1> QED
  BY <1>1, <1>3 DEF Own, c

\* The turn for one item, part by part.
LEMMA ItemTurnParts ==
  ASSUME NEW b
  PROVE  /\ ItemTurn(b).shown = <<Head(b.items)>> /\ ItemTurn(b).take = 1
         /\ ItemTurn(b).lines = <<>> /\ ~ItemTurn(b).summary
<1>1. NoTurn.lines = <<>> /\ ~NoTurn.summary
  BY DEF NoTurn
<1>2. /\ ItemTurn(b).shown = <<Head(b.items)>> /\ ItemTurn(b).take = 1
      /\ ItemTurn(b).lines = NoTurn.lines /\ ItemTurn(b).summary = NoTurn.summary
  BY NothingType DEF ItemTurn, Turns
<1> QED
  BY <1>1, <1>2

\* The prompts of the drain are of that kind.
LEMMA TurnsSound ==
  ASSUME NEW b \in Objects, NEW f, NEW rt, Sound(b, f, rt)
  PROVE  /\ b.items # <<>> => \A t \in {ItemTurn(b), SummaryTurn(b)} :
              Sound(Begun(b, t), f, rt) /\ Own(Begun(b, t)) \subseteq Own(b)
         /\ b.at = "collecting" =>
              Sound(Begun(b, BatchTurn(b)), f, rt) /\ Own(Begun(b, BatchTurn(b))) \subseteq Own(b)
<1>1. ASSUME b.items # <<>>
      PROVE  Sound(Begun(b, ItemTurn(b)), f, rt) /\ Own(Begun(b, ItemTurn(b))) \subseteq Own(b)
  <2> DEFINE h == Head(b.items)
             t == ItemTurn(b)
  <2>1. t \in Turns /\ t.shown = <<h>> /\ t.take = 1 /\ t.lines = <<>>
    BY <1>1, TurnsType, ItemTurnParts
  <2>2. Len(b.items) >= 1 /\ b.items[1] = h /\ b.items \in Seq(Msgs)
    BY <1>1, PartsType, EmptySeq
  <2> HIDE DEF h, t
  <2>3. Len(t.shown) = 1 /\ t.shown[1] = h
    BY <2>1
  <2>4. InSeq(t.shown) = {h} /\ Distinct(t.shown) /\ OneRoute(t.shown, rt)
    BY <2>3 DEF InSeq, Distinct, OneRoute
  <2>5. h \in InSeq(b.items) /\ InSeq(t.lines) = {}
    BY <2>1, <2>2, NothingIn, PartsType DEF InSeq
  <2>6. \A i \in 1 .. Len(b.items) : i > t.take => b.items[i] \notin InSeq(t.shown)
    BY <2>1, <2>2, <2>4, PartsType DEF Sound, Distinct
  <2>7. Sound(Begun(b, t), f, rt) /\ Own(Begun(b, t)) \subseteq Own(b)
    BY <2>1, <2>4, <2>5, <2>6, BegunSound
  <2> QED
    BY <2>7 DEF t
<1>2. ASSUME b.items # <<>>
      PROVE  Sound(Begun(b, SummaryTurn(b)), f, rt) /\ Own(Begun(b, SummaryTurn(b))) \subseteq Own(b)
  <2> DEFINE t == SummaryTurn(b)
  <2>1. t \in Turns /\ t.shown = <<>> /\ t.lines = b.lines
    BY <1>2, TurnsType DEF SummaryTurn
  <2> HIDE DEF t
  <2>2. Sound(Begun(b, t), f, rt) /\ Own(Begun(b, t)) \subseteq Own(b)
    BY <2>1, NothingIn, BegunSound
  <2> QED
    BY <2>2 DEF t
<1>3. ASSUME b.at = "collecting"
      PROVE  Sound(Begun(b, BatchTurn(b)), f, rt) /\ Own(Begun(b, BatchTurn(b))) \subseteq Own(b)
  <2> DEFINE t == BatchTurn(b)
  <2>1. t \in Turns /\ t.shown = b.items /\ t.take = Len(b.items)
        /\ (t.lines = b.lines \/ t.lines = <<>>)
    BY TurnsType DEF BatchTurn
  <2> HIDE DEF t
  <2>2. InSeq(t.lines) \subseteq InSeq(b.lines)
    BY <2>1, NothingIn
  <2>3. /\ InSeq(t.shown) \subseteq InSeq(b.items) /\ Distinct(t.shown)
        /\ "interpose" \notin Races => OneRoute(t.shown, rt)
    BY <1>3, <2>1 DEF Sound, Routed
  <2>4. \A i \in 1 .. Len(b.items) : i > t.take => b.items[i] \notin InSeq(t.shown)
    BY <2>1, PartsType
  <2>5. Sound(Begun(b, t), f, rt) /\ Own(Begun(b, t)) \subseteq Own(b)
    BY <2>1, <2>2, <2>3, <2>4, BegunSound
  <2> QED
    BY <2>5 DEF t
<1> QED
  BY <1>1, <1>2, <1>3

\* So are the drain's other marks on an object.
LEMMA ForcedSound ==
  ASSUME NEW b \in Objects, NEW f, NEW rt, Sound(b, f, rt)
  PROVE  /\ Sound(Forced(b), f, rt) /\ Own(Forced(b)) = Own(b)
         /\ b.turn = NoTurn /\ OneRoute(b.items, rt) =>
              Sound(Collecting(b), f, rt) /\ Own(Collecting(b)) = Own(b)
<1>1. \A c \in {Forced(b), Collecting(b)} :
        /\ c.items = b.items /\ c.lines = b.lines /\ c.turn = b.turn
        /\ Takes(c) <=> Takes(b)
        /\ Own(c) = Own(b)
  BY ForcedType DEF Takes, Own
<1>2. Routed(b, rt) => Routed(Forced(b), rt)
  BY ForcedType DEF Routed
<1>3. Sound(Forced(b), f, rt)
  BY <1>1, <1>2, ForcedType DEF Sound
<1>4. ASSUME b.turn = NoTurn, OneRoute(b.items, rt) PROVE Sound(Collecting(b), f, rt)
  <2>1. Routed(Collecting(b), rt)
    BY <1>1, <1>4, IdleSound DEF Routed
  <2> QED
    BY <1>1, <1>4, <2>1 DEF Sound
<1> QED
  BY <1>1, <1>3, <1>4

\* What a turn that succeeded leaves is sound, with the fates g it leaves.
LEMMA AfterTurnSound ==
  ASSUME NEW b \in Objects, NEW f \in [Msgs -> Fates], NEW g, NEW rt, Sound(b, f, rt),
         g = [m \in Msgs |-> IF m \in InSeq(b.turn.shown) THEN "shown"
                             ELSE IF m \in InSeq(b.turn.lines) THEN "summarized" ELSE f[m]]
  PROVE  LET c == Working(AfterTurn(b))
         IN  Sound(c, g, rt) /\ InSeq(c.items) \subseteq InSeq(b.items) /\ Own(c) = InSeq(c.items)
<1> DEFINE c == Working(AfterTurn(b))
           n == b.turn.take
           s == SubSeq(b.items, n + 1, Len(b.items))
<1>1. /\ c.items = s /\ c.turn = NoTurn /\ c.at = "debounce"
      /\ c.lines = b.lines \/ c.lines = <<>>
  BY AfterTurnEffect, BegunType, NothingType
<1>2. n \in Nat /\ b.items \in Seq(Msgs) /\ Len(b.items) \in Nat /\ InSeq(b.items) \subseteq Msgs
      /\ InSeq(b.lines) \subseteq Msgs
  BY PartsType
<1>3. /\ \A k \in 1 .. Len(b.items) : k > n => b.items[k] \notin InSeq(b.turn.shown)
      /\ \A j, k \in 1 .. Len(b.items) : j # k => b.items[j] # b.items[k]
  BY DEF Sound, Takes, Distinct
<1> HIDE DEF n
<1>4. /\ Len(s) \in Nat
      /\ \A i \in 1 .. Len(s) : i + n \in 1 .. Len(b.items) /\ s[i] = b.items[i + n]
  BY <1>2, SuffixProperties
<1> HIDE DEF c, s
<1>5. \A i \in 1 .. Len(s) : s[i] \in InSeq(b.items) /\ s[i] \notin InSeq(b.turn.shown)
  <2> SUFFICES ASSUME NEW i \in 1 .. Len(s)
               PROVE  s[i] \in InSeq(b.items) /\ s[i] \notin InSeq(b.turn.shown)
    OBVIOUS
  <2>1. i + n \in 1 .. Len(b.items) /\ s[i] = b.items[i + n]
    BY <1>4
  <2>2. i + n > n
    BY <1>2, <1>4
  <2> QED
    BY <1>3, <2>1, <2>2 DEF InSeq
<1>6. InSeq(s) \subseteq InSeq(b.items) /\ InSeq(s) \cap InSeq(b.turn.shown) = {}
  BY <1>5 DEF InSeq
<1>7. Distinct(s)
  <2> SUFFICES ASSUME NEW i \in 1 .. Len(s), NEW j \in 1 .. Len(s), i # j
               PROVE  s[i] # s[j]
    BY DEF Distinct
  <2>1. i + n # j + n
    BY <1>2, <1>4
  <2> QED
    BY <1>3, <1>4, <2>1
<1>8. \A m \in InSeq(s) : g[m] = "queued"
  BY <1>2, <1>6 DEF Sound, Past
<1>9. \A m \in InSeq(b.lines) : g[m] \in Past
  BY <1>2 DEF Sound, Past
<1>10. /\ InSeq(c.turn.shown) = {} /\ InSeq(c.turn.lines) = {} /\ Takes(c)
      /\ Distinct(c.turn.shown) /\ OneRoute(c.turn.shown, rt)
  BY <1>1, IdleSound
<1>11. \A m \in InSeq(c.lines) : g[m] \in Past
  BY <1>1, <1>9, NothingIn
<1>12. Sound(c, g, rt)
  BY <1>1, <1>7, <1>8, <1>10, <1>11 DEF Sound, Routed
<1>13. Own(c) = InSeq(c.items)
  BY <1>10 DEF Own
<1> QED
  BY <1>1, <1>6, <1>12, <1>13 DEF c

\* The inductive invariant of these two properties.
WholeInv == TypeInv /\ Whole(Registry, fate, route) /\ Remembered(fate, accepted)

\* The log stays that of the accepted deliveries when none becomes seen or unseen.
LEMMA RememberedKept ==
  ASSUME NEW f, NEW g, NEW memory, Remembered(f, memory),
         \A m \in Msgs : g[m] \in Unseen <=> f[m] \in Unseen
  PROVE  Remembered(g, memory)
  BY DEF Remembered

\* What making room does to the fates: those it changes are of messages dealt with.
LEMMA FateAfterDropEffect ==
  ASSUME TypeInv, NEW b \in Objects, Sound(b, fate, route), NEW d \in Msgs
  PROVE  /\ d \notin InSeq(Dropped(b)) \cup InSeq(b.lines) => FateAfterDrop(b, d) = fate[d]
         /\ d \in InSeq(Dropped(b)) \cup InSeq(b.lines) => FateAfterDrop(b, d) \in Past
         /\ FateAfterDrop(b, d) \in {fate[d], "dropped", "discarded"}
         /\ FateAfterDrop(b, d) \in Unseen <=> fate[d] \in Unseen
<1>1. \A m \in InSeq(b.lines) : fate[m] \in Past
  BY DEF Sound
<1>2. \A m \in InSeq(Dropped(b)) : fate[m] = "queued"
  <2>1. \A i \in 1 .. Len(Dropped(b)) : Dropped(b)[i] \in InSeq(b.items)
    BY DroppedProperties, PartsType DEF InSeq
  <2> QED
    BY <2>1 DEF Sound, InSeq
<1> QED
  BY <1>1, <1>2 DEF FateAfterDrop, Past, Unseen

\* The object a message finds is sound and has no message that it had not.
LEMMA RefreshedSound ==
  ASSUME WholeInv, NEW s \in Settings, NEW id \in Target
  PROVE  LET b == Refreshed(s, id)
         IN  Sound(b, fate, route) /\ Own(b) \subseteq Own(q[id])
<1> DEFINE b == Refreshed(s, id)
<1>1. Sound(q[id], fate, route) /\ id \in QueueIds
  BY RefreshedType, RegistryType DEF WholeInv, Whole
<1>2. CASE current = 0 /\ b.items = <<>> /\ b.lines = <<>> /\ b.at = "off" /\ b.turn = NoTurn
  <2> HIDE DEF b
  <2> QED
    BY <1>2, NothingIn, IdleSound DEF Sound, Routed, Own, b
<1>3. CASE /\ b.items = q[id].items /\ b.lines = q[id].lines
           /\ b.at = q[id].at /\ b.turn = q[id].turn
  <2> HIDE DEF b
  <2>1. (Takes(q[id]) => Takes(b)) /\ (Routed(q[id], route) => Routed(b, route))
    BY <1>3 DEF Takes, Routed
  <2> QED
    BY <1>1, <1>3, <2>1 DEF Sound, Own, b
<1> QED
  BY <1>2, <1>3, RefreshedType DEF WholeInv

\* An accepted message is the last of the items that remain.
LEMMA AcceptedItems ==
  ASSUME NEW b \in Objects, NEW m \in Msgs, Distinct(b.items), m \notin InSeq(b.items)
  PROVE  LET c == Accept(m, b)
             n == DropCount(b)
         IN  /\ Len(c.items) = Len(b.items) - n + 1 /\ n \in 0 .. Len(b.items)
             /\ \A i \in 1 .. Len(b.items) - n :
                  i + n \in 1 .. Len(b.items) /\ c.items[i] = b.items[i + n]
             /\ c.items[Len(c.items)] = m
             /\ InSeq(c.items) = (InSeq(b.items) \ InSeq(Dropped(b))) \cup {m}
             /\ Distinct(c.items)
<1> DEFINE c == Accept(m, b)
           n == DropCount(b)
           left == SubSeq(b.items, n + 1, Len(b.items))
<1>1. b.items \in Seq(Msgs) /\ Len(b.items) \in Nat
  BY PartsType
<1>2. /\ n \in 0 .. Len(b.items) /\ n \in Nat /\ Len(Dropped(b)) = n
      /\ \A i \in 1 .. n : Dropped(b)[i] = b.items[i]
  BY <1>1, DroppedProperties
<1>3. c.items = Append(left, m)
  <2>1. c.items = Append(MakeRoom(b).items, m)
    BY AcceptEffect
  <2>2. MakeRoom(b).items = left
    BY MakeRoomEffect
  <2> QED
    BY <2>1, <2>2
<1> HIDE DEF n
<1>4. /\ left \in Seq(Msgs) /\ Len(left) = Len(b.items) - n
      /\ \A i \in 1 .. Len(left) : left[i] = b.items[i + n]
  <2>1. /\ left \in Seq(Msgs)
        /\ Len(left) = IF n < Len(b.items) THEN Len(b.items) - n ELSE 0
        /\ \A i \in 1 .. Len(left) : i + n \in 1 .. Len(b.items) /\ left[i] = b.items[i + n]
    BY <1>1, <1>2, SuffixProperties
  <2> HIDE DEF left
  <2> QED
    BY <1>1, <1>2, <2>1
<1> HIDE DEF c, left
<1>5. /\ Len(c.items) = Len(left) + 1
      /\ \A i \in 1 .. Len(left) : c.items[i] = left[i]
      /\ c.items[Len(left) + 1] = m
  BY <1>3, <1>4, AppendProperties
<1>6. /\ Len(c.items) = Len(b.items) - n + 1
      /\ \A i \in 1 .. Len(b.items) - n :
           i + n \in 1 .. Len(b.items) /\ c.items[i] = b.items[i + n]
      /\ c.items[Len(c.items)] = m
  BY <1>1, <1>2, <1>4, <1>5
<1>7. \A j, k \in 1 .. Len(b.items) : j # k => b.items[j] # b.items[k]
  BY DEF Distinct
<1>8. InSeq(c.items) \subseteq (InSeq(b.items) \ InSeq(Dropped(b))) \cup {m}
  <2> SUFFICES ASSUME NEW i \in 1 .. Len(c.items), c.items[i] # m
               PROVE  c.items[i] \in InSeq(b.items) /\ c.items[i] \notin InSeq(Dropped(b))
    BY DEF InSeq
  <2>1. i + n \in 1 .. Len(b.items) /\ c.items[i] = b.items[i + n]
    <3>1. i \in 1 .. Len(b.items) - n
      BY <1>1, <1>2, <1>6
    <3> QED
      BY <1>6, <3>1
  <2>2. \A k \in 1 .. n : b.items[k] # b.items[i + n]
    BY <1>1, <1>2, <1>7, <2>1
  <2> QED
    BY <1>2, <2>1, <2>2 DEF InSeq
<1>9. (InSeq(b.items) \ InSeq(Dropped(b))) \cup {m} \subseteq InSeq(c.items)
  <2>1. m \in InSeq(c.items)
    <3>1. Len(c.items) \in 1 .. Len(c.items)
      BY <1>1, <1>2, <1>6
    <3> QED
      BY <1>6, <3>1 DEF InSeq
  <2> SUFFICES ASSUME NEW k \in 1 .. Len(b.items), b.items[k] \notin InSeq(Dropped(b))
               PROVE  b.items[k] \in InSeq(c.items)
    BY <2>1 DEF InSeq
  <2>2. k > n
    <3>1. ASSUME k \in 1 .. n PROVE FALSE
      BY <1>2, <3>1 DEF InSeq
    <3>2. k \in Nat /\ k >= 1
      BY <1>1
    <3> QED
      BY <1>2, <3>1, <3>2
  <2>3. PICK i \in 1 .. Len(b.items) - n : i + n = k
    <3>1. k - n \in 1 .. Len(b.items) - n /\ (k - n) + n = k
      BY <1>1, <1>2, <2>2
    <3> QED
      BY <3>1
  <2>4. i \in 1 .. Len(c.items) /\ c.items[i] = b.items[k]
    BY <1>1, <1>2, <1>6, <2>3
  <2> QED
    BY <2>4 DEF InSeq
<1>10. Distinct(c.items)
  <2> SUFFICES ASSUME NEW i \in 1 .. Len(c.items), NEW j \in 1 .. Len(c.items), i < j
               PROVE  c.items[i] # c.items[j]
    BY <1>1, <1>2, <1>6 DEF Distinct
  <2>1. i + n \in 1 .. Len(b.items) /\ c.items[i] = b.items[i + n]
    <3>1. i \in 1 .. Len(b.items) - n
      BY <1>1, <1>2, <1>6
    <3> QED
      BY <1>6, <3>1
  <2>2. CASE j = Len(c.items)
    <3>1. c.items[i] \in InSeq(b.items)
      BY <2>1 DEF InSeq
    <3>2. c.items[j] = m
      BY <1>6, <2>2
    <3> QED
      BY <3>1, <3>2
  <2>3. CASE j # Len(c.items)
    <3>1. j \in 1 .. Len(b.items) - n /\ i + n # j + n
      BY <1>1, <1>2, <1>6, <2>3
    <3>2. j + n \in 1 .. Len(b.items) /\ c.items[j] = b.items[j + n]
      BY <1>6, <3>1
    <3> QED
      BY <1>7, <2>1, <3>1, <3>2
  <2> QED
    BY <2>2, <2>3
<1> QED
  BY <1>2, <1>6, <1>8, <1>9, <1>10 DEF c, n

\* Accepting a message keeps an object sound, with the fates it leaves.
LEMMA AcceptSound ==
  ASSUME TypeInv, NEW b \in Objects, Sound(b, fate, route), NEW m \in Msgs, fate[m] \in Unseen,
         NEW g, g = [d \in Msgs |-> IF d = m THEN "queued" ELSE FateAfterDrop(b, d)], NEW rt2,
         \A d \in Msgs : fate[d] \notin Unseen => rt2[d] = route[d],
         "interpose" \in Races \/ b.at # "collecting"
  PROVE  Sound(Accept(m, b), g, rt2) /\ Own(Accept(m, b)) \subseteq Own(b) \cup {m}
<1> DEFINE c == Accept(m, b)
           n == DropCount(b)
<1>1. m \notin InSeq(b.items) /\ m \notin InSeq(b.turn.shown) /\ m \notin InSeq(b.lines)
      /\ m \notin InSeq(b.turn.lines)
  BY DEF Sound, Unseen, Past
<1>2. /\ Len(c.items) = Len(b.items) - n + 1 /\ n \in 0 .. Len(b.items) /\ n \in Nat
      /\ Len(b.items) \in Nat
      /\ \A i \in 1 .. Len(b.items) - n :
           i + n \in 1 .. Len(b.items) /\ c.items[i] = b.items[i + n]
      /\ c.items[Len(c.items)] = m
      /\ InSeq(c.items) = (InSeq(b.items) \ InSeq(Dropped(b))) \cup {m}
      /\ Distinct(c.items)
  <2>1. Distinct(b.items)
    BY DEF Sound
  <2>2. Len(b.items) \in Nat
    BY PartsType
  <2> QED
    BY <1>1, <2>1, <2>2, AcceptedItems
<1>3. c.at = b.at /\ c.turn = b.turn /\ InSeq(c.lines) \subseteq InSeq(b.lines) \cup InSeq(Dropped(b))
  BY AcceptEffect, MakeRoomEffect
<1> HIDE DEF c, n
<1>4. /\ InSeq(b.items) \subseteq Msgs /\ InSeq(b.lines) \subseteq Msgs
      /\ InSeq(b.turn.shown) \subseteq Msgs /\ InSeq(b.turn.lines) \subseteq Msgs
      /\ InSeq(Dropped(b)) \subseteq Msgs
  BY PartsType, DroppedProperties, LenProperties DEF InSeq
<1>5. \A d \in Msgs : fate[d] \in Past => g[d] \in Past
  BY FateAfterDropEffect DEF Past, Unseen
<1>6. \A d \in InSeq(b.lines) \cup InSeq(Dropped(b)) : d # m => g[d] \in Past
  BY <1>4, FateAfterDropEffect
<1>7. m \notin InSeq(Dropped(b))
  BY <1>1, DroppedProperties, PartsType DEF InSeq
<1>8. \A d \in InSeq(c.lines) \cup InSeq(c.turn.lines) : g[d] \in Past
  <2>1. \A d \in InSeq(c.lines) : g[d] \in Past
    BY <1>1, <1>3, <1>6, <1>7
  <2>2. \A d \in InSeq(c.turn.lines) : g[d] \in Past
    BY <1>3, <1>4, <1>5 DEF Sound
  <2> QED
    BY <2>1, <2>2
<1>9. \A d \in InSeq(c.items) : g[d] = "queued"
  <2>1. \A d \in InSeq(b.items) : d \notin InSeq(b.lines) /\ fate[d] = "queued"
    BY DEF Sound, Past
  <2> QED
    BY <1>2, <1>4, <2>1, FateAfterDropEffect
<1>10. \A d \in InSeq(c.turn.shown) : g[d] \notin Unseen \cup {"shown"}
  <2>1. \A d \in InSeq(b.turn.shown) : fate[d] \notin Unseen \cup {"shown"} /\ d # m
    BY <1>1 DEF Sound
  <2>2. \A d \in InSeq(b.turn.shown) : g[d] \in {fate[d], "dropped", "discarded"}
    BY <1>4, <2>1, FateAfterDropEffect
  <2> QED
    BY <1>3, <2>1, <2>2 DEF Unseen
<1>11. Takes(c)
  <2> SUFFICES ASSUME NEW i \in 1 .. Len(c.items), i > b.turn.take
               PROVE  c.items[i] \notin InSeq(b.turn.shown)
    BY <1>3 DEF Takes
  <2>1. CASE i = Len(c.items)
    <3>1. c.items[i] = m
      BY <1>2, <2>1
    <3> QED
      BY <1>1, <3>1
  <2>2. CASE i # Len(c.items)
    <3>0. /\ Len(c.items) = Len(b.items) - n + 1 /\ n \in Nat /\ Len(b.items) \in Nat
          /\ n <= Len(b.items)
      BY <1>2
    <3>1. i \in 1 .. Len(b.items) - n
      BY <2>2, <3>0
    <3>2. i + n \in 1 .. Len(b.items) /\ c.items[i] = b.items[i + n]
      BY <1>2, <3>1
    <3>3. b.turn.take \in Nat
      BY PartsType
    <3>4. i + n > b.turn.take
      BY <1>2, <3>3
    <3> QED
      BY <3>2, <3>4 DEF Sound, Takes
  <2> QED
    BY <2>1, <2>2
<1>12. "interpose" \notin Races => Routed(c, rt2)
  <2>1. \A d \in InSeq(b.turn.shown) : rt2[d] = route[d]
    BY <1>4 DEF Sound
  <2>2. OneRoute(b.turn.shown, route) => OneRoute(b.turn.shown, rt2)
    BY <2>1 DEF OneRoute, InSeq
  <2> QED
    BY <1>3, <2>2 DEF Sound, Routed
<1>13. Sound(c, g, rt2)
  BY <1>2, <1>3, <1>8, <1>9, <1>10, <1>11, <1>12 DEF Sound
<1>14. Own(c) \subseteq Own(b) \cup {m}
  BY <1>2, <1>3 DEF Own
<1> QED
  BY <1>13, <1>14 DEF c

\* A message that arrives, however it is dealt with.
LEMMA EnqueueWhole ==
  ASSUME WholeInv, TypeInv', NEW m \in Msgs, NEW r \in Routes, NEW s \in Settings,
         NEW id \in Target, NEW sees \in BOOLEAN, Enqueue(m, r, s, id, sees)
  PROVE  WholeInv'
<1> DEFINE b == Refreshed(s, id)
           c == Enqueued(m, b)
           reg == [current |-> id, q |-> [q EXCEPT ![id] = c]]
<1>1. TypeInv /\ Whole(Registry, fate, route) /\ Remembered(fate, accepted)
  BY DEF WholeInv
<1>2. id \in QueueIds /\ b \in Objects /\ Sound(b, fate, route) /\ Own(b) \subseteq Own(q[id])
  BY <1>1, RefreshedType, RefreshedSound
<1>3. b.at = "off" \/ b.at = q[id].at
  BY <1>1, RefreshedType
<1>4. /\ reg \in Registries /\ Registry' \in {reg, Schedule(reg)}
      /\ fate[m] = "new"
      /\ "interpose" \in Races \/ \A j \in QueueIds : q[j].at # "collecting"
      /\ route' = [route EXCEPT ![m] = r]
      /\ \/ /\ Deduplicated(m, b) \/ Refuses(b)
            /\ \E u \in Unseen : fate' = [fate EXCEPT ![m] = u]
            /\ accepted' = accepted
         \/ /\ ~Deduplicated(m, b) /\ ~Refuses(b)
            /\ fate' = [d \in Msgs |-> IF d = m THEN "queued" ELSE FateAfterDrop(b, d)]
            /\ accepted' = Append(accepted, m)
  BY <1>1, EnqueueEffect
<1>5. fate[m] \in Unseen
  BY <1>4 DEF Unseen
<1>6. "interpose" \in Races \/ b.at # "collecting"
  BY <1>2, <1>3, <1>4
<1>7. c = IF Deduplicated(m, b) THEN b
          ELSE IF Refuses(b) THEN [b EXCEPT !.lastRun = TRUE] ELSE Accept(m, b)
  BY DEF Enqueued
<1>8. c \in Objects
  BY <1>2, EnqueuedType
<1>9. reg.q = [q EXCEPT ![id] = c]
  OBVIOUS
<1> HIDE DEF b, c, reg
<1>10. \A d \in Msgs : fate[d] \notin Unseen => route'[d] = route[d]
  BY <1>1, <1>4 DEF TypeInv, Unseen
<1>11. fate \in [Msgs -> Fates] /\ fate' \in [Msgs -> Fates]
  BY <1>1 DEF TypeInv
<1>12. \A j \in QueueIds : q[j] \in Objects /\ Sound(q[j], fate, route)
  BY <1>1, RegistryType DEF Whole
<1>13. \A d \in Msgs : fate'[d] = fate[d] \/ (d = m /\ fate[m] \in Unseen)
                       \/ (fate'[d] = FateAfterDrop(b, d) /\ d # m /\ ~Deduplicated(m, b))
  BY <1>1, <1>4, <1>5 DEF TypeInv
<1>14. \A d \in Msgs :
         /\ fate[d] \in Past => fate'[d] \in Past
         /\ fate[d] = "queued" /\ d \notin InSeq(b.items) => fate'[d] = "queued"
         /\ fate[d] \notin Unseen \cup {"shown"} => fate'[d] \notin Unseen \cup {"shown"}
  <2> SUFFICES ASSUME NEW d \in Msgs
               PROVE  /\ fate[d] \in Past => fate'[d] \in Past
                      /\ fate[d] = "queued" /\ d \notin InSeq(b.items) => fate'[d] = "queued"
                      /\ fate[d] \notin Unseen \cup {"shown"} =>
                           fate'[d] \notin Unseen \cup {"shown"}
    OBVIOUS
  <2>1. CASE fate'[d] = fate[d]
    BY <2>1
  <2>2. CASE d = m /\ fate[m] \in Unseen
    BY <2>2 DEF Unseen, Past
  <2>3. CASE fate'[d] = FateAfterDrop(b, d)
    <3>1. InSeq(Dropped(b)) \subseteq InSeq(b.items)
      BY <1>2, DroppedProperties, PartsType DEF InSeq
    <3>2. fate[d] = "queued" => d \notin InSeq(b.lines)
      BY <1>2 DEF Sound, Past
    <3> QED
      BY <1>1, <1>2, <2>3, <3>1, <3>2, FateAfterDropEffect DEF Unseen, Past
  <2> QED
    BY <1>13, <2>1, <2>2, <2>3
<1>15. /\ Sound(c, fate', route')
       /\ Own(c) \subseteq Own(b) \/ (fate[m] \in Unseen /\ Own(c) \subseteq Own(b) \cup {m})
  <2>1. CASE Deduplicated(m, b) \/ Refuses(b)
    <3>1. PICK u \in Unseen : fate' = [fate EXCEPT ![m] = u]
      BY <1>4, <2>1
    <3>2. c.items = b.items /\ c.lines = b.lines /\ c.turn = b.turn /\ c.at = b.at
      BY <1>2, <1>7, <2>1 DEF Objects, QueueRecord
    <3>3. Sound(c, fate, route) /\ Own(c) = Own(b)
      <4>1. (Takes(b) => Takes(c)) /\ (Routed(b, route) => Routed(c, route))
        BY <3>2 DEF Takes, Routed
      <4> QED
        BY <1>2, <3>2, <4>1 DEF Sound, Own
    <3>4. \A d \in InSeq(c.items) : fate'[d] = "queued"
      BY <1>2, <1>5, <1>11, <3>1, <3>2, PartsType DEF Sound, Unseen
    <3>5. \A d \in InSeq(c.turn.shown) : fate'[d] \notin Unseen \cup {"shown"}
      BY <1>2, <1>14, <3>2, PartsType DEF Sound
    <3>6. Sound(c, fate', route')
      BY <1>8, <1>10, <1>11, <1>14, <3>3, <3>4, <3>5, SoundKept
    <3> QED
      BY <3>3, <3>6
  <2>2. CASE ~Deduplicated(m, b) /\ ~Refuses(b)
    <3>1. /\ c = Accept(m, b) /\ fate[m] \in Unseen
          /\ fate' = [d \in Msgs |-> IF d = m THEN "queued" ELSE FateAfterDrop(b, d)]
      BY <1>4, <1>5, <1>7, <2>2
    <3> QED
      BY <1>1, <1>2, <1>6, <1>10, <3>1, AcceptSound
  <2> QED
    BY <2>1, <2>2
<1>16. \A j \in QueueIds \ {id} : Own(q[j]) \cap Own(q[id]) = {} /\ Own(q[j]) \subseteq Msgs
  BY <1>1, <1>2, <1>12, RegistryType, PartsType DEF Whole, Own
<1>17. \A j \in QueueIds \ {id} : Own(c) \cap Own(q[j]) = {}
  <2>1. fate[m] \in Unseen => \A j \in QueueIds : m \notin Own(q[j])
    BY <1>12 DEF Sound, Own, Unseen
  <2> QED
    BY <1>2, <1>15, <1>16, <2>1
<1>18. \A j \in QueueIds \ {id} :
         /\ \A d \in InSeq(q[j].items) : fate'[d] = "queued"
         /\ \A d \in InSeq(q[j].turn.shown) : fate'[d] \notin Unseen \cup {"shown"}
  <2> SUFFICES ASSUME NEW j \in QueueIds \ {id}
               PROVE  /\ \A d \in InSeq(q[j].items) : fate'[d] = "queued"
                      /\ \A d \in InSeq(q[j].turn.shown) : fate'[d] \notin Unseen \cup {"shown"}
    OBVIOUS
  <2>1. \A d \in InSeq(q[j].items) : d \in Msgs /\ fate[d] = "queued" /\ d \notin InSeq(b.items)
    BY <1>2, <1>12, <1>16 DEF Sound, Own
  <2>2. \A d \in InSeq(q[j].turn.shown) : d \in Msgs /\ fate[d] \notin Unseen \cup {"shown"}
    BY <1>12, <1>16 DEF Sound, Own
  <2> QED
    BY <1>14, <2>1, <2>2
<1>19. Whole(reg, fate', route')
  <2>1. Registry \in Registries /\ Registry.q = q
    BY <1>1, RegistryType DEF TypeInv
  <2>2. reg.q = [Registry.q EXCEPT ![id] = c]
    BY <1>9, <2>1
  <2>3. \A j \in QueueIds \ {id} :
          /\ Own(c) \cap Own(Registry.q[j]) = {}
          /\ \A d \in InSeq(Registry.q[j].items) : fate'[d] = "queued"
          /\ \A d \in InSeq(Registry.q[j].turn.shown) : fate'[d] \notin Unseen \cup {"shown"}
    BY <1>17, <1>18, <2>1
  <2>4. Sound(c, fate', route') /\ reg \in Registries
    BY <1>4, <1>15
  <2> QED
    <3>1. Replaces(Registry, reg, id, c, fate, fate', route, route')
      BY <1>10, <1>14, <2>2, <2>3, <2>4 DEF Replaces
    <3> QED
      BY <1>1, <1>2, <1>8, <1>11, <2>1, <2>4, <3>1, StepWhole
<1>20. Whole(Registry', fate', route')
  BY <1>4, <1>11, <1>19, ScheduleWhole
<1>21. Remembered(fate', accepted')
  <2>1. CASE (\E u \in Unseen : fate' = [fate EXCEPT ![m] = u]) /\ accepted' = accepted
    <3>1. \A d \in Msgs : fate'[d] \in Unseen <=> fate[d] \in Unseen
      BY <1>5, <1>11, <2>1
    <3> QED
      BY <1>1, <2>1, <3>1, RememberedKept
  <2>2. CASE /\ fate[m] \in Unseen /\ accepted' = Append(accepted, m)
             /\ fate' = [d \in Msgs |-> IF d = m THEN "queued" ELSE FateAfterDrop(b, d)]
    <3>1. InSeq(Append(accepted, m)) = InSeq(accepted) \cup {m}
      BY <1>1, AppendProperty DEF TypeInv
    <3>2. \A d \in Msgs \ {m} : fate'[d] \in Unseen <=> fate[d] \in Unseen
      BY <1>1, <1>2, <2>2, FateAfterDropEffect
    <3>3. fate'[m] = "queued"
      BY <2>2
    <3> QED
      BY <1>1, <2>2, <3>1, <3>2, <3>3 DEF Remembered, Unseen
  <2> QED
    BY <1>4, <1>5, <2>1, <2>2
<1> QED
  BY <1>20, <1>21 DEF WholeInv

\* A step of a drain.
LEMMA DrainWhole ==
  ASSUME WholeInv, TypeInv', NEW id \in QueueIds, DrainStep(id)
  PROVE  WholeInv'
<1> DEFINE b == q[id]
<1>1. TypeInv /\ Whole(Registry, fate, route) /\ Remembered(fate, accepted)
  BY DEF WholeInv
<1>2. /\ b \in Objects /\ Sound(b, fate, route) /\ Registry \in Registries
      /\ Registry.q = q /\ Registry.q[id] = b
      /\ fate \in [Msgs -> Fates] /\ route \in [Msgs -> Routes]
  BY <1>1, RegistryType DEF Whole, TypeInv
<1>3. /\ \/ CollectForm(id, b) \/ BatchForm(id, b) \/ ItemForm(id, b)
         \/ EndForm(id, b) \/ FailForm(id, b)
      /\ accepted' = accepted /\ route' = route
  BY <1>1, DrainEffect
<1> HIDE DEF b
<1>4. ASSUME NEW c \in Objects, Sound(c, fate, route), Own(c) \subseteq Own(b),
             Goes(id, c) \/ Ends(id, c), fate' = fate
      PROVE  WholeInv'
  <2>1. Whole(Put(Registry, id, c), fate, route) /\ Whole(Finish(Registry, id, c), fate, route)
    BY <1>1, <1>2, <1>4, PutWhole, FinishWhole
  <2>2. Whole(Registry', fate', route')
    BY <1>3, <1>4, <2>1 DEF Goes, Ends
  <2> QED
    BY <1>1, <1>3, <1>4, <2>2 DEF WholeInv
<1>5. CASE CollectForm(id, b)
  <2>1. b.turn = NoTurn
    BY <1>2, <1>5 DEF CollectForm, Sound
  <2>2. CASE ~CrossChannel(b.items) /\ Goes(id, Collecting(b))
    <3>1. OneRoute(b.items, route)
      BY <1>2, <2>2, OneRouteForAll, PartsType
    <3> QED
      BY <1>2, <1>4, <1>5, <2>1, <2>2, <3>1, ForcedSound, ForcedType DEF CollectForm
  <2>3. CASE Ends(id, Forced(b))
    BY <1>2, <1>4, <1>5, <2>3, ForcedSound, ForcedType DEF CollectForm
  <2>4. CASE b.items # <<>> /\ Goes(id, Begun(Forced(b), ItemTurn(b)))
    <3> DEFINE c == Forced(b)
    <3>1. c \in Objects /\ c.items = b.items /\ Sound(c, fate, route) /\ Own(c) = Own(b)
      BY <1>2, ForcedSound, ForcedType
    <3>2. c.items = b.items => ItemTurn(c) = ItemTurn(b)
      BY DEF ItemTurn
    <3> HIDE DEF c
    <3>3. /\ Sound(Begun(c, ItemTurn(c)), fate, route) /\ Own(Begun(c, ItemTurn(c))) \subseteq Own(b)
          /\ Begun(c, ItemTurn(c)) \in Objects
      BY <2>4, <3>1, TurnsSound, TurnsType, BegunType
    <3>4. Goes(id, Begun(c, ItemTurn(c))) /\ fate' = fate
      BY <1>5, <2>4, <3>1, <3>2 DEF CollectForm, c
    <3> QED
      BY <1>4, <3>3, <3>4
  <2> QED
    BY <1>5, <2>2, <2>3, <2>4 DEF CollectForm
<1>6. CASE BatchForm(id, b)
  <2>1. /\ Sound(Begun(b, BatchTurn(b)), fate, route) /\ Own(Begun(b, BatchTurn(b))) \subseteq Own(b)
        /\ Begun(b, BatchTurn(b)) \in Objects
    BY <1>2, <1>6, TurnsSound, TurnsType, BegunType DEF BatchForm
  <2>2. Goes(id, Begun(b, BatchTurn(b))) \/ Ends(id, b)
    BY <1>6 DEF BatchForm
  <2>3. fate' = fate
    BY <1>6 DEF BatchForm
  <2> QED
    BY <1>2, <1>4, <2>1, <2>2, <2>3
<1>7. CASE ItemForm(id, b)
  <2>1. fate' = fate
    BY <1>7 DEF ItemForm
  <2>2. CASE Ends(id, b)
    BY <1>2, <1>4, <2>1, <2>2
  <2>3. ASSUME NEW t \in {ItemTurn(b), SummaryTurn(b)}, b.items # <<>>, Goes(id, Begun(b, t))
        PROVE  WholeInv'
    <3>1. /\ Sound(Begun(b, t), fate, route) /\ Own(Begun(b, t)) \subseteq Own(b)
          /\ Begun(b, t) \in Objects
      <4>1. t \in Turns
        BY <1>2, <2>3, TurnsType
      <4>2. Sound(Begun(b, t), fate, route) /\ Own(Begun(b, t)) \subseteq Own(b)
        BY <1>2, <2>3, TurnsSound
      <4> QED
        BY <1>2, <4>1, <4>2, BegunType
    <3> QED
      BY <1>4, <2>1, <2>3, <3>1
  <2> QED
    BY <1>7, <2>2, <2>3 DEF ItemForm
<1>8. CASE FailForm(id, b)
  BY <1>2, <1>4, <1>8 DEF FailForm
<1>9. CASE EndForm(id, b)
  <2> DEFINE g == [m \in Msgs |-> IF m \in InSeq(b.turn.shown) THEN "shown"
                                  ELSE IF m \in InSeq(b.turn.lines) THEN "summarized"
                                  ELSE fate[m]]
             left == Working(AfterTurn(b))
  <2>1. fate' = g
    BY <1>9 DEF EndForm
  <2>2. PICK c \in {left, NoQueue} : Registry'.q = [Registry.q EXCEPT ![id] = c]
    <3>1. CASE Goes(id, left)
      BY <3>1 DEF Goes, Put
    <3>2. CASE Ends(id, AfterTurn(b)) /\ ~Backlog(AfterTurn(b))
      <4>1. Finish(Registry, id, AfterTurn(b)) = Delete(Registry, id)
        BY <1>2, <3>2, FinishCases, AfterTurnEffect
      <4> QED
        BY <3>2, <4>1 DEF Ends, Delete
    <3> QED
      BY <1>9, <3>1, <3>2 DEF EndForm
  <2>3. Sound(left, g, route) /\ Own(left) \subseteq Own(b) /\ left \in Objects
    <3>1. left \in Objects
      BY <1>2, AfterTurnEffect, BegunType, NothingType
    <3>2. Sound(left, g, route) /\ InSeq(left.items) \subseteq InSeq(b.items)
          /\ Own(left) = InSeq(left.items)
      BY <1>2, AfterTurnSound
    <3> QED
      BY <3>1, <3>2 DEF Own
  <2> HIDE DEF left
  <2>4. c \in Objects /\ Sound(c, g, route) /\ Own(c) \subseteq Own(b)
    BY <2>2, <2>3, NothingSound, NothingType
  <2>5. \A m \in Msgs : fate[m] \in Past => g[m] \in Past
    BY DEF Past
  <2>6. \A j \in QueueIds \ {id} :
          /\ Own(q[j]) \cap Own(b) = {} /\ q[j] \in Objects /\ Sound(q[j], fate, route)
    BY <1>1, <1>2, RegistryType DEF Whole
  <2>7. ASSUME NEW j \in QueueIds \ {id}
        PROVE  /\ \A m \in InSeq(q[j].items) : g[m] = "queued"
               /\ \A m \in InSeq(q[j].turn.shown) : g[m] \notin Unseen \cup {"shown"}
    <3>1. \A m \in Own(q[j]) : m \in Msgs /\ m \notin InSeq(b.turn.shown)
      BY <2>6, PartsType DEF Own
    <3>2. \A m \in Own(q[j]) : g[m] = fate[m] \/ (m \in InSeq(b.turn.lines) /\ g[m] = "summarized")
      BY <3>1
    <3>3. \A m \in InSeq(b.turn.lines) : fate[m] # "queued"
      BY <1>2 DEF Sound, Past
    <3> QED
      BY <2>6, <3>1, <3>2, <3>3 DEF Sound, Own, Unseen
  <2>8. g \in [Msgs -> Fates]
    BY <2>1 DEF TypeInv
  <2>9. Registry' \in Registries
    BY DEF TypeInv
  <2>10. \A j \in QueueIds \ {id} :
           /\ Own(c) \cap Own(Registry.q[j]) = {}
           /\ \A m \in InSeq(Registry.q[j].items) : g[m] = "queued"
           /\ \A m \in InSeq(Registry.q[j].turn.shown) : g[m] \notin Unseen \cup {"shown"}
    BY <1>2, <2>4, <2>6, <2>7
  <2>11. \A m \in Msgs : g[m] \in Unseen <=> fate[m] \in Unseen
    <3>1. \A m \in InSeq(b.turn.shown) \cup InSeq(b.turn.lines) : fate[m] \notin Unseen
      BY <1>2 DEF Sound, Past, Unseen
    <3> QED
      BY <3>1 DEF Unseen
  <2> HIDE DEF g
  <2>12. Whole(Registry', g, route)
    <3>1. Replaces(Registry, Registry', id, c, fate, g, route, route)
      BY <2>2, <2>4, <2>5, <2>10 DEF Replaces
    <3> QED
      BY <1>1, <1>2, <2>4, <2>8, <2>9, <3>1, StepWhole
  <2>13. Remembered(g, accepted)
    BY <1>1, <2>11, RememberedKept
  <2> QED
    BY <1>3, <2>1, <2>12, <2>13 DEF WholeInv
<1> QED
  BY <1>3, <1>5, <1>6, <1>7, <1>8, <1>9

\* Clearing the session's queue.
LEMMA ClearWhole ==
  ASSUME WholeInv, TypeInv', Clear
  PROVE  WholeInv'
<1> DEFINE b == q[current]
           c == IF b.at = "off" THEN NoQueue ELSE Emptied(b)
           g == [m \in Msgs |-> IF m \in InSeq(b.items) \cup InSeq(b.lines)
                                THEN "cleared" ELSE fate[m]]
<1>1. TypeInv /\ Whole(Registry, fate, route) /\ Remembered(fate, accepted)
  BY DEF WholeInv
<1>2. /\ current \in QueueIds /\ c \in Objects
      /\ q' = [q EXCEPT ![current] = c]
      /\ c.items = <<>> /\ c.lines = <<>>
      /\ c = NoQueue \/ (b.at # "off" /\ c.at = b.at /\ c.turn = b.turn)
      /\ fate' = g /\ accepted' = accepted /\ route' = route
  BY <1>1, ClearEffect
<1>3. /\ b \in Objects /\ Sound(b, fate, route) /\ Registry \in Registries /\ Registry.q = q
      /\ fate \in [Msgs -> Fates]
  BY <1>1, <1>2, RegistryType DEF Whole, TypeInv
<1> HIDE DEF c
<1>4. Registry'.q = [Registry.q EXCEPT ![current] = c] /\ Registry' \in Registries
  BY <1>2, <1>3 DEF Registry, TypeInv
<1>5. \A m \in Msgs : fate[m] \in Past => g[m] \in Past
  BY DEF Past
<1>6. Sound(c, g, route) /\ Own(c) \subseteq Own(b)
  <2>1. CASE c = NoQueue
    BY <2>1, NothingSound
  <2>2. CASE c.at = b.at /\ c.turn = b.turn
    <3>1. Takes(c) /\ Distinct(c.items) /\ InSeq(c.items) = {} /\ InSeq(c.lines) = {}
      <4>1. Len(c.items) = 0
        BY <1>2, EmptySeq
      <4> QED
        BY <1>2, <4>1, NothingIn DEF Takes
    <3>2. Routed(b, route) => Routed(c, route)
      BY <1>2, <2>2, NothingIn DEF Routed
    <3>3. \A m \in InSeq(c.turn.lines) : g[m] \in Past
      BY <1>3, <1>5, <2>2, PartsType DEF Sound
    <3>4. \A m \in InSeq(c.turn.shown) : g[m] \notin Unseen \cup {"shown"}
      BY <1>3, <2>2, PartsType DEF Sound, Unseen
    <3>5. Sound(c, g, route)
      BY <1>3, <2>2, <3>1, <3>2, <3>3, <3>4 DEF Sound
    <3> QED
      BY <2>2, <3>1, <3>5 DEF Own
  <2> QED
    BY <1>2, <2>1, <2>2
<1>7. \A j \in QueueIds \ {current} :
        Own(q[j]) \cap Own(b) = {} /\ q[j] \in Objects /\ Sound(q[j], fate, route)
  BY <1>1, <1>2, RegistryType DEF Whole
<1>8. ASSUME NEW j \in QueueIds \ {current}
      PROVE  /\ \A m \in InSeq(q[j].items) : g[m] = "queued"
             /\ \A m \in InSeq(q[j].turn.shown) : g[m] \notin Unseen \cup {"shown"}
  <2>1. \A m \in Own(q[j]) : m \in Msgs /\ m \notin InSeq(b.items)
    BY <1>7, PartsType DEF Own
  <2>2. \A m \in Own(q[j]) : g[m] = fate[m] \/ (m \in InSeq(b.lines) /\ g[m] = "cleared")
    BY <2>1
  <2>3. \A m \in InSeq(b.lines) : fate[m] # "queued"
    BY <1>3 DEF Sound, Past
  <2> QED
    BY <1>7, <2>1, <2>2, <2>3 DEF Sound, Own, Unseen
<1>9. g \in [Msgs -> Fates]
  BY <1>2 DEF TypeInv
<1>10. \A j \in QueueIds \ {current} :
         /\ Own(c) \cap Own(Registry.q[j]) = {}
         /\ \A m \in InSeq(Registry.q[j].items) : g[m] = "queued"
         /\ \A m \in InSeq(Registry.q[j].turn.shown) : g[m] \notin Unseen \cup {"shown"}
  BY <1>3, <1>6, <1>7, <1>8
<1>11. \A m \in Msgs : g[m] \in Unseen <=> fate[m] \in Unseen
  <2>1. \A m \in InSeq(b.items) \cup InSeq(b.lines) : fate[m] \notin Unseen
    BY <1>3 DEF Sound, Past, Unseen
  <2> QED
    BY <2>1 DEF Unseen
<1> HIDE DEF b, g
<1>12. Whole(Registry', g, route)
  <2>1. PICK id \in QueueIds, e \in Objects : id = current /\ e = c
    BY <1>2
  <2>2. Registry \in Registries /\ fate \in [Msgs -> Fates] /\ Whole(Registry, fate, route)
    BY <1>1, <1>3
  <2>3. Registry' \in Registries /\ Registry'.q = [Registry.q EXCEPT ![id] = e] /\ Sound(e, g, route)
    BY <1>4, <1>6, <2>1
  <2>4. \A j \in QueueIds \ {id} : Own(e) \cap Own(Registry.q[j]) = {}
    BY <1>10, <2>1
  <2>5. \A j \in QueueIds \ {id} :
          /\ \A m \in InSeq(Registry.q[j].items) : g[m] = "queued"
          /\ \A m \in InSeq(Registry.q[j].turn.shown) : g[m] \notin Unseen \cup {"shown"}
    BY <1>10, <2>1
  <2> QED
    <3>1. Replaces(Registry, Registry', id, e, fate, g, route, route)
      BY <1>5, <2>3, <2>4, <2>5 DEF Replaces
    <3> QED
      BY <1>9, <2>2, <2>3, <3>1, StepWhole
<1>13. Remembered(g, accepted)
  BY <1>1, <1>11, RememberedKept
<1> QED
  BY <1>2, <1>12, <1>13 DEF WholeInv

\* Every step keeps all objects sound and apart, and the log true.
LEMMA WholeStep ==
  ASSUME WholeInv, [Next]_vars
  PROVE  WholeInv'
<1>1. TypeInv /\ TypeInv'
  BY TypeStep DEF WholeInv
<1>2. CASE UNCHANGED vars
  BY <1>1, <1>2 DEF vars, log, WholeInv, Registry
<1>3. CASE RunStarts \/ RunEnds \/ Finalize
  <2>1. Registry' \in {Registry, Schedule(Registry)} /\ UNCHANGED <<accepted, route, fate>>
    BY <1>1, <1>3, RunEffect
  <2>2. Whole(Registry, fate, route) /\ Whole(Schedule(Registry), fate, route)
    BY <1>1, ScheduleWhole DEF WholeInv, TypeInv
  <2>3. Whole(Registry', fate', route')
    BY <2>1, <2>2
  <2> QED
    BY <1>1, <2>1, <2>3 DEF WholeInv
<1>4. ASSUME NEW n \in Msgs, Forgets(n) PROVE WholeInv'
  BY <1>1, <1>4 DEF Forgets, WholeInv, Registry
<1> QED
  BY <1>1, <1>2, <1>3, <1>4, EnqueueWhole, DrainWhole, ClearWhole DEF Next

\* At first no object is in use and nothing is accepted.
LEMMA WholeInit ==
  ASSUME Init
  PROVE  WholeInv
<1>1. TypeInv /\ \A id \in QueueIds : q[id] = NoQueue
  BY InitEffect
<1>2. Whole(Registry, fate, route)
  BY <1>1, NothingSound, RegistryType DEF Whole
<1>3. Remembered(fate, accepted)
  BY NothingIn DEF Init, Remembered, Unseen
<1> QED
  BY <1>1, <1>2, <1>3 DEF WholeInv

\* In every reachable state all objects are sound, no delivery is in two of them, and
\* the log has exactly the deliveries that were accepted.
THEOREM WholeInvariance == Spec => []WholeInv
<1>1. Init => WholeInv
  BY WholeInit
<1>2. WholeInv /\ [Next]_vars => WholeInv'
  BY WholeStep
<1> QED
  BY <1>1, <1>2, PTL DEF Spec

\* No two deliveries in S are of one message.
Singular(S) == \A m, n \in S : MessageOf[m] = MessageOf[n] => m = n

\* Neither the items of an object nor its prompt have two of one message.
Apart(b) == Singular(InSeq(b.items)) /\ Singular(InSeq(b.turn.shown))

AllApart(reg) == \A id \in QueueIds : Apart(reg.q[id])

\* Of the deliveries of one message, all but the last one accepted are forgotten.
LastRemembered ==
  \A i, j \in 1 .. Len(accepted) :
    i < j /\ MessageOf[accepted[i]] = MessageOf[accepted[j]] => accepted[i] \notin recent

\* The inductive invariant of ShownOnce.
OnceInv == WholeInv /\ AllApart(Registry) /\ LastRemembered

\* An object has no two deliveries of a message if its items and its prompt are from
\* those of one that has none.
LEMMA ApartKept ==
  ASSUME NEW b, NEW c, Apart(b), InSeq(c.items) \subseteq InSeq(b.items),
         \/ InSeq(c.turn.shown) \subseteq InSeq(b.items)
         \/ InSeq(c.turn.shown) \subseteq InSeq(b.turn.shown)
  PROVE  Apart(c)
  BY DEF Apart, Singular

\* An object that holds nothing has none.
LEMMA NothingApart == Apart(NoQueue)
  BY NothingSound DEF Apart, Singular, Own

\* Putting and deleting objects, and scheduling a drain.
LEMMA PutApart ==
  ASSUME NEW reg \in Registries, AllApart(reg), NEW id \in QueueIds, NEW c \in Objects, Apart(c)
  PROVE  AllApart(Put(reg, id, c)) /\ AllApart(Delete(reg, id))
  BY PutType, DeleteType, NothingApart DEF AllApart

\* Scheduling a drain wakes an object or deletes it.
LEMMA ScheduleApart ==
  ASSUME NEW reg \in Registries, AllApart(reg)
  PROVE  AllApart(Schedule(reg))
<1>1. CASE Schedule(reg) = reg
  BY <1>1
<1>2. ASSUME NEW id \in QueueIds,
             Schedule(reg) = Put(reg, id, Woken(reg.q[id])) \/ Schedule(reg) = Delete(reg, id)
      PROVE  AllApart(Schedule(reg))
  <2>1. reg.q[id] \in Objects /\ Apart(reg.q[id])
    BY DEF Registries, AllApart
  <2>2. Woken(reg.q[id]) \in Objects /\ Apart(Woken(reg.q[id]))
    BY <2>1, WokenType DEF Apart
  <2> QED
    BY <1>2, <2>2, PutApart
<1> QED
  BY <1>1, <1>2, ScheduleCases

\* So does the end of a drain.
LEMMA FinishApart ==
  ASSUME NEW reg \in Registries, AllApart(reg), NEW id \in QueueIds, NEW b \in Objects, Apart(b)
  PROVE  AllApart(Finish(reg, id, b))
<1>1. Parked(b) \in Objects /\ Parked(b).items = b.items /\ Parked(b).turn = NoTurn
  BY WokenType
<1>2. Apart(Parked(b))
  BY <1>1, ApartKept, IdleSound
<1>3. Put(reg, id, Parked(b)) \in Registries /\ AllApart(Put(reg, id, Parked(b)))
  BY <1>1, <1>2, PutApart, PutType
<1> QED
  BY <1>3, FinishCases, ScheduleApart, PutApart

\* What a drain makes of its object has no two deliveries of a message either.
LEMMA DrainApart ==
  ASSUME NEW b \in Objects, Apart(b)
  PROVE  /\ Apart(Forced(b)) /\ Apart(Collecting(b))
         /\ Apart(AfterTurn(b)) /\ Apart(Working(AfterTurn(b)))
         /\ Apart(Begun(b, BatchTurn(b)))
         /\ b.items # <<>> => /\ Apart(Begun(b, ItemTurn(b))) /\ Apart(Begun(b, SummaryTurn(b)))
                             /\ Apart(Begun(Forced(b), ItemTurn(b)))
<1>1. b.items \in Seq(Msgs) /\ b.turn.take \in Nat /\ Len(b.items) \in Nat
  BY PartsType
<1>2. Apart(Forced(b)) /\ Apart(Collecting(b)) /\ Forced(b) \in Objects
  BY ForcedType DEF Apart
<1>3. Apart(AfterTurn(b)) /\ Apart(Working(AfterTurn(b)))
  <2> DEFINE n == b.turn.take
             s == SubSeq(b.items, n + 1, Len(b.items))
             c == AfterTurn(b)
             w == Working(c)
  <2>1. c \in Objects /\ c.items = s /\ c.turn = b.turn
    BY AfterTurnEffect
  <2>2. InSeq(s) \subseteq InSeq(b.items)
    <3>1. \A i \in 1 .. Len(s) : i + n \in 1 .. Len(b.items) /\ s[i] = b.items[i + n]
      BY <1>1, SuffixProperties
    <3> HIDE DEF s, n
    <3> QED
      BY <3>1 DEF InSeq
  <2> HIDE DEF s, c
  <2>3. w.items = s /\ w.turn = NoTurn
    BY <2>1, BegunType, NothingType
  <2>4. InSeq(NoTurn.shown) = {}
    BY NothingIn DEF NoTurn
  <2> HIDE DEF w
  <2>5. Apart(c) /\ Apart(w)
    BY <2>1, <2>2, <2>3, <2>4, ApartKept
  <2> QED
    BY <2>5 DEF c, w
<1>4. ASSUME NEW c \in Objects, c.items = b.items, NEW t \in Turns,
             InSeq(t.shown) \subseteq InSeq(b.items)
      PROVE  Apart(Begun(c, t))
  <2>1. Begun(c, t).items = b.items /\ Begun(c, t).turn = t
    BY <1>4, BegunType
  <2> QED
    BY <1>4, <2>1, ApartKept
<1>5. Apart(Begun(b, BatchTurn(b)))
  <2>1. BatchTurn(b) \in Turns /\ BatchTurn(b).shown = b.items
    BY TurnsType DEF BatchTurn
  <2> QED
    BY <1>4, <2>1
<1>6. ASSUME b.items # <<>>
      PROVE  /\ Apart(Begun(b, ItemTurn(b))) /\ Apart(Begun(b, SummaryTurn(b)))
             /\ Apart(Begun(Forced(b), ItemTurn(b)))
  <2>1. SummaryTurn(b) \in Turns /\ SummaryTurn(b).shown = <<>> /\ ItemTurn(b) \in Turns
    BY <1>6, TurnsType DEF SummaryTurn
  <2>2. InSeq(SummaryTurn(b).shown) = {}
    BY <2>1, NothingIn
  <2>3. InSeq(ItemTurn(b).shown) \subseteq InSeq(b.items)
    <3>1. PICK h : h = Head(b.items)
      OBVIOUS
    <3>2. Len(b.items) >= 1 /\ b.items[1] = h
      BY <1>1, <1>6, <3>1, EmptySeq
    <3>3. ItemTurn(b).shown = <<h>> /\ Len(<<h>>) = 1 /\ <<h>>[1] = h
      BY <3>1, ItemTurnParts
    <3> QED
      BY <1>1, <3>2, <3>3 DEF InSeq
  <2> QED
    BY <1>2, <1>4, <2>1, <2>2, <2>3, ForcedType
<1> QED
  BY <1>2, <1>3, <1>5, <1>6

\* A delivery that is accepted is of no message of the object, nor of one remembered.
LEMMA EnqueueOnce ==
  ASSUME OnceInv, WholeInv', NEW m \in Msgs, NEW r \in Routes, NEW s \in Settings,
         NEW id \in Target, NEW sees \in BOOLEAN, Enqueue(m, r, s, id, sees)
  PROVE  OnceInv'
<1> DEFINE b == Refreshed(s, id)
           c == Enqueued(m, b)
           reg == [current |-> id, q |-> [q EXCEPT ![id] = c]]
<1>1. /\ TypeInv /\ AllApart(Registry) /\ Remembered(fate, accepted) /\ Registry.q = q
      /\ Registry \in Registries /\ LastRemembered /\ WholeInv
      /\ accepted \in Seq(Msgs) /\ Len(accepted) \in Nat
  BY RegistryType, LenProperties DEF OnceInv, WholeInv, TypeInv
<1>2. /\ reg \in Registries /\ Registry' \in {reg, Schedule(reg)} /\ fate[m] = "new"
      /\ \/ accepted' = accepted /\ recent' = recent
         \/ /\ ~Deduplicated(m, b)
            /\ accepted' = Append(accepted, m) /\ recent' = recent \cup {m}
  BY <1>1, EnqueueEffect
<1>3. id \in QueueIds /\ b \in Objects /\ Sound(b, fate, route)
  BY <1>1, RefreshedType, RefreshedSound
<1>4. Apart(b)
  <2>1. Apart(q[id])
    BY <1>1, <1>3 DEF AllApart
  <2>2. \/ b.items = <<>> /\ b.turn = NoTurn
        \/ b.items = q[id].items /\ b.turn = q[id].turn
    BY <1>1, RefreshedType
  <2> HIDE DEF b
  <2>3. CASE b.items = <<>> /\ b.turn = NoTurn
    BY <2>3, NothingIn, IdleSound DEF Apart, Singular
  <2>4. CASE b.items = q[id].items /\ b.turn = q[id].turn
    BY <2>1, <2>4 DEF Apart
  <2> QED
    BY <2>2, <2>3, <2>4
<1>5. c \in Objects /\ c.turn = b.turn
      /\ (Deduplicated(m, b) \/ Refuses(b) => c.items = b.items)
  BY <1>3, EnqueuedType
<1>6. ~Deduplicated(m, b) /\ ~Refuses(b) => c = Accept(m, b)
  BY DEF Enqueued
<1>7. reg.q = [q EXCEPT ![id] = c]
  OBVIOUS
<1> HIDE DEF b, c, reg
<1>8. Apart(c)
  <2>1. CASE Deduplicated(m, b) \/ Refuses(b)
    BY <1>4, <1>5, <2>1 DEF Apart
  <2>2. CASE ~Deduplicated(m, b) /\ ~Refuses(b)
    <3>1. m \notin InSeq(b.items) /\ Distinct(b.items)
      BY <1>2, <1>3 DEF Sound
    <3>2. InSeq(c.items) \subseteq InSeq(b.items) \cup {m}
      BY <1>3, <1>6, <2>2, <3>1, AcceptedItems
    <3>3. \A n \in InSeq(b.items) : MessageOf[n] # MessageOf[m]
      BY <2>2 DEF Deduplicated
    <3>4. Singular(InSeq(b.items)) /\ Singular(InSeq(c.turn.shown))
      BY <1>4, <1>5 DEF Apart
    <3>5. Singular(InSeq(c.items))
      BY <3>2, <3>3, <3>4 DEF Singular
    <3> QED
      BY <3>4, <3>5 DEF Apart
  <2> QED
    BY <2>1, <2>2
<1>9. AllApart(Registry')
  <2>1. \A j \in QueueIds : reg.q[j] = IF j = id THEN c ELSE q[j]
    BY <1>1, <1>3, <1>7, RegistryType
  <2>2. AllApart(reg)
    BY <1>1, <1>8, <2>1 DEF AllApart
  <2> QED
    BY <1>2, <2>2, ScheduleApart
<1>10. LastRemembered'
  <2>1. CASE accepted' = accepted /\ recent' = recent
    BY <1>1, <2>1 DEF LastRemembered
  <2>2. CASE /\ ~Deduplicated(m, b)
             /\ accepted' = Append(accepted, m) /\ recent' = recent \cup {m}
    <3> DEFINE n == Len(accepted)
               log2 == Append(accepted, m)
    <3>1. /\ Len(log2) = n + 1 /\ n \in Nat /\ log2[n + 1] = m
          /\ \A i \in 1 .. n : log2[i] = accepted[i]
      BY <1>1, AppendProperties
    <3>2. \A i \in 1 .. n : accepted[i] # m
      BY <1>1, <1>2 DEF Remembered, Unseen, InSeq
    <3>3. \A i \in 1 .. n : MessageOf[accepted[i]] = MessageOf[m] => accepted[i] \notin recent
      BY <2>2 DEF Deduplicated
    <3>4. accepted' = log2 /\ recent' = recent \cup {m}
      BY <2>2
    <3> HIDE DEF n, log2
    <3>5. ASSUME NEW i \in 1 .. n + 1, NEW j \in 1 .. n + 1, i < j,
                 MessageOf[log2[i]] = MessageOf[log2[j]]
          PROVE  log2[i] \notin recent \cup {m}
      <4>1. i \in 1 .. n /\ log2[i] = accepted[i] /\ accepted[i] # m
        BY <3>1, <3>2, <3>5
      <4>2. CASE j = n + 1
        BY <3>1, <3>3, <3>5, <4>1, <4>2
      <4>3. CASE j # n + 1
        <5>1. j \in 1 .. n /\ log2[j] = accepted[j]
          BY <3>1, <4>3
        <5> QED
          BY <1>1, <3>5, <4>1, <5>1 DEF LastRemembered, n
      <4> QED
        BY <4>2, <4>3
    <3> QED
      BY <3>1, <3>4, <3>5 DEF LastRemembered
  <2> QED
    BY <1>2, <2>1, <2>2
<1> QED
  BY <1>9, <1>10 DEF OnceInv

\* A step of a drain adds nothing.
LEMMA DrainOnce ==
  ASSUME OnceInv, WholeInv', NEW id \in QueueIds, DrainStep(id)
  PROVE  OnceInv'
<1> DEFINE b == q[id]
<1>1. /\ TypeInv /\ AllApart(Registry) /\ LastRemembered
      /\ Registry \in Registries /\ b \in Objects /\ Apart(b)
  BY RegistryType DEF OnceInv, WholeInv, TypeInv, AllApart
<1>2. /\ \/ CollectForm(id, b) \/ BatchForm(id, b) \/ ItemForm(id, b)
         \/ EndForm(id, b) \/ FailForm(id, b)
      /\ accepted' = accepted /\ recent' = recent
  BY <1>1, DrainEffect
<1> HIDE DEF b
<1>3. ASSUME NEW c \in Objects, Apart(c), Goes(id, c) \/ Ends(id, c) PROVE AllApart(Registry')
  BY <1>1, <1>3, PutApart, FinishApart DEF Goes, Ends
<1>4. /\ Apart(Forced(b)) /\ Apart(Collecting(b))
      /\ Apart(AfterTurn(b)) /\ Apart(Working(AfterTurn(b)))
      /\ Apart(Begun(b, BatchTurn(b)))
      /\ b.items # <<>> => /\ Apart(Begun(b, ItemTurn(b))) /\ Apart(Begun(b, SummaryTurn(b)))
                          /\ Apart(Begun(Forced(b), ItemTurn(b)))
  BY <1>1, DrainApart
<1>5. /\ Forced(b) \in Objects /\ Collecting(b) \in Objects
      /\ AfterTurn(b) \in Objects /\ Working(AfterTurn(b)) \in Objects
      /\ Begun(b, BatchTurn(b)) \in Objects
      /\ b.items # <<>> => /\ Begun(b, ItemTurn(b)) \in Objects
                          /\ Begun(b, SummaryTurn(b)) \in Objects
                          /\ Begun(Forced(b), ItemTurn(b)) \in Objects
  <2>1. Forced(b) \in Objects /\ Collecting(b) \in Objects /\ AfterTurn(b) \in Objects
    BY <1>1, ForcedType, AfterTurnEffect
  <2>2. \A c \in Objects, t \in Turns : Begun(c, t) \in Objects /\ Working(c) \in Objects
    BY BegunType
  <2> QED
    BY <1>1, <2>1, <2>2, TurnsType
<1>6. AllApart(Registry')
  <2>1. CASE CollectForm(id, b)
    BY <1>3, <1>4, <1>5, <2>1 DEF CollectForm
  <2>2. CASE BatchForm(id, b)
    BY <1>1, <1>3, <1>4, <1>5, <2>2 DEF BatchForm
  <2>3. CASE ItemForm(id, b)
    BY <1>1, <1>3, <1>4, <1>5, <2>3 DEF ItemForm
  <2>4. CASE EndForm(id, b)
    BY <1>3, <1>4, <1>5, <2>4 DEF EndForm
  <2>5. CASE FailForm(id, b)
    BY <1>1, <1>3, <2>5 DEF FailForm
  <2> QED
    BY <1>2, <2>1, <2>2, <2>3, <2>4, <2>5
<1>7. LastRemembered'
  BY <1>1, <1>2 DEF LastRemembered
<1> QED
  BY <1>6, <1>7 DEF OnceInv

\* Clearing empties an object or deletes it.
LEMMA ClearOnce ==
  ASSUME OnceInv, WholeInv', Clear
  PROVE  OnceInv'
<1> DEFINE b == q[current]
           c == IF b.at = "off" THEN NoQueue ELSE Emptied(b)
<1>1. /\ TypeInv /\ AllApart(Registry) /\ LastRemembered /\ Registry.q = q
      /\ q \in [QueueIds -> Objects]
  BY RegistryType DEF OnceInv, WholeInv
<1>2. /\ current \in QueueIds /\ q' = [q EXCEPT ![current] = c] /\ c.items = <<>>
      /\ c = NoQueue \/ c.turn = b.turn
      /\ accepted' = accepted /\ recent' = recent
  BY <1>1, ClearEffect
<1>3. Apart(b)
  BY <1>1, <1>2 DEF AllApart
<1> HIDE DEF b, c
<1>4. Apart(c)
  <2>1. InSeq(c.items) = {}
    BY <1>2, NothingIn
  <2> QED
    BY <1>2, <1>3, <2>1, ApartKept, NothingApart
<1>5. Registry'.q = q'
  BY DEF Registry
<1>6. AllApart(Registry')
  BY <1>1, <1>2, <1>4, <1>5 DEF AllApart
<1>7. LastRemembered'
  BY <1>1, <1>2 DEF LastRemembered
<1> QED
  BY <1>6, <1>7 DEF OnceInv

\* Every step keeps the deliveries of a message apart.
LEMMA OnceStep ==
  ASSUME OnceInv, [Next]_vars
  PROVE  OnceInv'
<1>1. /\ WholeInv /\ WholeInv' /\ TypeInv /\ AllApart(Registry) /\ LastRemembered
      /\ Registry \in Registries
  BY WholeStep DEF OnceInv, WholeInv, TypeInv
<1>2. CASE UNCHANGED vars
  BY <1>1, <1>2 DEF vars, log, OnceInv, Registry, LastRemembered
<1>3. CASE RunStarts \/ RunEnds \/ Finalize
  <2>1. Registry' \in {Registry, Schedule(Registry)} /\ UNCHANGED <<accepted, recent>>
    BY <1>1, <1>3, RunEffect
  <2>2. AllApart(Registry')
    BY <1>1, <2>1, ScheduleApart
  <2>3. LastRemembered'
    BY <1>1, <2>1 DEF LastRemembered
  <2> QED
    BY <1>1, <2>2, <2>3 DEF OnceInv
<1>4. ASSUME NEW n \in Msgs, Forgets(n) PROVE OnceInv'
  BY <1>1, <1>4 DEF Forgets, OnceInv, Registry, LastRemembered
<1> QED
  BY <1>1, <1>2, <1>3, <1>4, EnqueueOnce, DrainOnce, ClearOnce DEF Next

\* ShownOnce: no delivery is put into a turn's prompt twice, or again after a turn that
\* showed it has succeeded, and no prompt shows two deliveries of a message; one that
\* was accepted is accepted again only once its id is forgotten.  So it is whatever is
\* redelivered, forgotten, dropped or cleared, and whichever turns fail.
THEOREM EveryMessageShownOnce == Spec => []ShownOnce
<1>1. Init => OnceInv
  <2> SUFFICES ASSUME Init PROVE OnceInv
    OBVIOUS
  <2>1. WholeInv /\ (\A id \in QueueIds : q[id] = NoQueue) /\ Registry.q = q
    BY InitEffect, WholeInit DEF Registry
  <2>2. LastRemembered
    BY DEF Init, LastRemembered
  <2> QED
    BY <2>1, <2>2, NothingApart DEF OnceInv, AllApart
<1>2. OnceInv /\ [Next]_vars => OnceInv'
  BY OnceStep
<1>3. OnceInv => ShownOnce
  <2> SUFFICES ASSUME OnceInv PROVE ShownOnce
    OBVIOUS
  <2>1. ASSUME NEW id \in QueueIds
        PROVE  LET shown == q[id].turn.shown
               IN  /\ \A i, j \in 1 .. Len(shown) :
                        i # j => MessageOf[shown[i]] # MessageOf[shown[j]]
                   /\ \A i \in 1 .. Len(shown) : fate[shown[i]] # "shown"
    <3>1. Sound(q[id], fate, route) /\ Apart(q[id])
      BY RegistryType DEF OnceInv, WholeInv, Whole, AllApart
    <3> QED
      BY <3>1 DEF Sound, Distinct, InSeq, Apart, Singular
  <2> QED
    BY <2>1 DEF ShownOnce, OnceInv, LastRemembered
<1> QED
  BY <1>1, <1>2, <1>3, PTL DEF Spec

\* OneDestination: a collected prompt has one destination, when nothing is enqueued
\* between the check of the destinations and the batch.
THEOREM OneDestinationEach == "interpose" \notin Races => (Spec => []OneDestination)
<1> SUFFICES ASSUME "interpose" \notin Races PROVE Spec => []OneDestination
  OBVIOUS
<1>1. WholeInv => OneDestination
  <2> SUFFICES ASSUME WholeInv, NEW id \in QueueIds
               PROVE  OneRoute(q[id].turn.shown, route)
    BY DEF OneDestination, OneRoute
  <2>1. Sound(q[id], fate, route)
    BY RegistryType DEF WholeInv, Whole
  <2> QED
    BY <2>1 DEF Sound, Routed
<1> QED
  BY <1>1, WholeInvariance, PTL

-----------------------------------------------------------------------------
(* Nothing is lost and nothing overtakes                                   *)

\* The prompt of the turn in flight shows the front of the items, which it takes.
Shows(b) ==
  /\ b.turn.take = Len(b.turn.shown)
  /\ \A i \in 1 .. Len(b.turn.shown) : i <= Len(b.items) /\ b.turn.shown[i] = b.items[i]

\* The items are in the order in which their messages were accepted.
InOrder(items, memory) ==
  \A a, c \in 1 .. Len(items), i, j \in 1 .. Len(memory) :
    memory[i] = items[a] /\ memory[j] = items[c] /\ a < c => i < j

\* No message is shown while one accepted before it waits.
NoneOvertakes(f, memory) ==
  \A i, j \in 1 .. Len(memory) :
    i < j /\ f[memory[i]] = "queued" => f[memory[j]] # "shown"

\* What holds of the registry's object: it has every message that waits and the line
\* of every dropped one, and the summary in flight has the lines of all of these.
Holds(b, f, memory) ==
  /\ \A m \in Msgs : f[m] = "queued" => m \in InSeq(b.items)
  /\ \A m \in Msgs : f[m] = "dropped" <=> m \in InSeq(b.lines)
  /\ b.dropped > 0 => b.mode = "collect"
  /\ Shows(b)
  /\ b.turn.summary => \A m \in Msgs : f[m] = "dropped" => m \in InSeq(b.turn.lines)
  /\ ~b.turn.summary => b.turn.lines = <<>>
  /\ InOrder(b.items, memory)

\* An object that holds nothing.
Empty(b) == b.items = <<>> /\ b.lines = <<>> /\ b.dropped = 0

\* No message waits and none has a line.
Gone(f) == \A m \in Msgs : f[m] \notin {"queued", "dropped"}

\* Every object but the registry's is empty, and none of them drains, except the only
\* object there is when it was cleared under its turn.
Kept(reg, f, memory) ==
  /\ \A j \in QueueIds \ {reg.current} :
       Empty(reg.q[j]) /\ (reg.q[j].at # "off" => reg.current = 0 /\ MaxQueues = 1)
  /\ reg.current = 0 => Gone(f)
  /\ reg.current \in QueueIds => Holds(reg.q[reg.current], f, memory)
  /\ NoneOvertakes(f, memory)

\* Object id, which is now c, is the registry's.
LEMMA KeptIn ==
  ASSUME NEW reg \in Registries, NEW next \in Registries, NEW id \in QueueIds, NEW c \in Objects,
         NEW f, NEW g, NEW memory, NEW memory2, Kept(reg, f, memory),
         next.current = id, reg.current \in {0, id}, next.q = [reg.q EXCEPT ![id] = c],
         Holds(c, g, memory2), NoneOvertakes(g, memory2)
  PROVE  Kept(next, g, memory2)
<1>1. \A j \in QueueIds : next.q[j] = IF j = id THEN c ELSE reg.q[j]
  BY DEF Registries
<1>2. 0 \notin QueueIds /\ (MaxQueues = 1 => QueueIds = {1})
  BY BoundsAssumption DEF QueueIds, BoundsAssumption
<1>3. \A j \in QueueIds \ {id} : Empty(next.q[j]) /\ ~(next.q[j].at # "off")
  BY <1>1, <1>2 DEF Kept
<1> QED
  BY <1>1, <1>2, <1>3 DEF Kept

\* Object id, which is now c, is none of the registry's, which has none.
LEMMA KeptOut ==
  ASSUME NEW reg \in Registries, NEW next \in Registries, NEW id \in QueueIds, NEW c \in Objects,
         NEW f, NEW g, NEW memory, Kept(reg, f, memory),
         next.current = 0, reg.current \in {0, id}, next.q = [reg.q EXCEPT ![id] = c],
         Empty(c), c.at = "off" \/ MaxQueues = 1, Gone(g), NoneOvertakes(g, memory)
  PROVE  Kept(next, g, memory)
<1>1. \A j \in QueueIds : next.q[j] = IF j = id THEN c ELSE reg.q[j]
  BY DEF Registries
<1>2. 0 \notin QueueIds
  BY BoundsAssumption DEF QueueIds, BoundsAssumption
<1>3. \A j \in QueueIds \ {id} :
        Empty(reg.q[j]) /\ (reg.q[j].at # "off" => reg.current = 0 /\ MaxQueues = 1)
  BY <1>2 DEF Kept
<1> QED
  BY <1>1, <1>2, <1>3 DEF Kept

\* Nothing waits when the registry's object has no backlog.
LEMMA NoBacklog ==
  ASSUME NEW b \in Objects, ~Backlog(b)
  PROVE  /\ Empty(b)
         /\ \A f, memory : Holds(b, f, memory) => Gone(f)
<1>1. b.items = <<>> /\ b.dropped = 0 /\ b.lines \in Seq(Msgs) /\ Len(b.lines) <= 0
  BY DEF Backlog, Objects, QueueRecord
<1>2. b.lines = <<>>
  <2>1. Len(b.lines) = 0
    BY <1>1, LenProperties
  <2> QED
    BY <1>1, <2>1, EmptySeq
<1> QED
  BY <1>1, <1>2, NothingIn DEF Empty, Holds, Gone

\* What an object holds does not depend on where its drain is.
LEMMA HoldsSame ==
  ASSUME NEW b \in Objects, NEW c \in Objects, NEW f, NEW memory, Holds(b, f, memory),
         c.items = b.items, c.lines = b.lines, c.dropped = b.dropped, c.mode = b.mode,
         c.turn = b.turn \/ c.turn = NoTurn
  PROVE  Holds(c, f, memory)
<1>1. CASE c.turn = b.turn
  BY <1>1 DEF Holds, Shows
<1>2. CASE c.turn = NoTurn
  <2>1. c.turn.take = Len(c.turn.shown) /\ ~c.turn.summary /\ c.turn.lines = <<>>
        /\ Len(c.turn.shown) = 0
    BY <1>2, IdleSound, EmptySeq DEF NoTurn
  <2> QED
    BY <2>1 DEF Holds, Shows
<1> QED
  BY <1>1, <1>2

\* Scheduling a drain, or deleting an object without backlog, loses nothing.
LEMMA ScheduleKept ==
  ASSUME NEW reg \in Registries, NEW f, NEW memory, Kept(reg, f, memory)
  PROVE  Kept(Schedule(reg), f, memory)
<1> DEFINE id == reg.current
<1>1. CASE Schedule(reg) = reg
  BY <1>1
<1>2. CASE id \in QueueIds /\ Schedule(reg) = Put(reg, id, Woken(reg.q[id]))
  <2>1. reg.q[id] \in Objects /\ Holds(reg.q[id], f, memory) /\ NoneOvertakes(f, memory)
    BY <1>2 DEF Registries, Kept
  <2>2. Woken(reg.q[id]) \in Objects /\ Holds(Woken(reg.q[id]), f, memory)
    BY <2>1, HoldsSame, WokenType
  <2>3. /\ Put(reg, id, Woken(reg.q[id])) \in Registries
        /\ Put(reg, id, Woken(reg.q[id])).current = id
        /\ Put(reg, id, Woken(reg.q[id])).q = [reg.q EXCEPT ![id] = Woken(reg.q[id])]
    BY <1>2, <2>2, PutType DEF Put
  <2> QED
    BY <1>2, <2>1, <2>2, <2>3, KeptIn
<1>3. CASE id \in QueueIds /\ ~Backlog(reg.q[id]) /\ Schedule(reg) = Delete(reg, id)
  <2>1. reg.q[id] \in Objects /\ Holds(reg.q[id], f, memory) /\ NoneOvertakes(f, memory)
    BY <1>3 DEF Registries, Kept
  <2>2. Gone(f)
    BY <1>3, <2>1, NoBacklog
  <2>3. NoQueue \in Objects /\ Empty(NoQueue) /\ NoQueue.at = "off"
    BY NothingType DEF Empty, NoQueue, EmptyQueue
  <2>4. /\ Delete(reg, id) \in Registries /\ Delete(reg, id).current = 0
        /\ Delete(reg, id).q = [reg.q EXCEPT ![id] = NoQueue]
    BY <1>3, DeleteType DEF Delete
  <2> QED
    BY <1>3, <2>1, <2>2, <2>3, <2>4, KeptOut
<1> QED
  BY <1>1, <1>2, <1>3, ScheduleCases

\* The end of a drain of the registry's object, or of the one that was cleared.
LEMMA FinishKept ==
  ASSUME NEW reg \in Registries, NEW id \in QueueIds, NEW b \in Objects,
         NEW f, NEW g, NEW memory, Kept(reg, f, memory), NoneOvertakes(g, memory),
         \/ reg.current = id /\ Holds(Parked(b), g, memory)
         \/ reg.current = 0 /\ Empty(b) /\ Gone(g)
  PROVE  Kept(Finish(reg, id, b), g, memory)
<1>1. Parked(b) \in Objects /\ (Backlog(Parked(b)) <=> Backlog(b))
  BY WokenType
<1>2. CASE Backlog(b) /\ Finish(reg, id, b) = Schedule(Put(reg, id, Parked(b)))
  <2>1. reg.current = id /\ Holds(Parked(b), g, memory)
    BY <1>2 DEF Empty, Backlog
  <2>2. /\ Put(reg, id, Parked(b)) \in Registries /\ Put(reg, id, Parked(b)).current = id
        /\ Put(reg, id, Parked(b)).q = [reg.q EXCEPT ![id] = Parked(b)]
    BY <1>1, <2>1, PutType DEF Put
  <2>3. Kept(Put(reg, id, Parked(b)), g, memory)
    BY <1>1, <2>1, <2>2, KeptIn
  <2> QED
    BY <1>2, <2>2, <2>3, ScheduleKept
<1>3. CASE ~Backlog(b) /\ Finish(reg, id, b) = Delete(reg, id)
  <2>1. Gone(g)
    BY <1>1, <1>3, NoBacklog
  <2>2. NoQueue \in Objects /\ Empty(NoQueue) /\ NoQueue.at = "off"
    BY NothingType DEF Empty, NoQueue, EmptyQueue
  <2>3. /\ Delete(reg, id) \in Registries /\ Delete(reg, id).current = 0
        /\ Delete(reg, id).q = [reg.q EXCEPT ![id] = NoQueue]
    BY <1>3, DeleteType DEF Delete
  <2> QED
    BY <1>3, <2>1, <2>2, <2>3, KeptOut
<1> QED
  BY <1>2, <1>3, FinishCases

\* The orders of events under which nothing is lost: the cap is not reached while a turn
\* is in flight, nor in a mode that does not collect, and there is one object at a time
\* when the queue may be cleared under a turn.
Quiet ==
  /\ Races \cap {"overflowInTurn", "overflowSingly"} = {}
  /\ MaxQueues = 1 \/ "clear" \notin Races

\* The inductive invariant of these two properties.
KeptInv == WholeInv /\ Kept(Registry, fate, accepted)

\* The prompts of the drain are what the object holds; there is no turn for the summary
\* alone, since nothing was dropped in a mode that does not collect.
LEMMA BegunHolds ==
  ASSUME NEW b \in Objects, NEW f, NEW memory, Holds(b, f, memory)
  PROVE  /\ b.items # <<>> => Holds(Begun(b, ItemTurn(b)), f, memory)
         /\ Holds(Begun(b, BatchTurn(b)), f, memory)
         /\ b.mode # "collect" => ~HasSummary(b)
<1>1. ASSUME NEW t \in Turns, t.take = Len(t.shown),
             \A i \in 1 .. Len(t.shown) : i <= Len(b.items) /\ t.shown[i] = b.items[i],
             t.summary => t.lines = b.lines, ~t.summary => t.lines = <<>>
      PROVE  Holds(Begun(b, t), f, memory)
  <2> DEFINE c == Begun(b, t)
  <2>1. c.items = b.items /\ c.lines = b.lines /\ c.dropped = b.dropped /\ c.mode = b.mode
        /\ c.turn = t
    BY BegunType
  <2> HIDE DEF c
  <2>2. Shows(c)
    BY <1>1, <2>1 DEF Shows
  <2>3. Holds(c, f, memory)
    BY <1>1, <2>1, <2>2 DEF Holds
  <2> QED
    BY <2>3 DEF c
<1>2. ASSUME b.items # <<>> PROVE Holds(Begun(b, ItemTurn(b)), f, memory)
  <2> DEFINE h == Head(b.items)
             t == ItemTurn(b)
  <2>1. t \in Turns /\ t.shown = <<h>> /\ t.take = 1 /\ t.lines = <<>> /\ ~t.summary
    BY <1>2, TurnsType, ItemTurnParts
  <2>2. Len(b.items) >= 1 /\ b.items[1] = h
    BY <1>2, PartsType, EmptySeq
  <2> HIDE DEF h, t
  <2>3. Len(t.shown) = 1 /\ t.shown[1] = h
    BY <2>1
  <2>4. Holds(Begun(b, t), f, memory)
    <3>1. \A i \in 1 .. Len(t.shown) : i = 1
      BY <2>3
    <3>2. \A i \in 1 .. Len(t.shown) : i <= Len(b.items) /\ t.shown[i] = b.items[i]
      BY <2>2, <2>3, <3>1
    <3> QED
      BY <1>1, <2>1, <2>3, <3>2
  <2> QED
    BY <2>4 DEF t
<1>3. Holds(Begun(b, BatchTurn(b)), f, memory)
  <2> DEFINE t == BatchTurn(b)
  <2>1. t \in Turns /\ t.shown = b.items /\ t.take = Len(b.items)
        /\ (t.summary => t.lines = b.lines) /\ (~t.summary => t.lines = <<>>)
    BY TurnsType DEF BatchTurn
  <2> HIDE DEF t
  <2>2. Holds(Begun(b, t), f, memory)
    BY <1>1, <2>1, PartsType
  <2> QED
    BY <2>2 DEF t
<1>4. b.mode # "collect" => ~HasSummary(b)
  BY DEF Holds, HasSummary
<1> QED
  BY <1>2, <1>3, <1>4

\* The front of the items is what a turn has shown, and the summary in flight has every
\* line: what is left still waits, in order.
LEMMA AfterTurnHolds ==
  ASSUME NEW b \in Objects, NEW f \in [Msgs -> Fates], NEW g, NEW memory \in Seq(Msgs),
         Holds(b, f, memory), NoneOvertakes(f, memory), Sound(b, f, route),
         g = [m \in Msgs |-> IF m \in InSeq(b.turn.shown) THEN "shown"
                             ELSE IF m \in InSeq(b.turn.lines) THEN "summarized" ELSE f[m]]
  PROVE  Holds(Working(AfterTurn(b)), g, memory) /\ NoneOvertakes(g, memory)
<1> DEFINE c == Working(AfterTurn(b))
           n == b.turn.take
           s == SubSeq(b.items, n + 1, Len(b.items))
<1>1. /\ c.items = s /\ c.turn = NoTurn /\ c.mode = b.mode
      /\ c.lines = IF b.turn.summary THEN <<>> ELSE b.lines
      /\ c.dropped = IF b.turn.summary THEN 0 ELSE b.dropped
  BY AfterTurnEffect, BegunType, NothingType
<1>2. n \in Nat /\ b.items \in Seq(Msgs) /\ Len(b.items) \in Nat /\ InSeq(b.items) \subseteq Msgs
      /\ InSeq(b.lines) \subseteq Msgs /\ InSeq(b.turn.shown) \subseteq Msgs
      /\ InSeq(b.turn.lines) \subseteq Msgs
  BY PartsType
<1>3. n = Len(b.turn.shown) /\ \A i \in 1 .. n : i <= Len(b.items) /\ b.turn.shown[i] = b.items[i]
  BY DEF Holds, Shows
<1> HIDE DEF n
<1>4. /\ Len(s) = IF n < Len(b.items) THEN Len(b.items) - n ELSE 0
      /\ \A i \in 1 .. Len(s) : i + n \in 1 .. Len(b.items) /\ s[i] = b.items[i + n]
  BY <1>2, SuffixProperties
<1> HIDE DEF c, s
<1>5. \A m \in Msgs : g[m] = "queued" => f[m] = "queued" /\ m \notin InSeq(b.turn.shown)
  OBVIOUS
<1>6. \A m \in InSeq(b.turn.shown) : f[m] = "queued"
  <2>1. ASSUME NEW i \in 1 .. n PROVE b.turn.shown[i] \in InSeq(b.items)
    <3>1. i \in 1 .. Len(b.items) /\ b.turn.shown[i] = b.items[i]
      BY <1>2, <1>3
    <3> QED
      BY <3>1 DEF InSeq
  <2> QED
    BY <1>3, <2>1 DEF Sound, InSeq
\* an item that still waits stands behind those the turn took
<1>7. ASSUME NEW k \in 1 .. Len(b.items), g[b.items[k]] = "queued" PROVE k > n
  <2>1. b.items[k] \in Msgs
    BY <1>2 DEF InSeq
  <2>2. b.items[k] \notin InSeq(b.turn.shown)
    BY <1>5, <1>7, <2>1
  <2>3. ASSUME k \in 1 .. n PROVE FALSE
    BY <1>3, <2>2, <2>3 DEF InSeq
  <2>4. k \in Nat /\ k >= 1
    BY <1>2
  <2> QED
    BY <1>2, <2>3, <2>4
<1>8. \A m \in Msgs : g[m] = "queued" => m \in InSeq(c.items)
  <2> SUFFICES ASSUME NEW m \in Msgs, g[m] = "queued" PROVE m \in InSeq(c.items)
    OBVIOUS
  <2>1. PICK k \in 1 .. Len(b.items) : b.items[k] = m
    BY <1>5 DEF Holds, InSeq
  <2>2. k > n
    BY <1>7, <2>1
  <2>3. PICK i \in 1 .. Len(s) : i + n = k
    <3>1. k - n \in 1 .. Len(s) /\ (k - n) + n = k
      BY <1>2, <1>4, <2>2
    <3> QED
      BY <3>1
  <2> QED
    BY <1>1, <1>4, <2>1, <2>3 DEF InSeq
<1>9. \A m \in Msgs : g[m] = "dropped" <=> m \in InSeq(c.lines)
  <2>1. \A m \in InSeq(b.lines) : m \in Msgs /\ f[m] = "dropped" /\ m \notin InSeq(b.turn.shown)
    BY <1>2, <1>6 DEF Holds
  <2>2. CASE b.turn.summary
    <3>1. InSeq(c.lines) = {}
      BY <1>1, <2>2, NothingIn
    <3>2. \A m \in Msgs : f[m] = "dropped" => m \in InSeq(b.turn.lines)
      BY <2>2 DEF Holds
    <3> QED
      BY <3>1, <3>2
  <2>3. CASE ~b.turn.summary
    <3>1. c.lines = b.lines /\ InSeq(b.turn.lines) = {}
      BY <1>1, <2>3, NothingIn DEF Holds
    <3>2. \A m \in Msgs : g[m] = "dropped" => f[m] = "dropped"
      OBVIOUS
    <3> QED
      BY <2>1, <3>1, <3>2 DEF Holds
  <2> QED
    BY <2>2, <2>3
<1>10. InOrder(c.items, memory)
  <2> SUFFICES ASSUME NEW a \in 1 .. Len(s), NEW k \in 1 .. Len(s),
                      NEW i \in 1 .. Len(memory), NEW j \in 1 .. Len(memory),
                      memory[i] = s[a], memory[j] = s[k], a < k
               PROVE  i < j
    BY <1>1 DEF InOrder
  <2>1. a + n \in 1 .. Len(b.items) /\ k + n \in 1 .. Len(b.items) /\ a + n < k + n
        /\ memory[i] = b.items[a + n] /\ memory[j] = b.items[k + n]
    <3>1. a \in Nat /\ k \in Nat
      BY <1>2, <1>4
    <3>2. a + n < k + n
      BY <1>2, <3>1
    <3> QED
      BY <1>4, <3>2
  <2> QED
    BY <2>1 DEF Holds, InOrder
<1>11. NoneOvertakes(g, memory)
  <2> SUFFICES ASSUME NEW i \in 1 .. Len(memory), NEW j \in 1 .. Len(memory), i < j,
                      g[memory[i]] = "queued", g[memory[j]] = "shown"
               PROVE  FALSE
    BY DEF NoneOvertakes
  <2>1. memory[i] \in Msgs /\ memory[j] \in Msgs
    OBVIOUS
  <2>2. f[memory[i]] = "queued"
    BY <1>5, <2>1
  <2>3. memory[j] \in InSeq(b.turn.shown)
    BY <2>1, <2>2 DEF NoneOvertakes
  <2>4. PICK k \in 1 .. n : b.items[k] = memory[j] /\ k <= Len(b.items)
    BY <1>3, <2>3 DEF InSeq
  <2>5. PICK a \in 1 .. Len(b.items) : b.items[a] = memory[i]
    BY <2>1, <2>2 DEF Holds, InSeq
  <2>6. a > n
    BY <1>7, <2>5
  <2>7. k \in 1 .. Len(b.items) /\ k < a
    BY <1>2, <2>4, <2>6
  <2>8. j < i
    BY <2>4, <2>5, <2>7 DEF Holds, InOrder
  <2> QED
    BY <2>8
<1>12. /\ c.turn.take = Len(c.turn.shown) /\ Len(c.turn.shown) = 0
       /\ ~c.turn.summary /\ c.turn.lines = <<>>
  BY <1>1, IdleSound, EmptySeq DEF NoTurn
<1>13. c.dropped > 0 => c.mode = "collect"
  BY <1>1 DEF Holds
<1>14. Holds(c, g, memory)
  BY <1>8, <1>9, <1>10, <1>12, <1>13 DEF Holds, Shows
<1> QED
  BY <1>11, <1>14 DEF c

\* The fate of an item or a line after room was made, and of any other message.
LEMMA FateAfterDropCases ==
  ASSUME TypeInv, NEW b \in Objects, NEW d \in Msgs
  PROVE  /\ d \notin InSeq(Dropped(b)) \cup InSeq(b.lines) => FateAfterDrop(b, d) = fate[d]
         /\ b.drop = "summarize" /\ d \in InSeq(Dropped(b)) \cup InSeq(b.lines) =>
              FateAfterDrop(b, d) = IF d \in InSeq(MakeRoom(b).lines) THEN "dropped" ELSE "discarded"
         /\ b.drop # "summarize" /\ d \in InSeq(b.lines) => FateAfterDrop(b, d) = fate[d]
         /\ b.drop # "summarize" /\ d \in InSeq(Dropped(b)) /\ d \notin InSeq(b.lines) =>
              FateAfterDrop(b, d) = "discarded"
  BY DEF FateAfterDrop

\* An accepted message waits last, behind every message accepted before it; what made
\* room for it has a line if it is to be summarized.
LEMMA AcceptHolds ==
  ASSUME TypeInv, NEW b \in Objects, Holds(b, fate, accepted), Sound(b, fate, route),
         NoneOvertakes(fate, accepted), Remembered(fate, accepted),
         NEW m \in Msgs, fate[m] \in Unseen, m \notin InSeq(accepted),
         NEW g, g = [d \in Msgs |-> IF d = m THEN "queued" ELSE FateAfterDrop(b, d)],
         b.turn = NoTurn \/ DropCount(b) = 0,
         b.mode = "collect" \/ (DropCount(b) = 0 /\ b.dropped = 0)
  PROVE  Holds(Accept(m, b), g, Append(accepted, m)) /\ NoneOvertakes(g, Append(accepted, m))
<1> DEFINE c == Accept(m, b)
           n == DropCount(b)
           memory == Append(accepted, m)
<1>1. /\ m \notin InSeq(b.items) /\ m \notin InSeq(b.turn.shown) /\ m \notin InSeq(b.lines)
      /\ Distinct(b.items)
  BY DEF Sound, Unseen, Past
<1>2. /\ Len(c.items) = Len(b.items) - n + 1 /\ n \in 0 .. Len(b.items) /\ n \in Nat
      /\ Len(b.items) \in Nat
      /\ \A i \in 1 .. Len(b.items) - n :
           i + n \in 1 .. Len(b.items) /\ c.items[i] = b.items[i + n]
      /\ c.items[Len(c.items)] = m
      /\ InSeq(c.items) = (InSeq(b.items) \ InSeq(Dropped(b))) \cup {m}
  <2>1. Len(b.items) \in Nat
    BY PartsType
  <2>2. m \notin InSeq(b.items) /\ Distinct(b.items)
    BY <1>1
  <2>3. /\ Len(c.items) = Len(b.items) - n + 1 /\ n \in 0 .. Len(b.items)
        /\ \A i \in 1 .. Len(b.items) - n :
             i + n \in 1 .. Len(b.items) /\ c.items[i] = b.items[i + n]
        /\ c.items[Len(c.items)] = m
        /\ InSeq(c.items) = (InSeq(b.items) \ InSeq(Dropped(b))) \cup {m}
    BY <2>2, AcceptedItems
  <2> HIDE DEF c, n
  <2>4. n \in Nat
    BY <2>1, <2>3
  <2> QED
    BY <2>1, <2>3, <2>4
<1>3. /\ c.lines = MakeRoom(b).lines /\ c.dropped = MakeRoom(b).dropped
      /\ c.mode = b.mode /\ c.turn = b.turn
      /\ InSeq(c.lines) \subseteq InSeq(b.lines) \cup InSeq(Dropped(b))
      /\ b.drop # "summarize" => c.lines = b.lines /\ c.dropped = b.dropped
      /\ b.drop = "summarize" => c.dropped = b.dropped + n
  <2>1. /\ c.lines = MakeRoom(b).lines /\ c.dropped = MakeRoom(b).dropped
        /\ c.mode = b.mode /\ c.turn = b.turn
    BY AcceptEffect
  <2>2. /\ InSeq(MakeRoom(b).lines) \subseteq InSeq(b.lines) \cup InSeq(Dropped(b))
        /\ b.drop # "summarize" => MakeRoom(b).lines = b.lines /\ MakeRoom(b).dropped = b.dropped
        /\ b.drop = "summarize" => MakeRoom(b).dropped = b.dropped + n
    BY MakeRoomEffect
  <2> HIDE DEF c
  <2> QED
    BY <2>1, <2>2
<1>4. /\ InSeq(Dropped(b)) \subseteq InSeq(b.items) /\ InSeq(b.items) \subseteq Msgs
      /\ InSeq(b.lines) \subseteq Msgs
      /\ n = 0 => InSeq(Dropped(b)) = {}
  BY DroppedProperties, PartsType DEF InSeq
<1>5. /\ accepted \in Seq(Msgs) /\ Len(accepted) \in Nat /\ Len(memory) = Len(accepted) + 1
      /\ \A i \in 1 .. Len(accepted) : memory[i] = accepted[i] /\ accepted[i] # m /\ accepted[i] \in Msgs
      /\ memory[Len(accepted) + 1] = m
  <2>1. accepted \in Seq(Msgs)
    BY DEF TypeInv
  <2> QED
    BY <2>1, AppendProperties, LenProperties DEF InSeq
<1> HIDE DEF c, n, memory
<1>6. \A d \in Msgs \ {m} : g[d] = FateAfterDrop(b, d)
  OBVIOUS
<1>7. g[m] = "queued"
  OBVIOUS
<1>8. \A d \in Msgs \ {m} :
        /\ g[d] = "queued" => fate[d] = "queued" /\ d \notin InSeq(Dropped(b))
        /\ g[d] = "shown" => fate[d] = "shown"
        /\ g[d] = "dropped" <=> d \in InSeq(c.lines)
  <2> SUFFICES ASSUME NEW d \in Msgs \ {m}
               PROVE  /\ g[d] = "queued" => fate[d] = "queued" /\ d \notin InSeq(Dropped(b))
                      /\ g[d] = "shown" => fate[d] = "shown"
                      /\ g[d] = "dropped" <=> d \in InSeq(c.lines)
    OBVIOUS
  <2>1. fate[d] = "dropped" <=> d \in InSeq(b.lines)
    BY DEF Holds
  <2>2. CASE d \notin InSeq(Dropped(b)) \cup InSeq(b.lines)
    BY <1>3, <1>6, <2>1, <2>2, FateAfterDropCases
  <2>3. CASE b.drop = "summarize" /\ d \in InSeq(Dropped(b)) \cup InSeq(b.lines)
    BY <1>3, <1>6, <2>3, FateAfterDropCases
  <2>4. CASE b.drop # "summarize" /\ d \in InSeq(b.lines)
    BY <1>3, <1>6, <2>1, <2>4, FateAfterDropCases
  <2>5. CASE b.drop # "summarize" /\ d \in InSeq(Dropped(b)) /\ d \notin InSeq(b.lines)
    BY <1>3, <1>6, <2>5, FateAfterDropCases
  <2> QED
    BY <2>2, <2>3, <2>4, <2>5
<1>9. \A d \in Msgs : g[d] = "queued" => d \in InSeq(c.items)
  BY <1>2, <1>8 DEF Holds
<1>10. \A d \in Msgs : g[d] = "dropped" <=> d \in InSeq(c.lines)
  <2>1. m \notin InSeq(c.lines)
    BY <1>1, <1>3, <1>4
  <2>2. g[m] # "dropped"
    BY <1>7
  <2> QED
    BY <1>8, <2>1, <2>2
<1>11. c.dropped > 0 => c.mode = "collect"
  <2>1. CASE b.mode = "collect"
    BY <1>3, <2>1
  <2>2. CASE n = 0 /\ b.dropped = 0
    <3>1. c.dropped = 0
      BY <1>3, <2>2
    <3> QED
      BY <3>1
  <2> QED
    BY <2>1, <2>2 DEF n
<1>12. /\ Shows(c)
       /\ c.turn.summary => \A d \in Msgs : g[d] = "dropped" => d \in InSeq(c.turn.lines)
       /\ ~c.turn.summary => c.turn.lines = <<>>
  <2>1. CASE b.turn = NoTurn
    <3>1. c.turn.take = Len(c.turn.shown) /\ ~c.turn.summary /\ c.turn.lines = <<>>
          /\ Len(c.turn.shown) = 0
      BY <1>3, <2>1, IdleSound, EmptySeq DEF NoTurn
    <3> QED
      BY <3>1 DEF Shows
  <2>2. CASE n = 0
    <3>1. ASSUME NEW i \in 1 .. Len(b.turn.shown)
          PROVE  i <= Len(c.items) /\ b.turn.shown[i] = c.items[i]
      <4>1. i <= Len(b.items) /\ b.turn.shown[i] = b.items[i] /\ i \in Nat /\ i >= 1
        BY PartsType DEF Holds, Shows
      <4>2. i \in 1 .. Len(b.items) - n /\ i + n = i
        BY <1>2, <2>2, <4>1
      <4>3. c.items[i] = b.items[i]
        BY <1>2, <4>2
      <4>4. i <= Len(c.items)
        BY <1>2, <2>2, <4>1
      <4> QED
        BY <4>1, <4>3, <4>4
    <3>2. Shows(c)
      BY <1>3, <3>1 DEF Holds, Shows
    <3>3. \A d \in Msgs : g[d] = "dropped" => fate[d] = "dropped"
      BY <1>3, <1>4, <1>10, <2>2 DEF Holds
    <3> QED
      BY <1>3, <3>2, <3>3 DEF Holds
  <2> QED
    BY <2>1, <2>2 DEF n
<1>13. InOrder(c.items, memory)
  <2> SUFFICES ASSUME NEW a \in 1 .. Len(c.items), NEW k \in 1 .. Len(c.items),
                      NEW i \in 1 .. Len(memory), NEW j \in 1 .. Len(memory),
                      memory[i] = c.items[a], memory[j] = c.items[k], a < k
               PROVE  i < j
    BY DEF InOrder
  <2>1. a \in 1 .. Len(b.items) - n
    BY <1>2
  <2>2. a + n \in 1 .. Len(b.items) /\ memory[i] = b.items[a + n]
    BY <1>2, <2>1
  <2>3. memory[i] # m
    BY <1>1, <2>2 DEF InSeq
  <2>4. i \in 1 .. Len(accepted) /\ accepted[i] = b.items[a + n]
    BY <1>5, <2>2, <2>3
  <2>5. CASE j = Len(accepted) + 1
    BY <1>5, <2>4, <2>5
  <2>6. CASE j # Len(accepted) + 1
    <3>1. j \in 1 .. Len(accepted) /\ memory[j] = accepted[j] /\ accepted[j] # m
      BY <1>5, <2>6
    <3>2. k # Len(c.items)
      <4>1. c.items[Len(c.items)] = m
        BY <1>2
      <4>2. c.items[k] # m
        BY <3>1
      <4> QED
        BY <4>1, <4>2
    <3>3. k \in 1 .. Len(b.items) - n /\ a + n < k + n
      <4>1. Len(c.items) = Len(b.items) - n + 1 /\ n \in Nat /\ Len(b.items) \in Nat
        BY <1>2
      <4>2. a \in Nat /\ k \in Nat /\ k >= 1 /\ k <= Len(c.items)
        BY <4>1
      <4>3. k <= Len(b.items) - n
        <5> DEFINE x == Len(c.items)
                   y == Len(b.items)
        <5>1. x = y - n + 1 /\ n \in Nat /\ y \in Nat /\ k \in Nat /\ k <= x /\ k # x
          BY <3>2, <4>1, <4>2
        <5> HIDE DEF x, y
        <5>2. k <= y - n
          BY <5>1
        <5> QED
          BY <5>2 DEF y
      <4> QED
        BY <4>1, <4>2, <4>3
    <3>4. k + n \in 1 .. Len(b.items) /\ accepted[j] = b.items[k + n]
      BY <1>2, <3>1, <3>3
    <3> QED
      BY <2>2, <2>4, <3>1, <3>3, <3>4 DEF Holds, InOrder
  <2> QED
    BY <2>5, <2>6
<1>14. NoneOvertakes(g, memory)
  <2> SUFFICES ASSUME NEW i \in 1 .. Len(memory), NEW j \in 1 .. Len(memory), i < j,
                      g[memory[i]] = "queued", g[memory[j]] = "shown"
               PROVE  FALSE
    BY DEF NoneOvertakes
  <2>1. j \in 1 .. Len(accepted)
    BY <1>5, <1>7
  <2>2. i \in 1 .. Len(accepted)
    BY <1>5, <2>1
  <2>3. fate[accepted[i]] = "queued" /\ fate[accepted[j]] = "shown"
    BY <1>5, <1>8, <2>1, <2>2
  <2> QED
    BY <2>1, <2>2, <2>3 DEF NoneOvertakes
<1>15. Holds(c, g, memory)
  BY <1>9, <1>10, <1>11, <1>12, <1>13 DEF Holds
<1> QED
  BY <1>14, <1>15 DEF c, memory

\* An object without items, lines or turn holds what there is when nothing waits.
LEMMA EmptyHolds ==
  ASSUME NEW b \in Objects, NEW f, NEW memory, Empty(b), b.turn = NoTurn, Gone(f)
  PROVE  Holds(b, f, memory)
<1>1. Len(b.items) = 0 /\ InSeq(b.lines) = {}
  BY EmptySeq, NothingIn DEF Empty
<1>2. b.turn.take = Len(b.turn.shown) /\ Len(b.turn.shown) = 0 /\ ~b.turn.summary
      /\ b.turn.lines = <<>>
  BY IdleSound, EmptySeq DEF NoTurn
<1>3. Shows(b) /\ InOrder(b.items, memory)
  BY <1>1, <1>2 DEF Shows, InOrder
<1> QED
  BY <1>1, <1>2, <1>3 DEF Holds, Gone, Empty

\* The settings of a message that arrives change nothing of what the object holds, as
\* long as what was dropped is for a mode that collects.
LEMMA HoldsRefreshed ==
  ASSUME NEW b \in Objects, NEW c \in Objects, NEW f, NEW memory, Holds(b, f, memory),
         c.items = b.items, c.lines = b.lines, c.dropped = b.dropped, c.turn = b.turn,
         c.dropped > 0 => c.mode = "collect"
  PROVE  Holds(c, f, memory)
  BY DEF Holds, Shows

\* A delivery that is refused or a duplicate was not waiting and is not accepted.
LEMMA RefusedKept ==
  ASSUME NEW b, NEW f \in [Msgs -> Fates], NEW g, NEW memory \in Seq(Msgs), NEW m \in Msgs,
         Holds(b, f, memory), NoneOvertakes(f, memory), f[m] \in Unseen,
         NEW u \in Unseen, g = [f EXCEPT ![m] = u]
  PROVE  Holds(b, g, memory) /\ NoneOvertakes(g, memory)
<1>1. \A d \in Msgs : \A x \in {"queued", "dropped", "shown"} : g[d] = x <=> f[d] = x
  BY DEF Unseen
<1>2. \A i \in 1 .. Len(memory) : memory[i] \in Msgs
  OBVIOUS
<1> QED
  BY <1>1, <1>2 DEF Holds, NoneOvertakes

\* Nothing overtakes when nothing waits.
LEMMA GoneInOrder ==
  ASSUME NEW f, NEW memory \in Seq(Msgs), Gone(f)
  PROVE  NoneOvertakes(f, memory)
<1>1. \A i \in 1 .. Len(memory) : memory[i] \in Msgs
  OBVIOUS
<1> QED
  BY <1>1 DEF Gone, NoneOvertakes

\* The state's parts of the invariant.
LEMMA KeptParts ==
  ASSUME KeptInv
  PROVE  /\ WholeInv /\ TypeInv /\ Kept(Registry, fate, accepted) /\ Remembered(fate, accepted)
         /\ Registry \in Registries /\ Registry.current = current /\ Registry.q = q
         /\ fate \in [Msgs -> Fates] /\ accepted \in Seq(Msgs)
         /\ \A id \in QueueIds : q[id] \in Objects /\ Sound(q[id], fate, route)
<1>1. WholeInv /\ TypeInv /\ Kept(Registry, fate, accepted) /\ Whole(Registry, fate, route)
      /\ Remembered(fate, accepted)
  BY DEF KeptInv, WholeInv
<1>2. Registry \in Registries /\ fate \in [Msgs -> Fates] /\ accepted \in Seq(Msgs)
  BY <1>1 DEF TypeInv
<1> QED
  BY <1>1, <1>2, RegistryType DEF Whole

\* A message that arrives, however it is dealt with.
LEMMA EnqueueKept ==
  ASSUME KeptInv, Quiet, WholeInv', NEW m \in Msgs, NEW r \in Routes, NEW s \in Settings,
         NEW id \in Target, NEW sees \in BOOLEAN, Enqueue(m, r, s, id, sees)
  PROVE  KeptInv'
<1> DEFINE b == Refreshed(s, id)
           c == Enqueued(m, b)
           reg == [current |-> id, q |-> [q EXCEPT ![id] = c]]
<1>1. /\ WholeInv /\ TypeInv /\ Kept(Registry, fate, accepted) /\ Remembered(fate, accepted)
      /\ Registry \in Registries /\ Registry.current = current /\ Registry.q = q
      /\ fate \in [Msgs -> Fates] /\ accepted \in Seq(Msgs) /\ NoneOvertakes(fate, accepted)
  BY KeptParts DEF Kept
<1>2. id \in QueueIds /\ b \in Objects /\ b.mode = s.mode /\ Sound(b, fate, route)
  BY <1>1, RefreshedType, RefreshedSound
<1>3. \/ current = 0 /\ Empty(b) /\ b.at = "off" /\ b.turn = NoTurn
      \/ /\ id = current /\ current # 0
         /\ b.items = q[id].items /\ b.lines = q[id].lines /\ b.dropped = q[id].dropped
         /\ b.at = q[id].at /\ b.turn = q[id].turn
  BY <1>1, RefreshedType DEF Empty
<1>4. /\ reg \in Registries /\ Registry' \in {reg, Schedule(reg)}
      /\ ~InTurn \/ DropCount(b) = 0
      /\ s.mode = "collect" \/ (DropCount(b) = 0 /\ b.dropped = 0)
      /\ \/ /\ Deduplicated(m, b) \/ Refuses(b)
            /\ \E u \in Unseen : fate' = [fate EXCEPT ![m] = u]
            /\ accepted' = accepted
         \/ /\ ~Deduplicated(m, b) /\ ~Refuses(b)
            /\ fate' = [d \in Msgs |-> IF d = m THEN "queued" ELSE FateAfterDrop(b, d)]
            /\ accepted' = Append(accepted, m)
  <2>1. "overflowInTurn" \notin Races /\ "overflowSingly" \notin Races
    BY DEF Quiet
  <2>2. /\ reg \in Registries /\ Registry' \in {reg, Schedule(reg)}
        /\ \/ /\ Deduplicated(m, b) \/ Refuses(b)
              /\ \E u \in Unseen : fate' = [fate EXCEPT ![m] = u]
              /\ accepted' = accepted
           \/ /\ ~Deduplicated(m, b) /\ ~Refuses(b)
              /\ fate' = [d \in Msgs |-> IF d = m THEN "queued" ELSE FateAfterDrop(b, d)]
              /\ accepted' = Append(accepted, m)
    BY <1>1, EnqueueEffect
  <2>3. /\ "overflowInTurn" \in Races \/ ~InTurn \/ DropCount(b) = 0
        /\ "overflowSingly" \in Races \/ s.mode = "collect" \/ (DropCount(b) = 0 /\ b.dropped = 0)
    BY DEF Enqueue, Refreshed
  <2> QED
    BY <2>1, <2>2, <2>3
<1>5. fate[m] = "new" /\ m \notin InSeq(accepted)
  <2>1. fate[m] = "new"
    BY DEF Enqueue
  <2> QED
    BY <1>1, <2>1 DEF Remembered, Unseen
<1>6. c = IF Deduplicated(m, b) THEN b
          ELSE IF Refuses(b) THEN [b EXCEPT !.lastRun = TRUE] ELSE Accept(m, b)
  BY DEF Enqueued
<1>7. c \in Objects /\ c.turn = b.turn /\ c.mode = b.mode
      /\ (Deduplicated(m, b) \/ Refuses(b) =>
            c.items = b.items /\ c.lines = b.lines /\ c.dropped = b.dropped)
  BY <1>2, EnqueuedType
<1>8. reg.current = id /\ reg.q = [q EXCEPT ![id] = c]
  OBVIOUS
<1> HIDE DEF b, c, reg
<1>9. b.dropped > 0 => b.mode = "collect"
  BY <1>2, <1>4
<1>10. Holds(b, fate, accepted)
  <2>1. CASE current = 0 /\ Empty(b) /\ b.turn = NoTurn
    <3>1. Gone(fate)
      BY <1>1, <2>1 DEF Kept
    <3> QED
      BY <1>2, <2>1, <3>1, EmptyHolds
  <2>2. CASE /\ id = current
             /\ b.items = q[id].items /\ b.lines = q[id].lines /\ b.dropped = q[id].dropped
             /\ b.turn = q[id].turn
    <3>1. Holds(q[id], fate, accepted) /\ q[id] \in Objects
      BY <1>1, <1>2, <2>2, KeptParts DEF Kept
    <3> QED
      BY <1>2, <1>9, <2>2, <3>1, HoldsRefreshed
  <2> QED
    BY <1>3, <2>1, <2>2
\* no room is made under a turn
<1>11. b.turn = NoTurn \/ DropCount(b) = 0
  <2>1. CASE InTurn
    BY <1>4, <2>1
  <2>2. CASE ~InTurn
    <3>1. b.at # "turn"
      BY <1>2, <1>3, <2>2 DEF InTurn
    <3> QED
      BY <1>2, <3>1 DEF Sound
  <2> QED
    BY <2>1, <2>2
<1>12. Holds(c, fate', accepted') /\ NoneOvertakes(fate', accepted')
  <2>1. CASE Deduplicated(m, b) \/ Refuses(b)
    <3>1. PICK u \in Unseen : fate' = [fate EXCEPT ![m] = u]
      BY <1>4, <2>1
    <3>2. accepted' = accepted /\ fate[m] \in Unseen
      BY <1>4, <1>5, <2>1 DEF Unseen
    <3>3. Holds(c, fate, accepted)
      BY <1>2, <1>7, <1>10, <2>1, HoldsSame
    <3> QED
      BY <1>1, <3>1, <3>2, <3>3, RefusedKept
  <2>2. CASE ~Deduplicated(m, b) /\ ~Refuses(b)
    <3>1. /\ c = Accept(m, b) /\ fate[m] \in Unseen /\ m \notin InSeq(accepted)
          /\ fate' = [d \in Msgs |-> IF d = m THEN "queued" ELSE FateAfterDrop(b, d)]
          /\ accepted' = Append(accepted, m)
      BY <1>4, <1>5, <1>6, <2>2 DEF Unseen
    <3>2. b.mode = "collect" \/ (DropCount(b) = 0 /\ b.dropped = 0)
      BY <1>2, <1>4
    <3> QED
      BY <1>1, <1>2, <1>10, <1>11, <3>1, <3>2, AcceptHolds
  <2> QED
    BY <1>4, <2>1, <2>2
<1>13. Kept(reg, fate', accepted')
  <2>1. reg.q = [Registry.q EXCEPT ![id] = c] /\ Registry.current \in {0, id}
    BY <1>1, <1>3, <1>8
  <2> QED
    BY <1>1, <1>2, <1>4, <1>7, <1>8, <1>12, <2>1, KeptIn
<1>14. Kept(Registry', fate', accepted')
  <2>1. Kept(Schedule(reg), fate', accepted')
    BY <1>4, <1>13, ScheduleKept
  <2> QED
    BY <1>4, <1>13, <2>1
<1> QED
  BY <1>14 DEF KeptInv

\* A step of the drain of the registry's object, which holds what waits.
LEMMA DrainCurrentKept ==
  ASSUME KeptInv, WholeInv', NEW id \in QueueIds, DrainStep(id), id = current
  PROVE  KeptInv'
<1> DEFINE b == q[id]
<1>1. /\ WholeInv /\ TypeInv /\ Kept(Registry, fate, accepted)
      /\ Registry \in Registries /\ Registry.current = id /\ Registry.q = q
      /\ fate \in [Msgs -> Fates] /\ accepted \in Seq(Msgs) /\ NoneOvertakes(fate, accepted)
      /\ b \in Objects /\ Sound(b, fate, route)
  BY KeptParts DEF Kept
<1>2. Holds(b, fate, accepted)
  BY <1>1 DEF Kept
<1>3. /\ \/ CollectForm(id, b) \/ BatchForm(id, b) \/ ItemForm(id, b)
         \/ EndForm(id, b) \/ FailForm(id, b)
      /\ accepted' = accepted
  BY <1>1, DrainEffect
<1> HIDE DEF b
<1>4. ASSUME NEW c \in Objects, NEW g, Holds(c, g, accepted), NoneOvertakes(g, accepted),
             Goes(id, c) \/ Ends(id, c), fate' = g
      PROVE  KeptInv'
  <2>1. /\ Put(Registry, id, c) \in Registries /\ Put(Registry, id, c).current = id
        /\ Put(Registry, id, c).q = [Registry.q EXCEPT ![id] = c]
    BY <1>1, PutType DEF Put
  <2>2. Kept(Put(Registry, id, c), g, accepted)
    BY <1>1, <1>4, <2>1, KeptIn
  <2>3. Holds(Parked(c), g, accepted)
    BY <1>4, WokenType, HoldsSame
  <2>4. Kept(Finish(Registry, id, c), g, accepted)
    BY <1>1, <1>4, <2>3, FinishKept
  <2>5. Kept(Registry', fate', accepted')
    BY <1>3, <1>4, <2>2, <2>4 DEF Goes, Ends
  <2> QED
    BY <2>5 DEF KeptInv
<1>5. ASSUME NEW c \in Objects, Holds(c, fate, accepted), Goes(id, c) \/ Ends(id, c), fate' = fate
      PROVE  KeptInv'
  BY <1>1, <1>4, <1>5
<1>6. ASSUME NEW c \in Objects, c.items # <<>>, Holds(c, fate, accepted),
             Goes(id, Begun(c, ItemTurn(c))), fate' = fate
      PROVE  KeptInv'
  <2>1. Begun(c, ItemTurn(c)) \in Objects /\ Holds(Begun(c, ItemTurn(c)), fate, accepted)
    BY <1>6, TurnsType, BegunType, BegunHolds
  <2> QED
    BY <1>5, <1>6, <2>1
<1>7. CASE CollectForm(id, b)
  <2>1. /\ Forced(b) \in Objects /\ Forced(b).items = b.items /\ Holds(Forced(b), fate, accepted)
        /\ Collecting(b) \in Objects /\ Holds(Collecting(b), fate, accepted)
    BY <1>1, <1>2, ForcedType, HoldsSame
  <2>2. ItemTurn(Forced(b)) = ItemTurn(b)
    BY <2>1 DEF ItemTurn
  <2>3. /\ fate' = fate
        /\ \/ Goes(id, Collecting(b))
           \/ Ends(id, Forced(b))
           \/ b.items # <<>> /\ Goes(id, Begun(Forced(b), ItemTurn(b)))
    BY <1>7 DEF CollectForm
  <2> QED
    BY <1>5, <1>6, <2>1, <2>2, <2>3
<1>8. CASE BatchForm(id, b)
  <2>1. fate' = fate /\ (Ends(id, b) \/ Goes(id, Begun(b, BatchTurn(b))))
    BY <1>8 DEF BatchForm
  <2>2. Begun(b, BatchTurn(b)) \in Objects /\ Holds(Begun(b, BatchTurn(b)), fate, accepted)
    BY <1>1, <1>2, TurnsType, BegunType, BegunHolds
  <2> QED
    BY <1>1, <1>2, <1>5, <2>1, <2>2
<1>9. CASE ItemForm(id, b)
  <2>1. ~HasSummary(b)
    BY <1>1, <1>2, <1>9, BegunHolds DEF ItemForm
  <2>2. fate' = fate /\ (Ends(id, b) \/ (b.items # <<>> /\ Goes(id, Begun(b, ItemTurn(b)))))
    BY <1>9, <2>1 DEF ItemForm
  <2> QED
    BY <1>1, <1>2, <1>5, <1>6, <2>2
<1>10. CASE EndForm(id, b)
  <2> DEFINE g == [m \in Msgs |-> IF m \in InSeq(b.turn.shown) THEN "shown"
                                  ELSE IF m \in InSeq(b.turn.lines) THEN "summarized"
                                  ELSE fate[m]]
             c == AfterTurn(b)
  <2>1. /\ fate' = g
        /\ \/ Goes(id, Working(c))
           \/ ~Backlog(c) /\ Ends(id, c)
    BY <1>10 DEF EndForm
  <2>2. Holds(Working(c), g, accepted) /\ NoneOvertakes(g, accepted)
    BY <1>1, <1>2, AfterTurnHolds
  <2>3. c \in Objects
    BY <1>1, AfterTurnEffect
  <2> HIDE DEF c, g
  <2>4. CASE Goes(id, Working(c))
    BY <1>4, <2>1, <2>2, <2>3, <2>4, BegunType, NothingType
  <2>5. CASE ~Backlog(c) /\ Ends(id, c)
    <3>1. /\ Working(c) \in Objects /\ Working(c).turn = NoTurn
          /\ Working(c).items = c.items /\ Working(c).lines = c.lines
          /\ Working(c).dropped = c.dropped /\ Working(c).mode = c.mode
      BY <2>3, BegunType, NothingType
    <3>2. /\ Parked(c) \in Objects /\ Parked(c).turn = NoTurn
          /\ Parked(c).items = c.items /\ Parked(c).lines = c.lines
          /\ Parked(c).dropped = c.dropped /\ Parked(c).mode = c.mode
      BY <2>3, WokenType
    <3>3. Holds(Parked(c), g, accepted)
      BY <2>2, <3>1, <3>2, HoldsSame
    <3>4. Kept(Finish(Registry, id, c), g, accepted)
      BY <1>1, <2>2, <2>3, <3>3, FinishKept
    <3> QED
      BY <1>3, <2>1, <2>5, <3>4 DEF KeptInv, Ends
  <2> QED
    BY <2>1, <2>4, <2>5
<1>11. CASE FailForm(id, b)
  <2>1. fate' = fate /\ Ends(id, b)
    BY <1>11 DEF FailForm
  <2> QED
    BY <1>1, <1>2, <1>5, <2>1
<1> QED
  BY <1>3, <1>7, <1>8, <1>9, <1>10, <1>11

\* A step of the drain of the only object there is, after it was cleared: what it finds
\* is empty.
LEMMA DrainClearedKept ==
  ASSUME KeptInv, WholeInv', NEW id \in QueueIds, DrainStep(id), id # current
  PROVE  KeptInv'
<1> DEFINE b == q[id]
<1>1. /\ WholeInv /\ TypeInv /\ Kept(Registry, fate, accepted)
      /\ Registry \in Registries /\ Registry.current = current /\ Registry.q = q
      /\ fate \in [Msgs -> Fates] /\ accepted \in Seq(Msgs)
      /\ b \in Objects
  BY KeptParts
<1>2. /\ \/ CollectForm(id, b) \/ BatchForm(id, b) \/ ItemForm(id, b)
         \/ EndForm(id, b) \/ FailForm(id, b)
      /\ accepted' = accepted
  BY <1>1, DrainEffect
<1>3. b.at # "off"
  <2> HIDE DEF b
  <2> QED
    BY <1>2 DEF CollectForm, BatchForm, ItemForm, EndForm, FailForm
<1>4. current = 0 /\ MaxQueues = 1 /\ Empty(b) /\ Gone(fate)
  BY <1>1, <1>3 DEF Kept
<1> HIDE DEF b
<1>5. b.items = <<>> /\ b.lines = <<>> /\ b.dropped = 0 /\ ~HasSummary(b)
  BY <1>4 DEF Empty, HasSummary
<1>6. ASSUME NEW c \in Objects, Empty(c), Goes(id, c) \/ Ends(id, c), Gone(fate')
      PROVE  KeptInv'
  <2>1. NoneOvertakes(fate', accepted)
    BY <1>1, <1>6, GoneInOrder
  <2>2. /\ Put(Registry, id, c) \in Registries /\ Put(Registry, id, c).current = 0
        /\ Put(Registry, id, c).q = [Registry.q EXCEPT ![id] = c]
    BY <1>1, <1>4, PutType DEF Put
  <2>3. Kept(Put(Registry, id, c), fate', accepted)
    BY <1>1, <1>4, <1>6, <2>1, <2>2, KeptOut
  <2>4. Kept(Finish(Registry, id, c), fate', accepted)
    BY <1>1, <1>4, <1>6, <2>1, FinishKept
  <2>5. Kept(Registry', fate', accepted')
    BY <1>2, <1>6, <2>3, <2>4 DEF Goes, Ends
  <2> QED
    BY <2>5 DEF KeptInv
<1>7. CASE CollectForm(id, b)
  <2>1. /\ Forced(b) \in Objects /\ Empty(Forced(b))
        /\ Collecting(b) \in Objects /\ Empty(Collecting(b))
    BY <1>1, <1>5, ForcedType DEF Empty
  <2>2. fate' = fate /\ (Goes(id, Collecting(b)) \/ Ends(id, Forced(b)))
    BY <1>5, <1>7 DEF CollectForm
  <2> QED
    BY <1>4, <1>6, <2>1, <2>2
<1>8. CASE BatchForm(id, b)
  <2>1. fate' = fate /\ (Ends(id, b) \/ Goes(id, Begun(b, BatchTurn(b))))
    BY <1>8 DEF BatchForm
  <2>2. Begun(b, BatchTurn(b)) \in Objects /\ Empty(Begun(b, BatchTurn(b)))
    BY <1>1, <1>5, TurnsType, BegunType DEF Empty
  <2> QED
    BY <1>1, <1>4, <1>6, <2>1, <2>2
<1>9. CASE ItemForm(id, b)
  <2>1. fate' = fate /\ Ends(id, b)
    BY <1>5, <1>9 DEF ItemForm
  <2> QED
    BY <1>1, <1>4, <1>6, <2>1
<1>10. CASE EndForm(id, b)
  <2> DEFINE c == AfterTurn(b)
  <2>1. /\ c \in Objects /\ c.items = SubSeq(b.items, b.turn.take + 1, Len(b.items))
        /\ c.lines = <<>> /\ c.dropped = 0
    BY <1>1, <1>5, AfterTurnEffect
  <2>2. c.items = <<>>
    <3>1. b.items \in Seq(Msgs) /\ b.turn.take \in Nat /\ Len(b.items) = 0
      BY <1>1, <1>5, PartsType, EmptySeq
    <3>2. Len(c.items) = 0 /\ c.items \in Seq(Msgs)
      BY <2>1, <3>1, SuffixProperties
    <3> QED
      BY <3>2, EmptySeq
  <2>3. Gone(fate')
    BY <1>4, <1>10 DEF EndForm, Gone
  <2>4. Goes(id, Working(c)) \/ Ends(id, c)
    BY <1>10 DEF EndForm
  <2> HIDE DEF c
  <2>5. Empty(c) /\ Empty(Working(c)) /\ Working(c) \in Objects
    BY <2>1, <2>2, BegunType, NothingType DEF Empty
  <2> QED
    BY <1>6, <2>1, <2>3, <2>4, <2>5
<1>11. CASE FailForm(id, b)
  <2>1. fate' = fate /\ Ends(id, b)
    BY <1>11 DEF FailForm
  <2> QED
    BY <1>1, <1>4, <1>6, <2>1
<1> QED
  BY <1>2, <1>7, <1>8, <1>9, <1>10, <1>11

\* Clearing the session's queue: what waited is cleared with it.
LEMMA ClearKept ==
  ASSUME KeptInv, Quiet, WholeInv', Clear
  PROVE  KeptInv'
<1> DEFINE b == q[current]
           c == IF b.at = "off" THEN NoQueue ELSE Emptied(b)
           g == [m \in Msgs |-> IF m \in InSeq(b.items) \cup InSeq(b.lines)
                                THEN "cleared" ELSE fate[m]]
<1>1. /\ TypeInv /\ Kept(Registry, fate, accepted) /\ Registry \in Registries
      /\ Registry.current = current /\ Registry.q = q /\ accepted \in Seq(Msgs)
  BY KeptParts
<1>2. /\ current \in QueueIds /\ c \in Objects /\ current' = 0 /\ q' = [q EXCEPT ![current] = c]
      /\ Empty(c) /\ fate' = g /\ accepted' = accepted /\ MaxQueues = 1
  BY <1>1, ClearEffect DEF Quiet, Empty
<1>3. Holds(b, fate, accepted)
  BY <1>1, <1>2 DEF Kept
<1>4. Gone(g)
  BY <1>3 DEF Holds, Gone
<1> HIDE DEF b, c, g
<1>5. PICK id \in QueueIds, e \in Objects : id = current /\ e = c
  BY <1>2
<1>6. /\ Registry' \in Registries /\ Registry'.current = 0
      /\ Registry'.q = [Registry.q EXCEPT ![id] = e]
  <2>1. Registry' \in Registries
    BY DEF WholeInv, TypeInv
  <2> QED
    BY <1>1, <1>2, <1>5, <2>1 DEF Registry
<1>7. NoneOvertakes(g, accepted)
  BY <1>1, <1>4, GoneInOrder
<1>8. Kept(Registry', g, accepted)
  <2>1. Registry.current = id /\ Empty(e)
    BY <1>1, <1>2, <1>5
  <2> QED
    BY <1>1, <1>2, <1>4, <1>6, <1>7, <2>1, KeptOut
<1> QED
  BY <1>2, <1>8 DEF KeptInv

\* Every step keeps the registry's object complete and in order.
LEMMA KeptStep ==
  ASSUME KeptInv, Quiet, [Next]_vars
  PROVE  KeptInv'
<1>1. TypeInv /\ WholeInv /\ WholeInv' /\ Kept(Registry, fate, accepted) /\ Registry \in Registries
  BY KeptParts, WholeStep
<1>2. CASE UNCHANGED vars
  BY <1>1, <1>2 DEF vars, log, KeptInv, Registry
<1>3. CASE RunStarts \/ RunEnds \/ Finalize
  <2>1. Registry' \in {Registry, Schedule(Registry)} /\ UNCHANGED <<accepted, route, fate>>
    BY <1>1, <1>3, RunEffect
  <2>2. Kept(Schedule(Registry), fate, accepted)
    BY <1>1, ScheduleKept
  <2>3. Kept(Registry', fate', accepted')
    BY <1>1, <2>1, <2>2
  <2> QED
    BY <1>1, <2>3 DEF KeptInv
<1>4. ASSUME NEW n \in Msgs, Forgets(n) PROVE KeptInv'
  BY <1>1, <1>4 DEF Forgets, KeptInv, Registry
<1> QED
  BY <1>1, <1>2, <1>3, <1>4, EnqueueKept, DrainCurrentKept, DrainClearedKept, ClearKept DEF Next

\* The invariant holds of every reachable state when none of those orders of events
\* may happen.
THEOREM KeptInvariance == Quiet => (Spec => []KeptInv)
<1> SUFFICES ASSUME Quiet PROVE Spec => []KeptInv
  OBVIOUS
<1>1. Init => KeptInv
  <2> SUFFICES ASSUME Init PROVE KeptInv
    OBVIOUS
  <2>1. TypeInv /\ \A id \in QueueIds : q[id] = NoQueue
    BY InitEffect
  <2>2. Registry.current = 0 /\ Registry.q = q /\ 0 \notin QueueIds
    BY BoundsAssumption DEF Init, Registry, QueueIds, BoundsAssumption
  <2>3. Empty(NoQueue) /\ NoQueue.at = "off"
    BY DEF Empty, NoQueue, EmptyQueue
  <2>4. Gone(fate)
    BY DEF Init, Gone
  <2>5. NoneOvertakes(fate, accepted)
    BY <2>1, <2>4, GoneInOrder DEF TypeInv
  <2>6. Kept(Registry, fate, accepted)
    BY <2>1, <2>2, <2>3, <2>4, <2>5 DEF Kept
  <2> QED
    BY <2>6, WholeInit DEF KeptInv
<1>2. KeptInv /\ [Next]_vars => KeptInv'
  BY KeptStep
<1> QED
  BY <1>1, <1>2, PTL DEF Spec

\* NothingLost: a message accepted for the next turn waits or is in a prompt until a turn
\* has shown it, and so is the line of a dropped one until a summary has, when the cap is
\* not reached under a turn or in a mode that does not collect, and no object is cleared
\* under its turn while another takes its place.
THEOREM NothingIsLost == Quiet => (Spec => []NothingLost)
<1>1. KeptInv => NothingLost
  <2> SUFFICES ASSUME KeptInv, NEW m \in Msgs
               PROVE  /\ fate[m] = "queued" => m \in Waiting
                      /\ fate[m] = "dropped" => m \in Lines
    BY DEF NothingLost
  <2>1. Kept(Registry, fate, accepted) /\ Registry.current = current /\ Registry.q = q
        /\ (current = 0 \/ current \in QueueIds)
    BY KeptParts, RegistryType
  <2>2. CASE current = 0
    BY <2>1, <2>2 DEF Kept, Gone
  <2>3. CASE current \in QueueIds
    <3>1. Holds(q[current], fate, accepted) /\ current # 0
      BY <2>1, <2>3, BoundsAssumption DEF Kept, QueueIds, BoundsAssumption
    <3> QED
      BY <3>1 DEF Holds, Waiting, Lines
  <2> QED
    BY <2>1, <2>2, <2>3
<1> QED
  BY <1>1, KeptInvariance, PTL

\* ShownInOrder: under the same conditions no message is shown while one accepted before
\* it still waits, whichever turns fail.
THEOREM NothingOvertakes == Quiet => (Spec => []ShownInOrder)
<1>1. KeptInv => ShownInOrder
  BY DEF KeptInv, Kept, NoneOvertakes, ShownInOrder
<1> QED
  BY <1>1, KeptInvariance, PTL

=============================================================================
