------------------------ MODULE ChannelManagerProofs ------------------------
(* Theorems about the channel manager: for any number of starts and attempts, *)
(* what runs is on record and a user's stop sticks, as long as no start gets  *)
(* past a stop whose hook is at work.                                         *)
EXTENDS ChannelManager, TLAPS

Active(n) == at[n] \in {"running", "backoff"}
Booting(n) == at[n] \in {"booting", "unfit"}

\* A boot has reserved the account, and can still be aborted or has been.
BootsReserve ==
  /\ starting # 0 => Booting(starting)
  /\ \A n \in Starts : Booting(n) =>
       /\ starting = n /\ task = 0
       /\ abort = n \/ n \in aborted
       /\ auto[n] => attempts <= MaxAttempts

ActiveIsRecorded ==
  \A n \in Starts : Active(n) => task = n /\ abort = n /\ attempts <= MaxAttempts

\* A stop has aborted whatever boots, and awaits whatever runs.
StopsReach ==
  \A w \in Stoppers : InStop(w) =>
    \A n \in Starts :
      /\ Booting(n) => n \in aborted
      /\ Active(n) => stopTask[w] = n

ChannelInv == ChannelTypeOK /\ BootsReserve /\ ActiveIsRecorded /\ StopsReach

\* A user's stop, if it met neither a boot of a user nor the monitor and its hook
\* has not rejected, keeps its mark, which stops automatic restarts and the monitor.
StopHolds ==
  wanted = "stopped" =>
    /\ manual /\ stopAt["monitor"] = "idle"
    /\ \A n \in Starts : Booting(n) => auto[n] /\ n \in aborted
    /\ ~InStop("user") => \A n \in Starts : ~Active(n)

\* No start gets past a stop whose hook is at work.
NoRaces == Races = {}

-----------------------------------------------------------------------------
(* Each action keeps the invariant.                                        *)

\* Starts are numbered from one; zero stands for no start.
LEMMA StartNumbers ==
  /\ 0 \in 0 .. MaxStarts
  /\ \A n \in Starts : n \in 0 .. MaxStarts /\ n # 0
  BY StartsAssumption DEF StartsAssumption, Starts

\* What an attempt more makes of the count.
LEMMA AttemptNumbers ==
  /\ 0 \in 0 .. MaxAttempts + 1 /\ 0 <= MaxAttempts
  /\ \A a \in 0 .. MaxAttempts + 1 :
       /\ a <= MaxAttempts => a + 1 \in 0 .. MaxAttempts + 1
       /\ a < MaxAttempts => a + 1 <= MaxAttempts
  BY StartsAssumption DEF StartsAssumption

\* What the call of startChannelInternal makes of the starts and the records.
LEMMA StartCallTypes ==
  ASSUME ChannelTypeOK, StartCall(at, task, abort, FALSE)
  PROVE  /\ at' \in [Starts -> {"over", "booting", "unfit", "running", "backoff"}]
         /\ auto' \in [Starts -> BOOLEAN]
         /\ {task', abort', starting'} \subseteq 0 .. MaxStarts
         /\ status' \in BOOLEAN
<1>1. CASE Reserve(at, task, abort, FALSE)
  BY <1>1, StartNumbers DEF ChannelTypeOK, Reserve, Records
<1>2. CASE NoReserve(at, task, abort)
  BY <1>2, StartNumbers DEF ChannelTypeOK, NoReserve
<1> QED
  BY <1>1, <1>2 DEF StartCall

\* A start in use that ends gives up the records that are its own.
LEMMA UnconfiguredKeeps ==
  ASSUME ChannelInv, NEW n \in Starts, Unconfigured(n)
  PROVE  ChannelInv'
<1>1. ChannelTypeOK'
  BY StartNumbers, AttemptNumbers DEF ChannelInv, ChannelTypeOK, ActiveIsRecorded,
       Active, Booting, BootsReserve, Unconfigured, records, memory, stops, Over, Unless
<1>2. BootsReserve'
  BY StartNumbers, AttemptNumbers DEF ChannelInv, ChannelTypeOK, BootsReserve,
       ActiveIsRecorded, StopsReach, Active, Booting, InStop, Unconfigured, records,
       memory, stops, Over, Unless
<1>3. ActiveIsRecorded'
  BY StartNumbers, AttemptNumbers DEF ChannelInv, ChannelTypeOK, BootsReserve,
       ActiveIsRecorded, StopsReach, Active, Booting, InStop, Unconfigured, records,
       memory, stops, Over, Unless
<1>4. StopsReach'
  BY StartNumbers, AttemptNumbers DEF ChannelInv, ChannelTypeOK, BootsReserve,
       ActiveIsRecorded, StopsReach, Active, Booting, InStop, Unconfigured, records,
       memory, stops, Over, Unless
<1> QED
  BY <1>1, <1>2, <1>3, <1>4 DEF ChannelInv

\* A boot that was not aborted is the one on record, and becomes the task.
LEMMA BootEndsKeeps ==
  ASSUME ChannelInv, NEW n \in Starts, BootEnds(n)
  PROVE  ChannelInv'
<1>1. ChannelTypeOK'
  BY StartNumbers, AttemptNumbers DEF ChannelInv, ChannelTypeOK, ActiveIsRecorded,
       Active, Booting, BootsReserve, BootEnds, records, memory, stops, ManualAtBoot,
       Over, Unless
<1>2. BootsReserve'
  BY StartNumbers, AttemptNumbers DEF ChannelInv, ChannelTypeOK, BootsReserve,
       ActiveIsRecorded, StopsReach, Active, Booting, InStop, BootEnds, records,
       memory, stops, ManualAtBoot, Over, Unless
<1>3. ActiveIsRecorded'
  BY StartNumbers, AttemptNumbers DEF ChannelInv, ChannelTypeOK, BootsReserve,
       ActiveIsRecorded, StopsReach, Active, Booting, InStop, BootEnds, records,
       memory, stops, ManualAtBoot, Over, Unless
<1>4. StopsReach'
  BY StartNumbers, AttemptNumbers DEF ChannelInv, ChannelTypeOK, BootsReserve,
       ActiveIsRecorded, StopsReach, Active, Booting, InStop, BootEnds, records,
       memory, stops, ManualAtBoot, Over, Unless
<1> QED
  BY <1>1, <1>2, <1>3, <1>4 DEF ChannelInv

\* An exit after a stop leaves no record.
LEMMA StoppedExitKeeps ==
  ASSUME ChannelInv, NEW n \in Starts, StoppedExit(n)
  PROVE  ChannelInv'
<1>1. ChannelTypeOK'
  BY StartNumbers, AttemptNumbers DEF ChannelInv, ChannelTypeOK, ActiveIsRecorded,
       Active, Booting, BootsReserve, StoppedExit, records, memory, stops, Over, Unless
<1>2. BootsReserve'
  BY StartNumbers, AttemptNumbers DEF ChannelInv, ChannelTypeOK, BootsReserve,
       ActiveIsRecorded, StopsReach, Active, Booting, InStop, StoppedExit, records,
       memory, stops, Over, Unless
<1>3. ActiveIsRecorded'
  BY StartNumbers, AttemptNumbers DEF ChannelInv, ChannelTypeOK, BootsReserve,
       ActiveIsRecorded, StopsReach, Active, Booting, InStop, StoppedExit, records,
       memory, stops, Over, Unless
<1>4. StopsReach'
  BY StartNumbers, AttemptNumbers DEF ChannelInv, ChannelTypeOK, BootsReserve,
       ActiveIsRecorded, StopsReach, Active, Booting, InStop, StoppedExit, records,
       memory, stops, Over, Unless
<1> QED
  BY <1>1, <1>2, <1>3, <1>4 DEF ChannelInv

\* An exit after the last attempt leaves none either.
LEMMA GiveUpKeeps ==
  ASSUME ChannelInv, NEW n \in Starts, GiveUp(n)
  PROVE  ChannelInv'
<1>1. ChannelTypeOK'
  BY StartNumbers, AttemptNumbers DEF ChannelInv, ChannelTypeOK, ActiveIsRecorded,
       Active, Booting, BootsReserve, GiveUp, records, memory, stops, Over, Unless
<1>2. BootsReserve'
  BY StartNumbers, AttemptNumbers DEF ChannelInv, ChannelTypeOK, BootsReserve,
       ActiveIsRecorded, StopsReach, Active, Booting, InStop, GiveUp, records, memory,
       stops, Over, Unless
<1>3. ActiveIsRecorded'
  BY StartNumbers, AttemptNumbers DEF ChannelInv, ChannelTypeOK, BootsReserve,
       ActiveIsRecorded, StopsReach, Active, Booting, InStop, GiveUp, records, memory,
       stops, Over, Unless
<1>4. StopsReach'
  BY StartNumbers, AttemptNumbers DEF ChannelInv, ChannelTypeOK, BootsReserve,
       ActiveIsRecorded, StopsReach, Active, Booting, InStop, GiveUp, records, memory,
       stops, Over, Unless
<1> QED
  BY <1>1, <1>2, <1>3, <1>4 DEF ChannelInv

\* A backoff keeps the records.
LEMMA BackOffKeeps ==
  ASSUME ChannelInv, NEW n \in Starts, BackOff(n)
  PROVE  ChannelInv'
<1>1. ChannelTypeOK'
  BY StartNumbers, AttemptNumbers DEF ChannelInv, ChannelTypeOK, ActiveIsRecorded,
       Active, Booting, BootsReserve, BackOff, records, memory, stops
<1>2. BootsReserve'
  BY StartNumbers, AttemptNumbers DEF ChannelInv, ChannelTypeOK, BootsReserve,
       ActiveIsRecorded, StopsReach, Active, Booting, InStop, BackOff, records,
       memory, stops
<1>3. ActiveIsRecorded'
  BY StartNumbers, AttemptNumbers DEF ChannelInv, ChannelTypeOK, BootsReserve,
       ActiveIsRecorded, StopsReach, Active, Booting, InStop, BackOff, records,
       memory, stops
<1>4. StopsReach'
  BY StartNumbers, AttemptNumbers DEF ChannelInv, ChannelTypeOK, BootsReserve,
       ActiveIsRecorded, StopsReach, Active, Booting, InStop, BackOff, records,
       memory, stops
<1> QED
  BY <1>1, <1>2, <1>3, <1>4 DEF ChannelInv

\* An aborted backoff gives them up.
LEMMA BackoffAbortedKeeps ==
  ASSUME ChannelInv, NEW n \in Starts, BackoffAborted(n)
  PROVE  ChannelInv'
<1>1. ChannelTypeOK'
  BY StartNumbers, AttemptNumbers DEF ChannelInv, ChannelTypeOK, ActiveIsRecorded,
       Active, Booting, BootsReserve, BackoffAborted, records, memory, stops, Over,
       Unless
<1>2. BootsReserve'
  BY StartNumbers, AttemptNumbers DEF ChannelInv, ChannelTypeOK, BootsReserve,
       ActiveIsRecorded, StopsReach, Active, Booting, InStop, BackoffAborted, records,
       memory, stops, Over, Unless
<1>3. ActiveIsRecorded'
  BY StartNumbers, AttemptNumbers DEF ChannelInv, ChannelTypeOK, BootsReserve,
       ActiveIsRecorded, StopsReach, Active, Booting, InStop, BackoffAborted, records,
       memory, stops, Over, Unless
<1>4. StopsReach'
  BY StartNumbers, AttemptNumbers DEF ChannelInv, ChannelTypeOK, BootsReserve,
       ActiveIsRecorded, StopsReach, Active, Booting, InStop, BackoffAborted, records,
       memory, stops, Over, Unless
<1> QED
  BY <1>1, <1>2, <1>3, <1>4 DEF ChannelInv

\* A restart finds no other start in use, so that it forgets its records and either
\* reserves the account again or finds it disabled.
LEMMA RestartKeeps ==
  ASSUME NoRaces, ChannelInv, NEW n \in Starts, Restart(n)
  PROVE  ChannelInv'
<1> DEFINE after == [at EXCEPT ![n] = "over"]
<1>1. /\ task = n /\ abort = n /\ starting = 0 /\ attempts <= MaxAttempts
      /\ after \in [Starts -> {"over", "booting", "unfit", "running", "backoff"}]
      /\ \A m \in Starts : after[m] = "over"
      /\ ChannelTypeOK /\ StopsReach
  <2>1. task = n /\ abort = n /\ attempts <= MaxAttempts
    BY DEF ChannelInv, ActiveIsRecorded, Active, Booting, Restart
  <2>2. \A m \in Starts : m # n => ~Active(m) /\ ~Booting(m)
    BY <2>1, StartNumbers DEF ChannelInv, ActiveIsRecorded, BootsReserve
  <2>3. starting \in Starts \/ starting = 0
    BY StartsAssumption DEF StartsAssumption, Starts, ChannelInv, ChannelTypeOK
  <2>4. at[n] = "backoff" /\ starting = 0
    BY <2>2, <2>3 DEF Restart, ChannelInv, BootsReserve, Booting
  <2>5. at \in [Starts -> {"over", "booting", "unfit", "running", "backoff"}]
    BY DEF ChannelInv, ChannelTypeOK
  <2> QED
    BY <2>1, <2>2, <2>4, <2>5 DEF ChannelInv, Active, Booting
<1>2. Unless(n, task) = 0 /\ Unless(n, abort) = 0 /\ Unless(n, starting) = 0
  BY <1>1, StartNumbers DEF Unless
<1>3. /\ UNCHANGED <<hook, usable, manual, attempts, stops, wanted>>
      /\ \/ Over(n) /\ UNCHANGED <<auto, status>>
         \/ Reserve(after, 0, 0, TRUE) /\ UNCHANGED aborted
         \/ NoReserve(after, 0, 0) /\ UNCHANGED aborted
  BY <1>2 DEF Restart, StartCall
<1> HIDE DEF after
<1>4. CASE Over(n) /\ UNCHANGED <<auto, status>>
  <2> USE <1>1, <1>2, <1>3, <1>4, StartNumbers
  <2>0. at' = after
    BY DEF Over, after
  <2>1. ChannelTypeOK'
    BY <2>0 DEF ChannelTypeOK, BootsReserve, ActiveIsRecorded, StopsReach, Active,
         Booting, InStop, Usabilities, Over, stops
  <2>2. BootsReserve'
    BY <2>0 DEF ChannelTypeOK, BootsReserve, ActiveIsRecorded, StopsReach, Active,
         Booting, InStop, Over, stops
  <2>3. ActiveIsRecorded'
    BY <2>0 DEF ChannelTypeOK, BootsReserve, ActiveIsRecorded, StopsReach, Active,
         Booting, InStop, Over, stops
  <2>4. StopsReach'
    BY <2>0 DEF ChannelTypeOK, BootsReserve, ActiveIsRecorded, StopsReach, Active,
         Booting, InStop, Over, stops
  <2> QED
    BY <2>1, <2>2, <2>3, <2>4 DEF ChannelInv
<1>5. CASE Reserve(after, 0, 0, TRUE) /\ UNCHANGED aborted
  <2>a. PICK m \in Starts, stage \in {"booting", "unfit"} :
          /\ at' = [after EXCEPT ![m] = stage]
          /\ auto' = [auto EXCEPT ![m] = TRUE]
          /\ task' = 0 /\ abort' = m /\ starting' = m
    BY <1>5 DEF Reserve, Records
  <2>b. UNCHANGED status /\ \A w \in Stoppers : ~InStop(w)
    BY <1>5 DEF Reserve, Records, NoRaces
  <2> USE <1>1, <1>3, <1>5, <2>a, <2>b, StartNumbers
  <2>1. ChannelTypeOK'
    BY StartNumbers DEF ChannelTypeOK, BootsReserve, ActiveIsRecorded, StopsReach,
         Active, Booting, InStop, Usabilities, stops
  <2>2. BootsReserve'
    BY StartNumbers DEF ChannelTypeOK, BootsReserve, ActiveIsRecorded, StopsReach,
         Active, Booting, InStop, stops
  <2>3. ActiveIsRecorded'
    BY StartNumbers DEF ChannelTypeOK, BootsReserve, ActiveIsRecorded, StopsReach,
         Active, Booting, InStop, stops
  <2>4. StopsReach'
    BY StartNumbers DEF ChannelTypeOK, BootsReserve, ActiveIsRecorded, StopsReach,
         Active, Booting, InStop, stops
  <2> QED
    BY <2>1, <2>2, <2>3, <2>4 DEF ChannelInv
<1>6. CASE NoReserve(after, 0, 0) /\ UNCHANGED aborted
  <2>a. at' = after /\ task' = 0 /\ abort' = 0 /\ status' = FALSE /\ UNCHANGED <<auto, starting>>
    BY <1>1, <1>6 DEF NoReserve
  <2> USE <1>1, <1>3, <1>6, <2>a, StartNumbers
  <2>1. ChannelTypeOK'
    BY StartNumbers DEF ChannelTypeOK, BootsReserve, ActiveIsRecorded, StopsReach,
         Active, Booting, InStop, Usabilities, stops
  <2>2. BootsReserve'
    BY StartNumbers DEF ChannelTypeOK, BootsReserve, ActiveIsRecorded, StopsReach,
         Active, Booting, InStop, stops
  <2>3. ActiveIsRecorded'
    BY StartNumbers DEF ChannelTypeOK, BootsReserve, ActiveIsRecorded, StopsReach,
         Active, Booting, InStop, stops
  <2>4. StopsReach'
    BY StartNumbers DEF ChannelTypeOK, BootsReserve, ActiveIsRecorded, StopsReach,
         Active, Booting, InStop, stops
  <2> QED
    BY <2>1, <2>2, <2>3, <2>4 DEF ChannelInv
<1> QED
  BY <1>3, <1>4, <1>5, <1>6

\* A stop whose hook has ended still awaits the same task.
LEMMA HookEndsKeeps ==
  ASSUME ChannelInv, NEW w \in Stoppers, HookEnds(w)
  PROVE  ChannelInv'
<1>1. ChannelTypeOK'
  BY StartNumbers, AttemptNumbers DEF ChannelInv, ChannelTypeOK, ActiveIsRecorded,
       Active, Booting, BootsReserve, HookEnds, records, memory, stops
<1>2. BootsReserve'
  BY StartNumbers, AttemptNumbers DEF ChannelInv, ChannelTypeOK, BootsReserve,
       ActiveIsRecorded, StopsReach, Active, Booting, InStop, HookEnds, records,
       memory, stops
<1>3. ActiveIsRecorded'
  BY StartNumbers, AttemptNumbers DEF ChannelInv, ChannelTypeOK, BootsReserve,
       ActiveIsRecorded, StopsReach, Active, Booting, InStop, HookEnds, records,
       memory, stops
<1>4. StopsReach'
  BY StartNumbers, AttemptNumbers DEF ChannelInv, ChannelTypeOK, BootsReserve,
       ActiveIsRecorded, StopsReach, Active, Booting, InStop, HookEnds, records,
       memory, stops
<1> QED
  BY <1>1, <1>2, <1>3, <1>4 DEF ChannelInv

\* A stop whose hook rejects leaves the records to the start they belong to.
LEMMA HookFailsKeeps ==
  ASSUME ChannelInv, NEW w \in Stoppers, HookFails(w)
  PROVE  ChannelInv'
<1>1. ChannelTypeOK'
  BY StartNumbers, AttemptNumbers DEF ChannelInv, ChannelTypeOK, ActiveIsRecorded,
       Active, Booting, BootsReserve, HookFails, records, memory, stops
<1>2. BootsReserve'
  BY StartNumbers, AttemptNumbers DEF ChannelInv, ChannelTypeOK, BootsReserve,
       ActiveIsRecorded, StopsReach, Active, Booting, InStop, HookFails, records,
       memory, stops
<1>3. ActiveIsRecorded'
  BY StartNumbers, AttemptNumbers DEF ChannelInv, ChannelTypeOK, BootsReserve,
       ActiveIsRecorded, StopsReach, Active, Booting, InStop, HookFails, records,
       memory, stops
<1>4. StopsReach'
  BY StartNumbers, AttemptNumbers DEF ChannelInv, ChannelTypeOK, BootsReserve,
       ActiveIsRecorded, StopsReach, Active, Booting, InStop, HookFails, records,
       memory, stops
<1> QED
  BY <1>1, <1>2, <1>3, <1>4 DEF ChannelInv

\* When a stop deletes the records, nothing runs: it has awaited what did.
LEMMA StopEndsKeeps ==
  ASSUME ChannelInv, NEW w \in Stoppers, StopEnds(w)
  PROVE  ChannelInv'
<1>1. ChannelTypeOK'
  <2>1. PICK next \in {"idle", "loggingOut", "starting"} :
          stopAt' = [stopAt EXCEPT ![w] = next]
    BY DEF StopEnds
  <2>2. stopAt' \in [Stoppers -> {"idle", "hook", "waiting", "starting", "loggingOut"}]
    BY <2>1 DEF ChannelInv, ChannelTypeOK
  <2>3. stopTask' \in [Stoppers -> 0 .. MaxStarts]
    BY StartNumbers DEF ChannelInv, ChannelTypeOK, StopEnds
  <2> QED
    BY <2>2, <2>3, StartNumbers DEF ChannelInv, ChannelTypeOK, StopEnds
<1>2. BootsReserve'
  BY StartNumbers, AttemptNumbers DEF ChannelInv, ChannelTypeOK, BootsReserve,
       ActiveIsRecorded, StopsReach, Active, Booting, InStop, StopEnds, records,
       memory, stops
<1>3. ActiveIsRecorded'
  BY StartNumbers, AttemptNumbers DEF ChannelInv, ChannelTypeOK, BootsReserve,
       ActiveIsRecorded, StopsReach, Active, Booting, InStop, StopEnds, records,
       memory, stops
<1>4. StopsReach'
  BY StartNumbers, AttemptNumbers DEF ChannelInv, ChannelTypeOK, BootsReserve,
       ActiveIsRecorded, StopsReach, Active, Booting, InStop, StopEnds, records,
       memory, stops
<1> QED
  BY <1>1, <1>2, <1>3, <1>4 DEF ChannelInv

\* A logout changes no start.
LEMMA LoggedOutKeeps ==
  ASSUME ChannelInv, LoggedOut
  PROVE  ChannelInv'
<1>1. ChannelTypeOK'
  BY StartNumbers, AttemptNumbers DEF ChannelInv, ChannelTypeOK, ActiveIsRecorded,
       Active, Booting, BootsReserve, LoggedOut, records, memory, stops
<1>2. BootsReserve'
  BY StartNumbers, AttemptNumbers DEF ChannelInv, ChannelTypeOK, BootsReserve,
       ActiveIsRecorded, StopsReach, Active, Booting, InStop, LoggedOut, records,
       memory, stops
<1>3. ActiveIsRecorded'
  BY StartNumbers, AttemptNumbers DEF ChannelInv, ChannelTypeOK, BootsReserve,
       ActiveIsRecorded, StopsReach, Active, Booting, InStop, LoggedOut, records,
       memory, stops
<1>4. StopsReach'
  BY StartNumbers, AttemptNumbers DEF ChannelInv, ChannelTypeOK, BootsReserve,
       ActiveIsRecorded, StopsReach, Active, Booting, InStop, LoggedOut, records,
       memory, stops
<1> QED
  BY <1>1, <1>2, <1>3, <1>4 DEF ChannelInv

\* A stop aborts what boots and awaits what runs.
LEMMA UserStopsKeeps ==
  ASSUME ChannelInv, UserStops
  PROVE  ChannelInv'
<1>1. ChannelTypeOK'
  <2>1. stopAt' \in [Stoppers -> {"idle", "hook", "waiting", "starting", "loggingOut"}]
    BY DEF ChannelInv, ChannelTypeOK, UserStops, BeginStop, CanStop
  <2>2. abort # 0 => abort \in Starts
    BY StartsAssumption DEF StartsAssumption, Starts, ChannelInv, ChannelTypeOK
  <2>3. stopTask' \in [Stoppers -> 0 .. MaxStarts] /\ aborted' \subseteq Starts
    BY <2>2 DEF ChannelInv, ChannelTypeOK, UserStops, BeginStop, CanStop
  <2>4. manual' \in BOOLEAN /\ usable' \in Usabilities
    BY DEF ChannelInv, ChannelTypeOK, UserStops, BeginStop, CanStop
  <2>5. wanted' \in {"running", "stopped", "contested", "failed"}
    BY DEF ChannelInv, ChannelTypeOK, UserStops, BeginStop, CanStop
  <2> QED
    BY <2>1, <2>3, <2>4, <2>5 DEF ChannelInv, ChannelTypeOK, records, UserStops,
         BeginStop, CanStop
<1>2. BootsReserve'
  BY StartNumbers, AttemptNumbers DEF ChannelInv, ChannelTypeOK, BootsReserve,
       ActiveIsRecorded, StopsReach, Active, Booting, InStop, UserStops, records,
       memory, stops, BeginStop, CanStop
<1>3. ActiveIsRecorded'
  BY StartNumbers, AttemptNumbers DEF ChannelInv, ChannelTypeOK, BootsReserve,
       ActiveIsRecorded, StopsReach, Active, Booting, InStop, UserStops, records,
       memory, stops, BeginStop, CanStop
<1>4. StopsReach'
  BY StartNumbers, AttemptNumbers DEF ChannelInv, ChannelTypeOK, BootsReserve,
       ActiveIsRecorded, StopsReach, Active, Booting, InStop, UserStops, records,
       memory, stops, BeginStop, CanStop
<1> QED
  BY <1>1, <1>2, <1>3, <1>4 DEF ChannelInv

\* A start that is reserved finds no stop under way and no record.
LEMMA UserStartsKeeps ==
  ASSUME NoRaces, ChannelInv, UserStarts
  PROVE  ChannelInv'
<1>1. ChannelTypeOK'
  <2>1. StartCall(at, task, abort, FALSE) /\ ChannelTypeOK
    BY DEF ChannelInv, UserStarts
  <2>2. /\ at' \in [Starts -> {"over", "booting", "unfit", "running", "backoff"}]
        /\ auto' \in [Starts -> BOOLEAN]
        /\ {task', abort', starting'} \subseteq 0 .. MaxStarts
        /\ status' \in BOOLEAN
    BY <2>1, StartCallTypes
  <2>3. /\ attempts' \in 0 .. MaxAttempts + 1
        /\ wanted' \in {"running", "stopped", "contested", "failed"}
    BY <2>1, AttemptNumbers DEF ChannelTypeOK, UserStarts, AfterStart
  <2>4. /\ UNCHANGED <<hook, usable, aborted, manual, stopTask>>
        /\ stopAt' \in [Stoppers -> {"idle", "hook", "waiting", "starting", "loggingOut"}]
    BY <2>1 DEF ChannelTypeOK, UserStarts, stops
  <2> QED
    BY <2>1, <2>2, <2>3, <2>4 DEF ChannelTypeOK
<1>2. BootsReserve'
  BY StartNumbers, AttemptNumbers DEF ChannelInv, ChannelTypeOK, BootsReserve,
       ActiveIsRecorded, StopsReach, Active, Booting, InStop, UserStarts, records,
       memory, stops, AfterStart, StartCall, Reserve, NoReserve, Records, NoRaces
<1>3. ActiveIsRecorded'
  BY StartNumbers, AttemptNumbers DEF ChannelInv, ChannelTypeOK, BootsReserve,
       ActiveIsRecorded, StopsReach, Active, Booting, InStop, UserStarts, records,
       memory, stops, AfterStart, StartCall, Reserve, NoReserve, Records, NoRaces
<1>4. StopsReach'
  BY StartNumbers, AttemptNumbers DEF ChannelInv, ChannelTypeOK, BootsReserve,
       ActiveIsRecorded, StopsReach, Active, Booting, InStop, UserStarts, records,
       memory, stops, AfterStart, StartCall, Reserve, NoReserve, Records, NoRaces
<1> QED
  BY <1>1, <1>2, <1>3, <1>4 DEF ChannelInv

\* A stop by a reload does the same as a user's.
LEMMA ReloadStopsKeeps ==
  ASSUME ChannelInv, ReloadStops
  PROVE  ChannelInv'
<1>1. ChannelTypeOK'
  <2>1. stopAt' \in [Stoppers -> {"idle", "hook", "waiting", "starting", "loggingOut"}]
    BY DEF ChannelInv, ChannelTypeOK, ReloadStops, BeginStop, CanStop
  <2>2. abort # 0 => abort \in Starts
    BY StartsAssumption DEF StartsAssumption, Starts, ChannelInv, ChannelTypeOK
  <2>3. stopTask' \in [Stoppers -> 0 .. MaxStarts] /\ aborted' \subseteq Starts
    BY <2>2 DEF ChannelInv, ChannelTypeOK, ReloadStops, BeginStop, CanStop
  <2>4. manual' \in BOOLEAN /\ usable' \in Usabilities
    BY DEF ChannelInv, ChannelTypeOK, ReloadStops, BeginStop, CanStop
  <2>5. wanted' \in {"running", "stopped", "contested", "failed"}
    BY DEF ChannelInv, ChannelTypeOK, ReloadStops, BeginStop, CanStop
  <2> QED
    BY <2>1, <2>3, <2>4, <2>5 DEF ChannelInv, ChannelTypeOK, records, ReloadStops,
         BeginStop, CanStop
<1>2. BootsReserve'
  BY StartNumbers, AttemptNumbers DEF ChannelInv, ChannelTypeOK, BootsReserve,
       ActiveIsRecorded, StopsReach, Active, Booting, InStop, ReloadStops, records,
       memory, stops, BeginStop, CanStop
<1>3. ActiveIsRecorded'
  BY StartNumbers, AttemptNumbers DEF ChannelInv, ChannelTypeOK, BootsReserve,
       ActiveIsRecorded, StopsReach, Active, Booting, InStop, ReloadStops, records,
       memory, stops, BeginStop, CanStop
<1>4. StopsReach'
  BY StartNumbers, AttemptNumbers DEF ChannelInv, ChannelTypeOK, BootsReserve,
       ActiveIsRecorded, StopsReach, Active, Booting, InStop, ReloadStops, records,
       memory, stops, BeginStop, CanStop
<1> QED
  BY <1>1, <1>2, <1>3, <1>4 DEF ChannelInv

\* So does the start after it.
LEMMA ReloadStartsKeeps ==
  ASSUME NoRaces, ChannelInv, ReloadStarts
  PROVE  ChannelInv'
<1>1. ChannelTypeOK'
  <2>1. StartCall(at, task, abort, FALSE) /\ ChannelTypeOK
    BY DEF ChannelInv, ReloadStarts
  <2>2. /\ at' \in [Starts -> {"over", "booting", "unfit", "running", "backoff"}]
        /\ auto' \in [Starts -> BOOLEAN]
        /\ {task', abort', starting'} \subseteq 0 .. MaxStarts
        /\ status' \in BOOLEAN
    BY <2>1, StartCallTypes
  <2>3. /\ attempts' \in 0 .. MaxAttempts + 1
        /\ wanted' \in {"running", "stopped", "contested", "failed"}
    BY <2>1, AttemptNumbers DEF ChannelTypeOK, ReloadStarts, AfterStart
  <2>4. /\ UNCHANGED <<hook, usable, aborted, manual, stopTask>>
        /\ stopAt' \in [Stoppers -> {"idle", "hook", "waiting", "starting", "loggingOut"}]
    BY <2>1 DEF ChannelTypeOK, ReloadStarts, stops
  <2> QED
    BY <2>1, <2>2, <2>3, <2>4 DEF ChannelTypeOK
<1>2. BootsReserve'
  BY StartNumbers, AttemptNumbers DEF ChannelInv, ChannelTypeOK, BootsReserve,
       ActiveIsRecorded, StopsReach, Active, Booting, InStop, ReloadStarts, records,
       memory, stops, AfterStart, StartCall, Reserve, NoReserve, Records, NoRaces
<1>3. ActiveIsRecorded'
  BY StartNumbers, AttemptNumbers DEF ChannelInv, ChannelTypeOK, BootsReserve,
       ActiveIsRecorded, StopsReach, Active, Booting, InStop, ReloadStarts, records,
       memory, stops, AfterStart, StartCall, Reserve, NoReserve, Records, NoRaces
<1>4. StopsReach'
  BY StartNumbers, AttemptNumbers DEF ChannelInv, ChannelTypeOK, BootsReserve,
       ActiveIsRecorded, StopsReach, Active, Booting, InStop, ReloadStarts, records,
       memory, stops, AfterStart, StartCall, Reserve, NoReserve, Records, NoRaces
<1> QED
  BY <1>1, <1>2, <1>3, <1>4 DEF ChannelInv

\* A stop by the monitor.
LEMMA MonitorFindsStuckKeeps ==
  ASSUME ChannelInv, MonitorFindsStuck
  PROVE  ChannelInv'
<1>1. ChannelTypeOK'
  <2>1. stopAt' \in [Stoppers -> {"idle", "hook", "waiting", "starting", "loggingOut"}]
    BY DEF ChannelInv, ChannelTypeOK, MonitorFindsStuck, BeginStop, CanStop,
         MonitorLooks
  <2>2. abort # 0 => abort \in Starts
    BY StartsAssumption DEF StartsAssumption, Starts, ChannelInv, ChannelTypeOK
  <2>3. stopTask' \in [Stoppers -> 0 .. MaxStarts] /\ aborted' \subseteq Starts
    BY <2>2 DEF ChannelInv, ChannelTypeOK, MonitorFindsStuck, BeginStop, CanStop,
         MonitorLooks
  <2>4. manual' \in BOOLEAN /\ usable' \in Usabilities
    BY DEF ChannelInv, ChannelTypeOK, MonitorFindsStuck, BeginStop, CanStop,
         MonitorLooks
  <2>5. wanted' \in {"running", "stopped", "contested", "failed"}
    BY DEF ChannelInv, ChannelTypeOK, MonitorFindsStuck, BeginStop, CanStop,
         MonitorLooks
  <2> QED
    BY <2>1, <2>3, <2>4, <2>5 DEF ChannelInv, ChannelTypeOK, records, MonitorFindsStuck,
         BeginStop, CanStop, MonitorLooks
<1>2. BootsReserve'
  BY StartNumbers, AttemptNumbers DEF ChannelInv, ChannelTypeOK, BootsReserve,
       ActiveIsRecorded, StopsReach, Active, Booting, InStop, MonitorFindsStuck,
       records, memory, stops, BeginStop, CanStop, MonitorLooks
<1>3. ActiveIsRecorded'
  BY StartNumbers, AttemptNumbers DEF ChannelInv, ChannelTypeOK, BootsReserve,
       ActiveIsRecorded, StopsReach, Active, Booting, InStop, MonitorFindsStuck,
       records, memory, stops, BeginStop, CanStop, MonitorLooks
<1>4. StopsReach'
  BY StartNumbers, AttemptNumbers DEF ChannelInv, ChannelTypeOK, BootsReserve,
       ActiveIsRecorded, StopsReach, Active, Booting, InStop, MonitorFindsStuck,
       records, memory, stops, BeginStop, CanStop, MonitorLooks
<1> QED
  BY <1>1, <1>2, <1>3, <1>4 DEF ChannelInv

\* A start by the monitor, which sets the attempts back.
LEMMA MonitorFindsDownKeeps ==
  ASSUME NoRaces, ChannelInv, MonitorFindsDown
  PROVE  ChannelInv'
<1>1. ChannelTypeOK'
  <2>1. StartCall(at, task, abort, FALSE) /\ ChannelTypeOK
    BY DEF ChannelInv, MonitorFindsDown
  <2>2. /\ at' \in [Starts -> {"over", "booting", "unfit", "running", "backoff"}]
        /\ auto' \in [Starts -> BOOLEAN]
        /\ {task', abort', starting'} \subseteq 0 .. MaxStarts
        /\ status' \in BOOLEAN
    BY <2>1, StartCallTypes
  <2>3. /\ attempts' \in 0 .. MaxAttempts + 1
        /\ wanted' \in {"running", "stopped", "contested", "failed"}
    BY <2>1, AttemptNumbers DEF ChannelTypeOK, MonitorFindsDown, AfterStart
  <2>4. /\ UNCHANGED <<hook, usable, aborted, manual, stopTask>>
        /\ stopAt' \in [Stoppers -> {"idle", "hook", "waiting", "starting", "loggingOut"}]
    BY <2>1 DEF ChannelTypeOK, MonitorFindsDown, stops
  <2> QED
    BY <2>1, <2>2, <2>3, <2>4 DEF ChannelTypeOK
<1>2. BootsReserve'
  BY StartNumbers, AttemptNumbers DEF ChannelInv, ChannelTypeOK, BootsReserve,
       ActiveIsRecorded, StopsReach, Active, Booting, InStop, MonitorFindsDown,
       records, memory, stops, MonitorLooks, StartCall, Reserve, NoReserve, Records,
       NoRaces
<1>3. ActiveIsRecorded'
  BY StartNumbers, AttemptNumbers DEF ChannelInv, ChannelTypeOK, BootsReserve,
       ActiveIsRecorded, StopsReach, Active, Booting, InStop, MonitorFindsDown,
       records, memory, stops, MonitorLooks, StartCall, Reserve, NoReserve, Records,
       NoRaces
<1>4. StopsReach'
  BY StartNumbers, AttemptNumbers DEF ChannelInv, ChannelTypeOK, BootsReserve,
       ActiveIsRecorded, StopsReach, Active, Booting, InStop, MonitorFindsDown,
       records, memory, stops, MonitorLooks, StartCall, Reserve, NoReserve, Records,
       NoRaces
<1> QED
  BY <1>1, <1>2, <1>3, <1>4 DEF ChannelInv

\* The start after the monitor's stop.
LEMMA MonitorStartsKeeps ==
  ASSUME NoRaces, ChannelInv, MonitorStarts
  PROVE  ChannelInv'
<1>1. ChannelTypeOK'
  <2>1. StartCall(at, task, abort, FALSE) /\ ChannelTypeOK
    BY DEF ChannelInv, MonitorStarts
  <2>2. /\ at' \in [Starts -> {"over", "booting", "unfit", "running", "backoff"}]
        /\ auto' \in [Starts -> BOOLEAN]
        /\ {task', abort', starting'} \subseteq 0 .. MaxStarts
        /\ status' \in BOOLEAN
    BY <2>1, StartCallTypes
  <2>3. /\ attempts' \in 0 .. MaxAttempts + 1
        /\ wanted' \in {"running", "stopped", "contested", "failed"}
    BY <2>1, AttemptNumbers DEF ChannelTypeOK, MonitorStarts, AfterStart
  <2>4. /\ UNCHANGED <<hook, usable, aborted, manual, stopTask>>
        /\ stopAt' \in [Stoppers -> {"idle", "hook", "waiting", "starting", "loggingOut"}]
    BY <2>1 DEF ChannelTypeOK, MonitorStarts, stops
  <2> QED
    BY <2>1, <2>2, <2>3, <2>4 DEF ChannelTypeOK
<1>2. BootsReserve'
  BY StartNumbers, AttemptNumbers DEF ChannelInv, ChannelTypeOK, BootsReserve,
       ActiveIsRecorded, StopsReach, Active, Booting, InStop, MonitorStarts, records,
       memory, stops, StartCall, Reserve, NoReserve, Records, NoRaces
<1>3. ActiveIsRecorded'
  BY StartNumbers, AttemptNumbers DEF ChannelInv, ChannelTypeOK, BootsReserve,
       ActiveIsRecorded, StopsReach, Active, Booting, InStop, MonitorStarts, records,
       memory, stops, StartCall, Reserve, NoReserve, Records, NoRaces
<1>4. StopsReach'
  BY StartNumbers, AttemptNumbers DEF ChannelInv, ChannelTypeOK, BootsReserve,
       ActiveIsRecorded, StopsReach, Active, Booting, InStop, MonitorStarts, records,
       memory, stops, StartCall, Reserve, NoReserve, Records, NoRaces
<1> QED
  BY <1>1, <1>2, <1>3, <1>4 DEF ChannelInv

\* One step for each action.
LEMMA NextKeeps ==
  ASSUME NoRaces, ChannelInv, [Next]_vars
  PROVE  ChannelInv'
<1>1. CASE UNCHANGED vars
  BY <1>1 DEF ChannelInv, ChannelTypeOK, BootsReserve, ActiveIsRecorded, StopsReach,
       Active, Booting, InStop, vars, records, memory, stops
<1>2. ASSUME NEW n \in Starts, Start(n)
      PROVE  ChannelInv'
  BY <1>2, UnconfiguredKeeps, BootEndsKeeps, StoppedExitKeeps, GiveUpKeeps,
       BackOffKeeps, BackoffAbortedKeeps, RestartKeeps
     DEF Start, TaskExits
<1>3. ASSUME NEW w \in Stoppers, HookEnds(w) \/ HookFails(w) \/ StopEnds(w)
      PROVE  ChannelInv'
  BY <1>3, HookEndsKeeps, HookFailsKeeps, StopEndsKeeps
<1> QED
  BY <1>1, <1>2, <1>3, LoggedOutKeeps, UserStopsKeeps, UserStartsKeeps,
       ReloadStopsKeeps, ReloadStartsKeeps, MonitorFindsStuckKeeps,
       MonitorFindsDownKeeps, MonitorStartsKeeps
     DEF Next, Monitor

\* While a user's stop holds, only automatic boots are under way, and these are
\* aborted; nothing else may start without changing what is wanted.
LEMMA StopHoldsKeeps ==
  ASSUME NoRaces, ChannelInv, StopHolds, [Next]_vars
  PROVE  StopHolds'
<1>0. CASE UNCHANGED vars
  BY <1>0 DEF StopHolds, Active, Booting, InStop, vars, records, memory, stops
<1>1. ASSUME NEW n \in Starts, Unconfigured(n)
      PROVE  StopHolds'
  BY <1>1, StartNumbers DEF ChannelInv, ChannelTypeOK, BootsReserve, ActiveIsRecorded,
       StopsReach, Stoppers,
     StopHolds, Active, Booting, InStop, Unconfigured, records, memory, stops, Over
<1>2. ASSUME NEW n \in Starts, BootEnds(n)
      PROVE  StopHolds'
  BY <1>2, StartNumbers DEF ChannelInv, ChannelTypeOK, BootsReserve, ActiveIsRecorded,
       StopsReach, Stoppers, StopHolds, Active, Booting, InStop, BootEnds, records,
       memory, stops, ManualAtBoot, Over
<1>3. ASSUME NEW n \in Starts, StoppedExit(n)
      PROVE  StopHolds'
  BY <1>3, StartNumbers DEF ChannelInv, ChannelTypeOK, BootsReserve, ActiveIsRecorded,
       StopsReach, Stoppers,
     StopHolds, Active, Booting, InStop, StoppedExit, records, memory, stops, Over
<1>4. ASSUME NEW n \in Starts, GiveUp(n)
      PROVE  StopHolds'
  BY <1>4, StartNumbers DEF ChannelInv, ChannelTypeOK, BootsReserve, ActiveIsRecorded,
       StopsReach, Stoppers,
     StopHolds, Active, Booting, InStop, GiveUp, records, memory, stops, Over
<1>5. ASSUME NEW n \in Starts, BackOff(n)
      PROVE  StopHolds'
  BY <1>5, StartNumbers DEF ChannelInv, ChannelTypeOK, BootsReserve, ActiveIsRecorded,
       StopsReach, Stoppers,
     StopHolds, Active, Booting, InStop, BackOff, records, memory, stops
<1>6. ASSUME NEW n \in Starts, BackoffAborted(n)
      PROVE  StopHolds'
  BY <1>6, StartNumbers DEF ChannelInv, ChannelTypeOK, BootsReserve, ActiveIsRecorded,
       StopsReach, Stoppers,
     StopHolds, Active, Booting, InStop, BackoffAborted, records, memory, stops, Over
<1>7. ASSUME NEW n \in Starts, Restart(n)
      PROVE  StopHolds'
  BY <1>7, StartNumbers DEF ChannelInv, ChannelTypeOK, BootsReserve, ActiveIsRecorded,
       StopsReach, Stoppers, StopHolds, Active, Booting, InStop, Restart, records,
       memory, stops, Over, StartCall, Reserve, NoReserve, Records, NoRaces
<1>8. ASSUME NEW w \in Stoppers, HookEnds(w)
      PROVE  StopHolds'
  BY <1>8, StartNumbers DEF ChannelInv, ChannelTypeOK, BootsReserve, ActiveIsRecorded,
       StopsReach, Stoppers,
     StopHolds, Active, Booting, InStop, HookEnds, records, memory, stops
<1>9. ASSUME NEW w \in Stoppers, StopEnds(w)
      PROVE  StopHolds'
  BY <1>9, StartNumbers DEF ChannelInv, ChannelTypeOK, BootsReserve, ActiveIsRecorded,
       StopsReach, Stoppers,
     StopHolds, Active, Booting, InStop, StopEnds, records, memory, stops
<1>10. CASE LoggedOut
  BY <1>10, StartNumbers DEF ChannelInv, ChannelTypeOK, BootsReserve, ActiveIsRecorded,
       StopsReach, Stoppers,
     StopHolds, Active, Booting, InStop, LoggedOut, records, memory, stops
<1>11. CASE UserStops
  BY <1>11, StartNumbers DEF ChannelInv, ChannelTypeOK, BootsReserve,
       ActiveIsRecorded, StopsReach, Stoppers, StopHolds, Active, Booting, InStop,
       UserStops, records, memory, stops, BeginStop, CanStop, Contested
<1>12. CASE UserStarts
  BY <1>12, StartNumbers DEF ChannelInv, ChannelTypeOK, BootsReserve, ActiveIsRecorded,
       StopsReach, Stoppers,
     StopHolds, Active, Booting, InStop, UserStarts, records, memory, stops, AfterStart,
     StartCall, Reserve, NoReserve, Records, NoRaces
<1>13. CASE ReloadStops
  BY <1>13, StartNumbers DEF ChannelInv, ChannelTypeOK, BootsReserve,
       ActiveIsRecorded, StopsReach, Stoppers, StopHolds, Active, Booting, InStop,
       ReloadStops, records, memory, stops, BeginStop, CanStop
<1>14. CASE ReloadStarts
  BY <1>14, StartNumbers DEF ChannelInv, ChannelTypeOK, BootsReserve,
       ActiveIsRecorded, StopsReach, Stoppers, StopHolds, Active, Booting, InStop,
       ReloadStarts, records, memory, stops, AfterStart, StartCall, Reserve,
       NoReserve, Records, NoRaces
<1>15. CASE MonitorFindsStuck
  BY <1>15, StartNumbers DEF ChannelInv, ChannelTypeOK, BootsReserve,
       ActiveIsRecorded, StopsReach, Stoppers, StopHolds, Active, Booting, InStop,
       MonitorFindsStuck, records, memory, stops, BeginStop, CanStop, MonitorLooks
<1>16. CASE MonitorFindsDown
  BY <1>16, StartNumbers DEF ChannelInv, ChannelTypeOK, BootsReserve,
       ActiveIsRecorded, StopsReach, Stoppers, StopHolds, Active, Booting, InStop,
       MonitorFindsDown, records, memory, stops, MonitorLooks, StartCall, Reserve,
       NoReserve, Records, NoRaces
<1>17. CASE MonitorStarts
  BY <1>17, StartNumbers DEF ChannelInv, ChannelTypeOK, BootsReserve,
       ActiveIsRecorded, StopsReach, Stoppers, StopHolds, Active, Booting, InStop,
       MonitorStarts, records, memory, stops, StartCall, Reserve, NoReserve, Records,
       NoRaces
<1>18. ASSUME NEW w \in Stoppers, HookFails(w)
       PROVE  StopHolds'
  BY <1>18, StartNumbers DEF ChannelInv, ChannelTypeOK, BootsReserve, ActiveIsRecorded,
       StopsReach, Stoppers,
     StopHolds, Active, Booting, InStop, HookFails, records, memory, stops
<1> QED
  BY <1>0, <1>1, <1>2, <1>3, <1>4, <1>5, <1>6, <1>7, <1>8, <1>9, <1>10, <1>11, <1>12,
       <1>13, <1>14, <1>15, <1>16, <1>17, <1>18
     DEF Next, Start, TaskExits, Monitor

\* The invariant: starts in use, records and stops agree, and a user's stop holds.
THEOREM ChannelInvariance == NoRaces => (Spec => [](ChannelInv /\ StopHolds))
<1> SUFFICES ASSUME NoRaces PROVE Spec => [](ChannelInv /\ StopHolds)
  OBVIOUS
<1>1. Init => ChannelInv /\ StopHolds
  BY StartNumbers, AttemptNumbers
     DEF Init, ChannelInv, ChannelTypeOK, BootsReserve, ActiveIsRecorded, StopsReach,
     StopHolds, Active, Booting, InStop
<1>2. ChannelInv /\ StopHolds /\ [Next]_vars => (ChannelInv /\ StopHolds)'
  BY NextKeeps, StopHoldsKeeps
<1> QED
  BY <1>1, <1>2, PTL DEF Spec

\* Types.
THEOREM ChannelTypeCorrect == NoRaces => (Spec => []ChannelTypeOK)
<1> SUFFICES ASSUME NoRaces PROVE Spec => []ChannelTypeOK
  OBVIOUS
<1>1. Spec => [](ChannelInv /\ StopHolds)
  BY ChannelInvariance
<1>2. ChannelInv => ChannelTypeOK
  BY DEF ChannelInv
<1> QED
  BY <1>1, <1>2, PTL

\* The connector that runs is the one on record, with its abort signal, so that no
\* account runs twice and a stop reaches what runs, as long as no start gets past a
\* stop whose hook is at work.
THEOREM ConnectorsAreRecorded == NoRaces => (Spec => []RunningIsRecorded)
<1> SUFFICES ASSUME NoRaces PROVE Spec => []RunningIsRecorded
  OBVIOUS
<1>1. Spec => [](ChannelInv /\ StopHolds)
  BY ChannelInvariance
<1>2. ChannelInv => RunningIsRecorded
  BY DEF ChannelInv, ActiveIsRecorded, Active, Booting, RunningIsRecorded
<1> QED
  BY <1>1, <1>2, PTL

\* After a user's stop that meets neither a boot of an explicit start nor a restart
\* by the monitor, and whose hook does not reject, the account stays down until a
\* user or a reload starts it.
THEOREM UserStopsStick == NoRaces => (Spec => []StopSticks)
<1> SUFFICES ASSUME NoRaces PROVE Spec => []StopSticks
  OBVIOUS
<1>1. Spec => [](ChannelInv /\ StopHolds)
  BY ChannelInvariance
<1>2. StopHolds => StopSticks
  BY DEF StopHolds, Active, Booting, StopSticks
<1> QED
  BY <1>1, <1>2, PTL

=============================================================================
