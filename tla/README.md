# Agdi: a verification development

Agdi is a local-first gateway for AI agents written in TypeScript. One Node.js
process (the *gateway*) receives messages from chat channels, cron jobs and
clients, runs agent turns for them, and sends replies. This directory holds TLA+
modules of the parts of the gateway whose correctness depends on the order of
events, TLC configurations that check them on small instances, and proofs that
TLAPS checks for every value of the constants. All paths below are relative to the
repository; the implementation is under `src/`, a component's paths are in
`PROJECT.json`.

## 1. Inventory

JavaScript runs one handler at a time, so what interleaves are the pieces of code
between two `await`s, timers and callbacks. A second source of disorder is the
in-process restart: module-level state, timers and pending promises outlive the
server that made them. The third is the disk: queues persisted as files are
read and written by code that is interrupted at every `await` and by crashes.

| component | state | operations | talks to | what makes it correct |
|---|---|---|---|---|
| Command queue (`process/command-queue.ts`) | lanes: queue, active ids, limit, generation; the draining flag | enqueue, complete, set limit, clear, reset, mark draining, wait for active | every agent turn and cron job runs in a lane | no call is lost, stranded, started out of order or over the limit; slots survive resets |
| Run loop (`cli/gateway-cli/run-loop.ts`) | server, lock, `shuttingDown`, `restartResolver` | start, stop, restart, drain, close, lock hand-over | drives the command queue, the embedded runs, the server | a served gateway accepts work and holds the lock; a restart waits for turns in flight; no server is orphaned |
| Embedded runs (`agents/pi-embedded-runner/runs.ts`) | active run per session, waiters | register, clear, abort, wait | run loop, follow-up queue | the restart's wait sees every run |
| Follow-up queue (`auto-reply/reply/queue/`) | registry session → queue; items, dropped lines, drain flag; remembered ids | enqueue with deduplication and cap, schedule, drain (collect, one by one, summary), clear | runs agent turns, replies to the origin of a message | every message is shown once, in order, to the right destination |
| Outbound delivery queue (`infra/outbound/`) | files `<id>.json`, `<id>.delivered`, `failed/<id>.json`; retry counts | persist, send payloads, ack, fail, move to failed, recovery scan | channel adapters; the gateway's start | what was persisted is sent, or kept, over crashes; what was acked is not sent again |
| Restart coordinator (`infra/restart.ts`, `gateway/server-reload-handlers.ts`) | scheduled timer, polls, emit and consume tokens, authorisation count | schedule, defer until idle, emit, authorise, consume | signals the run loop | every request leads to a restart; one restart per batch of requests |
| Cron service (`cron/service/`) | job store on disk and in memory, `runningAtMs` marks, timer, per-store lock | add, update, remove, run, timer tick, start, stop | command queue, heartbeat, delivery | a due job runs once; a result is not applied to a job that changed; a crash does not block a job |
| Session and global lanes (`agents/lanes.ts`, `agents/pi-embedded-runner/`) | none of their own | choose a lane, enqueue in a session's lane and from there in a global lane | command queue | no turn waits for a slot that it holds itself |
| Gateway lock (`infra/gateway-lock.ts`), file locks (`plugin-sdk/file-lock.ts`) | a lock file with the owner's pid | acquire, stale removal, release | run loop, stores | one owner at a time |
| Reply dispatcher (`auto-reply/reply/reply-dispatcher.ts`) | a promise chain, a pending count, a reservation | send, mark complete, wait idle | channels; the restart coordinator's idle check | replies in order; idle only when nothing is pending |
| Channel manager (`gateway/server-channels.ts`) | per account: abort controller, task, restart attempts, manual stops | start, stop, automatic restart | connectors | one running task per account; a stopped account stays stopped |
| Heartbeat wake (`infra/heartbeat-wake.ts`) | pending wakes, timer, running flag | request, run, retry | heartbeat runner | no wake is lost while a run is in flight |
| Exec approvals, node registry (`gateway/`) | pending tables with timers | create, resolve, expire, invoke, disconnect | clients, nodes | each request is answered once |
| Keyed queues (`plugin-sdk/keyed-async-queue.ts`, `acp/control-plane/`) | a promise tail per key | enqueue, settle | ACP sessions | serial per key, no leaked tails |
| Subagent registry, session and configuration stores | files, locks, caches | update, announce, sweep | agent runtime | no lost update |
| Agent runtime, protocol, plugins, connectors, browser, memory, UI, CLI, goals | mostly external | | | out of scope, see 7 |

**How they interact.** A message becomes an agent turn: a call in its session's
lane of the command queue, and from there one in a global lane. A message that
finds the session busy goes to the follow-up queue, whose drain makes further
turns. A reply leaves through the outbound delivery queue, which persists it first.
A restart request waits (restart coordinator) until the command queue, the reply
dispatcher and the embedded runs are idle or a deadline passes, signals the run
loop, which refuses new calls, drains, closes the server, passes the gateway lock on,
resets the lanes and starts a new server, which scans the delivery queue.

**What is hard.** Completions that arrive after a reset; limits lowered below the
number of active calls; signals at any await of the loop; drains that time out with
work still running; a queue that is cleared and re-created while an old drain of it
awaits a turn; a cap reached while a turn is in flight; redelivered messages; crashes
between a send and its bookkeeping; a scan that runs beside live senders; files
that are read, then awaited, then rewritten. `PROJECT.json` lists the
hazards, at their lines.

## 2. Modules

| module | what it is |
|---|---|
| `LaneContract` | what the callers of the command queue rely on, without queues or slots |
| `CommandLanes` | the command queue |
| `CommandLanesProofs` | its theorems |
| `GatewayRunLoop` | the run loop and the embedded runs, composed with `CommandLanes` (it extends it, and takes its actions) |
| `GatewayRunLoopProofs` | its theorems, on top of those of the queue |
| `FollowupQueue` | the follow-up queue of one session |
| `FollowupQueueProofs` | its theorems |
| `DeliveryQueue` | the outbound delivery queue, its live senders and the recovery scan |
| `DeliveryQueueProofs` | its theorems |
| `CronService` | the cron service: start with its catch-up, timer ticks, manual runs, edits |
| `CronServiceProofs` | its theorems |
| `AgentTurns` | agent turns as chains of calls on session and global lanes, composed with `CommandLanes` (it extends it), through restarts |
| `AgentTurnsProofs` | its theorems, on top of those of the queue |
| `ReplyDispatcher` | the dispatchers of replies and their registry |
| `GatewayRestart` | what asks for a restart and when it happens, composed with `ReplyDispatcher` (it extends it) |
| `GatewayRestartProofs` | theorems about the two |
| `ChannelManager` | the channel manager for one account, with the health monitor and the hot reload |
| `ChannelManagerProofs` | its theorems |
| `MC...` | values of the constants for TLC |

### CommandLanes and LaneContract

An action is a handler: `Enqueue` (`enqueueCommandInLane` with its refusal while
draining), `Complete` (the `.then`/`.catch` of a task, with the generation check and
the pump), `SetConcurrency`, `ClearLane`, `MarkDraining`, `ResetAllLanes`,
`WaitForActive` with its polls. The pump (`drainLane`) is part of each action that
calls it. A task's body is everything between its start and its `Complete`, so
bodies overlap freely. The waits, which poll, are `WaitDrained` and `WaitTimeout`.
The queue implements `LaneContract` under a refinement mapping (`Stage`): calls
only move forward through their life, and start in order within a lane.

### GatewayRunLoop

The loop (`starting`, `awaiting`, `exited`) and the request made by a signal
(`draining`, `closing`, `releasing`, `reacquiring`) are two activities that
interleave at their awaits. `Faults` says which of the following may happen: a start
that fails, a `server.close()` that rejects, a signal while a start is in progress.
`RequestStep` collects what deadlines and timeouts drive.

### FollowupQueue

One session, its registry entry, and the queue objects a cleared entry leaves
behind for a drain in flight. `Enqueue` and the run's end model the caller's use of the
queue (`agent-runner.ts`); the drain is split at its awaits: debounce, the routing
check, the batch, the turn, what follows a turn, the end. `Races` says which orders
of events are allowed, because the code loses messages in some of them: the cap
reached while a turn is in flight (`overflowInTurn`) or in a mode that does not collect
(`overflowSingly`), settings that change while a summary is due (`policyChange`),
a clear (`clear`), an enqueue between the routing check and the batch
(`interpose`). The passing run allows `clear`; `followup_lost`
allows the first. `fate` is a history variable: what became of each message. A message may
come more than once: what arrives are deliveries, and `MessageOf` tells which of them are of one
message. The cache of ids (`recent`) forgets, after five minutes or when it is full
(`infra/dedupe.ts`), which `Forgets` allows at any time; a message redelivered after that is
accepted again, unless it still waits, and is then shown again.

### DeliveryQueue

Deliveries in the order they were enqueued; the three kinds of files; a worker
record per delivery for the live sender and for each scan. An action is the code
between two awaits, so a crash, an ack and a rewrite fall between any two. A delivery
is `strict`, `bestEffort` (its caller's `onError` notes failures) or `quiet`
(best effort, nobody notes them).

### CronService

An action is a section under the store's lock, which saves what it changes before
it ends, or an event between two sections; so one variable, `jobs`, stands for
the file and the copy in memory. `start()` is four sections (`Start`,
`PlanStartupCatchup`, `ApplyStartupCatchup`, `FinishStart`), a tick two with the runs
between them (`TickClaims`, `RunStarts`, `RunEnds`, `TickApplies`, `TickEnds`), a manual run
four (`EnqueueRun`, `Inspect`, `PrepareManualRun`, `FinishManualRun`). Of times only
this is kept: whether a job's next run is missing, due, to come, or put off
(`"soon"`), and whether the last time of the schedule is later than the last run. `slot` is a history
variable: a slot is owed from the moment the next run comes due until somebody
claims it. `Races` opens two orders of events in which the code skips slots: a job that comes due
while a start runs others, and one that is added while a recurring one is due. Runs that lose their
marker are in the model: `SetEnabled` takes it from a job that runs, and `Walk` takes one that is
older than two hours (`MarkerAges`, `old`). `released` is a history variable: the jobs that lost
their marker in this way, until no run of them is left.

### AgentTurns

A turn is a chain of calls: a call in its session's lane whose task enqueues one in a
global lane and awaits it (`runEmbeddedPiAgent`), with a call in the cron lane around both
when the turn is that of a cron job run by hand. `Route` is what `resolveSessionLane`,
`resolveGlobalLane` and `resolveNestedAgentLane` make of it. `Descend` is a task that makes its next call,
`Return` a task whose awaited call has settled, `Ask` and `AskEnds` the `sessions_send` tool,
which starts a turn of another session on the nested lane and waits for it or not. All else is
the command queue's: `Enqueue`, `Complete`, `ClearLane`, `ResetAllLanes` and the wait are
conjoined with what the turn notes. The queue may refuse a call in the middle of a
chain, when a restart drains. A continuation of a promise runs before any other event, which
`Quiet`, `MustDescend` and `MustReturn` say.

### ReplyDispatcher and GatewayRestart

A dispatcher has a chain of undelivered replies, a count with one reservation, and a
registration. `Delivered` is the `finally` of a reply and `ClearReservation` the microtask of
`markComplete`; the two may come in either order. `LateReplies` lets replies come after `markComplete`,
which `withReplyDispatcher` is there to prevent; with it the count may become
negative, and late replies are not seen by a restart.

`GatewayRestart` has the ways to a restart: `ClientAsks` and `ExternalSignal`
(`scheduleGatewaySigusr1Restart`), `TimerFires`, `WatcherAsks` (`requestGatewayRestart`, behind
`restartQueued`), and `PollEnds` (the interval of `deferGatewayRestartUntilIdle`). Each ends
in `Emit`, which is `emitGatewayRestart` and the SIGUSR1 handler in one: the signal is emitted
synchronously, and token and authorisation are consumed before `emit` returns. The loop
is the part of `runGatewayLoop` that decides whether a signal brings a start: `GatewayRunLoop`
has its locks, faults and drains. Time is counted in ticks.

### ChannelManager

One account and the starts made of it, each with its abort signal; `task`, `abort` and
`starting` are the manager's maps, which hold the number of a start. `StartCall` is
`startChannelInternal` up to its first await, `BootEnds` what follows it, `TaskExits` and `Restart` the
chain on the task with its backoff, `BeginStop`, `HookEnds` and `StopEnds` are `stopChannel` at its
awaits; `HookFails` is a `stopAccount` that rejects. A boot goes on with the configuration its start has
read (`"unfit"` when the account was not configured). The user, the reload and the monitor each call stop or
start and overlap; the continuation of a settled promise runs before any other event. `wanted` is a history of what the
account should be: `"running"`, `"stopped"` by the user, `"contested"` when the stop met a boot of an
explicit start or the monitor's restart, or `"failed"` when the hook of a stop rejected. `Races` names `overlap`, a start during the hook of a stop, which
breaks `RunningIsRecorded` and is left out of the passing run.

## 3. What the runs check

Passing runs:

* **lanes** — two lanes, three calls, two resets, limits 0 (clamped) and 2: no lane
  has both a queued call and a free slot (`NoStrandedWork`); a promise is pending exactly while
  its call is queued once or runs (`PendingAccounted`); a start never
  exceeds the limit (`StartsWithinLimit`); `LaneContract`, with its order of starts across
  resets, is implemented (`ContractSpec`); every accepted promise settles (`AcceptedSettles`).
* **turns** — three turns of two sessions, plain ones and cron jobs, that may ask each other: no two
  runs of a session are at work together (`OneTurnPerSession`), a completed drain leaves no run at work, also none that was
  queued behind others when the drain began (`DrainedMeansIdle`; a turn that outlived an earlier
  drain that timed out is not waited for by the next, hence its `~overran`), no chain of calls waits for a slot
  it holds itself (`TurnsEnd`).
* **loop** — restarts, stops, failing starts and closes: a serving gateway accepts
  work (`ServingAcceptsWork`) and holds its lock (`LockWhileServing`), no server is
  left listening that the loop cannot close (`NoOrphanServer`), a restart that
  reports its work drained has waited for the turns in flight (`InFlightTurnsFinish`),
  and the refusal of work ends (`DrainingEnds`).
* **restart** — clients, the watcher and signals ask while two dispatchers answer: a
  restart for which the gateway was found idle interrupts no answer (`RepliesFirst`), and whoever
  asked, a start follows (`RequestsServed`), unless a signal met a start.
* **followup** — no message is lost, nor the summary line of a dropped one (`NothingLost`),
  overtaken (`ShownInOrder`) or mixed with another destination (`OneDestination`, with no enqueue
  between the check and the batch); none is shown twice, in one prompt or in two, unless its id was
  forgotten and it was delivered again (`ShownOnce`); every message and every backlog is dealt with (`MessagesLeave`,
  `BacklogEnds`).
* **delivery** — what was persisted is queued, in `failed/`, or sent (`Outbox`); what
  was acked while nobody else held it is not sent again (`NoReplay`); a queued delivery
  leaves the queue (`QueueEmpties`).
* **cron** — a recurring job and a one-shot, of which one is added later and one is disabled,
  enabled and runs for long; one manual run, one crash: runs of a job do not overlap
  (`NoOverlap`), and the marker in the file says exactly whether a run is under way
  (`MarkersTrue`), except for a job that is disabled during a run or of which a run is taken for
  stuck, until its runs are over; no other recomputation of next runs than that of `add` skips a
  slot that is owed (`NoSlotSkipped`); no slot is run twice, also not after a crash (`NoRepeat`);
  every slot owed is met (`SlotsMet`).
* **channels** — one account, three starts in use, three callers of stop: the connector that
  runs is the one on record with its abort signal (`RunningIsRecorded`), so a stop reaches it, if no
  start gets past a stop whose hook is at work; after a user's stop that met neither a boot of an explicit start
  nor a restart by the monitor, and whose hook did not reject, the account stays down until a user or a reload
  starts it (`StopSticks`); an account that should run comes up (`ComesUp`), after crashes, giving up and
  aborted boots, unless the hook of a stop rejected.

Runs that end in a violation, each with a finding in `PROJECT.json`:

* **loop_early_signal** — a SIGUSR1 during a start leaves a gateway that serves and
  refuses all work.
* **followup_lost** — a message is lost when the cap is reached during a collected turn.
* **delivery_unheard** — a payload of a best-effort delivery fails, nobody listens, and
  the delivery is acked.
* **channels_stop** — a stop that meets a boot has its mark lifted by the boot it aborts, and
  the health monitor starts the account again.

Divergences that no run is devoted to. The models contain these:
after a drain that timed out, a session's next turn starts beside the one still
running, against `docs/concepts/queue.md:83` (`OneTurnPerSession` excepts it by `overran`);
a poll of a deferred restart goes on over a restart and restarts the new server, against
the comment at `restart.ts:107`; a `stopAccount` that rejects leaves its account marked as stopped by hand, the
start of the reload or the monitor that was to follow is skipped, and the monitor then leaves the account alone for good
(`server-channels.ts:469`, `channel-health-monitor.ts:124`; `ComesUp` excepts it by `"failed"`); an account whose start joins an automatic boot that a stop has aborted stays
down (`server-channels.ts:263`);
a turn queued before a restart signal starts during the drain
(`run-loop.ts:145`); after a failed start the lock is not taken again
(`run-loop.ts:88`); a scan that sends what a live sender is sending
(`delivery-queue-storage.ts:196`); a delivery whose sending crashes the process is
replayed for ever (`delivery-queue-recovery.ts:194`). The guards that `Races` opens
keep these out of the passing run of the follow-up queue: the overflow summary of the
one-by-one mode removes an item it has not shown (`drain.ts:152`), and with a cap of
one its drain reschedules itself without end (`drain.ts:163`); a summary wiped by the turn
before it (`drain.ts:140`); mixed destinations after an enqueue at the wrong moment
(`drain.ts:117`); a drain that spins when the drop policy changes while a summary is due
(`drain.ts:139`, `Races` with `policyChange`); a message lost when the drain of a cleared queue ends and
deletes the key of a newer one (`drain.ts:180`, `MaxQueues` of two). Of the cron service:

* a recurring job that comes due while a start runs missed jobs is moved to its next slot
  without a run (`ops.ts:124`, `Races` with `dueInCatchup`), and `add` computes all next runs anew
  and skips a recurring job that is due (`ops.ts:252`, `Races` with `addWhileDue`);
* disabling a job clears the marker of its run, so that it can run a second time once
  enabled (`ops.ts:310`); a forced run of a disabled job loses its marker at the next read
  (`jobs.ts:367`), and a run longer than two hours at the next walk (`jobs.ts:380`). The model does
  all of this, and the properties except the job (`released`).

And these are kept out of its model or, the second crash, of its run:

* an edit during the catch-up arms the timer, and the tick runs what the catch-up's plan
  held back (`ops.ts:322`);
* a second crash during a start makes an interrupted run be repeated, since the cleared
  markers are saved before the next runs are moved (`ops.ts:113`), and a calendar slot that
  a crash interrupted is made up at the start after the next (`timer.ts:801`);
* `stop()` only clears the timer, which a tick in flight sets again (`timer.ts:729`), so
  that two services may work on one file; an execution may outlive its timeout (`timer.ts:80`).

## 4. Bounds

Every bound is a constant, named in its module. `lanes`: three calls are the fewest
for one to run, one to wait and one to arrive; two resets let a completion be two
generations late; two lanes let one lane's operation disturb the other. `loop` uses
one lane, since lanes do not interact, and two generations: two restarts, so that a
request can meet what an earlier one left. `followup`: three messages make a full
queue of two overflow, and a fourth delivery, of the third message, comes while it waits, in a turn
or afterwards; two destinations are the fewest to mix; one
queue object at a time, so a clear is followed by a new queue only when the old one
is done (with two a message is lost, see 3). `delivery`: two payloads make a partial
failure; two deliveries make an order in the scan; two retries distinguish a first
failure from the last; one crash between any two steps, with any number of scans after it.
`cron`: two jobs, of which a start runs one and defers the other; one worker and one
slot in the lane, as by default; one crash, because a second one during a start makes
an interrupted run be repeated (see 3). The kinds of the two jobs are chosen
in the initial state (`Schedules`), so that the job that is in the file at first, disabled, enabled and
long-running (`Stored`, `Switched`, `Long`) is once the recurring one and once the one-shot. `turns`: three turns, so that one runs, one waits behind it in its session and a third comes
from another; three calls for each; one reset. The first turn is of a fixed session, as
sessions are alike. `restart`: two dispatchers with a reply each, so that one ends while the other
goes on; two polls, so that one outlives a restart; cooldown and wait of two ticks, longer than
the delay of one, so that requests are pulled earlier and pushed later. `channels`: three starts in use
(one running, one booting, one awaited by a stop: TLC finds no state in which a start lacks a number), and one attempt before the account is given up.
Deadlock is checked only in `restart` and `channels`, which never run out of inputs: the
others come to rest when their bounded inputs are used up, and what must not get stuck is
stated as liveness.

## 5. Fairness

`lanes` assumes that task bodies end and the poll timer fires. `loop` assumes only
that a request goes on: the waits have deadlines, the close has a watchdog, the
lock a timeout; no signal, call or start is promised. `followup` assumes that turns end (an
agent turn has a timeout), that the debounce timer fires and that the session's
ordinary run ends. `delivery` assumes that sends are answered and file operations
end (weak fairness), and that the gateway is started again and again and not
always before an entry's backoff is over (strong fairness on retrying or giving up an
entry): with weak fairness alone a scan could come too early every time. `cron`
assumes that the gateway is started, that its timer fires when it is set and the lock
is granted (it is a chain of promises, first come first served), that a run ends
(`executeJobCoreWithTimeout` answers for it), and that time passes; no edit, request or
crash is promised. `turns` assumes that tasks go on and that a model's run and the wait for an answer end
(both have timeouts). `restart` assumes that time passes, timers fire, a drain, a close and a start end; no run,
reply or operation has to end, so that `RequestsServed` rests on the polls' deadline. `channels` assumes that a boot,
a backoff and an aborted connector end, that a hook ends or fails, and that the monitor checks at its interval; no
connector fails or recovers by itself.

## 6. What is proved

TLAPS checks the following for every value of the constants that satisfies the
named assumptions (`LanesAssumption`, `DeliveryBounds`, ...).

* **CommandLanes.** `Invariance`: the conjunction of type correctness, the
  properties above and two auxiliary facts is inductive. `NoStrandedWork` is not
  inductive alone: that a completion frees a slot needs `SlotsAreCurrent`, which needs to know that
  a call is queued at most once and that calls not yet made are nowhere. The pump is
  a function on sequences, so a group of lemmas (`PumpSplits`, `PumpInOrder`,
  `PumpFillsSlots`) says once what it starts and what it leaves; each action is then
  the pump applied to a lane that its handler has prepared. From it follow
  `WorkConserving`, `NothingLost`, `SlotAccounting`, `FifoOrder`, `DrainReportSound`,
  `LimitRespected`, and `Refinement`: every step is one of `LaneContract` or a stutter.
* **GatewayRunLoop.** `LoopKeepsQueue`: a step of the loop is a step of the queue or leaves
  it alone, so the queue's theorems hold under signals and restarts.
  `RestartWaitsForTurns` adds `DrainInv` (a wait is in progress only
  while the request drains; a teardown that reports drained follows a wait that drained).
  `RestartedGatewayAcceptsWork` is proved under the assumption that no signal comes
  during a start, which is necessary: see `loop_early_signal`. Under the same assumption
  `ServersAreReachable`, `ServingHoldsTheLock` and `LoopTypeCorrect` follow from `ServerInv`: a
  request finds the loop awaiting, a close has a server to close, a restart that
  releases the lock has none left, and the lock is missing only after a failed start or
  on its way back.
* **DeliveryQueue.** `DeliveryTypeCorrect` includes that only persisted deliveries have
  files and bookkeeping. `NothingPersistedIsLost` needs `Progress`: a sender that has met no failure
  has sent every payload before its current one, and one that acks has sent all or was
  aborted. It is proved unless `"unheard"` is a fault, again necessarily.
  `SettledIsNeverSentAgain` rests on `Gone`: a settled delivery has no file, no worker but one that
  cleans up and no place in a scan, and nothing brings it back.
* **ReplyDispatcher and GatewayRestart.** `RestartTypeCorrect` and
  `IdleRestartsInterruptNobody` (`RepliesFirst`), under `NoLateReplies`, which `withReplyDispatcher`
  justifies. What has to be added is `Unused`: a dispatcher not in use has an empty chain, and the
  reservation is being cleared only of one marked complete. Then what runs or waits is registered and
  counted, and a gateway found idle answers nobody (`IdleMeansSilent`).
* **ChannelManager.** `ConnectorsAreRecorded` (`RunningIsRecorded`), `UserStopsStick`
  (`StopSticks`) and `ChannelTypeCorrect`, under `NoRaces`: no start falls into the hook of a
  stop, which is necessary too. `UserStopsStick` is about the stops that are not contested and do not fail
  (see 3); the code undoes some of the others. A stop reaches what it must because a boot keeps its place on
  record (`BootsReserve`), what runs is on record (`ActiveIsRecorded`), and a stop in progress holds
  the start it aborted (`StopsReach`).
* **AgentTurns.** `TurnsTypeCorrect`, `OneWriterPerSession` (`OneTurnPerSession`) and
  `DrainLeavesIdle` (`DrainedMeansIdle`), for any number of turns, calls, sessions and resets.
  Every step of a turn is a step of the queue or leaves it alone, so the queue's invariant `IInv`
  is part of `TurnsInv`; the rest is `Chains` (each call is on the lane of its place in its
  turn's route, and awaited by exactly one call before it), `OneSlot` (a session's lane has limit
  one and so one active call), `Refusing` (the queue refuses work exactly while a restart waits
  or has drained) and `Watching` (what runs in a session's lane holds its slot, and a drain
  watches those that have got past it). Two runs at work in one session would need two callers in
  its lane, which has one slot; that the slot is still theirs after a reset is what `overran`
  excepts. A drained restart leaves no run because a run at work is awaited by a call that the
  drain watches.
* **CronService.** `CronTypeCorrect` and `MarkersAreTrue` (`MarkersTrue`), for any number of jobs,
  workers, manual runs, crashes and every order of events: `CronInv` adds to the types what each
  phase of a start, tick and manual run may rely on (`Phases`), that a marker is set only while a
  run of its job is under way and, of a job that has not lost it, always then (`Markers`), that one
  run at most has claimed such a job (`OneClaim`), which jobs may have lost theirs (`History`), and that
  the catch-up defers no one-shot that has succeeded (`DeferredUnrun`). `NoJobOverlaps`
  (`NoOverlap`) follows for any number of workers and slots of the lane. The jobs of `released` are
  excepted in all of them, necessarily (see 3). `NoOwedSlotSkipped` (`NoSlotSkipped`) is proved for `Races = {}`, necessarily
  (`ops.ts:124` and `:252`); `SlotsKept` says what a start owes to a slot between its four sections.
  `NothingRunsTwice` (`NoRepeat`) holds with any number of manual runs, workers and jobs coming due in the
  catch-up, for at most one crash, which is necessary too (see 3). Its invariant `OnceInv`: a slot that has been
  met leaves no next run past and no time of the schedule uncovered, but for a job whose run the
  crash interrupted, which the start skips in one section and moves two sections later
  (`MetOnce`); before the first crash nothing is interrupted (`FirstStart`); and between a manual
  run's inspection and its reservation its job is claimed by another run or still to be run
  (`InspectedOwes`).
* **FollowupQueue.** Handlers are seen as functions of the registry's value: an object takes the
  place of another (`Put`), or is deleted with the key (`Delete`). `QueueTypeCorrect` (`TypeOK`)
  and `EveryMessageShownOnce` (`ShownOnce`) hold without a hypothesis, for any number of
  messages, objects and failing turns and every order of events, those that lose messages
  included, and whatever is redelivered and forgotten. `Whole` is the invariant: an object's items wait, what its turn shows was not shown before, no item
  behind those the turn takes is in its prompt (`Takes`, without which the end of a turn might leave a
  shown item), no delivery is in two objects, and the log has exactly the accepted ones
  (`Remembered`). `OnceInv` adds that neither the items nor the prompt of an object have two deliveries
  of one message (`Apart`), and that of those accepted all but the last are forgotten
  (`LastRemembered`). With `"interpose"` not in `Races`,
  `OneDestinationEach` (`OneDestination`): what is being collected has one route. `NothingIsLost` and
  `NothingOvertakes` (`NothingLost`, `ShownInOrder`) are proved when the settings are
  `Quiet`: no overflow under a turn or in a mode that does not collect, and one
  object at a time where a queue may be cleared under its turn. Each part is necessary for the first (see the
  divergences in 3), and the passing run's constants satisfy it. `Kept` says that the
  registry's object has every message that waits, in the order of acceptance, and every line,
  that a prompt shows the front of the items, and that every other object is empty.

Only model-checked: liveness under fairness, which is outside what the prover handles. Every
invariant and every action property of the passing runs is stated by a theorem.
No module of this development declares a recursive operator.

## 7. Plan and what is not modelled

Next, in this order:

1. `GatewayLock` — processes that find a stale lock file remove it and create their own; the file
   is read, judged and removed in three steps.
2. `HeartbeatWake`, `ExecApprovals`, `NodeRegistry`, `KeyedQueue` — tables of pending requests with timers
   and a promise tail per key: small, and each with a component around it that is mostly I/O.

Of components that are modelled, these paths are left out. Channel manager: an `isConfigured` that rejects, a
`startAccount` that throws instead of rejecting (which leaves the running flag set with nothing behind it,
`server-channels.ts:345`), calls for all accounts of a channel at once, and the monitor's cooldown and hourly limit. Agent turns: a hot
reload that changes the limits of lanes while turns are under way (`server-reload-handlers.ts:151`), which
`CommandLanes` has. The notes of the components in `PROJECT.json` name those of the others.

Not modelled, and not planned: the agent runtime (its order of events is decided by
model providers and tools), the gateway's protocol handlers, connectors, plugins, the
browser, memory, the user interface, the command line and the goals commands. They
transform data or talk to external services and have no protocol of their own that a
model checker would help with. `PROJECT.json` lists them with their reasons.
