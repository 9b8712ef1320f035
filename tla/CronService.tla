----------------------------- MODULE CronService -----------------------------
(***************************************************************************)
(* The cron service (cron/service/): a file of jobs, a timer whose tick    *)
(* claims due jobs, runs them and applies their results, the catch-up when *)
(* the gateway starts, manual runs and edits.                              *)
(*                                                                         *)
(* Whatever reads or writes the store does so under one lock (locked.ts),  *)
(* and has saved what it changed when it lets go: an action is a section   *)
(* under the lock, or an event between two, and jobs is both the file and  *)
(* the copy in memory.  Runs execute outside of the lock; what keeps a job *)
(* from running twice is the marker runningAtMs a claim leaves in it.      *)
(*                                                                         *)
(* Of times only this is kept: whether the next run of a job is due, and   *)
(* whether a marker is older than STUCK_RUN_MS.  Edits and manual runs wait *)
(* until the service is on.                                                *)
(***************************************************************************)
EXTENDS Integers, FiniteSets

CONSTANTS
  Jobs,
  Schedules,     \* the kinds the jobs may be of: functions from Jobs to Kinds
  Stored,        \* jobs in the file at first
  Switched,      \* jobs that requests enable and disable
  Long,          \* jobs of which a run may outlast STUCK_RUN_MS
  Manuals,       \* requests for a manual run that can be pending at once
  MaxCrashes,    \* bound: crashes of the process
  MaxImmediate,  \* maxMissedJobsPerRestart: missed jobs run by the catch-up
  Concurrency,   \* maxConcurrentRuns: workers of a tick, slots of the cron lane
  Races          \* of RaceKinds

Kinds == {"every",     \* recurring, from the last run on
          "cron",      \* recurring, by the calendar
          "at",        \* one-shot
          "atDelete"}  \* one-shot, deleted after a success

RaceKinds == {"dueInCatchup",  \* a job comes due while the catch-up runs others
              "addWhileDue"}   \* a job is added while a recurring one is due

ASSUME CronJobs == /\ Schedules \subseteq [Jobs -> Kinds]
                   /\ Stored \subseteq Jobs /\ "none" \notin Jobs
ASSUME CronBounds == /\ MaxCrashes \in Nat /\ MaxImmediate \in Nat
                     /\ Concurrency \in Nat \ {0} /\ Races \subseteq RaceKinds

VARIABLES
  kind,         \* kind[j], which an edit does not change
  jobs,         \* the jobs by id
  svc,          \* "off"; during start() "loaded", "catchup", "caughtUp"; "on"
  interrupted,  \* jobs that start() found marked as running
  deferred,     \* missed jobs that the catch-up leaves for later
  tick,         \* "idle"; while state.running, "runs" or "ends"
  batch,        \* batch[j]: the run of j that a tick or the catch-up has claimed
  timer,        \* state.timer is set
  manual,       \* manual[m]: a manual run
  old,          \* jobs whose marker is older than STUCK_RUN_MS
  slot,         \* slot[j]: "owed" when a run is due and none is under way, "met" once
                \* it is claimed, "moved" when neither (history)
  released,     \* jobs that lost their marker while a run was under way (history)
  crashes       \* crashes so far

vars == <<kind, jobs, svc, interrupted, deferred, tick, batch, timer, manual, old, slot,
          released, crashes>>
startup == <<kind, svc, interrupted, deferred>>   \* what only a start changes
scheduler == <<startup, tick, batch>>

Recurring(j) == kind[j] \in {"every", "cron"}

\* "error": a one-shot is retried; "fatal": it is not, or it was skipped.
\* What a recurring job returns only moves its next run.
Results(j) == IF Recurring(j) THEN {"ok"} ELSE {"ok", "error", "fatal"}

\* next is nextRunAtMs: "soon" after a deferral or for a retry, "stale" when it
\* is due and not later than the last run.
\*   ran:    the last status, "no" without one
\*   ahead:  the time of a one-shot is yet to come
\*   missed: the last time of the schedule is later than the last run
JobType == [enabled : BOOLEAN, next : {"none", "future", "soon", "due", "stale"},
            running : BOOLEAN, ran : {"no", "ok", "failed"}, ahead : BOOLEAN,
            missed : BOOLEAN]

NewJob(j) == [enabled |-> TRUE, next |-> "future", running |-> FALSE, ran |-> "no",
              ahead |-> ~Recurring(j), missed |-> FALSE]

NoManual == [at |-> "idle", job |-> "none", force |-> FALSE, result |-> "ok"]

Init ==
  /\ kind \in Schedules
  /\ jobs = [j \in Stored |-> NewJob(j)]
  /\ svc = "off" /\ interrupted = {} /\ deferred = {}
  /\ tick = "idle"
  /\ batch = [j \in Jobs |-> "none"]
  /\ timer = FALSE
  /\ manual = [m \in Manuals |-> NoManual]
  /\ old = {} /\ released = {}
  /\ slot = [j \in Jobs |-> IF j \in Stored THEN "met" ELSE "new"]
  /\ crashes = 0

-----------------------------------------------------------------------------
(* jobs.ts                                                                 *)

NextRunAnyway(j, job) ==
  IF Recurring(j) \/ job.ahead THEN "future"
  ELSE IF job.ran = "no" \/ job.missed THEN "due"
  ELSE IF job.ran = "ok" THEN "none" ELSE "stale"

\* computeJobNextRunAtMs: a one-shot stays due until it has succeeded.
NextRun(j, job) ==
  IF ~job.enabled THEN "none"
  ELSE IF Recurring(j) \/ job.ahead THEN "future"
  ELSE IF job.ran = "no" \/ job.missed THEN "due"
  ELSE IF job.ran = "ok" THEN "none" ELSE "stale"

\* walkSchedulableJobs; next runs of the kinds `lapsed` are computed anew.  The
\* markers of disabled jobs are cleared, and those taken for stuck.
Walk(js, lapsed) ==
  [j \in DOMAIN js |->
     [js[j] EXCEPT !.running = @ /\ js[j].enabled /\ j \notin old,
                   !.next = IF ~js[j].enabled THEN "none"
                            ELSE IF @ \in lapsed THEN NextRun(j, js[j]) ELSE @]]

RecomputeNextRuns(js) == Walk(js, {"none", "due", "stale"})
RecomputeForMaintenance(js) == Walk(js, {"none"})

\* armTimer sets the timer if a job has a next run.
Armable(js) == \E j \in DOMAIN js : js[j].enabled /\ js[j].next # "none"

Past(job) == job.next \in {"due", "stale"}

-----------------------------------------------------------------------------
(* What sections share                                                     *)

Runs(j) ==
  \/ batch[j] # "none"
  \/ \E m \in Manuals : manual[m].at \in {"running", "ended"} /\ manual[m].job = j

\* A run of j is under way, or a manual run has been inspected and goes on to it.
Active(j) == Runs(j) \/ \E m \in Manuals : manual[m].at = "inspected" /\ manual[m].job = j

Marked(j) == j \in DOMAIN jobs /\ jobs[j].running

\* The history after a step: update() takes the marker of a job that it disables,
\* and a walk takes one of `aged`; until all runs of the job are over it is released.
Recorded(aged) ==
  /\ released' = {j \in Jobs : /\ Active(j)'
                               /\ \/ j \in released
                                  \/ j \in DOMAIN jobs' /\ ~jobs'[j].enabled
                                  \/ j \in old /\ ~Marked(j)'}
  /\ old' = {j \in aged : Marked(j)'}

MarkersKept(js) == js
Unmarked(js) == [j \in DOMAIN js |-> [js[j] EXCEPT !.running = FALSE]]

Mark(js, claimed) ==
  [j \in DOMAIN js |-> IF j \in claimed THEN [js[j] EXCEPT !.running = TRUE] ELSE js[j]]

MarkedStill(j, job, result) ==
  [job EXCEPT !.missed = FALSE, !.ran = result, !.next = NextRun(j, job)]

\* applyJobResult for a job that is kept.
ApplyJobResult(j, job, result) ==
  LET over == [job EXCEPT !.running = FALSE, !.missed = FALSE,
                          !.ran = IF result = "ok" THEN "ok" ELSE "failed"]
  IN  IF Recurring(j)
      THEN [over EXCEPT !.next = IF job.enabled THEN "future" ELSE "none"]
      ELSE IF result = "error" THEN [over EXCEPT !.next = "soon"]
      ELSE [over EXCEPT !.enabled = FALSE, !.next = "none"]

Deletes(j, result) == kind[j] = "atDelete" /\ result = "ok"

\* applyOutcomeToStoredJob for each result; one for a removed job is discarded.
ApplyOutcomes(js, results) ==
  [j \in {k \in DOMAIN js : k \notin DOMAIN results \/ ~Deletes(k, results[k])} |->
     IF j \in DOMAIN results THEN ApplyJobResult(j, js[j], results[j]) ELSE js[j]]

\* Jobs that leave the store are gone for good: ids are not used again.
Leave(kept) == [j \in Jobs |-> IF j \in DOMAIN jobs \ kept THEN "gone" ELSE slot[j]]

Meets(claimed) == [j \in Jobs |-> IF j \in claimed THEN "met" ELSE slot[j]]

Claims(claimed) ==
  /\ jobs' = Mark(jobs, claimed)
  /\ batch' = [j \in Jobs |-> IF j \in claimed THEN "claimed" ELSE batch[j]]
  /\ slot' = Meets(claimed)

Finished == {j \in Jobs : batch[j] \in {"ok", "error", "fatal"}}
BatchOver == \A j \in Jobs : batch[j] \notin {"claimed", "running"}

\* The results of a batch are applied, and jobs of `later` get a later next run.
Applies(later) ==
  LET applied == ApplyOutcomes(jobs, [j \in Finished |-> batch[j]])
      put == [j \in DOMAIN applied |->
                IF j \in later /\ applied[j].enabled THEN [applied[j] EXCEPT !.next = "soon"]
                ELSE applied[j]]
  IN  /\ jobs' = RecomputeForMaintenance(put)
      /\ slot' = Leave(DOMAIN put)
      /\ batch' = [j \in Jobs |-> "none"]

-----------------------------------------------------------------------------
(* start                                                                   *)

\* Interrupted runs are not repeated, and count for what came due since.
Start ==
  /\ svc = "off"
  /\ svc' = "loaded"
  /\ interrupted' = {j \in DOMAIN jobs : jobs[j].running}
  /\ jobs' = Unmarked(jobs)
  /\ slot' = Meets(interrupted')
  /\ UNCHANGED <<kind, deferred, tick, batch, timer, manual, crashes>>
  /\ Recorded(old)

\* isRunnableJob
Runnable(j) == jobs[j].enabled /\ ~jobs[j].running /\ Past(jobs[j])

\* At a start, also a slot of the calendar that the last run did not meet; not
\* a one-shot that has run and is no retry.
Missed(j) ==
  /\ jobs[j].enabled /\ ~jobs[j].running
  /\ CASE kind[j] = "every" -> jobs[j].next = "due"
       [] kind[j] = "cron" -> \/ jobs[j].next = "due"
                              \/ jobs[j].missed /\ jobs[j].ran # "no"
       [] ~Recurring(j) -> jobs[j].next = "due" /\ jobs[j].ran # "ok"

NothingSkipped == {}
Skipped == interrupted

PlanStartupCatchup ==
  LET missed == {j \in DOMAIN jobs : Missed(j)} \ Skipped
  IN  /\ svc = "loaded"
      /\ interrupted' = {}
      /\ \E claimed \in SUBSET missed :
           /\ Cardinality(claimed) <= MaxImmediate
           /\ claimed = missed \/ Cardinality(claimed) = MaxImmediate
           /\ Claims(claimed)
           /\ deferred' = missed \ claimed
      /\ svc' = IF missed = {} THEN "caughtUp" ELSE "catchup"
      /\ UNCHANGED <<kind, tick, timer, manual, crashes>>
      /\ Recorded(old)

ApplyStartupCatchup ==
  /\ svc = "catchup"
  /\ BatchOver
  /\ Applies(deferred)
  /\ svc' = "caughtUp"
  /\ deferred' = {}
  /\ UNCHANGED <<kind, interrupted, tick, timer, manual, crashes>>
  /\ Recorded(old)

FinishStart ==
  /\ svc = "caughtUp"
  /\ svc' = "on"
  /\ jobs' = RecomputeNextRuns(jobs)
  /\ timer' = Armable(jobs')
  /\ UNCHANGED <<kind, interrupted, deferred, tick, batch, manual, slot, crashes>>
  /\ Recorded(old)

-----------------------------------------------------------------------------
(* onTimer                                                                 *)

\* Whatever the timer finds, it is set again at once.
Recheck == TRUE

\* The timer fires while an earlier tick is at work.
TickBusy ==
  /\ timer
  /\ tick # "idle"
  /\ timer' = Recheck
  /\ UNCHANGED <<jobs, scheduler, manual, slot, crashes>>
  /\ Recorded(old)

TickFindsNothing ==
  /\ timer
  /\ tick = "idle"
  /\ \A j \in DOMAIN jobs : ~Runnable(j)
  /\ jobs' = RecomputeForMaintenance(jobs)
  /\ tick' = "ends"
  /\ timer' = Recheck
  /\ UNCHANGED <<startup, batch, manual, slot, crashes>>
  /\ Recorded(old)

TickClaims ==
  LET due == {j \in DOMAIN jobs : Runnable(j)}
  IN  /\ timer
      /\ tick = "idle"
      /\ due # {}
      /\ Claims(due)
      /\ tick' = "runs"
      /\ timer' = Recheck
      /\ UNCHANGED <<startup, manual, crashes>>
      /\ Recorded(old)

\* A worker takes the next job of the batch and sets its marker anew, which is lost
\* if the store has been reloaded.  The catch-up has one worker and sets none.
RunStarts(j) ==
  /\ batch[j] = "claimed"
  /\ Cardinality({k \in Jobs : batch[k] = "running"})
       < IF svc = "catchup" THEN 1 ELSE Concurrency
  /\ batch' = [batch EXCEPT ![j] = "running"]
  /\ UNCHANGED <<startup, tick, timer, manual, slot, crashes>>
  /\ \/ jobs' = jobs /\ Recorded(old)
     \/ tick = "runs" /\ jobs' = Mark(jobs, {j}) /\ Recorded(old \ {j})

\* executeJobCoreWithTimeout answers, in the end with a timeout.
RunEnds(j, result) ==
  /\ batch[j] = "running"
  /\ batch' = [batch EXCEPT ![j] = result]
  /\ UNCHANGED <<jobs, startup, tick, timer, manual, slot, crashes>>
  /\ Recorded(old)

\* The lock is fair: a manual run that has been inspected has asked for it
\* before a run claimed since has ended.  A job that lost its marker may have been
\* inspected during a run.
AfterPrepare(claimed) ==
  \A m \in Manuals : manual[m].at = "inspected" => manual[m].job \notin claimed \ released

TickApplies ==
  /\ tick = "runs"
  /\ BatchOver
  /\ AfterPrepare(Finished)
  /\ Applies({})
  /\ tick' = "ends"
  /\ UNCHANGED <<startup, timer, manual, crashes>>
  /\ Recorded(old)

TickEnds ==
  /\ tick = "ends"
  /\ tick' = "idle"
  /\ timer' = Armable(jobs)
  /\ UNCHANGED <<jobs, startup, batch, manual, slot, crashes>>
  /\ Recorded(old)

-----------------------------------------------------------------------------
(* enqueueRun and run                                                      *)

\* inspectManualRunPreflight; what it changes is saved with the next change.
Inspects(j, force, yes, no) ==
  /\ jobs' = RecomputeForMaintenance(jobs)
  /\ IF /\ j \in DOMAIN jobs
        /\ ~jobs'[j].running
        /\ force \/ (jobs'[j].enabled /\ Past(jobs'[j]))
     THEN manual' = yes ELSE manual' = no

Goes(m, at) == [manual EXCEPT ![m].at = at]
Drops(m) == [manual EXCEPT ![m] = NoManual]

EnqueueRun(m, j, force) ==
  /\ svc = "on"
  /\ manual[m].at = "idle"
  /\ Inspects(j, force,
       [manual EXCEPT ![m] = [NoManual EXCEPT !.at = "queued", !.job = j, !.force = force]],
       manual)
  /\ UNCHANGED <<scheduler, timer, slot, crashes>>
  /\ Recorded(old)

\* A slot of the lane is free, and the request is inspected once more.
Inspect(m) ==
  /\ manual[m].at = "queued"
  /\ Cardinality({n \in Manuals : manual[n].at \notin {"idle", "queued"}}) < Concurrency
  /\ Inspects(manual[m].job, manual[m].force, Goes(m, "inspected"), Drops(m))
  /\ UNCHANGED <<scheduler, timer, slot, crashes>>
  /\ Recorded(old)

StillThere(j) == j \in DOMAIN jobs
\* The run is reserved, unless a tick was faster or the job has been removed.
Reservable(j) == j \in DOMAIN jobs /\ ~jobs[j].running

PrepareManualRun(m) ==
  LET j == manual[m].job
  IN  /\ manual[m].at = "inspected"
      /\ IF Reservable(j)
         THEN manual' = Goes(m, "running") /\ jobs' = Mark(jobs, {j}) /\ slot' = Meets({j})
         ELSE manual' = Drops(m) /\ UNCHANGED <<jobs, slot>>
      /\ UNCHANGED <<scheduler, timer, crashes>>
      /\ Recorded(old)

ManualRunEnds(m) ==
  /\ manual[m].at = "running"
  /\ \E result \in Results(manual[m].job) :
       manual' = [manual EXCEPT ![m].at = "ended", ![m].result = result]
  /\ UNCHANGED <<jobs, scheduler, timer, slot, crashes>>
  /\ Recorded(old)

FinishManualRun(m) ==
  LET j == manual[m].job
      applied == ApplyOutcomes(jobs, [k \in {j} |-> manual[m].result])
  IN  /\ manual[m].at = "ended"
      /\ AfterPrepare({j})
      /\ manual' = Drops(m)
      /\ IF j \in DOMAIN jobs
         THEN /\ jobs' = RecomputeForMaintenance(applied)
              /\ slot' = Leave(DOMAIN applied)
              /\ timer' = Armable(jobs')
         ELSE UNCHANGED <<jobs, slot, timer>>
      /\ UNCHANGED <<scheduler, crashes>>
      /\ Recorded(old)

-----------------------------------------------------------------------------
(* add, update, remove, and the reads                                      *)

\* All jobs are computed anew, and those that are due lose their turn.
Add(j) ==
  LET added == [k \in DOMAIN jobs \cup {j} |-> IF k = j THEN NewJob(j) ELSE jobs[k]]
  IN  /\ svc = "on"
      /\ slot[j] = "new"
      /\ \/ "addWhileDue" \in Races
         \/ \A k \in DOMAIN jobs : Recurring(k) => slot[k] # "owed"
      /\ jobs' = RecomputeNextRuns(added)
      /\ slot' = [slot EXCEPT ![j] = "met"]
      /\ timer' = Armable(jobs')
      /\ UNCHANGED <<scheduler, manual, crashes>>
      /\ Recorded(old)

\* update with the field enabled, whether or not the job runs: disabled, it loses
\* its marker.  Times of the schedule may have passed while it was disabled.
SetEnabled(j, enabled) ==
  LET edited(missed) == [jobs[j] EXCEPT !.enabled = enabled, !.missed = missed,
                                        !.running = enabled /\ @]
      next == NextRun(j, [jobs[j] EXCEPT !.enabled = enabled])
  IN  /\ svc = "on"
      /\ j \in Switched \cap DOMAIN jobs
      /\ \E missed \in {jobs[j].missed, jobs[j].missed \/ (kind[j] = "cron" /\ ~jobs[j].enabled)} :
           jobs' = [jobs EXCEPT ![j] = [edited(missed) EXCEPT !.next = next]]
      /\ slot' = [slot EXCEPT ![j] = IF next \in {"due", "stale"} /\ ~Runs(j)
                                         THEN "owed" ELSE "moved"]
      /\ timer' = Armable(jobs')
      /\ UNCHANGED <<scheduler, manual, crashes>>
      /\ Recorded(old)

Remove(j) ==
  /\ svc = "on"
  /\ j \in DOMAIN jobs
  /\ jobs' = [k \in DOMAIN jobs \ {j} |-> jobs[k]]
  /\ slot' = Leave(DOMAIN jobs')
  /\ timer' = Armable(jobs')
  /\ UNCHANGED <<scheduler, manual, crashes>>
  /\ Recorded(old)

\* ensureLoadedForRead
List ==
  /\ svc = "on"
  /\ jobs' = RecomputeForMaintenance(jobs)
  /\ UNCHANGED <<scheduler, timer, manual, slot, crashes>>
  /\ Recorded(old)

-----------------------------------------------------------------------------
\* The next run of a job that is not marked comes due.  If a run is under way, its
\* result will move the next run: nothing is owed.
TimePasses(j) ==
  /\ j \in DOMAIN jobs
  /\ jobs[j].next \in {"future", "soon"}
  /\ ~jobs[j].running
  /\ svc \in {"off", "on"} \/ (svc = "catchup" /\ "dueInCatchup" \in Races)
  /\ \E ahead \in BOOLEAN :
       /\ ahead => jobs[j].ahead /\ jobs[j].next = "soon"
       /\ jobs' = [jobs EXCEPT ![j].next = "due", ![j].ahead = ahead,
                               ![j].missed = @ \/ jobs[j].next = "future" \/ jobs[j].ahead # ahead]
  /\ slot' = [slot EXCEPT ![j] = IF Runs(j) THEN "moved" ELSE "owed"]
  /\ UNCHANGED <<scheduler, timer, manual, crashes>>
  /\ Recorded(old)

\* A run, or its wait for a worker, goes on for longer than STUCK_RUN_MS: it counts
\* as lost.
MarkerAges(j) ==
  /\ svc = "on"
  /\ j \in Long
  /\ Marked(j) /\ j \notin old
  /\ slot' = [slot EXCEPT ![j] = "moved"]
  /\ UNCHANGED <<jobs, scheduler, timer, manual, crashes>>
  /\ Recorded(old \cup {j})

Crash ==
  /\ svc # "off"
  /\ crashes < MaxCrashes
  /\ crashes' = crashes + 1
  /\ svc' = "off" /\ interrupted' = {} /\ deferred' = {}
  /\ tick' = "idle"
  /\ batch' = [j \in Jobs |-> "none"]
  /\ timer' = FALSE
  /\ manual' = [m \in Manuals |-> NoManual]
  /\ UNCHANGED <<kind, jobs, slot>>
  /\ Recorded(old)

Runner(j) == RunStarts(j) \/ \E result \in Results(j) : RunEnds(j, result)

Scheduler ==
  \/ Start \/ PlanStartupCatchup \/ ApplyStartupCatchup \/ FinishStart
  \/ TickFindsNothing \/ TickClaims \/ TickApplies \/ TickEnds

Manual(m) == Inspect(m) \/ PrepareManualRun(m) \/ ManualRunEnds(m) \/ FinishManualRun(m)

Edit(j) == Add(j) \/ Remove(j) \/ \E enabled \in BOOLEAN : SetEnabled(j, enabled)

Next ==
  \/ Scheduler
  \/ TickBusy
  \/ \E j \in Jobs : Runner(j)
  \/ \E m \in Manuals : Manual(m)
  \/ \E m \in Manuals, j \in Jobs, force \in BOOLEAN : EnqueueRun(m, j, force)
  \/ \E j \in Jobs : Edit(j) \/ TimePasses(j) \/ MarkerAges(j)
  \/ List
  \/ Crash

Spec == Init /\ [][Next]_vars

(* The gateway is started again, its timers fire, a run ends (or is timed   *)
(* out), a section gets the lock, and time passes.                          *)
Fairness ==
  /\ WF_vars(Scheduler)
  /\ \A j \in Jobs : WF_vars(Runner(j)) /\ WF_vars(TimePasses(j))
  /\ \A m \in Manuals : WF_vars(Manual(m))

FairSpec == Spec /\ Fairness

-----------------------------------------------------------------------------
(* Properties                                                              *)

\* Types; a disabled job has no next run, results are of the kind the job can
\* have, and start() keeps its sets only as long as it needs them.
CronTypeOK ==
  /\ kind \in [Jobs -> Kinds]
  /\ DOMAIN jobs \subseteq Jobs
  /\ jobs \in [DOMAIN jobs -> JobType]
  /\ \A j \in DOMAIN jobs : jobs[j].enabled \/ jobs[j].next = "none"
  /\ svc \in {"off", "loaded", "catchup", "caughtUp", "on"}
  /\ interrupted \subseteq Jobs /\ (svc # "loaded" => interrupted = {})
  /\ deferred \subseteq Jobs /\ (svc # "catchup" => deferred = {})
  /\ tick \in {"idle", "runs", "ends"}
  /\ \A j \in Jobs : batch[j] \in {"none", "claimed", "running"} \cup Results(j)
  /\ timer \in BOOLEAN
  /\ manual \in [Manuals -> [at : {"idle", "queued", "inspected", "running", "ended"},
                             job : Jobs \cup {"none"}, force : BOOLEAN,
                             result : {"ok", "error", "fatal"}]]
  /\ slot \in [Jobs -> {"new", "owed", "met", "moved", "gone"}]
  /\ \A j \in Jobs : j \in DOMAIN jobs <=> slot[j] \notin {"new", "gone"}
  /\ old \subseteq {j \in DOMAIN jobs : jobs[j].running}
  /\ released \subseteq {j \in Jobs : Active(j)}
  /\ crashes \in 0 .. MaxCrashes

Executing(j) ==
  {m \in Manuals : manual[m].at = "running" /\ manual[m].job = j}
    \cup (IF batch[j] = "running" THEN {"batch"} ELSE {})

\* A job does not run twice at once: ticks, the catch-up and manual runs, which
\* look at a job and claim it in different sections, agree on who runs it; unless
\* it is disabled during a run or the run is taken for stuck.
NoOverlap == \A j \in Jobs \ released : Cardinality(Executing(j)) <= 1

\* A marker says that a run is under way: no crash, error or edit leaves one that
\* keeps the job from running.  And a run that is under way has its marker, unless
\* the job is disabled meanwhile or the run taken for stuck.
MarkersTrue ==
  svc # "off" => \A j \in DOMAIN jobs : /\ jobs[j].running => Runs(j)
                                        /\ Runs(j) => jobs[j].running \/ j \in released

\* A run that is owed stays on the schedule: except for those of add(), which Races
\* may admit, no recomputation moves a next run that is past to a later slot without
\* a run.  (A one-shot that was forced before its time and failed may still be put
\* off to that time.)
NoSlotSkipped ==
  \A j \in Jobs : slot[j] = "owed" =>
    jobs[j].enabled /\ (jobs[j].next \in {"due", "stale", "soon"} \/ jobs[j].ahead)

\* A recurring job is run for each slot at most once, by a tick, by the catch-up
\* after a crash that interrupted it, or by a manual run that asks whether it is
\* due; and a one-shot that succeeded is not run again.  A job that lost its marker
\* during a run is excepted.
Claimed(j) ==
  \/ batch[j] = "none" /\ batch'[j] = "claimed"
  \/ \E m \in Manuals : /\ manual[m].at = "inspected" /\ manual'[m].at = "running"
                        /\ manual[m].job = j /\ ~manual[m].force

NoRepeat ==
  [][\A j \in Jobs \ released : Claimed(j) =>
       IF Recurring(j) THEN slot[j] # "met" ELSE jobs[j].ran # "ok" \/ jobs[j].missed]_vars

\* A run that is owed is claimed, or its job is edited or removed.
SlotsMet == \A j \in Jobs : slot[j] = "owed" ~> slot[j] # "owed"

=============================================================================
