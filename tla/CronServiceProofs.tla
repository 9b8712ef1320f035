------------------------- MODULE CronServiceProofs -------------------------
(***************************************************************************)
(* Theorems about the cron service: for every set of jobs and of manual    *)
(* runs, every number of crashes and every limit of the catch-up.          *)
(*                                                                         *)
(* The inductive invariant CronInv says which runs are under way and who   *)
(* claimed them: types, markers and the absence of two runs at once follow *)
(* from it.  SlotsKept adds what a start makes of the slots that are owed, *)
(* OnceInv what keeps those that are met from being run again.             *)
(***************************************************************************)
EXTENDS CronService, FiniteSetTheorems, TLAPS

-----------------------------------------------------------------------------
(* What the sections do to a job                                           *)

Answers == {"ok", "error", "fatal"}

\* A record of a job is in order: the next run of a recurring job is computed from
\* now on, and a one-shot that is to run has not succeeded since it was scheduled.
Orderly(j, job) ==
  /\ job \in JobType
  /\ Recurring(j) => ~job.ahead /\ job.next # "stale"
  /\ ~Recurring(j) /\ job.next \in {"due", "stale", "soon"} => job.ran # "ok" \/ job.missed

\* A next run that is computed from an orderly record leaves it orderly.
LEMMA NextRunOrderly ==
  ASSUME NEW j, NEW job, Orderly(j, job)
  PROVE  /\ Orderly(j, [job EXCEPT !.next = NextRun(j, job)])
         /\ ~job.enabled => NextRun(j, job) = "none"
         /\ job.enabled /\ Recurring(j) => NextRun(j, job) = "future"
<1>1. NextRun(j, job) \in {"none", "future", "due", "stale"}
  BY DEF NextRun
<1>2. [job EXCEPT !.next = NextRun(j, job)] \in JobType
  BY <1>1 DEF Orderly, JobType
<1>3. /\ [job EXCEPT !.next = NextRun(j, job)].next = NextRun(j, job)
      /\ [job EXCEPT !.next = NextRun(j, job)].ran = job.ran
      /\ [job EXCEPT !.next = NextRun(j, job)].missed = job.missed
      /\ [job EXCEPT !.next = NextRun(j, job)].ahead = job.ahead
  BY <1>1 DEF Orderly, JobType
<1>4. /\ NextRun(j, job) = "stale" => ~Recurring(j) /\ job.ran # "ok"
      /\ NextRun(j, job) = "due" => job.ran = "no" \/ job.missed
      /\ NextRun(j, job) # "soon"
      /\ ~job.enabled => NextRun(j, job) = "none"
      /\ job.enabled /\ Recurring(j) => NextRun(j, job) = "future"
  BY DEF NextRun
<1>5. "no" # "ok"
  OBVIOUS
<1> HIDE DEF NextRun
<1> QED
  BY <1>2, <1>3, <1>4, <1>5 DEF Orderly

\* A walk over the jobs clears the markers and next runs of disabled jobs, and the
\* markers that are taken for stuck; it computes anew the next runs that have lapsed.
LEMMA WalkEffect ==
  ASSUME NEW js, NEW lapsed, \A j \in DOMAIN js : Orderly(j, js[j])
  PROVE  LET w == Walk(js, lapsed)
         IN  /\ DOMAIN w = DOMAIN js
             /\ w \in [DOMAIN js -> JobType]
             /\ \A j \in DOMAIN js :
                  /\ Orderly(j, w[j])
                  /\ w[j].enabled <=> js[j].enabled
                  /\ w[j].running <=> js[j].enabled /\ js[j].running /\ j \notin old
                  /\ w[j].ran = js[j].ran /\ (w[j].missed <=> js[j].missed)
                  /\ w[j].ahead <=> js[j].ahead
                  /\ w[j].enabled \/ w[j].next = "none"
                  /\ js[j].enabled => w[j].next = IF js[j].next \in lapsed
                                                  THEN NextRun(j, js[j]) ELSE js[j].next
<1> DEFINE w == Walk(js, lapsed)
           kept(j) == js[j].running /\ js[j].enabled /\ j \notin old
           next(j) == IF ~js[j].enabled THEN "none"
                      ELSE IF js[j].next \in lapsed THEN NextRun(j, js[j]) ELSE js[j].next
<1>1. /\ DOMAIN w = DOMAIN js
      /\ \A j \in DOMAIN js : w[j] = [js[j] EXCEPT !.running = kept(j), !.next = next(j)]
  BY DEF Walk
<1>2. w = [j \in DOMAIN w |-> w[j]]
  BY DEF Walk
<1> HIDE DEF w
<1>3. ASSUME NEW j \in DOMAIN js
      PROVE  /\ Orderly(j, w[j])
             /\ w[j].enabled <=> js[j].enabled
             /\ w[j].running <=> js[j].enabled /\ js[j].running /\ j \notin old
             /\ w[j].ran = js[j].ran /\ (w[j].missed <=> js[j].missed)
             /\ w[j].ahead <=> js[j].ahead
             /\ w[j].enabled \/ w[j].next = "none"
             /\ js[j].enabled => w[j].next = IF js[j].next \in lapsed
                                             THEN NextRun(j, js[j]) ELSE js[j].next
  <2>1. Orderly(j, js[j]) /\ js[j] \in JobType
    BY DEF Orderly
  <2> DEFINE walked == [js[j] EXCEPT !.next = next(j)]
  <2>2. Orderly(j, walked) /\ walked \in JobType /\ walked.next = next(j)
    <3>1. CASE ~js[j].enabled
      BY <2>1, <3>1 DEF Orderly, JobType
    <3>2. CASE js[j].enabled /\ js[j].next \in lapsed
      <4>1. walked = [js[j] EXCEPT !.next = NextRun(j, js[j])] /\ next(j) = NextRun(j, js[j])
        BY <3>2
      <4>2. Orderly(j, walked)
        BY <2>1, <4>1, NextRunOrderly
      <4> QED
        BY <2>1, <4>1, <4>2 DEF Orderly, JobType
    <3>3. CASE js[j].enabled /\ js[j].next \notin lapsed
      <4>1. walked = js[j] /\ next(j) = js[j].next
        BY <2>1, <3>3 DEF JobType
      <4> QED
        BY <2>1, <4>1
    <3> QED
      BY <3>1, <3>2, <3>3
  <2>3. /\ walked.enabled = js[j].enabled /\ walked.ran = js[j].ran
        /\ walked.missed = js[j].missed /\ walked.ahead = js[j].ahead
    BY <2>1 DEF JobType
  <2>4. w[j] = [js[j] EXCEPT !.running = kept(j), !.next = next(j)]
    BY <1>1
  <2>5. next(j) = IF ~js[j].enabled THEN "none"
                  ELSE IF js[j].next \in lapsed THEN NextRun(j, js[j]) ELSE js[j].next
    OBVIOUS
  <2>6. kept(j) \in BOOLEAN /\ (kept(j) <=> js[j].running /\ js[j].enabled /\ j \notin old)
    BY <2>1 DEF JobType
  <2> HIDE DEF walked, next, kept
  <2>7. /\ w[j] \in JobType /\ (w[j].running <=> kept(j)) /\ w[j].next = next(j)
        /\ w[j].enabled = js[j].enabled /\ w[j].ran = js[j].ran
        /\ w[j].missed = js[j].missed /\ w[j].ahead = js[j].ahead
    BY <2>1, <2>2, <2>4, <2>6 DEF JobType
  <2>8. Orderly(j, w[j])
    BY <2>2, <2>3, <2>7 DEF Orderly
  <2> QED
    BY <2>5, <2>6, <2>7, <2>8
<1> HIDE DEF kept, next
<1>4. DOMAIN w = DOMAIN js
  BY <1>1
<1>5. w \in [DOMAIN js -> JobType]
  <2>1. \A j \in DOMAIN js : w[j] \in JobType
    BY <1>3 DEF Orderly
  <2> QED
    BY <1>2, <1>4, <2>1
<1> QED
  BY <1>3, <1>4, <1>5 DEF w

\* The result of a run clears the marker, and never enables the job.
LEMMA ResultEffect ==
  ASSUME NEW j, NEW job, Orderly(j, job), NEW result \in Answers
  PROVE  LET r == ApplyJobResult(j, job, result)
         IN  /\ Orderly(j, r) /\ ~r.running /\ ~r.missed /\ (r.enabled => job.enabled)
             /\ Recurring(j) => r.next \in {"future", "none"}
<1> DEFINE ran == IF result = "ok" THEN "ok" ELSE "failed"
           over == [job EXCEPT !.running = FALSE, !.missed = FALSE, !.ran = ran]
           r == ApplyJobResult(j, job, result)
<1>1. r = IF Recurring(j)
          THEN [over EXCEPT !.next = IF job.enabled THEN "future" ELSE "none"]
          ELSE IF result = "error" THEN [over EXCEPT !.next = "soon"]
          ELSE [over EXCEPT !.enabled = FALSE, !.next = "none"]
  BY Zenon DEF ApplyJobResult
<1>2. ran \in {"ok", "failed"} /\ (result = "error" => ran = "failed")
  OBVIOUS
<1> HIDE DEF ran
<1>3. /\ over \in JobType /\ ~over.running /\ ~over.missed /\ over.ran = ran
      /\ (over.enabled <=> job.enabled) /\ (over.ahead <=> job.ahead)
  BY <1>2 DEF Orderly, JobType
<1> HIDE DEF over, r
<1>4. CASE Recurring(j)
  <2>1. r = [over EXCEPT !.next = IF job.enabled THEN "future" ELSE "none"]
    BY <1>1, <1>4
  <2> QED
    BY <1>3, <1>4, <2>1 DEF Orderly, JobType, r
<1>5. CASE ~Recurring(j) /\ result = "error"
  <2>1. r = [over EXCEPT !.next = "soon"]
    BY <1>1, <1>5
  <2> QED
    BY <1>2, <1>3, <1>5, <2>1 DEF Orderly, JobType, r
<1>6. CASE ~Recurring(j) /\ result # "error"
  <2>1. r = [over EXCEPT !.enabled = FALSE, !.next = "none"]
    BY <1>1, <1>6
  <2> QED
    BY <1>3, <1>6, <2>1 DEF Orderly, JobType, r
<1> QED
  BY <1>4, <1>5, <1>6

\* Results change the records of their jobs only, and remove one-shots.
LEMMA OutcomesEffect ==
  ASSUME NEW js, NEW results, \A j \in DOMAIN js : Orderly(j, js[j]),
         \A j \in DOMAIN results : results[j] \in Answers
  PROVE  LET a == ApplyOutcomes(js, results)
         IN  /\ DOMAIN a \subseteq DOMAIN js
             /\ DOMAIN js \ DOMAIN results \subseteq DOMAIN a
             /\ \A j \in DOMAIN a :
                  /\ Orderly(j, a[j])
                  /\ a[j].enabled => js[j].enabled
                  /\ IF j \in DOMAIN results
                     THEN /\ ~a[j].running /\ ~a[j].missed
                          /\ Recurring(j) => a[j].next \in {"future", "none"}
                     ELSE a[j] = js[j]
<1> DEFINE a == ApplyOutcomes(js, results)
<1>1. /\ DOMAIN a = {k \in DOMAIN js : k \notin DOMAIN results \/ ~Deletes(k, results[k])}
      /\ \A j \in DOMAIN a :
           a[j] = IF j \in DOMAIN results THEN ApplyJobResult(j, js[j], results[j]) ELSE js[j]
  BY DEF ApplyOutcomes
<1> HIDE DEF a
<1>2. ASSUME NEW j \in DOMAIN a
      PROVE  /\ Orderly(j, a[j])
             /\ a[j].enabled => js[j].enabled
             /\ IF j \in DOMAIN results
                THEN /\ ~a[j].running /\ ~a[j].missed
                     /\ Recurring(j) => a[j].next \in {"future", "none"}
                ELSE a[j] = js[j]
  BY <1>1, <1>2, ResultEffect
<1> QED
  BY <1>1, <1>2 DEF a

-----------------------------------------------------------------------------
(* The inductive invariant                                                 *)

RunBy(m, j) == manual[m].at \in {"running", "ended"} /\ manual[m].job = j

JobsInOrder ==
  /\ kind \in [Jobs -> Kinds]
  /\ DOMAIN jobs \subseteq Jobs /\ jobs \in [DOMAIN jobs -> JobType]
  /\ \A j \in DOMAIN jobs : /\ Orderly(j, jobs[j])
                            /\ jobs[j].enabled \/ jobs[j].next = "none"
  /\ slot \in [Jobs -> {"new", "owed", "met", "moved", "gone"}]
  /\ \A j \in Jobs : j \in DOMAIN jobs <=> slot[j] \notin {"new", "gone"}

ManualType == [at : {"idle", "queued", "inspected", "running", "ended"},
               job : Jobs \cup {"none"}, force : BOOLEAN, result : Answers]

\* Ticks and manual runs are for when the service is on; a batch belongs to a
\* tick or to the catch-up.
Phases ==
  /\ svc \in {"off", "loaded", "catchup", "caughtUp", "on"}
  /\ interrupted \subseteq Jobs /\ (svc # "loaded" => interrupted = {})
  /\ deferred \subseteq Jobs /\ (svc # "catchup" => deferred = {})
  /\ tick \in {"idle", "runs", "ends"} /\ timer \in BOOLEAN
  /\ batch \in [Jobs -> {"none", "claimed", "running"} \cup Answers]
  /\ \A j \in Jobs : batch[j] \in {"none", "claimed", "running"} \cup Results(j)
  /\ manual \in [Manuals -> ManualType]
  /\ crashes \in 0 .. MaxCrashes
  /\ svc # "on" => tick = "idle" /\ ~timer /\ \A m \in Manuals : manual[m].at = "idle"
  /\ \A j \in Jobs : batch[j] # "none" => /\ tick = "runs" \/ svc = "catchup"
                                         /\ j \notin deferred

\* No job is marked of which no run is under way, and every one is marked of which a
\* run is, unless it has lost the marker.
Markers ==
  svc # "off" => \A j \in DOMAIN jobs : /\ jobs[j].running => Runs(j)
                                        /\ Runs(j) => jobs[j].running \/ j \in released

\* Of a job that has not lost its marker there is one run, of a batch or a manual one.
OneClaim ==
  \A j \in Jobs :
    /\ Runs(j) => slot[j] \notin {"new", "owed"}
    /\ j \notin released /\ batch[j] # "none" => \A m \in Manuals : ~RunBy(m, j)
    /\ j \notin released => \A m, n \in Manuals : RunBy(m, j) /\ RunBy(n, j) => m = n

\* The catch-up leaves no one-shot for later that has succeeded.
DeferredUnrun == \A j \in deferred \cap DOMAIN jobs : Recurring(j) \/ jobs[j].ran # "ok"

\* What the history says: a disabled job has lost its marker if it has a run, and a
\* marker that has aged has moved the slot.
History ==
  /\ released \subseteq {j \in Jobs : Active(j)}
  /\ \A j \in Jobs \cap DOMAIN jobs : ~jobs[j].enabled /\ Active(j) => j \in released
  /\ old \subseteq {j \in DOMAIN jobs : jobs[j].running}
  /\ \A j \in old : slot[j] = "moved"

CronInv == JobsInOrder /\ Phases /\ Markers /\ OneClaim /\ DeferredUnrun /\ History

\* A step records the jobs that lose their marker during a run.
Records ==
  \A j \in Jobs : j \in released' <=> /\ Active(j)'
                                     /\ \/ j \in released
                                        \/ j \in DOMAIN jobs' /\ ~jobs'[j].enabled
                                        \/ j \in old /\ ~Marked(j)'

\* The jobs of the next state are in order when each of their records is.
LEMMA JobsNext ==
  ASSUME JobsInOrder, kind' = kind,
         DOMAIN jobs' \subseteq Jobs, jobs' = [j \in DOMAIN jobs' |-> jobs'[j]],
         \A j \in DOMAIN jobs' : /\ Orderly(j, jobs'[j])
                                 /\ jobs'[j].enabled \/ jobs'[j].next = "none",
         slot' \in [Jobs -> {"new", "owed", "met", "moved", "gone"}],
         \A j \in Jobs : j \in DOMAIN jobs' <=> slot'[j] \notin {"new", "gone"}
  PROVE  JobsInOrder'
<1>1. \A j : Recurring(j)' <=> Recurring(j)
  BY DEF Recurring
<1>2. \A j \in DOMAIN jobs' : Orderly(j, jobs[j])'
  BY <1>1 DEF Orderly
<1>3. jobs' \in [DOMAIN jobs' -> JobType]
  BY <1>2 DEF Orderly
<1> QED
  BY <1>2, <1>3 DEF JobsInOrder

\* The markers and the claims keep when runs neither begin nor end: a job that has a
\* run loses its marker only when it is disabled or the run is taken for stuck.
LEMMA RunsKept ==
  ASSUME CronInv, Records, svc # "off", \A j \in Jobs : batch'[j] # "none" <=> batch[j] # "none",
         \A m \in Manuals, j \in Jobs : RunBy(m, j)' <=> RunBy(m, j),
         DOMAIN jobs' \subseteq Jobs,
         \A j \in DOMAIN jobs' :
            \/ ~Runs(j) /\ ~jobs'[j].running
            \/ /\ j \in DOMAIN jobs
               /\ jobs'[j].running => jobs[j].running \/ Runs(j)
               /\ jobs'[j].enabled /\ jobs[j].running /\ j \notin old => jobs'[j].running,
         \A j \in Jobs : slot'[j] \in {"new", "owed"} => slot[j] = slot'[j] \/ ~Runs(j)
  PROVE  Markers' /\ OneClaim'
<1>1. \A j \in Jobs : /\ Runs(j) <=> batch[j] # "none" \/ \E m \in Manuals : RunBy(m, j)
                      /\ Runs(j)' <=> batch'[j] # "none" \/ \E m \in Manuals : RunBy(m, j)'
  BY DEF Runs, RunBy
<1>2. \A j \in Jobs : /\ Runs(j)' <=> Runs(j)
                      /\ Runs(j)' => Active(j)'
  BY <1>1 DEF Active, Runs
<1>3. Markers'
  <2>1. ASSUME NEW j \in DOMAIN jobs'
        PROVE  /\ jobs'[j].running => Runs(j)'
               /\ Runs(j)' => jobs'[j].running \/ j \in released'
    <3>1. j \in DOMAIN jobs => /\ jobs[j].running => Runs(j)
                               /\ Runs(j) => jobs[j].running \/ j \in released
      BY DEF Markers, CronInv
    <3>2. j \in Jobs /\ (~jobs'[j].running => ~Marked(j)')
      BY DEF Marked
    <3> QED
      BY <1>2, <3>1, <3>2 DEF Records
  <2> QED
    BY <2>1 DEF Markers
<1>4. OneClaim'
  <2>1. ASSUME NEW j \in Jobs
        PROVE  /\ Runs(j)' => slot'[j] \notin {"new", "owed"}
               /\ j \notin released' /\ batch'[j] # "none" => \A m \in Manuals : ~RunBy(m, j)'
               /\ j \notin released'
                    => \A m, n \in Manuals : RunBy(m, j)' /\ RunBy(n, j)' => m = n
    <3>1. /\ Runs(j) => slot[j] \notin {"new", "owed"}
          /\ j \notin released /\ batch[j] # "none" => \A m \in Manuals : ~RunBy(m, j)
          /\ j \notin released => \A m, n \in Manuals : RunBy(m, j) /\ RunBy(n, j) => m = n
      BY DEF OneClaim, CronInv
    <3>2. j \in released /\ Runs(j)' => j \in released'
      BY <1>2 DEF Records
    <3> QED
      BY <1>1, <1>2, <3>1, <3>2
  <2> QED
    BY <2>1 DEF OneClaim
<1> QED
  BY <1>3, <1>4

\* Claiming jobs marks them, and so does starting a run.
LEMMA MarkEffect ==
  ASSUME JobsInOrder, kind' = kind, NEW claimed,
         \/ slot' = Meets(claimed) /\ claimed \in SUBSET DOMAIN jobs
         \/ slot' = slot,
         jobs' = Mark(jobs, claimed)
  PROVE  /\ JobsInOrder'
         /\ DOMAIN jobs' = DOMAIN jobs
         /\ \A j \in DOMAIN jobs : /\ jobs'[j].enabled <=> jobs[j].enabled
                                   /\ jobs'[j].running <=> jobs[j].running \/ j \in claimed
                                   /\ jobs'[j].next = jobs[j].next
                                   /\ jobs'[j].ran = jobs[j].ran
                                   /\ jobs'[j].ahead <=> jobs[j].ahead
                                   /\ jobs'[j].missed <=> jobs[j].missed
         /\ slot' = Meets(claimed)
              => \A j \in Jobs : slot'[j] = IF j \in claimed THEN "met" ELSE slot[j]
<1>1. /\ DOMAIN jobs' = DOMAIN jobs
      /\ jobs' = [j \in DOMAIN jobs' |-> jobs'[j]]
      /\ \A j \in DOMAIN jobs :
           jobs'[j] = IF j \in claimed THEN [jobs[j] EXCEPT !.running = TRUE] ELSE jobs[j]
  BY DEF Mark
<1>2. /\ Meets(claimed) = [j \in Jobs |-> IF j \in claimed THEN "met" ELSE slot[j]]
      /\ DOMAIN jobs \subseteq Jobs
      /\ \A j \in DOMAIN jobs : /\ Orderly(j, jobs[j]) /\ jobs[j] \in JobType
                                /\ jobs[j].enabled \/ jobs[j].next = "none"
  BY DEF Meets, JobsInOrder, Orderly
<1>3. ASSUME NEW j \in DOMAIN jobs
      PROVE  /\ jobs'[j].enabled <=> jobs[j].enabled
             /\ jobs'[j].running <=> jobs[j].running \/ j \in claimed
             /\ jobs'[j].next = jobs[j].next
             /\ jobs'[j].ran = jobs[j].ran
             /\ jobs'[j].ahead <=> jobs[j].ahead
             /\ jobs'[j].missed <=> jobs[j].missed
             /\ Orderly(j, jobs'[j])
             /\ jobs'[j].enabled \/ jobs'[j].next = "none"
  <2>1. CASE j \in claimed
    <3>1. jobs'[j] = [jobs[j] EXCEPT !.running = TRUE]
      BY <1>1, <2>1
    <3> QED
      BY <1>2, <2>1, <3>1 DEF Orderly, JobType
  <2>2. CASE j \notin claimed
    BY <1>1, <1>2, <2>2
  <2> QED
    BY <2>1, <2>2
<1>4. /\ slot' \in [Jobs -> {"new", "owed", "met", "moved", "gone"}]
      /\ \A j \in Jobs : j \in DOMAIN jobs' <=> slot'[j] \notin {"new", "gone"}
  BY <1>1, <1>2 DEF JobsInOrder
<1>5. JobsInOrder'
  BY <1>1, <1>2, <1>3, <1>4, JobsNext
<1> QED
  BY <1>1, <1>2, <1>3, <1>5

\* A walk over the jobs keeps them in order.
LEMMA WalkKeepsOrder ==
  ASSUME JobsInOrder, kind' = kind, NEW js, NEW lapsed,
         DOMAIN js \subseteq Jobs, \A j \in DOMAIN js : Orderly(j, js[j]),
         jobs' = Walk(js, lapsed),
         slot' \in [Jobs -> {"new", "owed", "met", "moved", "gone"}],
         \A j \in Jobs : j \in DOMAIN js <=> slot'[j] \notin {"new", "gone"}
  PROVE  JobsInOrder' /\ DOMAIN jobs' = DOMAIN js
<1>1. /\ DOMAIN jobs' = DOMAIN js
      /\ \A j \in DOMAIN js : /\ Orderly(j, jobs'[j])
                              /\ jobs'[j].enabled \/ jobs'[j].next = "none"
  BY WalkEffect
<1>2. jobs' = [j \in DOMAIN jobs' |-> jobs'[j]]
  BY DEF Walk
<1> QED
  BY <1>1, <1>2, JobsNext

\* A walk over the jobs as they are changes no run.
LEMMA WalkKeepsRuns ==
  ASSUME CronInv, Records, kind' = kind, svc # "off", NEW lapsed, jobs' = Walk(jobs, lapsed),
         slot' = slot, batch' = batch, deferred' \subseteq deferred,
         \A m \in Manuals, j \in Jobs : RunBy(m, j)' <=> RunBy(m, j)
  PROVE  JobsInOrder' /\ Markers' /\ OneClaim' /\ DeferredUnrun'
<1>1. \A j \in DOMAIN jobs : Orderly(j, jobs[j])
  BY DEF CronInv, JobsInOrder
<1>2. /\ DOMAIN jobs' = DOMAIN jobs
      /\ \A j \in DOMAIN jobs :
                  /\ jobs'[j].enabled <=> jobs[j].enabled
                  /\ jobs'[j].running <=> jobs[j].enabled /\ jobs[j].running /\ j \notin old
                  /\ jobs'[j].ran = jobs[j].ran
  BY <1>1, WalkEffect
<1>3. JobsInOrder'
  BY <1>1, WalkKeepsOrder DEF CronInv, JobsInOrder
<1>4. Markers' /\ OneClaim'
  <2>1. DOMAIN jobs' \subseteq Jobs
    BY <1>2 DEF CronInv, JobsInOrder
  <2> QED
    BY <1>2, <2>1, RunsKept
<1>5. DeferredUnrun'
  BY <1>2 DEF DeferredUnrun, CronInv, Recurring
<1> QED
  BY <1>3, <1>4, <1>5

\* Jobs whose runs are over lose the marker or go; the others keep all but a next run
\* that is put off, and the marker when they are disabled.
ResultsIn(over, later) ==
  /\ DOMAIN jobs' \subseteq DOMAIN jobs /\ DOMAIN jobs \ over \subseteq DOMAIN jobs'
  /\ \A j \in DOMAIN jobs' :
       /\ jobs'[j].enabled => jobs[j].enabled
       /\ j \in over => ~jobs'[j].running /\ ~jobs'[j].missed
       /\ Recurring(j) /\ Past(jobs'[j]) => j \notin over /\ Past(jobs[j])
       /\ j \notin over =>
            /\ jobs'[j].ran = jobs[j].ran /\ (jobs'[j].missed <=> jobs[j].missed)
            /\ jobs'[j].enabled <=> jobs[j].enabled
            /\ jobs'[j].running <=> jobs[j].enabled /\ jobs[j].running /\ j \notin old
            /\ jobs'[j].ahead <=> jobs[j].ahead
            /\ jobs[j].enabled /\ jobs[j].next # "none"
                 => jobs'[j].next = IF j \in later THEN "soon" ELSE jobs[j].next
  /\ \A j \in Jobs : slot'[j] = IF j \in DOMAIN jobs \ DOMAIN jobs' THEN "gone" ELSE slot[j]

\* Results are applied to the jobs that are left, one-shots among them may go, and
\* the next runs of jobs that are put off move.
LEMMA ResultsApplied ==
  ASSUME JobsInOrder, kind' = kind, NEW results, NEW later, NEW put,
         \A j \in DOMAIN results : results[j] \in Answers,
         \A j \in later \cap DOMAIN jobs :
            j \notin DOMAIN results /\ (Recurring(j) \/ jobs[j].ran # "ok"),
         DOMAIN put = DOMAIN ApplyOutcomes(jobs, results),
         \A j \in DOMAIN put :
            put[j] = IF j \in later /\ ApplyOutcomes(jobs, results)[j].enabled
                     THEN [ApplyOutcomes(jobs, results)[j] EXCEPT !.next = "soon"]
                     ELSE ApplyOutcomes(jobs, results)[j],
         jobs' = RecomputeForMaintenance(put), slot' = Leave(DOMAIN put)
  PROVE  JobsInOrder' /\ ResultsIn(DOMAIN results, later)
<1> DEFINE a == ApplyOutcomes(jobs, results)
<1>1. /\ DOMAIN jobs \subseteq Jobs
      /\ \A j \in DOMAIN jobs : Orderly(j, jobs[j]) /\ jobs[j] \in JobType
  BY DEF JobsInOrder, Orderly
<1>2. /\ DOMAIN a \subseteq DOMAIN jobs
      /\ DOMAIN jobs \ DOMAIN results \subseteq DOMAIN a
      /\ \A j \in DOMAIN a :
           /\ Orderly(j, a[j])
           /\ a[j].enabled => jobs[j].enabled
           /\ IF j \in DOMAIN results
              THEN /\ ~a[j].running /\ ~a[j].missed
                   /\ Recurring(j) => a[j].next \in {"future", "none"}
              ELSE a[j] = jobs[j]
  BY <1>1, OutcomesEffect
<1>3. /\ DOMAIN put = DOMAIN a
      /\ \A j \in DOMAIN put : put[j] = IF j \in later /\ a[j].enabled
                                        THEN [a[j] EXCEPT !.next = "soon"] ELSE a[j]
  OBVIOUS
<1> HIDE DEF a
<1>4. ASSUME NEW j \in DOMAIN put
      PROVE  /\ Orderly(j, put[j])
             /\ put[j].enabled <=> a[j].enabled
             /\ put[j].running <=> a[j].running
             /\ put[j].ran = a[j].ran /\ (put[j].missed <=> a[j].missed)
             /\ put[j].ahead <=> a[j].ahead
             /\ put[j].next = IF j \in later /\ a[j].enabled THEN "soon" ELSE a[j].next
  <2>1. Orderly(j, a[j]) /\ a[j] \in JobType
    BY <1>2, <1>3 DEF Orderly
  <2>2. CASE j \in later /\ a[j].enabled
    <3>1. put[j] = [a[j] EXCEPT !.next = "soon"]
      BY <1>3, <2>2
    <3>2. Recurring(j) \/ a[j].ran # "ok"
      BY <1>2, <1>3, <2>2
    <3> QED
      BY <2>1, <2>2, <3>1, <3>2 DEF Orderly, JobType
  <2>3. CASE ~(j \in later /\ a[j].enabled)
    BY <1>3, <2>1, <2>3
  <2> QED
    BY <2>2, <2>3
<1>5. jobs' = Walk(put, {"none"})
  BY DEF RecomputeForMaintenance
<1>6. /\ DOMAIN jobs' = DOMAIN put
      /\ \A j \in DOMAIN put :
           /\ jobs'[j].enabled <=> put[j].enabled
           /\ jobs'[j].running <=> put[j].enabled /\ put[j].running /\ j \notin old
           /\ jobs'[j].ran = put[j].ran /\ (jobs'[j].missed <=> put[j].missed)
           /\ jobs'[j].enabled \/ jobs'[j].next = "none"
           /\ jobs'[j].ahead <=> put[j].ahead
           /\ put[j].enabled => jobs'[j].next = IF put[j].next \in {"none"}
                                                THEN NextRun(j, put[j]) ELSE put[j].next
  BY <1>4, <1>5, WalkEffect
<1>7. \A j \in Jobs : slot'[j] = IF j \in DOMAIN jobs \ DOMAIN jobs' THEN "gone" ELSE slot[j]
  BY <1>6 DEF Leave
<1>8. JobsInOrder'
  <2>1. slot' \in [Jobs -> {"new", "owed", "met", "moved", "gone"}]
    BY DEF Leave, JobsInOrder
  <2>2. \A j \in Jobs : j \in DOMAIN put <=> slot'[j] \notin {"new", "gone"}
    BY <1>1, <1>2, <1>3, <1>6, <1>7 DEF JobsInOrder
  <2> QED
    BY <1>1, <1>2, <1>3, <1>4, <1>5, <2>1, <2>2, WalkKeepsOrder
<1>9. ASSUME NEW j \in DOMAIN jobs'
      PROVE  /\ jobs'[j].enabled => jobs[j].enabled
             /\ j \in DOMAIN results => ~jobs'[j].running /\ ~jobs'[j].missed
             /\ Recurring(j) /\ Past(jobs'[j]) => j \notin DOMAIN results /\ Past(jobs[j])
             /\ j \notin DOMAIN results =>
                  /\ jobs'[j].ran = jobs[j].ran /\ (jobs'[j].missed <=> jobs[j].missed)
                  /\ jobs'[j].enabled <=> jobs[j].enabled
                  /\ jobs'[j].running <=> jobs[j].enabled /\ jobs[j].running /\ j \notin old
                  /\ jobs'[j].ahead <=> jobs[j].ahead
                  /\ jobs[j].enabled /\ jobs[j].next # "none"
                       => jobs'[j].next = IF j \in later THEN "soon" ELSE jobs[j].next
  <2>1. Recurring(j) /\ put[j].enabled => NextRun(j, put[j]) = "future"
    BY <1>4, <1>6, <1>9, NextRunOrderly
  <2>2. Recurring(j) /\ Past(jobs'[j]) => j \notin DOMAIN results /\ Past(jobs[j])
    BY <1>2, <1>3, <1>4, <1>6, <2>1 DEF Past
  <2> QED
    BY <1>2, <1>3, <1>4, <1>6, <2>2
<1> QED
  BY <1>2, <1>3, <1>6, <1>7, <1>8, <1>9 DEF ResultsIn

\* When every run of a batch has ended, its results are applied.
LEMMA AppliesEffect ==
  ASSUME CronInv, NEW later \in SUBSET deferred, BatchOver, Applies(later), kind' = kind
  PROVE  /\ JobsInOrder'
         /\ batch' = [j \in Jobs |-> "none"]
         /\ ResultsIn({j \in Jobs : batch[j] # "none"}, later)
<1> DEFINE results == [j \in Finished |-> batch[j]]
           a == ApplyOutcomes(jobs, results)
           put == [j \in DOMAIN a |->
                     IF j \in later /\ a[j].enabled THEN [a[j] EXCEPT !.next = "soon"] ELSE a[j]]
<1>1. /\ jobs' = RecomputeForMaintenance(put) /\ slot' = Leave(DOMAIN put)
      /\ batch' = [j \in Jobs |-> "none"]
  BY DEF Applies
<1>2. /\ DOMAIN jobs \subseteq Jobs /\ JobsInOrder
      /\ \A j \in Jobs : batch[j] \in {"none", "claimed", "running"} \cup Answers
      /\ \A j \in Jobs : batch[j] # "none" => j \notin deferred
  BY DEF CronInv, JobsInOrder, Phases
<1>3. /\ DOMAIN results = Finished
      /\ \A j \in Jobs : j \in Finished <=> batch[j] # "none"
      /\ \A j \in Finished : results[j] \in Answers
  BY <1>2 DEF Finished, BatchOver, Answers
<1>4. \A j \in later \cap DOMAIN jobs :
         j \notin Finished /\ (Recurring(j) \/ jobs[j].ran # "ok")
  BY <1>2, <1>3 DEF CronInv, DeferredUnrun
<1>5. /\ DOMAIN put = DOMAIN a
      /\ \A j \in DOMAIN put : put[j] = IF j \in later /\ a[j].enabled
                                        THEN [a[j] EXCEPT !.next = "soon"] ELSE a[j]
  OBVIOUS
<1> HIDE DEF results, put
<1>6. JobsInOrder' /\ ResultsIn(Finished, later)
  <2>1. \A j \in DOMAIN results : results[j] \in Answers
    BY <1>3
  <2>2. \A j \in later \cap DOMAIN jobs :
           j \notin DOMAIN results /\ (Recurring(j) \/ jobs[j].ran # "ok")
    BY <1>3, <1>4
  <2>3. JobsInOrder' /\ ResultsIn(DOMAIN results, later)
    BY <1>1, <1>2, <1>5, <2>1, <2>2, ResultsApplied
  <2> QED
    BY <1>3, <2>3
<1>7. Finished = {j \in Jobs : batch[j] # "none"}
  BY <1>3 DEF Finished
<1> HIDE DEF a
<1> QED
  BY <1>1, <1>6, <1>7

\* Results are of jobs that are no longer run, and leave the markers of the others.
LEMMA AppliesKeeps ==
  ASSUME CronInv, Records, NEW later \in SUBSET deferred, BatchOver, Applies(later), svc # "off",
         kind' = kind, manual' = manual, deferred' = {}
  PROVE  /\ JobsInOrder' /\ Markers' /\ OneClaim' /\ DeferredUnrun'
         /\ batch' = [j \in Jobs |-> "none"]
<1> DEFINE over == {j \in Jobs : batch[j] # "none"}
<1>1. /\ JobsInOrder' /\ batch' = [j \in Jobs |-> "none"]
      /\ ResultsIn(over, later)
  BY AppliesEffect
<1>2. \A j \in Jobs : j \in over <=> batch[j] # "none"
  OBVIOUS
<1>3. DOMAIN jobs \subseteq Jobs
  BY DEF CronInv, JobsInOrder
<1> HIDE DEF over
<1>4. \A m \in Manuals, j \in Jobs : RunBy(m, j)' <=> RunBy(m, j)
  BY DEF RunBy
<1>5. \A j \in Jobs : Runs(j)' <=> \E m \in Manuals : RunBy(m, j)
  BY <1>1 DEF Runs, RunBy
<1>6. \A j \in Jobs : /\ Runs(j) <=> batch[j] # "none" \/ \E m \in Manuals : RunBy(m, j)
                      /\ Runs(j)' => Active(j)'
  BY DEF Runs, RunBy, Active
<1>7. \A j \in Jobs : j \in released /\ Runs(j)' => j \in released'
  BY <1>6 DEF Records
<1>8. Markers'
  <2>1. ASSUME NEW j \in DOMAIN jobs'
        PROVE  /\ jobs'[j].running => Runs(j)'
               /\ Runs(j)' => jobs'[j].running \/ j \in released'
    <3>1. j \in DOMAIN jobs /\ j \in Jobs
      BY <1>1, <1>3 DEF ResultsIn
    <3>2. /\ jobs[j].running => Runs(j)
          /\ Runs(j) => jobs[j].running \/ j \in released
      BY <3>1 DEF CronInv, Markers
    <3>3. CASE j \in over
      <4>1. ~jobs'[j].running
        BY <1>1, <3>3 DEF ResultsIn
      <4>2. Runs(j)' => j \in released
        BY <1>2, <1>5, <3>1, <3>3 DEF CronInv, OneClaim
      <4> QED
        BY <1>7, <3>1, <4>1, <4>2
    <3>4. CASE j \notin over
      <4>1. /\ jobs'[j].running <=> jobs[j].enabled /\ jobs[j].running /\ j \notin old
            /\ jobs'[j].enabled <=> jobs[j].enabled
        BY <1>1, <3>4 DEF ResultsIn
      <4>2. Runs(j)' <=> Runs(j)
        BY <1>2, <1>5, <1>6, <3>1, <3>4
      <4>3. Marked(j)' => jobs'[j].running
        BY DEF Marked
      <4> QED
        BY <1>6, <1>7, <3>1, <3>2, <4>1, <4>2, <4>3 DEF Records
    <3> QED
      BY <3>3, <3>4
  <2> QED
    BY <2>1 DEF Markers
<1>9. OneClaim'
  <2>1. ASSUME NEW j \in Jobs
        PROVE  /\ Runs(j)' => slot'[j] \notin {"new", "owed"}
               /\ batch'[j] = "none"
               /\ j \notin released' => \A m, n \in Manuals : RunBy(m, j) /\ RunBy(n, j) => m = n
    <3>1. slot'[j] = slot[j] \/ slot'[j] = "gone"
      BY <1>1 DEF ResultsIn
    <3>2. /\ Runs(j) => slot[j] \notin {"new", "owed"}
          /\ j \notin released => \A m, n \in Manuals : RunBy(m, j) /\ RunBy(n, j) => m = n
      BY DEF CronInv, OneClaim
    <3> QED
      BY <1>1, <1>5, <1>6, <1>7, <3>1, <3>2
  <2> QED
    BY <1>4, <2>1 DEF OneClaim
<1>10. DeferredUnrun'
  BY DEF DeferredUnrun
<1> QED
  BY <1>1, <1>8, <1>9, <1>10

\* Jobs that are not marked are claimed by a tick or the catch-up.
LEMMA ClaimsEffect ==
  ASSUME CronInv, Records, NEW claimed \in SUBSET DOMAIN jobs, Claims(claimed), svc # "off",
         kind' = kind, manual' = manual, \A j \in claimed : ~jobs[j].running
  PROVE  JobsInOrder' /\ Markers' /\ OneClaim'
<1>1. /\ jobs' = Mark(jobs, claimed) /\ slot' = Meets(claimed)
      /\ batch' = [j \in Jobs |-> IF j \in claimed THEN "claimed" ELSE batch[j]]
  BY DEF Claims
<1>2. /\ JobsInOrder'
      /\ DOMAIN jobs' = DOMAIN jobs
      /\ \A j \in DOMAIN jobs : /\ jobs'[j].enabled <=> jobs[j].enabled
                                /\ jobs'[j].running <=> jobs[j].running \/ j \in claimed
      /\ \A j \in Jobs : slot'[j] = IF j \in claimed THEN "met" ELSE slot[j]
  BY <1>1, MarkEffect DEF CronInv
<1>3. DOMAIN jobs \subseteq Jobs
  BY DEF CronInv, JobsInOrder
<1>4. \A m \in Manuals, j \in Jobs : RunBy(m, j)' <=> RunBy(m, j)
  BY DEF RunBy
<1>5. \A j \in Jobs : /\ Runs(j) <=> batch[j] # "none" \/ \E m \in Manuals : RunBy(m, j)
                      /\ Runs(j)' <=> batch'[j] # "none" \/ \E m \in Manuals : RunBy(m, j)
                      /\ Runs(j)' => Active(j)'
  BY DEF Runs, RunBy, Active
<1>6. \A j \in Jobs : /\ Runs(j)' <=> Runs(j) \/ j \in claimed
                      /\ batch'[j] # "none" <=> batch[j] # "none" \/ j \in claimed
                      /\ j \in released /\ Runs(j)' => j \in released'
  BY <1>1, <1>5 DEF Records
<1>7. \A j \in claimed : Runs(j) => j \in released
  BY DEF CronInv, Markers
<1>8. Markers'
  BY <1>2, <1>3, <1>6 DEF Markers, CronInv
<1>9. OneClaim'
  <2>1. ASSUME NEW j \in Jobs
        PROVE  /\ Runs(j)' => slot'[j] \notin {"new", "owed"}
               /\ j \notin released' /\ batch'[j] # "none" => \A m \in Manuals : ~RunBy(m, j)
               /\ j \notin released' => \A m, n \in Manuals : RunBy(m, j) /\ RunBy(n, j) => m = n
    <3>1. /\ Runs(j) => slot[j] \notin {"new", "owed"}
          /\ j \notin released /\ batch[j] # "none" => \A m \in Manuals : ~RunBy(m, j)
          /\ j \notin released => \A m, n \in Manuals : RunBy(m, j) /\ RunBy(n, j) => m = n
      BY DEF CronInv, OneClaim
    <3> QED
      BY <1>2, <1>5, <1>6, <1>7, <3>1
  <2> QED
    BY <1>4, <2>1 DEF OneClaim
<1> QED
  BY <1>2, <1>8, <1>9

-----------------------------------------------------------------------------
(* The start                                                               *)

\* Nothing runs before the catch-up.
LEMMA NothingRuns ==
  ASSUME CronInv, svc \in {"off", "loaded", "caughtUp"}
  PROVE  /\ \A j \in Jobs : batch[j] = "none" /\ ~Runs(j)
         /\ \A m \in Manuals, j \in Jobs : ~RunBy(m, j)
  BY DEF CronInv, Phases, Runs, RunBy

\* A start clears every marker.
LEMMA StartKeeps ==
  ASSUME CronInv, Records, History', Start
  PROVE  CronInv'
<1>1. /\ svc = "off" /\ svc' = "loaded"
      /\ interrupted' = {j \in DOMAIN jobs : jobs[j].running}
      /\ jobs' = Unmarked(jobs) /\ slot' = Meets(interrupted')
      /\ UNCHANGED <<kind, deferred, tick, batch, timer, manual, crashes>>
  BY DEF Start
<1>2. /\ DOMAIN jobs \subseteq Jobs
      /\ \A j \in DOMAIN jobs : /\ Orderly(j, jobs[j]) /\ jobs[j] \in JobType
                                /\ jobs[j].enabled \/ jobs[j].next = "none"
  BY DEF CronInv, JobsInOrder, Orderly
<1>3. /\ DOMAIN jobs' = DOMAIN jobs
      /\ jobs' = [j \in DOMAIN jobs' |-> jobs'[j]]
      /\ \A j \in DOMAIN jobs : jobs'[j] = [jobs[j] EXCEPT !.running = FALSE]
  BY <1>1 DEF Unmarked
<1>4. ASSUME NEW j \in DOMAIN jobs'
      PROVE  /\ Orderly(j, jobs'[j]) /\ ~jobs'[j].running
             /\ jobs'[j].enabled \/ jobs'[j].next = "none"
  <2>1. /\ jobs'[j] = [jobs[j] EXCEPT !.running = FALSE] /\ jobs[j] \in JobType
        /\ Orderly(j, jobs[j]) /\ (jobs[j].enabled \/ jobs[j].next = "none")
    BY <1>2, <1>3
  <2> QED
    BY <2>1 DEF Orderly, JobType
<1>5. JobsInOrder'
  <2>1. \A j \in Jobs : slot'[j] = IF j \in interrupted' THEN "met" ELSE slot[j]
    BY <1>1 DEF Meets
  <2>2. slot' \in [Jobs -> {"new", "owed", "met", "moved", "gone"}]
    BY <1>1 DEF Meets, CronInv, JobsInOrder
  <2>3. \A j \in Jobs : j \in DOMAIN jobs' <=> slot'[j] \notin {"new", "gone"}
    BY <1>1, <1>3, <2>1 DEF CronInv, JobsInOrder
  <2> QED
    BY <1>1, <1>2, <1>3, <1>4, <2>2, <2>3, JobsNext DEF CronInv
<1>6. /\ \A j \in Jobs : batch[j] = "none" /\ ~Runs(j)
      /\ \A m \in Manuals, j \in Jobs : ~RunBy(m, j)
  BY <1>1, NothingRuns
<1>7. Phases'
  BY <1>1, <1>2, <1>6 DEF CronInv, Phases, Results, Recurring
<1>8. \A j \in Jobs : /\ ~Runs(j)' /\ \A m \in Manuals : ~RunBy(m, j)'
                      /\ batch'[j] = "none"
  BY <1>1, <1>6 DEF Runs, RunBy
<1>9. Markers' /\ OneClaim'
  BY <1>2, <1>3, <1>4, <1>8 DEF Markers, OneClaim
<1>10. DeferredUnrun'
  BY <1>1 DEF CronInv, Phases, DeferredUnrun
<1> QED
  BY <1>5, <1>7, <1>9, <1>10 DEF CronInv

\* The plan of the catch-up claims missed jobs and defers the rest of them.
LEMMA PlanKeeps ==
  ASSUME CronInv, Records, History', PlanStartupCatchup
  PROVE  CronInv'
<1> DEFINE missed == {j \in DOMAIN jobs : Missed(j)} \ Skipped
<1>1. PICK claimed \in SUBSET missed : Claims(claimed) /\ deferred' = missed \ claimed
  BY DEF PlanStartupCatchup
<1>2. /\ svc = "loaded" /\ interrupted' = {}
      /\ svc' = IF missed = {} THEN "caughtUp" ELSE "catchup"
      /\ UNCHANGED <<kind, tick, timer, manual, crashes>>
  BY DEF PlanStartupCatchup
<1>3. /\ missed \subseteq DOMAIN jobs
      /\ \A j \in missed : /\ jobs[j].enabled /\ ~jobs[j].running
                           /\ Recurring(j) \/ jobs[j].ran # "ok"
  <2>1. missed \subseteq DOMAIN jobs /\ \A j \in missed : Missed(j)
    OBVIOUS
  <2>2. ASSUME NEW j, Missed(j), ~Recurring(j)
        PROVE  jobs[j].ran # "ok"
    BY <2>2 DEF Missed, Recurring
  <2>3. \A j : Missed(j) => jobs[j].enabled /\ ~jobs[j].running
    BY DEF Missed
  <2> QED
    BY <2>1, <2>2, <2>3
<1> HIDE DEF missed
<1>4. JobsInOrder' /\ Markers' /\ OneClaim'
  BY <1>1, <1>2, <1>3, ClaimsEffect
<1>5. \A j \in DOMAIN jobs : jobs'[j].ran = jobs[j].ran
  BY <1>1, <1>2, <1>3, MarkEffect DEF CronInv, Claims
<1>6. batch' = [j \in Jobs |-> IF j \in claimed THEN "claimed" ELSE batch[j]]
  BY <1>1 DEF Claims
<1>7. \A j \in Jobs : batch[j] = "none"
  BY <1>2, NothingRuns
<1>8. Phases'
  <2>1. DOMAIN jobs \subseteq Jobs
    BY DEF CronInv, JobsInOrder
  <2>2. svc' \in {"catchup", "caughtUp"} /\ deferred' \subseteq Jobs
        /\ (svc' # "catchup" => deferred' = {})
    BY <1>1, <1>2, <1>3, <2>1
  <2>3. batch' \in [Jobs -> {"none", "claimed", "running"} \cup Answers]
        /\ \A j \in Jobs : batch'[j] \in {"none", "claimed"}
    BY <1>6, <1>7
  <2>4. \A j \in Jobs : batch'[j] # "none" => svc' = "catchup" /\ j \notin deferred'
    BY <1>1, <1>2, <1>6, <1>7
  <2> QED
    BY <1>2, <2>2, <2>3, <2>4 DEF CronInv, Phases
<1>9. DeferredUnrun'
  BY <1>1, <1>2, <1>3, <1>5 DEF DeferredUnrun, Recurring
<1> QED
  BY <1>4, <1>8, <1>9 DEF CronInv

\* The catch-up applies its results.
LEMMA CatchupKeeps ==
  ASSUME CronInv, Records, History', ApplyStartupCatchup
  PROVE  CronInv'
<1>1. /\ svc = "catchup" /\ BatchOver /\ Applies(deferred)
      /\ svc' = "caughtUp" /\ deferred' = {}
      /\ UNCHANGED <<kind, interrupted, tick, timer, manual, crashes>>
  BY DEF ApplyStartupCatchup
<1>2. /\ JobsInOrder' /\ Markers' /\ OneClaim' /\ DeferredUnrun'
      /\ batch' = [j \in Jobs |-> "none"]
  BY <1>1, AppliesKeeps
<1>3. Phases'
  BY <1>1, <1>2 DEF CronInv, Phases
<1> QED
  BY <1>2, <1>3 DEF CronInv

\* The end of the start computes all next runs anew.
LEMMA FinishStartKeeps ==
  ASSUME CronInv, Records, History', FinishStart
  PROVE  CronInv'
<1>1. /\ svc = "caughtUp" /\ svc' = "on"
      /\ jobs' = Walk(jobs, {"none", "due", "stale"})
      /\ UNCHANGED <<kind, interrupted, deferred, tick, batch, manual, slot, crashes>>
  BY DEF FinishStart, RecomputeNextRuns
<1>2. timer' \in BOOLEAN
  BY Zenon DEF FinishStart, Armable
<1>3. JobsInOrder' /\ Markers' /\ OneClaim' /\ DeferredUnrun'
  BY <1>1, WalkKeepsRuns DEF RunBy
<1>4. Phases'
  BY <1>1, <1>2, NothingRuns DEF CronInv, Phases, Results, Recurring
<1> QED
  BY <1>3, <1>4 DEF CronInv

-----------------------------------------------------------------------------
(* The ticks                                                               *)

\* A step that leaves jobs and runs alone.
LEMMA SameJobsKeep ==
  ASSUME CronInv, Records, UNCHANGED <<kind, jobs, slot, deferred>>, svc # "off",
         \A j \in Jobs : batch'[j] # "none" <=> batch[j] # "none",
         \A m \in Manuals, j \in Jobs : RunBy(m, j)' <=> RunBy(m, j)
  PROVE  JobsInOrder' /\ Markers' /\ OneClaim' /\ DeferredUnrun'
<1>1. JobsInOrder'
  BY DEF CronInv, JobsInOrder, Orderly, Recurring
<1>2. \A j \in Jobs : /\ Runs(j) <=> batch[j] # "none" \/ \E m \in Manuals : RunBy(m, j)
                      /\ Runs(j)' <=> batch'[j] # "none" \/ \E m \in Manuals : RunBy(m, j)'
                      /\ Runs(j)' => Active(j)'
  BY DEF Runs, RunBy, Active
<1>3. \A j \in Jobs : (Runs(j)' <=> Runs(j)) /\ (j \in released /\ Runs(j)' => j \in released')
  BY <1>2 DEF Records
<1>4. DOMAIN jobs \subseteq Jobs
  BY DEF CronInv, JobsInOrder
<1>5. Markers'
  BY <1>3, <1>4 DEF CronInv, Markers
<1>6. OneClaim'
  <2>1. ASSUME NEW j \in Jobs
        PROVE  /\ Runs(j)' => slot[j] \notin {"new", "owed"}
               /\ j \notin released' /\ batch'[j] # "none" => \A m \in Manuals : ~RunBy(m, j)'
               /\ j \notin released'
                    => \A m, n \in Manuals : RunBy(m, j)' /\ RunBy(n, j)' => m = n
    <3>1. /\ Runs(j) => slot[j] \notin {"new", "owed"}
          /\ j \notin released /\ batch[j] # "none" => \A m \in Manuals : ~RunBy(m, j)
          /\ j \notin released => \A m, n \in Manuals : RunBy(m, j) /\ RunBy(n, j) => m = n
      BY DEF CronInv, OneClaim
    <3> QED
      BY <1>2, <1>3, <3>1
  <2> QED
    BY <2>1 DEF OneClaim
<1>7. DeferredUnrun'
  BY DEF CronInv, DeferredUnrun, Recurring
<1> QED
  BY <1>1, <1>5, <1>6, <1>7

\* Ticks that claim nothing.
LEMMA IdleTickKeeps ==
  ASSUME CronInv, Records, History', TickBusy \/ TickFindsNothing \/ TickEnds
  PROVE  CronInv'
<1>1. svc = "on" /\ \A j \in Jobs : batch[j] # "none" => tick = "runs"
  BY DEF CronInv, Phases, TickBusy, TickFindsNothing, TickEnds
<1>2. CASE TickBusy
  <2>1. timer' = TRUE /\ UNCHANGED <<jobs, scheduler, manual, slot, crashes>>
    BY <1>2 DEF TickBusy, Recheck
  <2>2. JobsInOrder' /\ Markers' /\ OneClaim' /\ DeferredUnrun'
    BY <1>1, <2>1, SameJobsKeep DEF scheduler, startup, RunBy
  <2>3. Phases'
    BY <1>1, <2>1 DEF CronInv, Phases, scheduler, startup, Results, Recurring
  <2> QED
    BY <2>2, <2>3 DEF CronInv
<1>3. CASE TickFindsNothing
  <2>1. /\ timer' = TRUE /\ tick = "idle" /\ tick' = "ends"
        /\ jobs' = Walk(jobs, {"none"})
        /\ UNCHANGED <<kind, svc, interrupted, deferred, batch, manual, slot, crashes>>
    BY <1>3 DEF TickFindsNothing, Recheck, RecomputeForMaintenance, startup
  <2>2. JobsInOrder' /\ Markers' /\ OneClaim' /\ DeferredUnrun'
    BY <1>1, <2>1, WalkKeepsRuns DEF RunBy
  <2>3. Phases'
    BY <1>1, <2>1 DEF CronInv, Phases, Results, Recurring
  <2> QED
    BY <2>2, <2>3 DEF CronInv
<1>4. CASE TickEnds
  <2>1. /\ tick = "ends" /\ tick' = "idle"
        /\ UNCHANGED <<jobs, kind, svc, interrupted, deferred, batch, manual, slot, crashes>>
    BY <1>4 DEF TickEnds, startup
  <2>2. timer' \in BOOLEAN
    BY <1>4, Zenon DEF TickEnds, Armable
  <2>3. JobsInOrder' /\ Markers' /\ OneClaim' /\ DeferredUnrun'
    BY <1>1, <2>1, SameJobsKeep DEF RunBy
  <2>4. Phases'
    BY <1>1, <2>1, <2>2 DEF CronInv, Phases, Results, Recurring
  <2> QED
    BY <2>3, <2>4 DEF CronInv
<1> QED
  BY <1>2, <1>3, <1>4

\* A tick claims the jobs that are due.
LEMMA TickClaimsKeeps ==
  ASSUME CronInv, Records, History', TickClaims
  PROVE  CronInv'
<1> DEFINE due == {j \in DOMAIN jobs : Runnable(j)}
<1>1. /\ timer /\ timer' = TRUE /\ tick' = "runs"
      /\ Claims(due)
      /\ UNCHANGED <<kind, svc, interrupted, deferred, manual, crashes>>
  BY DEF TickClaims, Recheck, startup
<1>2. due \subseteq DOMAIN jobs /\ \A j \in due : ~jobs[j].running
  BY DEF Runnable
<1> HIDE DEF due
<1>3. svc = "on" /\ deferred = {}
  BY <1>1 DEF CronInv, Phases
<1>4. JobsInOrder' /\ Markers' /\ OneClaim'
  BY <1>1, <1>2, <1>3, ClaimsEffect
<1>5. batch' = [j \in Jobs |-> IF j \in due THEN "claimed" ELSE batch[j]]
  BY <1>1 DEF Claims
<1>6. Phases'
  <2>1. /\ batch' \in [Jobs -> {"none", "claimed", "running"} \cup Answers]
        /\ \A j \in Jobs : batch'[j] \in {"none", "claimed", "running"} \cup Results(j)
    BY <1>5 DEF CronInv, Phases
  <2> QED
    BY <1>1, <1>3, <2>1 DEF CronInv, Phases, Results, Recurring
<1>7. DeferredUnrun'
  BY <1>1, <1>3 DEF DeferredUnrun
<1> QED
  BY <1>4, <1>6, <1>7 DEF CronInv

\* Workers start runs, and mark them anew, and runs end.
LEMMA RunnerEffect ==
  ASSUME CronInv, NEW j \in Jobs, Runner(j)
  PROVE  /\ Runs(j) /\ svc # "off"
         /\ jobs' = jobs \/ (jobs' = Mark(jobs, {j}) /\ svc = "on")
         /\ UNCHANGED <<kind, svc, interrupted, deferred, tick, timer, manual, slot, crashes>>
         /\ batch' \in [Jobs -> {"none", "claimed", "running"} \cup Answers]
         /\ \A k \in Jobs : batch'[k] \in {"none", "claimed", "running"} \cup Results(k)
         /\ \A k \in Jobs : batch'[k] # "none" <=> batch[k] # "none"
         /\ \A k \in Jobs : batch'[k] = "claimed" => batch[k] = "claimed"
<1>1. PICK b \in {"running"} \cup Results(j) :
         /\ batch[j] \in {"claimed", "running"} /\ batch' = [batch EXCEPT ![j] = b]
  BY DEF Runner, RunStarts, RunEnds
<1>2. UNCHANGED <<kind, svc, interrupted, deferred, tick, timer, manual, slot, crashes>>
  BY DEF Runner, RunStarts, RunEnds, startup
<1>3. jobs' = jobs \/ (jobs' = Mark(jobs, {j}) /\ tick = "runs")
  BY DEF Runner, RunStarts, RunEnds
<1>4. b \notin {"none", "claimed"} /\ b \in {"none", "claimed", "running"} \cup Answers
  BY DEF Results, Answers
<1> QED
  BY <1>1, <1>2, <1>3, <1>4 DEF CronInv, Phases, Runs

\* The job that is marked has a run.
LEMMA RunnerKeeps ==
  ASSUME CronInv, Records, History', NEW j \in Jobs, Runner(j)
  PROVE  CronInv'
<1>1. /\ Runs(j) /\ svc # "off"
      /\ jobs' = jobs \/ (jobs' = Mark(jobs, {j}) /\ svc = "on")
      /\ UNCHANGED <<kind, svc, interrupted, deferred, tick, timer, manual, slot, crashes>>
      /\ batch' \in [Jobs -> {"none", "claimed", "running"} \cup Answers]
      /\ \A k \in Jobs : batch'[k] \in {"none", "claimed", "running"} \cup Results(k)
      /\ \A k \in Jobs : batch'[k] # "none" <=> batch[k] # "none"
  BY RunnerEffect
<1>2. Phases'
  BY <1>1 DEF CronInv, Phases, Results, Recurring
<1>3. \A m \in Manuals, k \in Jobs : RunBy(m, k)' <=> RunBy(m, k)
  BY <1>1 DEF RunBy
<1>4. CASE jobs' = jobs
  <2>1. JobsInOrder' /\ Markers' /\ OneClaim' /\ DeferredUnrun'
    BY <1>1, <1>3, <1>4, SameJobsKeep
  <2> QED
    BY <1>2, <2>1 DEF CronInv
<1>5. CASE jobs' = Mark(jobs, {j}) /\ svc = "on"
  <2>1. /\ JobsInOrder' /\ DOMAIN jobs' = DOMAIN jobs
        /\ \A k \in DOMAIN jobs : /\ jobs'[k].running <=> jobs[k].running \/ k \in {j}
                                  /\ jobs'[k].ran = jobs[k].ran
    BY <1>1, <1>5, MarkEffect DEF CronInv
  <2>2. DOMAIN jobs \subseteq Jobs
    BY DEF CronInv, JobsInOrder
  <2>3. Markers' /\ OneClaim'
    BY <1>1, <1>3, <2>1, <2>2, RunsKept
  <2>4. DeferredUnrun'
    BY <1>1, <2>1 DEF CronInv, DeferredUnrun, Recurring
  <2> QED
    BY <1>2, <2>1, <2>3, <2>4 DEF CronInv
<1> QED
  BY <1>1, <1>4, <1>5

\* A tick applies its results.
LEMMA TickAppliesKeeps ==
  ASSUME CronInv, Records, History', TickApplies
  PROVE  CronInv'
<1>1. /\ tick = "runs" /\ BatchOver /\ Applies({}) /\ tick' = "ends"
      /\ UNCHANGED <<kind, svc, interrupted, deferred, timer, manual, crashes>>
  BY DEF TickApplies, startup
<1>2. svc = "on" /\ deferred = {}
  BY <1>1 DEF CronInv, Phases
<1>3. /\ JobsInOrder' /\ Markers' /\ OneClaim' /\ DeferredUnrun'
      /\ batch' = [j \in Jobs |-> "none"]
  BY <1>1, <1>2, AppliesKeeps
<1>4. Phases'
  BY <1>1, <1>2, <1>3 DEF CronInv, Phases
<1> QED
  BY <1>3, <1>4 DEF CronInv

-----------------------------------------------------------------------------
(* Manual runs, edits and crashes                                          *)

\* What is left when a manual run is over.
LEMMA NoManualType == NoManual \in ManualType /\ NoManual.at = "idle"
  BY DEF NoManual, ManualType, Answers

\* A manual run is over, and the others stay as they are.
LEMMA DropsEffect ==
  ASSUME CronInv, NEW m \in Manuals, manual' = Drops(m)
  PROVE  /\ manual' \in [Manuals -> ManualType]
         /\ \A j \in Jobs : ~RunBy(m, j)'
         /\ \A n \in Manuals \ {m}, j \in Jobs : RunBy(n, j)' <=> RunBy(n, j)
<1>1. manual \in [Manuals -> ManualType] /\ manual' = [manual EXCEPT ![m] = NoManual]
  BY DEF CronInv, Phases, Drops
<1> QED
  BY <1>1, NoManualType DEF RunBy

\* A manual run goes on to another stage, and the others stay as they are.
LEMMA GoesEffect ==
  ASSUME CronInv, NEW m \in Manuals,
         NEW at \in {"idle", "queued", "inspected", "running", "ended"}, manual' = Goes(m, at)
  PROVE  /\ manual' \in [Manuals -> ManualType]
         /\ manual'[m].at = at /\ manual'[m].job = manual[m].job
         /\ \A n \in Manuals \ {m} : manual'[n] = manual[n]
<1>1. manual \in [Manuals -> ManualType] /\ manual[m] \in ManualType
  BY DEF CronInv, Phases
<1> DEFINE r == [manual[m] EXCEPT !.at = at]
<1>2. r \in ManualType /\ r.at = at /\ r.job = manual[m].job
  BY <1>1 DEF ManualType
<1>3. manual' = [manual EXCEPT ![m] = r]
  BY DEF Goes
<1> HIDE DEF r
<1> QED
  BY <1>1, <1>2, <1>3

\* What edits leave alone.
LEMMA EditFrame ==
  ASSUME NEW j \in Jobs, Edit(j)
  PROVE  /\ svc = "on"
         /\ UNCHANGED <<kind, svc, interrupted, deferred, tick, batch, manual, crashes>>
<1>1. CASE Add(j)
  BY <1>1, Zenon DEF Add, scheduler, startup
<1>2. CASE Remove(j)
  BY <1>2, Zenon DEF Remove, scheduler, startup
<1>3. ASSUME NEW enabled \in BOOLEAN, SetEnabled(j, enabled)
      PROVE  /\ svc = "on"
             /\ UNCHANGED <<kind, svc, interrupted, deferred, tick, batch, manual, crashes>>
  BY <1>3, Zenon DEF SetEnabled, scheduler, startup
<1> QED
  BY <1>1, <1>2, <1>3 DEF Edit

\* Steps that read the jobs, and walk over them as they do.
ReadStep ==
  \/ \E m \in Manuals, j \in Jobs, force \in BOOLEAN : EnqueueRun(m, j, force)
  \/ \E m \in Manuals : Inspect(m)
  \/ List

\* What requests, inspections and reads leave alone.
LEMMA ReadFrame ==
  ASSUME CronInv, ReadStep
  PROVE  /\ svc = "on" /\ jobs' = Walk(jobs, {"none"})
         /\ UNCHANGED <<kind, svc, interrupted, deferred, tick, batch, timer, slot, crashes>>
<1>1. CASE \E m \in Manuals, j \in Jobs, force \in BOOLEAN : EnqueueRun(m, j, force)
  BY <1>1, Zenon DEF EnqueueRun, Inspects, RecomputeForMaintenance, scheduler, startup
<1>2. CASE \E m \in Manuals : Inspect(m)
  <2>1. PICK m \in Manuals : Inspect(m)
    BY <1>2
  <2>2. manual[m].at = "queued" /\ jobs' = Walk(jobs, {"none"})
    BY <2>1, Zenon DEF Inspect, Inspects, RecomputeForMaintenance
  <2>3. UNCHANGED <<kind, svc, interrupted, deferred, tick, batch, timer, slot, crashes>>
    BY <2>1, Zenon DEF Inspect, scheduler, startup
  <2>4. svc = "on"
    BY <2>2 DEF CronInv, Phases
  <2> QED
    BY <2>2, <2>3, <2>4
<1>3. CASE List
  BY <1>3, Zenon DEF List, RecomputeForMaintenance, scheduler, startup
<1> QED
  BY <1>1, <1>2, <1>3 DEF ReadStep

\* Requests, inspections and reads walk over the jobs.
LEMMA ReadsKeep ==
  ASSUME CronInv, Records, History', ReadStep
  PROVE  CronInv'
<1>1. /\ svc = "on" /\ jobs' = Walk(jobs, {"none"})
      /\ UNCHANGED <<kind, svc, interrupted, deferred, tick, batch, timer, slot, crashes>>
  BY ReadFrame
<1>2. /\ manual' \in [Manuals -> ManualType]
      /\ \A m \in Manuals, j \in Jobs : RunBy(m, j)' <=> RunBy(m, j)
  <2>1. ASSUME NEW m \in Manuals, NEW j \in Jobs, NEW force \in BOOLEAN, EnqueueRun(m, j, force)
        PROVE  <1>2!:
    <3>1. manual[m].at = "idle"
          /\ \/ manual' = manual
             \/ manual' = [manual EXCEPT ![m] = [NoManual EXCEPT !.at = "queued", !.job = j,
                                                                 !.force = force]]
      BY <2>1 DEF EnqueueRun, Inspects
    <3> DEFINE request == [NoManual EXCEPT !.at = "queued", !.job = j, !.force = force]
    <3>2. request \in ManualType /\ request.at = "queued"
      BY NoManualType DEF ManualType
    <3>3. manual' = manual \/ manual' = [manual EXCEPT ![m] = request]
      BY <3>1
    <3> HIDE DEF request
    <3> QED
      BY <3>1, <3>2, <3>3 DEF CronInv, Phases, RunBy
  <2>2. ASSUME NEW m \in Manuals, Inspect(m)
        PROVE  <1>2!:
    <3>1. manual[m].at = "queued" /\ (manual' = Goes(m, "inspected") \/ manual' = Drops(m))
      BY <2>2 DEF Inspect, Inspects
    <3>2. \A j \in Jobs : ~RunBy(m, j)
      BY <3>1 DEF RunBy
    <3>3. CASE manual' = Drops(m)
      BY <3>2, <3>3, DropsEffect
    <3>4. CASE manual' = Goes(m, "inspected")
      <4>1. /\ manual' \in [Manuals -> ManualType]
            /\ manual'[m].at = "inspected"
            /\ \A n \in Manuals \ {m} : manual'[n] = manual[n]
        BY <3>4, GoesEffect
      <4> QED
        BY <3>2, <4>1 DEF RunBy
    <3> QED
      BY <3>1, <3>3, <3>4
  <2>3. CASE List
    BY <2>3 DEF List, CronInv, Phases, RunBy
  <2> QED
    BY <2>1, <2>2, <2>3 DEF ReadStep
<1>3. JobsInOrder' /\ Markers' /\ OneClaim' /\ DeferredUnrun'
  BY <1>1, <1>2, WalkKeepsRuns
<1>4. Phases'
  BY <1>1, <1>2 DEF CronInv, Phases, Results, Recurring
<1> QED
  BY <1>3, <1>4 DEF CronInv

\* A reserved run marks its job, which nobody else runs.
LEMMA PrepareKeeps ==
  ASSUME CronInv, Records, History', NEW m \in Manuals, PrepareManualRun(m)
  PROVE  CronInv'
<1>0. PICK j : j = manual[m].job
  OBVIOUS
<1>1. /\ manual[m].at = "inspected" /\ svc = "on"
      /\ UNCHANGED <<kind, svc, interrupted, deferred, tick, batch, timer, crashes>>
  BY DEF PrepareManualRun, CronInv, Phases, scheduler, startup
<1>2. deferred = {} /\ ~RunBy(m, j)
  BY <1>1 DEF CronInv, Phases, RunBy
<1>3. CASE manual' = Drops(m) /\ UNCHANGED <<jobs, slot>>
  <2>1. /\ manual' \in [Manuals -> ManualType]
        /\ \A k \in Jobs : ~RunBy(m, k)'
        /\ \A n \in Manuals \ {m}, k \in Jobs : RunBy(n, k)' <=> RunBy(n, k)
    BY <1>3, DropsEffect
  <2>2. \A k \in Jobs : ~RunBy(m, k)
    BY <1>1 DEF RunBy
  <2>3. JobsInOrder' /\ Markers' /\ OneClaim' /\ DeferredUnrun'
    BY <1>1, <1>3, <2>1, <2>2, SameJobsKeep
  <2>4. Phases'
    BY <1>1, <2>1 DEF CronInv, Phases, Results, Recurring
  <2> QED
    BY <2>3, <2>4 DEF CronInv
<1>4. CASE /\ Reservable(j) /\ manual' = Goes(m, "running")
           /\ jobs' = Mark(jobs, {j}) /\ slot' = Meets({j})
  <2>1. /\ manual' \in [Manuals -> ManualType]
        /\ manual'[m].at = "running" /\ manual'[m].job = j
        /\ \A n \in Manuals \ {m} : manual'[n] = manual[n]
    BY <1>0, <1>4, GoesEffect
  <2>2. j \in DOMAIN jobs /\ ~jobs[j].running
    BY <1>4 DEF Reservable
  <2>3. j \in Jobs /\ DOMAIN jobs \subseteq Jobs
    BY <2>2 DEF CronInv, JobsInOrder
  <2>4. /\ JobsInOrder'
        /\ DOMAIN jobs' = DOMAIN jobs
        /\ \A k \in DOMAIN jobs : /\ jobs'[k].enabled <=> jobs[k].enabled
                                  /\ jobs'[k].running <=> jobs[k].running \/ k \in {j}
        /\ \A k \in Jobs : slot'[k] = IF k \in {j} THEN "met" ELSE slot[k]
    <3>1. {j} \in SUBSET DOMAIN jobs
      BY <2>2
    <3> QED
      BY <1>1, <1>4, <3>1, MarkEffect DEF CronInv
  <2>5. /\ RunBy(m, j)'
        /\ \A n \in Manuals, k \in Jobs : RunBy(n, k)' <=> RunBy(n, k) \/ (n = m /\ k = j)
    BY <1>1, <1>2, <2>1, <2>3 DEF RunBy
  <2>6. \A k \in Jobs : /\ Runs(k) <=> batch[k] # "none" \/ \E n \in Manuals : RunBy(n, k)
                        /\ Runs(k)' <=> batch[k] # "none" \/ \E n \in Manuals : RunBy(n, k)'
                        /\ Runs(k)' => Active(k)'
    BY <1>1 DEF Runs, RunBy, Active
  <2>7. \A k \in Jobs : /\ Runs(k)' <=> Runs(k) \/ k = j
                        /\ k \in released /\ Runs(k)' => k \in released'
    BY <2>5, <2>6 DEF Records
  <2>8. Runs(j) => j \in released
    BY <1>1, <2>2 DEF CronInv, Markers
  <2>10. Markers'
    <3>1. ASSUME NEW k \in DOMAIN jobs
          PROVE  /\ jobs'[k].running => Runs(k)'
                 /\ Runs(k)' => jobs'[k].running \/ k \in released'
      <4>1. /\ jobs[k].running => Runs(k)
            /\ Runs(k) => jobs[k].running \/ k \in released
        BY <1>1 DEF CronInv, Markers
      <4> QED
        BY <2>3, <2>4, <2>7, <4>1
    <3> QED
      BY <2>4, <3>1 DEF Markers
  <2>11. OneClaim'
    <3>1. ASSUME NEW k \in Jobs
          PROVE  /\ Runs(k)' => slot'[k] \notin {"new", "owed"}
                 /\ k \notin released' /\ batch[k] # "none" => \A n \in Manuals : ~RunBy(n, k)'
                 /\ k \notin released'
                      => \A n, o \in Manuals : RunBy(n, k)' /\ RunBy(o, k)' => n = o
      <4>1. /\ Runs(k) => slot[k] \notin {"new", "owed"}
            /\ k \notin released /\ batch[k] # "none" => \A n \in Manuals : ~RunBy(n, k)
            /\ k \notin released => \A n, o \in Manuals : RunBy(n, k) /\ RunBy(o, k) => n = o
        BY DEF CronInv, OneClaim
      <4>2. CASE k = j
        BY <1>4, <2>3, <2>4, <2>5, <2>6, <2>7, <2>8, <4>2
      <4>3. CASE k # j
        BY <1>4, <2>4, <2>5, <2>6, <2>7, <4>1, <4>3
      <4> QED
        BY <4>2, <4>3
    <3> QED
      BY <1>1, <2>3, <2>4, <3>1 DEF OneClaim
  <2>12. Phases'
    BY <1>1, <2>1 DEF CronInv, Phases, Results, Recurring
  <2>13. DeferredUnrun'
    BY <1>1, <1>2 DEF DeferredUnrun
  <2> QED
    BY <2>4, <2>10, <2>11, <2>12, <2>13 DEF CronInv
<1> QED
  BY <1>0, <1>3, <1>4 DEF PrepareManualRun

\* A manual run returns.
LEMMA ManualRunEndsKeeps ==
  ASSUME CronInv, Records, History', NEW m \in Manuals, ManualRunEnds(m)
  PROVE  CronInv'
<1>1. PICK result \in Results(manual[m].job) :
         manual' = [manual EXCEPT ![m].at = "ended", ![m].result = result]
  BY DEF ManualRunEnds
<1>2. /\ manual[m].at = "running" /\ svc = "on"
      /\ UNCHANGED <<jobs, kind, svc, interrupted, deferred, tick, batch, timer, slot, crashes>>
  BY DEF ManualRunEnds, CronInv, Phases, scheduler, startup
<1>3. result \in Answers
  BY DEF Results, Answers
<1>4. manual \in [Manuals -> ManualType] /\ manual[m] \in ManualType
  BY DEF CronInv, Phases
<1> DEFINE r == [manual[m] EXCEPT !.at = "ended", !.result = result]
<1>5. r \in ManualType /\ r.at = "ended" /\ r.job = manual[m].job
  BY <1>3, <1>4 DEF ManualType
<1>6. manual' = [manual EXCEPT ![m] = r]
  BY <1>1, <1>4
<1> HIDE DEF r
<1>7. /\ manual' \in [Manuals -> ManualType]
      /\ \A n \in Manuals, j \in Jobs : RunBy(n, j)' <=> RunBy(n, j)
  BY <1>2, <1>4, <1>5, <1>6 DEF RunBy
<1>8. JobsInOrder' /\ Markers' /\ OneClaim' /\ DeferredUnrun'
  BY <1>2, <1>7, SameJobsKeep
<1>9. Phases'
  BY <1>2, <1>7 DEF CronInv, Phases, Results, Recurring
<1> QED
  BY <1>8, <1>9 DEF CronInv

\* The result of a manual run is applied, unless the job has been removed.
LEMMA FinishEffect ==
  ASSUME CronInv, NEW m \in Manuals, FinishManualRun(m)
  PROVE  /\ svc = "on" /\ UNCHANGED <<kind, svc, interrupted, deferred, tick, batch, crashes>>
         /\ manual[m].at = "ended" /\ manual' = Drops(m) /\ timer' \in BOOLEAN
         /\ JobsInOrder'
         /\ \/ manual[m].job \notin DOMAIN jobs /\ UNCHANGED <<jobs, slot>>
            \/ manual[m].job \in DOMAIN jobs /\ ResultsIn({manual[m].job}, {})
<1>0. PICK j : j = manual[m].job
  OBVIOUS
<1> DEFINE results == [k \in {j} |-> manual[m].result]
           put == ApplyOutcomes(jobs, results)
<1>1. /\ manual[m].at = "ended" /\ svc = "on" /\ manual' = Drops(m)
      /\ UNCHANGED <<kind, svc, interrupted, deferred, tick, batch, crashes>>
  BY DEF FinishManualRun, CronInv, Phases, scheduler, startup
<1>2. CASE j \notin DOMAIN jobs
  <2>1. UNCHANGED <<jobs, slot, timer>>
    BY <1>0, <1>2 DEF FinishManualRun
  <2>2. JobsInOrder' /\ timer' \in BOOLEAN
    BY <1>1, <2>1 DEF CronInv, JobsInOrder, Orderly, Recurring, Phases
  <2> QED
    BY <1>0, <1>1, <1>2, <2>1, <2>2
<1>3. CASE j \in DOMAIN jobs
  <2>1. jobs' = RecomputeForMaintenance(put) /\ slot' = Leave(DOMAIN put)
    BY <1>0, <1>3 DEF FinishManualRun
  <2>2. timer' \in BOOLEAN
    <3>1. timer' = Armable(jobs')
      BY <1>0, <1>3 DEF FinishManualRun
    <3> QED
      BY <3>1, Zenon DEF Armable
  <2>3. DOMAIN results = {j} /\ \A k \in DOMAIN results : results[k] \in Answers
    BY DEF CronInv, Phases, ManualType
  <2>4. \A k \in DOMAIN put :
           put[k] = IF k \in {} /\ put[k].enabled THEN [put[k] EXCEPT !.next = "soon"] ELSE put[k]
    OBVIOUS
  <2> HIDE DEF results
  <2>5. JobsInOrder' /\ ResultsIn(DOMAIN results, {})
    BY <1>1, <2>1, <2>3, <2>4, ResultsApplied DEF CronInv
  <2> HIDE DEF put
  <2>6. ResultsIn({j}, {})
    BY <2>3, <2>5
  <2> QED
    BY <1>0, <1>1, <1>3, <2>2, <2>5, <2>6
<1> QED
  BY <1>2, <1>3

\* The job of which the run is over has no other, unless it has lost its marker.
LEMMA FinishManualRunKeeps ==
  ASSUME CronInv, Records, History', NEW m \in Manuals, FinishManualRun(m)
  PROVE  CronInv'
<1>0. PICK j : j = manual[m].job
  OBVIOUS
<1>1. /\ svc = "on" /\ UNCHANGED <<kind, svc, interrupted, deferred, tick, batch, crashes>>
      /\ manual[m].at = "ended" /\ manual' = Drops(m) /\ timer' \in BOOLEAN
      /\ JobsInOrder'
      /\ \/ j \notin DOMAIN jobs /\ UNCHANGED <<jobs, slot>>
         \/ j \in DOMAIN jobs /\ ResultsIn({j}, {})
  BY <1>0, FinishEffect
<1>2. /\ manual' \in [Manuals -> ManualType]
      /\ \A k \in Jobs : ~RunBy(m, k)'
      /\ \A n \in Manuals \ {m}, k \in Jobs : RunBy(n, k)' <=> RunBy(n, k)
  BY <1>1, DropsEffect
<1>3. \A k \in Jobs : RunBy(m, k) <=> k = j
  BY <1>0, <1>1 DEF RunBy
<1>4. DeferredUnrun' /\ DOMAIN jobs \subseteq Jobs
  BY <1>1 DEF DeferredUnrun, CronInv, Phases, JobsInOrder
<1>5. \A k \in Jobs : /\ Runs(k) <=> batch[k] # "none" \/ \E n \in Manuals : RunBy(n, k)
                      /\ Runs(k)' <=> batch[k] # "none" \/ \E n \in Manuals : RunBy(n, k)'
                      /\ Runs(k)' => Active(k)'
  BY <1>1 DEF Runs, RunBy, Active
<1>6. /\ \A k \in Jobs : k # j => (Runs(k)' <=> Runs(k))
      /\ \A k \in Jobs : Runs(k)' => Runs(k)
      /\ \A k \in Jobs : k \in released /\ Runs(k)' => k \in released'
  BY <1>2, <1>3, <1>5 DEF Records
<1>7. j \in Jobs /\ Runs(j)' => j \in released
  BY <1>1, <1>2, <1>3, <1>5 DEF CronInv, OneClaim
<1>8. ASSUME NEW k \in DOMAIN jobs'
      PROVE  /\ jobs'[k].running => Runs(k)'
             /\ Runs(k)' => jobs'[k].running \/ k \in released'
  <2>1. k \in DOMAIN jobs /\ k \in Jobs
    BY <1>1, <1>4 DEF ResultsIn
  <2>2. /\ jobs[k].running => Runs(k)
        /\ Runs(k) => jobs[k].running \/ k \in released
    BY <1>1, <2>1 DEF CronInv, Markers
  <2>3. CASE k = j
    <3>1. ~jobs'[k].running
      BY <1>1, <2>1, <2>3 DEF ResultsIn
    <3> QED
      BY <1>6, <1>7, <2>1, <2>3, <3>1
  <2>4. CASE k # j
    <3>1. \/ jobs' = jobs
          \/ /\ jobs'[k].running <=> jobs[k].enabled /\ jobs[k].running /\ k \notin old
             /\ jobs'[k].enabled <=> jobs[k].enabled
      BY <1>1, <2>4 DEF ResultsIn
    <3>2. Marked(k)' => jobs'[k].running
      BY DEF Marked
    <3> QED
      BY <1>5, <1>6, <2>1, <2>2, <2>4, <3>1, <3>2 DEF Records
  <2> QED
    BY <2>3, <2>4
<1>9. Markers'
  BY <1>8 DEF Markers
<1>10. OneClaim'
  <2>1. ASSUME NEW k \in Jobs
        PROVE  /\ Runs(k)' => slot'[k] \notin {"new", "owed"}
               /\ k \notin released' /\ batch[k] # "none" => \A n \in Manuals : ~RunBy(n, k)'
               /\ k \notin released'
                    => \A n, o \in Manuals : RunBy(n, k)' /\ RunBy(o, k)' => n = o
    <3>1. slot'[k] = slot[k] \/ slot'[k] = "gone"
      BY <1>1 DEF ResultsIn
    <3>2. \A n \in Manuals : RunBy(n, k)' => RunBy(n, k)
      BY <1>2
    <3>3. /\ Runs(k) => slot[k] \notin {"new", "owed"}
          /\ k \notin released /\ batch[k] # "none" => \A n \in Manuals : ~RunBy(n, k)
          /\ k \notin released => \A n, o \in Manuals : RunBy(n, k) /\ RunBy(o, k) => n = o
      BY DEF CronInv, OneClaim
    <3> QED
      BY <1>5, <1>6, <3>1, <3>2, <3>3
  <2> QED
    BY <1>1, <2>1 DEF OneClaim
<1>11. Phases'
  BY <1>1, <1>2 DEF CronInv, Phases, Results, Recurring
<1> QED
  BY <1>1, <1>4, <1>9, <1>10, <1>11 DEF CronInv

\* An edit may take the marker of a job that it disables, and removes a job with its runs.
LEMMA EditKeeps ==
  ASSUME CronInv, Records, History', NEW j \in Jobs, Edit(j)
  PROVE  CronInv'
<1>1. /\ svc = "on"
      /\ UNCHANGED <<kind, svc, interrupted, deferred, tick, batch, manual, crashes>>
  BY EditFrame
<1>2. timer' \in BOOLEAN
  <2>1. timer' = Armable(jobs')
    BY DEF Edit, Add, SetEnabled, Remove
  <2> QED
    BY <2>1, Zenon DEF Armable
<1>3. Phases' /\ DeferredUnrun'
  <2>1. deferred' = {}
    BY <1>1 DEF CronInv, Phases
  <2> QED
    BY <1>1, <1>2, <2>1 DEF CronInv, Phases, DeferredUnrun, Results, Recurring
<1>4. \A m \in Manuals, k \in Jobs : RunBy(m, k)' <=> RunBy(m, k)
  BY <1>1 DEF RunBy
<1>5. /\ JobsInOrder /\ DOMAIN jobs \subseteq Jobs
      /\ \A k \in DOMAIN jobs : /\ Orderly(k, jobs[k]) /\ jobs[k] \in JobType
                                /\ jobs[k].enabled \/ jobs[k].next = "none"
                                /\ jobs[k].running => Runs(k)
  BY <1>1 DEF CronInv, JobsInOrder, Orderly, Markers
<1>6. CASE Add(j)
  <2> DEFINE added == [k \in DOMAIN jobs \cup {j} |-> IF k = j THEN NewJob(j) ELSE jobs[k]]
  <2>1. /\ slot[j] = "new" /\ jobs' = Walk(added, {"none", "due", "stale"})
        /\ slot' = [slot EXCEPT ![j] = "met"]
    BY <1>6 DEF Add, RecomputeNextRuns
  <2>2. ~Runs(j) /\ j \notin DOMAIN jobs
    BY <2>1 DEF CronInv, OneClaim, JobsInOrder
  <2>3. Orderly(j, NewJob(j)) /\ ~NewJob(j).running
    BY DEF Orderly, NewJob, JobType
  <2>4. /\ DOMAIN added = DOMAIN jobs \cup {j}
        /\ \A k \in DOMAIN added : added[k] = IF k = j THEN NewJob(j) ELSE jobs[k]
    OBVIOUS
  <2> HIDE DEF added
  <2>5. \A k \in DOMAIN added : Orderly(k, added[k])
    BY <1>5, <2>3, <2>4
  <2>6. /\ slot' \in [Jobs -> {"new", "owed", "met", "moved", "gone"}]
        /\ \A k \in Jobs : slot'[k] = IF k = j THEN "met" ELSE slot[k]
    BY <2>1 DEF CronInv, JobsInOrder
  <2>7. JobsInOrder' /\ DOMAIN jobs' = DOMAIN added
    BY <1>1, <1>5, <2>1, <2>4, <2>5, <2>6, WalkKeepsOrder DEF JobsInOrder
  <2>8. \A k \in DOMAIN added : /\ jobs'[k].enabled <=> added[k].enabled
                                /\ jobs'[k].running <=> added[k].enabled /\ added[k].running /\ k \notin old
    BY <2>1, <2>5, WalkEffect
  <2>9. ASSUME NEW k \in DOMAIN jobs'
        PROVE  \/ ~Runs(k) /\ ~jobs'[k].running
               \/ /\ k \in DOMAIN jobs
                  /\ jobs'[k].running => jobs[k].running \/ Runs(k)
                  /\ jobs'[k].enabled /\ jobs[k].running /\ k \notin old => jobs'[k].running
    BY <2>2, <2>3, <2>4, <2>7, <2>8
  <2>10. DOMAIN jobs' \subseteq Jobs
    BY <1>5, <2>4, <2>7
  <2>11. Markers' /\ OneClaim'
    BY <1>1, <1>4, <2>6, <2>9, <2>10, RunsKept
  <2> QED
    BY <1>3, <2>7, <2>11 DEF CronInv
<1>7. ASSUME NEW enabled \in BOOLEAN, SetEnabled(j, enabled)
      PROVE  CronInv'
  <2> DEFINE next == NextRun(j, [jobs[j] EXCEPT !.enabled = enabled])
             edited(missed) == [jobs[j] EXCEPT !.enabled = enabled, !.missed = missed,
                                               !.running = enabled /\ @]
  <2>1. /\ j \in DOMAIN jobs
        /\ slot' = [slot EXCEPT ![j] = IF next \in {"due", "stale"} /\ ~Runs(j)
                                          THEN "owed" ELSE "moved"]
    BY <1>7 DEF SetEnabled
  <2>2. PICK missed \in {jobs[j].missed, jobs[j].missed \/ (kind[j] = "cron" /\ ~jobs[j].enabled)} :
           jobs' = [jobs EXCEPT ![j] = [edited(missed) EXCEPT !.next = next]]
    BY <1>7 DEF SetEnabled
  <2>3. /\ Orderly(j, jobs[j]) /\ jobs[j] \in JobType
    BY <1>5, <2>1
  <2>4. missed \in BOOLEAN /\ (jobs[j].missed => missed)
    BY <2>2, <2>3 DEF JobType
  <2>5. next \in {"none", "future", "due", "stale"} /\ (~enabled => next = "none")
        /\ (next = "stale" => ~Recurring(j) /\ jobs[j].ran # "ok")
        /\ (next = "due" => ~Recurring(j) /\ (jobs[j].ran = "no" \/ jobs[j].missed))
    <3> DEFINE job == [jobs[j] EXCEPT !.enabled = enabled]
    <3>1. /\ job.enabled = enabled /\ job.ran = jobs[j].ran /\ job.missed = jobs[j].missed
      BY <2>3 DEF JobType
    <3> HIDE DEF job
    <3>2. /\ NextRun(j, job) \in {"none", "future", "due", "stale"}
          /\ ~job.enabled => NextRun(j, job) = "none"
          /\ NextRun(j, job) = "stale" => ~Recurring(j) /\ job.ran # "ok"
          /\ NextRun(j, job) = "due" => ~Recurring(j) /\ (job.ran = "no" \/ job.missed)
      BY DEF NextRun
    <3> QED
      BY <3>1, <3>2 DEF job
  <2> HIDE DEF next
  <2>6. /\ edited(missed) \in JobType
        /\ edited(missed).enabled = enabled /\ edited(missed).missed = missed
        /\ edited(missed).running = (enabled /\ jobs[j].running)
        /\ edited(missed).ran = jobs[j].ran /\ edited(missed).ahead = jobs[j].ahead
    BY <2>3, <2>4 DEF JobType
  <2> HIDE DEF edited
  <2> DEFINE r == [edited(missed) EXCEPT !.next = next]
  <2>7. /\ r \in JobType
        /\ r.enabled = enabled /\ r.missed = missed /\ r.next = next
        /\ r.running = (enabled /\ jobs[j].running)
        /\ r.ran = jobs[j].ran /\ r.ahead = jobs[j].ahead
    BY <2>5, <2>6 DEF JobType
  <2>8. jobs' = [jobs EXCEPT ![j] = r]
    BY <2>2
  <2> HIDE DEF r
  <2>9. Orderly(j, r) /\ (r.enabled \/ r.next = "none")
    BY <2>3, <2>4, <2>5, <2>7 DEF Orderly
  <2>10. /\ DOMAIN jobs' = DOMAIN jobs
         /\ jobs' = [k \in DOMAIN jobs' |-> jobs'[k]]
         /\ \A k \in DOMAIN jobs : jobs'[k] = IF k = j THEN r ELSE jobs[k]
    BY <2>8, <1>5 DEF JobsInOrder
  <2>11. /\ slot' \in [Jobs -> {"new", "owed", "met", "moved", "gone"}]
         /\ \A k \in Jobs : k # j => slot'[k] = slot[k]
         /\ slot'[j] \in {"owed", "moved"} /\ (slot'[j] = "owed" => ~Runs(j))
    BY <2>1, <1>5 DEF JobsInOrder
  <2>12. JobsInOrder'
    <3>1. \A k \in DOMAIN jobs' : Orderly(k, jobs'[k]) /\ (jobs'[k].enabled \/ jobs'[k].next = "none")
      BY <1>5, <2>9, <2>10
    <3>2. \A k \in Jobs : k \in DOMAIN jobs' <=> slot'[k] \notin {"new", "gone"}
      BY <1>5, <2>1, <2>10, <2>11 DEF JobsInOrder
    <3> QED
      BY <1>1, <1>5, <2>10, <2>11, <3>1, <3>2, JobsNext
  <2>13. Markers' /\ OneClaim'
    <3>1. \A k \in DOMAIN jobs' :
            \/ ~Runs(k) /\ ~jobs'[k].running
            \/ /\ k \in DOMAIN jobs
               /\ jobs'[k].running => jobs[k].running \/ Runs(k)
               /\ jobs'[k].enabled /\ jobs[k].running /\ k \notin old => jobs'[k].running
      BY <2>7, <2>10
    <3>2. \A k \in Jobs : slot'[k] \in {"new", "owed"} => slot[k] = slot'[k] \/ ~Runs(k)
      BY <2>1, <2>11
    <3> QED
      BY <1>1, <1>4, <1>5, <2>10, <3>1, <3>2, RunsKept
  <2> QED
    BY <1>3, <2>12, <2>13 DEF CronInv
<1>8. CASE Remove(j)
  <2>1. /\ j \in DOMAIN jobs
        /\ jobs' = [k \in DOMAIN jobs \ {j} |-> jobs[k]]
        /\ slot' = Leave(DOMAIN jobs')
    BY <1>8 DEF Remove
  <2>2. /\ DOMAIN jobs' = DOMAIN jobs \ {j}
        /\ jobs' = [k \in DOMAIN jobs' |-> jobs'[k]]
        /\ \A k \in DOMAIN jobs' : jobs'[k] = jobs[k]
    BY <2>1
  <2>3. \A k \in Jobs : slot'[k] = IF k = j THEN "gone" ELSE slot[k]
    BY <2>1, <2>2 DEF Leave
  <2>4. slot' \in [Jobs -> {"new", "owed", "met", "moved", "gone"}]
    BY <2>1, <1>5 DEF Leave, JobsInOrder
  <2>5. \A k \in Jobs : k \in DOMAIN jobs' <=> slot'[k] \notin {"new", "gone"}
    BY <1>5, <2>2, <2>3 DEF JobsInOrder
  <2>6. JobsInOrder'
    BY <1>1, <1>5, <2>2, <2>4, <2>5, JobsNext
  <2>7. Markers' /\ OneClaim'
    BY <1>1, <1>4, <1>5, <2>2, <2>3, RunsKept
  <2> QED
    BY <1>3, <2>6, <2>7 DEF CronInv
<1> QED
  BY <1>6, <1>7, <1>8 DEF Edit

\* A next run comes due, of a job that is not marked.
LEMMA TimePassesEffect ==
  ASSUME CronInv, NEW j \in Jobs, TimePasses(j)
  PROVE  /\ UNCHANGED <<kind, svc, interrupted, deferred, tick, batch, timer, manual, crashes>>
         /\ JobsInOrder' /\ jobs'[j].enabled /\ jobs'[j].next = "due"
         /\ DOMAIN jobs' = DOMAIN jobs /\ \A k \in DOMAIN jobs : k # j => jobs'[k] = jobs[k]
         /\ ~jobs'[j].running /\ j \in DOMAIN jobs /\ ~jobs[j].running
         /\ jobs[j].enabled
         /\ jobs'[j].ran = jobs[j].ran /\ (jobs[j].missed => jobs'[j].missed)
         /\ \A k \in Jobs : k # j => slot'[k] = slot[k]
         /\ slot'[j] = IF Runs(j) THEN "moved" ELSE "owed"
<1>1. /\ j \in DOMAIN jobs /\ jobs[j].next \in {"future", "soon"} /\ ~jobs[j].running
      /\ slot' = [slot EXCEPT ![j] = IF Runs(j) THEN "moved" ELSE "owed"]
      /\ UNCHANGED <<kind, svc, interrupted, deferred, tick, batch, timer, manual, crashes>>
  BY DEF TimePasses, scheduler, startup
<1>2. PICK ahead \in BOOLEAN :
         /\ ahead => jobs[j].ahead /\ jobs[j].next = "soon"
         /\ jobs' = [jobs EXCEPT ![j].next = "due", ![j].ahead = ahead,
                       ![j].missed = @ \/ jobs[j].next = "future" \/ jobs[j].ahead # ahead]
  BY DEF TimePasses
<1>3. /\ JobsInOrder /\ DOMAIN jobs \subseteq Jobs
      /\ \A k \in DOMAIN jobs : /\ Orderly(k, jobs[k])
                                /\ jobs[k].enabled \/ jobs[k].next = "none"
      /\ jobs[j] \in JobType /\ jobs[j].enabled
  BY <1>1 DEF CronInv, JobsInOrder
<1> DEFINE missed == jobs[j].missed \/ jobs[j].next = "future" \/ jobs[j].ahead # ahead
           r == [jobs[j] EXCEPT !.next = "due", !.ahead = ahead, !.missed = missed]
<1>4. missed \in BOOLEAN
  BY <1>3 DEF JobType
<1>5. jobs' = [jobs EXCEPT ![j] = r]
  BY <1>1, <1>2, <1>3 DEF JobsInOrder, JobType
<1>6. /\ jobs[j].next = "future" => missed
      /\ ~missed => ((jobs[j].ahead <=> ahead) /\ jobs[j].next = "soon" /\ ~jobs[j].missed)
  BY <1>1, <1>2, <1>3 DEF JobType
<1> HIDE DEF missed
<1>7. /\ r \in JobType /\ (r.enabled <=> jobs[j].enabled) /\ (r.running <=> jobs[j].running)
      /\ r.next = "due" /\ r.ahead = ahead /\ r.missed = missed /\ r.ran = jobs[j].ran
  BY <1>2, <1>3, <1>4 DEF JobType
<1> HIDE DEF r
<1>8. Orderly(j, r)
  <2>1. /\ Recurring(j) => ~jobs[j].ahead
        /\ ~Recurring(j) /\ jobs[j].next = "soon"
             => jobs[j].ran # "ok" \/ jobs[j].missed
    BY <1>1, <1>3 DEF Orderly
  <2>2. Recurring(j) => ~r.ahead
    BY <1>2, <1>7, <2>1
  <2>3. ~Recurring(j) => r.ran # "ok" \/ r.missed
    BY <1>6, <1>7, <2>1
  <2> QED
    BY <1>7, <2>2, <2>3 DEF Orderly
<1>9. /\ DOMAIN jobs' = DOMAIN jobs
      /\ jobs' = [k \in DOMAIN jobs' |-> jobs'[k]]
      /\ \A k \in DOMAIN jobs : jobs'[k] = IF k = j THEN r ELSE jobs[k]
  BY <1>3, <1>5 DEF JobsInOrder
<1>10. /\ slot' \in [Jobs -> {"new", "owed", "met", "moved", "gone"}]
       /\ \A k \in Jobs : k # j => slot'[k] = slot[k]
       /\ slot'[j] = IF Runs(j) THEN "moved" ELSE "owed"
  BY <1>1, <1>3 DEF JobsInOrder
<1>11. JobsInOrder'
  <2>1. \A k \in DOMAIN jobs' : Orderly(k, jobs'[k]) /\ (jobs'[k].enabled \/ jobs'[k].next = "none")
    BY <1>3, <1>7, <1>8, <1>9
  <2>2. \A k \in Jobs : k \in DOMAIN jobs' <=> slot'[k] \notin {"new", "gone"}
    BY <1>1, <1>3, <1>9, <1>10 DEF JobsInOrder
  <2> QED
    BY <1>1, <1>3, <1>9, <1>10, <2>1, <2>2, JobsNext
<1> QED
  BY <1>1, <1>3, <1>6, <1>7, <1>9, <1>10, <1>11

\* Runs are as they were.
LEMMA TimePassesKeeps ==
  ASSUME CronInv, Records, History', NEW j \in Jobs, TimePasses(j)
  PROVE  CronInv'
<1>1. /\ UNCHANGED <<kind, svc, interrupted, deferred, tick, batch, timer, manual, crashes>>
      /\ JobsInOrder'
      /\ DOMAIN jobs' = DOMAIN jobs /\ \A k \in DOMAIN jobs : k # j => jobs'[k] = jobs[k]
      /\ ~jobs'[j].running /\ j \in DOMAIN jobs /\ ~jobs[j].running
      /\ jobs'[j].ran = jobs[j].ran
      /\ \A k \in Jobs : k # j => slot'[k] = slot[k]
      /\ slot'[j] = IF Runs(j) THEN "moved" ELSE "owed"
  BY TimePassesEffect
<1>2. DOMAIN jobs \subseteq Jobs
  BY DEF CronInv, JobsInOrder
<1>3. Markers' /\ OneClaim'
  <2>1. \A m \in Manuals, k \in Jobs : RunBy(m, k)' <=> RunBy(m, k)
    BY <1>1 DEF RunBy
  <2>2. CASE svc # "off"
    <3>1. \A k \in DOMAIN jobs' :
            \/ ~Runs(k) /\ ~jobs'[k].running
            \/ /\ k \in DOMAIN jobs
               /\ jobs'[k].running => jobs[k].running \/ Runs(k)
               /\ jobs'[k].enabled /\ jobs[k].running /\ k \notin old => jobs'[k].running
      BY <1>1
    <3>2. \A k \in Jobs : slot'[k] \in {"new", "owed"} => slot[k] = slot'[k] \/ ~Runs(k)
      BY <1>1
    <3> QED
      BY <1>1, <1>2, <2>1, <2>2, <3>1, <3>2, RunsKept
  <2>3. CASE svc = "off"
    <3>1. \A k \in Jobs : /\ batch[k] = "none" /\ ~Runs(k)
                          /\ \A m \in Manuals : ~RunBy(m, k)
      BY <2>3, NothingRuns
    <3>2. \A k \in Jobs : ~Runs(k)'
      BY <1>1, <3>1 DEF Runs
    <3> QED
      BY <1>1, <2>1, <2>3, <3>1, <3>2 DEF Markers, OneClaim
  <2> QED
    BY <2>2, <2>3
<1>4. DeferredUnrun'
  BY <1>1 DEF CronInv, DeferredUnrun, Recurring
<1>5. Phases'
  BY <1>1 DEF CronInv, Phases, Results, Recurring
<1> QED
  BY <1>1, <1>3, <1>4, <1>5 DEF CronInv

\* A marker that ages moves the slot of its job, which has a run.
LEMMA MarkerAgesKeeps ==
  ASSUME CronInv, Records, History', NEW j \in Jobs, MarkerAges(j)
  PROVE  CronInv'
<1>1. /\ svc = "on" /\ slot' = [slot EXCEPT ![j] = "moved"] /\ j \in DOMAIN jobs
      /\ UNCHANGED <<jobs, kind, svc, interrupted, deferred, tick, batch, timer, manual, crashes>>
  BY DEF MarkerAges, Marked, scheduler, startup
<1>2. /\ slot' \in [Jobs -> {"new", "owed", "met", "moved", "gone"}]
      /\ \A k \in Jobs : slot'[k] = IF k = j THEN "moved" ELSE slot[k]
  BY <1>1 DEF CronInv, JobsInOrder
<1>3. JobsInOrder'
  BY <1>1, <1>2 DEF CronInv, JobsInOrder, Orderly, Recurring
<1>4. Markers' /\ OneClaim'
  <2>1. \A m \in Manuals, k \in Jobs : RunBy(m, k)' <=> RunBy(m, k)
    BY <1>1 DEF RunBy
  <2>2. DOMAIN jobs' \subseteq Jobs
    BY <1>1 DEF CronInv, JobsInOrder
  <2> QED
    BY <1>1, <1>2, <2>1, <2>2, RunsKept
<1>5. Phases' /\ DeferredUnrun'
  BY <1>1 DEF CronInv, Phases, DeferredUnrun, Results, Recurring
<1> QED
  BY <1>3, <1>4, <1>5 DEF CronInv

\* A crash leaves the file of jobs.
LEMMA CrashKeeps ==
  ASSUME CronInv, Records, History', Crash
  PROVE  CronInv'
<1>1. /\ svc' = "off" /\ interrupted' = {} /\ deferred' = {} /\ tick' = "idle"
      /\ crashes < MaxCrashes /\ crashes' = crashes + 1
      /\ batch' = [j \in Jobs |-> "none"] /\ timer' = FALSE
      /\ manual' = [m \in Manuals |-> NoManual]
      /\ UNCHANGED <<kind, jobs, slot>>
  BY DEF Crash
<1>2. JobsInOrder'
  BY <1>1 DEF CronInv, JobsInOrder, Orderly, Recurring
<1>3. Phases'
  <2>1. crashes' \in 0 .. MaxCrashes
    BY <1>1, CronBounds DEF CronBounds, CronInv, Phases
  <2>2. manual' \in [Manuals -> ManualType] /\ \A m \in Manuals : manual'[m].at = "idle"
    BY <1>1, NoManualType
  <2> QED
    BY <1>1, <2>1, <2>2 DEF Phases
<1>4. \A j \in Jobs : ~Runs(j)' /\ \A m \in Manuals : ~RunBy(m, j)'
  BY <1>1, NoManualType DEF Runs, RunBy
<1>5. Markers' /\ OneClaim' /\ DeferredUnrun'
  BY <1>1, <1>4 DEF Markers, OneClaim, DeferredUnrun
<1> QED
  BY <1>2, <1>3, <1>5 DEF CronInv

-----------------------------------------------------------------------------
(* The invariant                                                           *)

\* The initial state satisfies the invariant.
LEMMA CronInvInit == Init => CronInv
<1> SUFFICES ASSUME Init PROVE CronInv
  OBVIOUS
<1>1. kind \in [Jobs -> Kinds] /\ Stored \subseteq Jobs
  BY CronJobs DEF Init, CronJobs
<1>2. \A j : Orderly(j, NewJob(j)) /\ NewJob(j).enabled
  BY DEF Orderly, NewJob, JobType
<1>3. /\ DOMAIN jobs = Stored /\ jobs = [j \in Stored |-> NewJob(j)]
      /\ jobs \in [DOMAIN jobs -> JobType]
  BY <1>2 DEF Init, Orderly
<1>4. JobsInOrder
  BY <1>1, <1>2, <1>3 DEF Init, JobsInOrder
<1>5. Phases
  <2>1. 0 \in 0 .. MaxCrashes
    BY CronBounds DEF CronBounds
  <2>2. manual \in [Manuals -> ManualType] /\ \A m \in Manuals : manual[m].at = "idle"
    BY NoManualType DEF Init
  <2> QED
    BY <2>1, <2>2 DEF Init, Phases
<1>6. \A j \in Jobs : ~Active(j) /\ ~Runs(j) /\ \A m \in Manuals : ~RunBy(m, j)
  BY NoManualType DEF Init, Active, Runs, RunBy
<1>7. Markers /\ OneClaim /\ DeferredUnrun /\ History
  BY <1>6 DEF Init, Markers, OneClaim, DeferredUnrun, History
<1> QED
  BY <1>4, <1>5, <1>7 DEF CronInv

\* Every step ends with the record of what it does to markers; none but the step in
\* which a marker ages adds to those that have.
LEMMA StepRecords ==
  ASSUME CronInv, Next
  PROVE  \E aged : /\ Recorded(aged)
                   /\ aged \subseteq old \/ \E j \in Jobs : MarkerAges(j) /\ aged = old \cup {j}
<1>1. Scheduler \/ TickBusy \/ List \/ Crash => Recorded(old)
  BY DEF Scheduler, Start, PlanStartupCatchup, ApplyStartupCatchup, FinishStart,
         TickFindsNothing, TickClaims, TickApplies, TickEnds, TickBusy, List, Crash
<1>2. \A m \in Manuals : Manual(m) => Recorded(old)
  BY DEF Manual, Inspect, PrepareManualRun, ManualRunEnds, FinishManualRun
<1>3. ASSUME NEW m \in Manuals, NEW j \in Jobs, NEW force \in BOOLEAN, EnqueueRun(m, j, force)
      PROVE  Recorded(old)
  BY <1>3 DEF EnqueueRun
<1>4. \A j \in Jobs : Runner(j) => Recorded(old) \/ Recorded(old \ {j})
  BY DEF Runner, RunStarts, RunEnds
<1>5. \A j \in Jobs : Edit(j) \/ TimePasses(j) => Recorded(old)
  BY DEF Edit, Add, Remove, SetEnabled, TimePasses
<1>6. \A j \in Jobs : MarkerAges(j) => Recorded(old \cup {j})
  BY DEF MarkerAges
<1>7. CASE Recorded(old)
  BY <1>7
<1>8. CASE \E j \in Jobs : Recorded(old \ {j})
  <2>1. PICK j \in Jobs : Recorded(old \ {j})
    BY <1>8
  <2>2. old \ {j} \subseteq old
    OBVIOUS
  <2> QED
    BY <2>1, <2>2
<1>9. CASE \E j \in Jobs : MarkerAges(j)
  BY <1>6, <1>9
<1> QED
  BY <1>1, <1>2, <1>3, <1>4, <1>5, <1>7, <1>8, <1>9 DEF Next

\* A slot that a marker has moved is moved until the marker is gone or set anew.
LEMMA MovedKept ==
  ASSUME CronInv, Next, NEW k \in old, Marked(k)'
  PROVE  slot'[k] = "moved"
<1>1. /\ k \in DOMAIN jobs /\ k \in Jobs /\ jobs[k].running /\ slot[k] = "moved"
      /\ k \in DOMAIN jobs' /\ jobs'[k].running
      /\ slot \in [Jobs -> {"new", "owed", "met", "moved", "gone"}]
  BY DEF CronInv, History, JobsInOrder, Marked
<1>2. svc # "off" => Runs(k)
  BY <1>1 DEF CronInv, Markers
<1>3. ASSUME NEW claimed, slot' = Meets(claimed), k \notin claimed PROVE slot'[k] = "moved"
  BY <1>1, <1>3 DEF Meets
<1>4. ASSUME NEW kept, slot' = Leave(kept), k \in kept PROVE slot'[k] = "moved"
  BY <1>1, <1>4 DEF Leave
<1>5. CASE slot' = slot
  BY <1>1, <1>5
<1>6. CASE Start
  <2>1. jobs' = Unmarked(jobs)
    BY <1>6 DEF Start
  <2>2. jobs'[k] = [jobs[k] EXCEPT !.running = FALSE] /\ jobs[k] \in JobType
    BY <1>1, <2>1 DEF Unmarked, CronInv, JobsInOrder
  <2> QED
    BY <1>1, <2>2 DEF JobType
<1>7. CASE PlanStartupCatchup
  <2>1. PICK claimed \in SUBSET ({j \in DOMAIN jobs : Missed(j)} \ Skipped) : Claims(claimed)
    BY <1>7 DEF PlanStartupCatchup
  <2>2. k \notin claimed
    BY <1>1, <2>1 DEF Missed
  <2> QED
    BY <1>3, <2>1, <2>2 DEF Claims
<1>8. CASE TickClaims
  BY <1>1, <1>3, <1>8 DEF TickClaims, Claims, Runnable
<1>9. CASE ApplyStartupCatchup \/ TickApplies
  <2>1. PICK later \in SUBSET deferred : BatchOver /\ Applies(later) /\ kind' = kind
    BY <1>9 DEF ApplyStartupCatchup, TickApplies, startup
  <2>2. ResultsIn({j \in Jobs : batch[j] # "none"}, later)
    BY <2>1, AppliesEffect
  <2> QED
    BY <1>1, <2>2 DEF ResultsIn
<1>10. CASE \E m \in Manuals : PrepareManualRun(m)
  <2>1. PICK m \in Manuals : PrepareManualRun(m)
    BY <1>10
  <2>2. slot' = slot \/ (slot' = Meets({manual[m].job}) /\ Reservable(manual[m].job))
    BY <2>1 DEF PrepareManualRun
  <2> QED
    BY <1>1, <1>3, <1>5, <2>2 DEF Reservable
<1>11. CASE \E m \in Manuals : FinishManualRun(m)
  <2>1. PICK m \in Manuals : FinishManualRun(m)
    BY <1>11
  <2>2. slot' = slot \/ ResultsIn({manual[m].job}, {})
    BY <2>1, FinishEffect
  <2> QED
    BY <1>1, <1>5, <2>2 DEF ResultsIn
<1>12. ASSUME NEW j \in Jobs, Edit(j) PROVE slot'[k] = "moved"
  <2>1. CASE Add(j)
    <3>1. slot[j] = "new" /\ slot' = [slot EXCEPT ![j] = "met"]
      BY <2>1 DEF Add
    <3> QED
      BY <1>1, <3>1
  <2>2. CASE Remove(j)
    <3>1. slot' = Leave(DOMAIN jobs')
      BY <2>2 DEF Remove
    <3> QED
      BY <1>1, <1>4, <3>1
  <2>3. ASSUME NEW enabled \in BOOLEAN, SetEnabled(j, enabled) PROVE slot'[k] = "moved"
    <3>1. PICK x : /\ slot' = [slot EXCEPT ![j] = x] /\ (~Runs(j) \/ x = "moved")
                   /\ svc = "on"
      BY <2>3 DEF SetEnabled
    <3> QED
      BY <1>1, <1>2, <3>1
  <2> QED
    BY <1>12, <2>1, <2>2, <2>3 DEF Edit
<1>13. ASSUME NEW j \in Jobs, TimePasses(j) PROVE slot'[k] = "moved"
  BY <1>1, <1>13, TimePassesEffect
<1>14. ASSUME NEW j \in Jobs, MarkerAges(j) PROVE slot'[k] = "moved"
  BY <1>1, <1>14 DEF MarkerAges
<1>15. \/ FinishStart \/ TickBusy \/ TickFindsNothing \/ TickEnds \/ List \/ Crash
       \/ (\E m \in Manuals : Inspect(m) \/ ManualRunEnds(m))
       \/ (\E m \in Manuals, j \in Jobs, force \in BOOLEAN : EnqueueRun(m, j, force))
       \/ (\E j \in Jobs : Runner(j))
       => slot' = slot
  BY DEF FinishStart, TickBusy, TickFindsNothing, TickEnds, List, Crash, Inspect, ManualRunEnds,
         EnqueueRun, Runner, RunStarts, RunEnds
<1> QED
  BY <1>5, <1>6, <1>7, <1>8, <1>9, <1>10, <1>11, <1>12, <1>13, <1>14, <1>15
  DEF Next, Scheduler, Manual

\* What every step makes of the history.
LEMMA HistoryStep ==
  ASSUME CronInv, Next
  PROVE  Records /\ History'
<1>1. PICK aged : /\ Recorded(aged)
                  /\ aged \subseteq old \/ \E j \in Jobs : MarkerAges(j) /\ aged = old \cup {j}
  BY StepRecords
<1>2. /\ released' = {j \in Jobs : /\ Active(j)'
                                    /\ \/ j \in released
                                       \/ j \in DOMAIN jobs' /\ ~jobs'[j].enabled
                                       \/ j \in old /\ ~Marked(j)'}
      /\ old' = {j \in aged : Marked(j)'}
  BY <1>1 DEF Recorded
<1>3. Records
  BY <1>2 DEF Records
<1>4. \A j \in old' : j \in DOMAIN jobs' /\ jobs'[j].running
  BY <1>2 DEF Marked
<1>5. \A j \in old' : slot'[j] = "moved"
  <2>1. ASSUME NEW j \in old' PROVE slot'[j] = "moved"
    <3>1. j \in aged /\ Marked(j)'
      BY <1>2, <2>1
    <3>2. CASE j \in old
      BY <3>1, <3>2, MovedKept
    <3>3. CASE j \notin old
      <4>1. j \in Jobs /\ MarkerAges(j)
        BY <1>1, <3>1, <3>3
      <4> QED
        BY <4>1 DEF MarkerAges, CronInv, JobsInOrder
    <3> QED
      BY <3>2, <3>3
  <2> QED
    BY <2>1
<1> QED
  BY <1>2, <1>3, <1>4, <1>5 DEF History

\* Every step preserves the invariant.
LEMMA CronInvStep == CronInv /\ [Next]_vars => CronInv'
<1> SUFFICES ASSUME CronInv, [Next]_vars PROVE CronInv'
  OBVIOUS
<1>1. CASE UNCHANGED vars
  BY <1>1 DEF vars, CronInv, JobsInOrder, Orderly, Recurring, Phases, Results, Markers, OneClaim,
              DeferredUnrun, History, Active, Runs, RunBy
<1>2. CASE Next
  <2>1. Records /\ History'
    BY <1>2, HistoryStep
  <2>2. CASE Scheduler
    BY <2>1, <2>2, StartKeeps, PlanKeeps, CatchupKeeps, FinishStartKeeps, IdleTickKeeps,
       TickClaimsKeeps, TickAppliesKeeps DEF Scheduler
  <2>3. CASE \E m \in Manuals : Manual(m)
    BY <2>1, <2>3, ReadsKeep, PrepareKeeps, ManualRunEndsKeeps, FinishManualRunKeeps
    DEF Manual, ReadStep
  <2> QED
    BY <1>2, <2>1, <2>2, <2>3, IdleTickKeeps, RunnerKeeps, ReadsKeep, EditKeeps,
       TimePassesKeeps, MarkerAgesKeeps, CrashKeeps DEF Next, ReadStep
<1> QED
  BY <1>1, <1>2

\* CronInv: markers, claims and what is recorded of lost markers agree in every reachable
\* state.
THEOREM CronInvariance == Spec => []CronInv
  BY CronInvInit, CronInvStep, PTL DEF Spec

\* The variables keep their types, disabled jobs have no next run, and a start keeps
\* its sets only as long as it needs them.
THEOREM CronTypeCorrect == Spec => []CronTypeOK
<1>1. CronInv => CronTypeOK
  BY DEF CronInv, JobsInOrder, Phases, History, ManualType, Answers, CronTypeOK
<1> QED
  BY <1>1, CronInvariance, PTL

\* A marker says that a run of its job is under way, with any number of workers and
\* manual runs and after any number of crashes; and a run has its marker, unless the job
\* is disabled during the run or the run is taken for stuck.
THEOREM MarkersAreTrue == Spec => []MarkersTrue
<1>1. CronInv => MarkersTrue
  BY DEF CronInv, Markers, MarkersTrue
<1> QED
  BY <1>1, CronInvariance, PTL

-----------------------------------------------------------------------------
(* No job runs twice at once                                               *)

\* A set any two elements of which are equal has at most one.
LEMMA AtMostOne ==
  ASSUME NEW S, \A x, y \in S : x = y
  PROVE  Cardinality(S) <= 1
<1>1. CASE S = {}
  BY <1>1, FS_EmptySet
<1>2. CASE S # {}
  <2>1. PICK x : S = {x}
    BY <1>2
  <2> QED
    BY <2>1, FS_Singleton
<1> QED
  BY <1>1, <1>2

\* With any number of workers and slots of the cron lane no job runs twice at once, unless
\* it is disabled during a run or the run is taken for stuck.
THEOREM NoJobOverlaps == Spec => []NoOverlap
<1>1. ASSUME CronInv PROVE NoOverlap
  <2>1. ASSUME NEW j \in Jobs \ released PROVE Cardinality(Executing(j)) <= 1
    <3>1. /\ batch[j] # "none" => \A m \in Manuals : ~RunBy(m, j)
          /\ \A m, n \in Manuals : RunBy(m, j) /\ RunBy(n, j) => m = n
      BY <1>1, <2>1 DEF CronInv, OneClaim
    <3>2. \A x, y \in Executing(j) : x = y
      BY <3>1 DEF Executing, RunBy
    <3> QED
      BY <3>2, AtMostOne
  <2> QED
    BY <2>1 DEF NoOverlap
<1> QED
  BY <1>1, CronInvariance, PTL

-----------------------------------------------------------------------------
(* No slot is skipped                                                      *)

\* A run of the job is on the schedule.
Scheduled(j) ==
  jobs[j].enabled /\ (jobs[j].next \in {"due", "stale", "soon"} \/ jobs[j].ahead)

\* What a start makes of the slots that are owed: those of interrupted runs count as
\* met; the catch-up claims recurring jobs that are due, or puts them off, so that
\* nothing is past when all next runs are computed anew.
SlotsKept ==
  /\ \A j \in interrupted : slot[j] # "owed"
  /\ \A j \in Jobs : slot[j] = "owed" =>
       /\ Scheduled(j)
       /\ Recurring(j) => /\ svc = "catchup" => j \in deferred \/ jobs[j].next = "soon"
                          /\ svc = "caughtUp" => jobs[j].next = "soon"

\* A slot that is owed is of a job that is stored and of which no run is under way.
LEMMA OwedIdle ==
  ASSUME CronInv, NEW j \in Jobs, slot[j] = "owed"
  PROVE  j \in DOMAIN jobs /\ ~Runs(j) /\ Orderly(j, jobs[j]) /\ jobs[j] \in JobType
  BY DEF CronInv, JobsInOrder, OneClaim, Orderly

\* Steps outside of a start: jobs that are owed a run keep their next run, or have
\* it put off.
LEMMA SlotsLeft ==
  ASSUME SlotsKept, kind' = kind, svc' = svc, interrupted' = interrupted, deferred' = deferred,
         \A j \in Jobs : slot'[j] = "owed" =>
            /\ slot[j] = "owed"
            /\ jobs'[j].enabled <=> jobs[j].enabled
            /\ jobs'[j].ahead <=> jobs[j].ahead
            /\ \/ jobs'[j].next \in {jobs[j].next, "soon"}
               \/ ~Recurring(j) /\ jobs'[j].next \in {"due", "stale"}
               \/ ~Recurring(j) /\ jobs[j].ahead,
         interrupted \subseteq Jobs
  PROVE  SlotsKept'
  BY DEF SlotsKept, Scheduled, Recurring

\* A walk that computes next runs anew keeps on the schedule what is owed, as long as
\* it is not a recurring job whose next run has lapsed: a one-shot stays due.
LEMMA WalkKeepsSlots ==
  ASSUME NEW js, NEW lapsed, \A k \in DOMAIN js : Orderly(k, js[k]), jobs' = Walk(js, lapsed),
         "soon" \notin lapsed,
         NEW j \in DOMAIN js, js[j] = jobs[j], Scheduled(j),
         Recurring(j) => jobs[j].next \notin lapsed
  PROVE  /\ jobs'[j].enabled <=> jobs[j].enabled
         /\ jobs'[j].ahead <=> jobs[j].ahead
         /\ \/ jobs'[j].next = jobs[j].next
            \/ ~Recurring(j) /\ jobs'[j].next \in {"due", "stale"}
            \/ ~Recurring(j) /\ jobs[j].ahead
<1>1. /\ jobs'[j].enabled <=> jobs[j].enabled
      /\ jobs'[j].ahead <=> jobs[j].ahead
      /\ jobs'[j].next = IF jobs[j].next \in lapsed THEN NextRun(j, jobs[j]) ELSE jobs[j].next
  BY WalkEffect DEF Scheduled
<1>2. CASE ~Recurring(j) /\ ~jobs[j].ahead /\ jobs[j].next \in lapsed
  <2>1. jobs[j].ran # "ok" \/ jobs[j].missed
    BY <1>2 DEF Orderly, Scheduled
  <2>2. NextRun(j, jobs[j]) \in {"due", "stale"}
    BY <1>2, <2>1 DEF NextRun, Scheduled
  <2> QED
    BY <1>1, <1>2, <2>2
<1> QED
  BY <1>1, <1>2

\* A walk over the jobs as they are.
LEMMA MaintenanceKeepsSlots ==
  ASSUME CronInv, SlotsKept, jobs' = Walk(jobs, {"none"}),
         UNCHANGED <<kind, svc, interrupted, deferred, slot>>
  PROVE  SlotsKept'
<1>1. /\ \A k \in DOMAIN jobs : Orderly(k, jobs[k])
      /\ interrupted \subseteq Jobs
  BY DEF CronInv, JobsInOrder, Phases
<1>2. ASSUME NEW j \in Jobs, slot[j] = "owed"
      PROVE  /\ jobs'[j].enabled <=> jobs[j].enabled
             /\ jobs'[j].ahead <=> jobs[j].ahead
             /\ \/ jobs'[j].next = jobs[j].next
                \/ ~Recurring(j) /\ jobs'[j].next \in {"due", "stale"}
                \/ ~Recurring(j) /\ jobs[j].ahead
  <2>1. j \in DOMAIN jobs /\ Scheduled(j) /\ Orderly(j, jobs[j])
    BY <1>2, OwedIdle DEF SlotsKept
  <2>2. Recurring(j) => jobs[j].next \notin {"none"}
    BY <2>1 DEF Scheduled, Orderly
  <2> QED
    BY <1>1, <2>1, <2>2, WalkKeepsSlots
<1> QED
  BY <1>1, <1>2, SlotsLeft

\* Results are of jobs that have a run, and no slot of theirs is owed.
LEMMA ResultsKeepSlots ==
  ASSUME CronInv, NEW over, NEW later, ResultsIn(over, later),
         \A j \in over \cap Jobs : Runs(j),
         NEW j \in Jobs, slot'[j] = "owed", SlotsKept
  PROVE  /\ slot[j] = "owed" /\ j \in DOMAIN jobs
         /\ jobs'[j].enabled <=> jobs[j].enabled
         /\ jobs'[j].ahead <=> jobs[j].ahead
         /\ \/ jobs'[j].next = IF j \in later THEN "soon" ELSE jobs[j].next
            \/ ~Recurring(j) /\ jobs[j].ahead
<1>1. /\ slot[j] = "owed" /\ (j \in DOMAIN jobs => j \in DOMAIN jobs')
  BY DEF ResultsIn
<1>2. j \in DOMAIN jobs /\ ~Runs(j) /\ Orderly(j, jobs[j]) /\ Scheduled(j)
  BY <1>1, OwedIdle DEF SlotsKept
<1>3. j \notin over /\ j \in DOMAIN jobs'
  BY <1>1, <1>2
<1>4. /\ jobs'[j].enabled <=> jobs[j].enabled
      /\ jobs'[j].ahead <=> jobs[j].ahead
      /\ jobs[j].enabled /\ jobs[j].next # "none"
           => jobs'[j].next = IF j \in later THEN "soon" ELSE jobs[j].next
  BY <1>3 DEF ResultsIn
<1> QED
  BY <1>1, <1>2, <1>4 DEF Scheduled, Orderly

\* A start counts the slots of interrupted runs as met.
LEMMA StartKeepsSlots ==
  ASSUME CronInv, SlotsKept, Start
  PROVE  SlotsKept'
<1>1. /\ svc' = "loaded" /\ interrupted' = {j \in DOMAIN jobs : jobs[j].running}
      /\ jobs' = Unmarked(jobs) /\ slot' = Meets(interrupted') /\ kind' = kind
  BY DEF Start
<1>2. ASSUME NEW j \in Jobs, slot'[j] = "owed"
      PROVE  slot[j] = "owed" /\ j \notin interrupted' /\ Scheduled(j)'
  <2>1. slot[j] = "owed" /\ j \notin interrupted'
    BY <1>1, <1>2 DEF Meets
  <2>2. j \in DOMAIN jobs /\ jobs[j] \in JobType /\ Scheduled(j)
    BY <2>1, OwedIdle DEF SlotsKept
  <2>3. jobs'[j] = [jobs[j] EXCEPT !.running = FALSE]
    BY <1>1, <2>2 DEF Unmarked
  <2> QED
    BY <2>1, <2>2, <2>3 DEF Scheduled, JobType
<1>3. interrupted' \subseteq Jobs
  BY <1>1 DEF CronInv, JobsInOrder
<1> QED
  BY <1>1, <1>2, <1>3 DEF SlotsKept

\* The plan claims what was missed or puts it off: of recurring jobs, all that are due.
LEMMA PlanKeepsSlots ==
  ASSUME CronInv, SlotsKept, PlanStartupCatchup
  PROVE  SlotsKept'
<1> DEFINE missed == {j \in DOMAIN jobs : Missed(j)} \ Skipped
<1>1. PICK claimed \in SUBSET missed : Claims(claimed) /\ deferred' = missed \ claimed
  BY DEF PlanStartupCatchup
<1>2. /\ svc = "loaded" /\ interrupted' = {} /\ kind' = kind
      /\ svc' = IF missed = {} THEN "caughtUp" ELSE "catchup"
  BY DEF PlanStartupCatchup
<1>3. /\ jobs' = Mark(jobs, claimed) /\ slot' = Meets(claimed) /\ missed \subseteq DOMAIN jobs
  BY <1>1 DEF Claims
<1>4. ASSUME NEW j \in Jobs, slot'[j] = "owed"
      PROVE  /\ Scheduled(j)'
             /\ Recurring(j) => j \in deferred' \/ (j \notin missed /\ jobs'[j].next = "soon")
  <2>1. slot[j] = "owed" /\ j \notin claimed
    BY <1>3, <1>4 DEF Meets
  <2>2. /\ j \in DOMAIN jobs /\ ~Runs(j) /\ Orderly(j, jobs[j]) /\ Scheduled(j)
        /\ j \notin interrupted
    BY <2>1, OwedIdle DEF SlotsKept
  <2>3. jobs'[j] = jobs[j]
    BY <1>3, <2>1, <2>2 DEF Mark
  <2>4. ~jobs[j].running
    BY <1>2, <2>2 DEF CronInv, Markers
  <2>5. ASSUME Recurring(j), jobs[j].next # "soon" PROVE j \in missed
    <3>1. jobs[j].next = "due" /\ jobs[j].enabled
      BY <2>2, <2>5 DEF Scheduled, Orderly
    <3>2. Missed(j)
      BY <2>4, <2>5, <3>1 DEF Missed, Recurring
    <3> QED
      BY <2>2, <3>2 DEF Skipped
  <2> QED
    BY <1>1, <2>1, <2>2, <2>3, <2>5 DEF Scheduled
<1>5. \A j : Recurring(j)' <=> Recurring(j)
  BY <1>2 DEF Recurring
<1>6. svc' = "caughtUp" => deferred' = {}
  BY <1>1, <1>2
<1>7. svc' \in {"caughtUp", "catchup"}
  BY <1>2
<1> HIDE DEF missed
<1>8. ASSUME NEW j \in Jobs, slot'[j] = "owed"
      PROVE  /\ Scheduled(j)'
             /\ Recurring(j)' => /\ svc' = "catchup" => j \in deferred' \/ jobs'[j].next = "soon"
                                 /\ svc' = "caughtUp" => jobs'[j].next = "soon"
  BY <1>4, <1>5, <1>6, <1>8
<1> QED
  BY <1>2, <1>8 DEF SlotsKept

\* The catch-up puts off what it left for later.
LEMMA CatchupKeepsSlots ==
  ASSUME CronInv, SlotsKept, ApplyStartupCatchup
  PROVE  SlotsKept'
<1> DEFINE over == {j \in Jobs : batch[j] # "none"}
<1>1. /\ svc = "catchup" /\ BatchOver /\ Applies(deferred) /\ svc' = "caughtUp" /\ deferred' = {}
      /\ UNCHANGED <<kind, interrupted, manual>>
  BY DEF ApplyStartupCatchup
<1>2. ResultsIn(over, deferred) /\ interrupted' = {}
  BY <1>1, AppliesEffect DEF CronInv, Phases
<1>3. \A j \in over \cap Jobs : Runs(j)
  BY DEF Runs
<1> HIDE DEF over
<1>4. ASSUME NEW j \in Jobs, slot'[j] = "owed"
      PROVE  Scheduled(j)' /\ (Recurring(j) => jobs'[j].next = "soon")
  <2>1. /\ slot[j] = "owed" /\ j \in DOMAIN jobs
        /\ jobs'[j].enabled <=> jobs[j].enabled
        /\ jobs'[j].ahead <=> jobs[j].ahead
        /\ \/ jobs'[j].next = IF j \in deferred THEN "soon" ELSE jobs[j].next
           \/ ~Recurring(j) /\ jobs[j].ahead
    BY <1>2, <1>3, <1>4, ResultsKeepSlots
  <2>2. Scheduled(j) /\ (Recurring(j) => j \in deferred \/ jobs[j].next = "soon")
    BY <1>1, <2>1 DEF SlotsKept
  <2> QED
    BY <2>1, <2>2 DEF Scheduled
<1>5. \A j : Recurring(j)' <=> Recurring(j)
  BY <1>1 DEF Recurring
<1> QED
  BY <1>1, <1>2, <1>4, <1>5 DEF SlotsKept

\* All next runs are computed anew, which are put off or those of one-shots.
LEMMA FinishStartKeepsSlots ==
  ASSUME CronInv, SlotsKept, FinishStart
  PROVE  SlotsKept'
<1>1. /\ svc = "caughtUp" /\ svc' = "on" /\ jobs' = Walk(jobs, {"none", "due", "stale"})
      /\ UNCHANGED <<kind, interrupted, slot>>
  BY DEF FinishStart, RecomputeNextRuns
<1>2. \A k \in DOMAIN jobs : Orderly(k, jobs[k])
  BY DEF CronInv, JobsInOrder
<1>3. ASSUME NEW j \in Jobs, slot[j] = "owed"
      PROVE  Scheduled(j)'
  <2>1. j \in DOMAIN jobs /\ Scheduled(j) /\ (Recurring(j) => jobs[j].next = "soon")
    BY <1>1, <1>3, OwedIdle DEF SlotsKept
  <2>2. Recurring(j) => jobs[j].next \notin {"none", "due", "stale"}
    BY <2>1
  <2>3. /\ jobs'[j].enabled <=> jobs[j].enabled
        /\ jobs'[j].ahead <=> jobs[j].ahead
        /\ \/ jobs'[j].next = jobs[j].next
           \/ ~Recurring(j) /\ jobs'[j].next \in {"due", "stale"}
           \/ ~Recurring(j) /\ jobs[j].ahead
    BY <1>1, <1>2, <2>1, <2>2, WalkKeepsSlots
  <2> QED
    BY <2>1, <2>3 DEF Scheduled
<1> QED
  BY <1>1, <1>3 DEF SlotsKept

\* Jobs are claimed, marked or stay as they are.
LEMMA MarksKeepSlots ==
  ASSUME CronInv, SlotsKept, UNCHANGED <<kind, svc, interrupted, deferred>>,
         \/ UNCHANGED <<jobs, slot>>
         \/ \E claimed \in SUBSET DOMAIN jobs :
              jobs' = Mark(jobs, claimed) /\ slot' = Meets(claimed)
         \/ \E claimed : jobs' = Mark(jobs, claimed) /\ slot' = slot
  PROVE  SlotsKept'
<1>1. interrupted \subseteq Jobs
  BY DEF CronInv, Phases
<1>2. CASE UNCHANGED <<jobs, slot>>
  BY <1>1, <1>2, SlotsLeft
<1>3. ASSUME NEW claimed, jobs' = Mark(jobs, claimed),
             \/ slot' = Meets(claimed) /\ claimed \in SUBSET DOMAIN jobs
             \/ slot' = slot
      PROVE  SlotsKept'
  <2>1. /\ \A j \in DOMAIN jobs : /\ jobs'[j].enabled <=> jobs[j].enabled
                                  /\ jobs'[j].next = jobs[j].next
                                  /\ jobs'[j].ahead <=> jobs[j].ahead
        /\ slot' = Meets(claimed)
             => \A j \in Jobs : slot'[j] = IF j \in claimed THEN "met" ELSE slot[j]
    BY <1>3, MarkEffect DEF CronInv
  <2>2. \A j \in Jobs : slot'[j] = "owed" => slot[j] = "owed" /\ j \in DOMAIN jobs
    <3>1. \A j \in Jobs : slot'[j] = "owed" => slot[j] = "owed"
      BY <1>3, <2>1
    <3> QED
      BY <3>1, OwedIdle
  <2> QED
    BY <1>1, <2>1, <2>2, SlotsLeft
<1> QED
  BY <1>2, <1>3

\* Results of a tick or of a manual run.
LEMMA ResultsKeepAllSlots ==
  ASSUME CronInv, SlotsKept, UNCHANGED <<kind, svc, interrupted, deferred>>,
         NEW over, ResultsIn(over, {}), \A j \in over \cap Jobs : Runs(j)
  PROVE  SlotsKept'
<1>1. interrupted \subseteq Jobs
  BY DEF CronInv, Phases
<1>2. ASSUME NEW j \in Jobs, slot'[j] = "owed"
      PROVE  /\ slot[j] = "owed"
             /\ jobs'[j].enabled <=> jobs[j].enabled
             /\ jobs'[j].ahead <=> jobs[j].ahead
             /\ jobs'[j].next = jobs[j].next \/ (~Recurring(j) /\ jobs[j].ahead)
  <2>1. /\ slot[j] = "owed"
        /\ jobs'[j].enabled <=> jobs[j].enabled
        /\ jobs'[j].ahead <=> jobs[j].ahead
        /\ \/ jobs'[j].next = IF j \in {} THEN "soon" ELSE jobs[j].next
           \/ ~Recurring(j) /\ jobs[j].ahead
    BY <1>2, ResultsKeepSlots
  <2> QED
    BY <2>1
<1> QED
  BY <1>1, <1>2, SlotsLeft

\* A job is added while nothing is owed to a recurring one; an edit owes a slot to a
\* one-shot that it makes due, and a removal takes the slot along.
LEMMA EditKeepsSlots ==
  ASSUME CronInv, SlotsKept, Races = {}, NEW j \in Jobs, Edit(j)
  PROVE  SlotsKept'
<1>1. /\ svc = "on"
      /\ UNCHANGED <<kind, svc, interrupted, deferred, tick, batch, manual, crashes>>
  BY EditFrame
<1>2. interrupted = {} /\ (\A k : Recurring(k)' <=> Recurring(k))
  BY <1>1 DEF CronInv, Phases, Recurring
<1>3. SUFFICES ASSUME NEW k \in Jobs, slot'[k] = "owed" PROVE Scheduled(k)'
  BY <1>1, <1>2 DEF SlotsKept
<1>4. /\ \A i \in DOMAIN jobs : Orderly(i, jobs[i]) /\ jobs[i] \in JobType
      /\ jobs \in [DOMAIN jobs -> JobType] /\ slot \in [Jobs -> {"new", "owed", "met", "moved", "gone"}]
  BY DEF CronInv, JobsInOrder, Orderly
<1>5. CASE Add(j)
  <2> DEFINE added == [i \in DOMAIN jobs \cup {j} |-> IF i = j THEN NewJob(j) ELSE jobs[i]]
  <2>1. /\ slot[j] = "new" /\ jobs' = Walk(added, {"none", "due", "stale"})
        /\ slot' = [slot EXCEPT ![j] = "met"]
        /\ \A i \in DOMAIN jobs : Recurring(i) => slot[i] # "owed"
    BY <1>5 DEF Add, RecomputeNextRuns
  <2>2. k # j /\ slot[k] = "owed"
    BY <1>3, <1>4, <2>1
  <2>3. k \in DOMAIN jobs /\ Scheduled(k)
    BY <2>2, OwedIdle DEF SlotsKept
  <2>4. ~Recurring(k)
    BY <2>1, <2>2, <2>3
  <2>5. Orderly(j, NewJob(j))
    BY DEF Orderly, NewJob, JobType
  <2>6. /\ DOMAIN added = DOMAIN jobs \cup {j}
        /\ \A i \in DOMAIN added : added[i] = IF i = j THEN NewJob(j) ELSE jobs[i]
    OBVIOUS
  <2> HIDE DEF added
  <2>7. \A i \in DOMAIN added : Orderly(i, added[i])
    BY <1>4, <2>5, <2>6
  <2>8. k \in DOMAIN added /\ added[k] = jobs[k]
    BY <2>2, <2>3, <2>6
  <2>9. /\ jobs'[k].enabled <=> jobs[k].enabled
        /\ jobs'[k].ahead <=> jobs[k].ahead
        /\ \/ jobs'[k].next = jobs[k].next
           \/ ~Recurring(k) /\ jobs'[k].next \in {"due", "stale"}
           \/ ~Recurring(k) /\ jobs[k].ahead
    BY <2>1, <2>3, <2>4, <2>7, <2>8, WalkKeepsSlots
  <2> QED
    BY <2>3, <2>9 DEF Scheduled
<1>6. ASSUME NEW enabled \in BOOLEAN, SetEnabled(j, enabled)
      PROVE  Scheduled(k)'
  <2> DEFINE next == NextRun(j, [jobs[j] EXCEPT !.enabled = enabled])
             edited(missed) == [jobs[j] EXCEPT !.enabled = enabled, !.missed = missed,
                                               !.running = enabled /\ @]
  <2>1. /\ j \in DOMAIN jobs
        /\ slot' = [slot EXCEPT ![j] = IF next \in {"due", "stale"} /\ ~Runs(j)
                                          THEN "owed" ELSE "moved"]
    BY <1>6 DEF SetEnabled
  <2>2. PICK missed \in {jobs[j].missed, jobs[j].missed \/ (kind[j] = "cron" /\ ~jobs[j].enabled)} :
           jobs' = [jobs EXCEPT ![j] = [edited(missed) EXCEPT !.next = next]]
    BY <1>6 DEF SetEnabled
  <2>3. next \in {"due", "stale"} => enabled
    <3> DEFINE job == [jobs[j] EXCEPT !.enabled = enabled]
    <3>1. job.enabled = enabled
      BY <1>4, <2>1 DEF JobType
    <3> HIDE DEF job
    <3>2. ~job.enabled => NextRun(j, job) = "none"
      BY DEF NextRun
    <3> QED
      BY <3>1, <3>2 DEF job
  <2> HIDE DEF next
  <2> DEFINE r == [edited(missed) EXCEPT !.next = next]
  <2>4. r.enabled = enabled /\ r.next = next
    <3>1. jobs[j] \in JobType
      BY <1>4, <2>1
    <3> QED
      BY <3>1 DEF JobType
  <2>5. jobs' = [jobs EXCEPT ![j] = r]
    BY <2>2
  <2> HIDE DEF r, edited
  <2>6. CASE k = j
    <3>1. next \in {"due", "stale"}
      BY <1>3, <1>4, <2>1, <2>6
    <3> QED
      BY <1>4, <2>1, <2>3, <2>4, <2>5, <2>6, <3>1 DEF Scheduled
  <2>7. CASE k # j
    <3>1. slot[k] = "owed"
      BY <1>3, <1>4, <2>1, <2>7
    <3>2. k \in DOMAIN jobs /\ Scheduled(k) /\ jobs'[k] = jobs[k]
      BY <1>4, <2>5, <2>7, <3>1, OwedIdle DEF SlotsKept
    <3> QED
      BY <3>2 DEF Scheduled
  <2> QED
    BY <2>6, <2>7
<1>7. CASE Remove(j)
  <2>1. /\ jobs' = [i \in DOMAIN jobs \ {j} |-> jobs[i]]
        /\ slot' = [i \in Jobs |-> IF i \in DOMAIN jobs \ DOMAIN jobs' THEN "gone" ELSE slot[i]]
    BY <1>7 DEF Remove, Leave
  <2>2. slot[k] = "owed" /\ (k \in DOMAIN jobs => k \in DOMAIN jobs')
    BY <1>3, <2>1
  <2>3. k \in DOMAIN jobs /\ Scheduled(k)
    BY <2>2, OwedIdle DEF SlotsKept
  <2>4. jobs'[k] = jobs[k]
    BY <2>1, <2>2, <2>3
  <2> QED
    BY <2>3, <2>4 DEF Scheduled
<1> QED
  BY <1>5, <1>6, <1>7 DEF Edit

\* A next run comes due, but not while a start is under way.
LEMMA TimePassesKeepsSlots ==
  ASSUME CronInv, SlotsKept, Races = {}, NEW j \in Jobs, TimePasses(j)
  PROVE  SlotsKept'
<1>1. svc \in {"off", "on"} /\ UNCHANGED <<kind, svc, interrupted, deferred>>
  BY DEF TimePasses, scheduler, startup
<1>2. /\ \A k \in DOMAIN jobs : k # j => jobs'[k] = jobs[k]
      /\ \A k \in Jobs : k # j => slot'[k] = slot[k]
  BY TimePassesEffect
<1>3. jobs'[j].enabled /\ jobs'[j].next = "due" /\ interrupted = {}
  BY <1>1, TimePassesEffect DEF CronInv, Phases
<1>4. ASSUME NEW k \in Jobs, slot'[k] = "owed" PROVE Scheduled(k)'
  <2>1. CASE k = j
    BY <1>3, <2>1 DEF Scheduled
  <2>2. CASE k # j
    <3>1. slot[k] = "owed"
      BY <1>2, <1>4, <2>2
    <3>2. k \in DOMAIN jobs /\ Scheduled(k) /\ jobs'[k] = jobs[k]
      BY <1>2, <2>2, <3>1, OwedIdle DEF SlotsKept
    <3> QED
      BY <3>2 DEF Scheduled
  <2> QED
    BY <2>1, <2>2
<1> QED
  BY <1>1, <1>3, <1>4 DEF SlotsKept

\* Every step keeps the slots, when no job comes due during the catch-up and none is added
\* while a recurring one is due.
LEMMA SlotsKeptStep ==
  ASSUME CronInv, SlotsKept, Races = {}, [Next]_vars
  PROVE  SlotsKept'
<1>1. CASE Start \/ PlanStartupCatchup \/ ApplyStartupCatchup \/ FinishStart
  BY <1>1, StartKeepsSlots, PlanKeepsSlots, CatchupKeepsSlots, FinishStartKeepsSlots
<1>2. CASE TickFindsNothing
  <2>1. jobs' = Walk(jobs, {"none"}) /\ UNCHANGED <<kind, svc, interrupted, deferred, slot>>
    BY <1>2 DEF TickFindsNothing, RecomputeForMaintenance, startup
  <2> QED
    BY <2>1, MaintenanceKeepsSlots
<1>3. CASE TickClaims
  <2> DEFINE due == {j \in DOMAIN jobs : Runnable(j)}
  <2>1. Claims(due) /\ due \subseteq DOMAIN jobs /\ UNCHANGED <<kind, svc, interrupted, deferred>>
    BY <1>3 DEF TickClaims, startup
  <2> HIDE DEF due
  <2> QED
    BY <2>1, MarksKeepSlots DEF Claims
<1>4. CASE TickApplies
  <2> DEFINE over == {j \in Jobs : batch[j] # "none"}
  <2>1. /\ tick = "runs" /\ BatchOver /\ Applies({})
        /\ UNCHANGED <<kind, svc, interrupted, deferred, manual>>
    BY <1>4 DEF TickApplies, startup
  <2>2. svc = "on" /\ deferred = {}
    BY <2>1 DEF CronInv, Phases
  <2>3. ResultsIn(over, {})
    BY <2>1, <2>2, AppliesEffect
  <2>4. \A j \in over \cap Jobs : Runs(j)
    BY DEF Runs
  <2> HIDE DEF over
  <2> QED
    BY <2>1, <2>3, <2>4, ResultsKeepAllSlots
<1>5. CASE \E m \in Manuals : PrepareManualRun(m)
  <2>1. PICK m \in Manuals : PrepareManualRun(m)
    BY <1>5
  <2>2. PICK j : j = manual[m].job
    OBVIOUS
  <2>3. /\ UNCHANGED <<kind, svc, interrupted, deferred>>
        /\ \/ UNCHANGED <<jobs, slot>>
           \/ j \in DOMAIN jobs /\ jobs' = Mark(jobs, {j}) /\ slot' = Meets({j})
    BY <2>1, <2>2 DEF PrepareManualRun, Reservable, scheduler, startup
  <2>4. CASE UNCHANGED <<jobs, slot>>
    BY <2>3, <2>4, MarksKeepSlots
  <2>5. CASE j \in DOMAIN jobs /\ jobs' = Mark(jobs, {j}) /\ slot' = Meets({j})
    <3>1. {j} \in SUBSET DOMAIN jobs
      BY <2>5
    <3> QED
      BY <2>3, <2>5, <3>1, MarksKeepSlots
  <2> QED
    BY <2>3, <2>4, <2>5
<1>6. CASE \E m \in Manuals : FinishManualRun(m)
  <2>1. PICK m \in Manuals : FinishManualRun(m)
    BY <1>6
  <2>2. /\ manual[m].at = "ended" /\ UNCHANGED <<kind, svc, interrupted, deferred>>
        /\ UNCHANGED <<jobs, slot>> \/ ResultsIn({manual[m].job}, {})
    BY <2>1, FinishEffect
  <2>3. \A j \in {manual[m].job} \cap Jobs : Runs(j)
    BY <2>2 DEF Runs
  <2> QED
    BY <2>2, <2>3, MarksKeepSlots, ResultsKeepAllSlots
<1>7. CASE ReadStep
  BY <1>7, ReadFrame, MaintenanceKeepsSlots
<1>8. CASE \/ TickBusy \/ TickEnds
           \/ (\E m \in Manuals : ManualRunEnds(m)) \/ UNCHANGED vars
  <2>1. UNCHANGED <<kind, svc, interrupted, deferred, jobs, slot>>
    BY <1>8 DEF TickBusy, TickEnds, ManualRunEnds, vars, scheduler, startup
  <2> QED
    BY <2>1, MarksKeepSlots
<1>10. ASSUME NEW j \in Jobs, Runner(j) PROVE SlotsKept'
  <2>1. /\ jobs' = jobs \/ jobs' = Mark(jobs, {j})
        /\ UNCHANGED <<kind, svc, interrupted, deferred, slot>>
    BY <1>10, RunnerEffect
  <2> QED
    BY <2>1, MarksKeepSlots
<1>11. ASSUME NEW j \in Jobs, MarkerAges(j) PROVE SlotsKept'
  <2>1. /\ slot' = [slot EXCEPT ![j] = "moved"]
        /\ UNCHANGED <<kind, svc, interrupted, deferred, jobs>>
    BY <1>11 DEF MarkerAges, scheduler, startup
  <2>2. \A k \in Jobs : slot'[k] = "owed" => slot[k] = "owed"
    BY <2>1 DEF CronInv, JobsInOrder
  <2> QED
    BY <2>1, <2>2, SlotsLeft DEF CronInv, Phases
<1>9. CASE Crash
  BY <1>9 DEF Crash, SlotsKept, Scheduled
<1> QED
  BY <1>1, <1>2, <1>3, <1>4, <1>5, <1>6, <1>7, <1>8, <1>9, <1>10, <1>11, EditKeepsSlots,
     TimePassesKeepsSlots DEF Next, Scheduler, Manual, ReadStep

\* A run that is owed stays on the schedule until it is claimed, its job is edited or
\* it is removed, as long as no job comes due while the catch-up runs others, and none is
\* added while a recurring job is due: add() skips what that one is owed.
THEOREM NoOwedSlotSkipped == Races = {} => (Spec => []NoSlotSkipped)
<1> SUFFICES ASSUME Races = {} PROVE Spec => []NoSlotSkipped
  OBVIOUS
<1>1. Init => SlotsKept
  BY DEF Init, SlotsKept
<1>2. CronInv /\ SlotsKept /\ [Next]_vars => SlotsKept'
  BY SlotsKeptStep
<1>3. SlotsKept => NoSlotSkipped
  BY DEF SlotsKept, Scheduled, NoSlotSkipped
<1> QED
  BY <1>1, <1>2, <1>3, CronInvariance, PTL DEF Spec

-----------------------------------------------------------------------------
(* No slot is run twice                                                    *)

\* A slot of j that has been met leaves its next run ahead, and no time of the schedule
\* uncovered, while no run of j is under way; unless a crash has interrupted that run,
\* which a start skips, and then moves the next run.
Excused(j) == svc = "loaded" /\ j \in interrupted

MetOnce ==
  \A j \in DOMAIN jobs :
    Recurring(j) /\ slot[j] = "met" /\ jobs[j].enabled /\ ~jobs[j].running =>
      /\ Past(jobs[j]) => Excused(j) \/ (crashes = 1 /\ svc \in {"catchup", "caughtUp"})
      /\ jobs[j].missed => Excused(j) \/ (crashes = 1 /\ svc \notin {"off", "loaded"})

\* Before the first crash there is no run that one has interrupted.
FirstStart ==
  crashes = 0 => /\ interrupted = {}
                 /\ svc = "off" => \A j \in DOMAIN jobs : ~jobs[j].running

\* Nobody has met the slot of j, or run a one-shot to its end, but who runs it now.
Unclaimed(j) ==
  /\ slot[j] # "new"
  /\ j \in DOMAIN jobs =>
       /\ jobs[j].enabled
       /\ ~jobs[j].running => IF Recurring(j) THEN slot[j] # "met"
                              ELSE jobs[j].ran # "ok" \/ jobs[j].missed

\* A manual run that asks whether it is due, between its inspection and its reservation.
Asks(m, j) == manual[m].at = "inspected" /\ ~manual[m].force /\ manual[m].job = j

InspectedOwes == \A m \in Manuals, j \in Jobs : Asks(m, j) => Unclaimed(j) \/ j \in released

OnceInv == MetOnce /\ FirstStart /\ InspectedOwes

\* Manual runs are inspected only while the service is on.
LEMMA NobodyAsks ==
  ASSUME CronInv, svc # "on"
  PROVE  \A m \in Manuals, j \in Jobs : ~Asks(m, j)
  BY DEF CronInv, Phases, Asks

\* What has been met stays so when no next run of such a job comes due.
LEMMA MetOnceKept ==
  ASSUME MetOnce, UNCHANGED <<kind, svc, interrupted, crashes>>,
         \A j \in DOMAIN jobs' :
            Recurring(j) /\ slot'[j] = "met" /\ jobs'[j].enabled /\ ~jobs'[j].running =>
              \/ ~Past(jobs'[j]) /\ ~jobs'[j].missed
              \/ /\ j \in DOMAIN jobs /\ slot[j] = "met"
                 /\ jobs[j].enabled /\ ~jobs[j].running
                 /\ Past(jobs'[j]) => Past(jobs[j])
                 /\ jobs'[j].missed => jobs[j].missed
  PROVE  MetOnce'
  BY DEF MetOnce, Excused, Recurring, Past

\* A request that has been inspected keeps its job when no claim is made, or the job
\* loses its marker.
LEMMA InspectedKept ==
  ASSUME InspectedOwes, Records, kind' = kind,
         \A m \in Manuals, j \in Jobs : Asks(m, j)' /\ j \notin released' =>
           /\ Asks(m, j)
           /\ slot'[j] = "new" => slot[j] = "new"
           /\ j \in DOMAIN jobs' =>
                /\ j \in DOMAIN jobs
                /\ ~jobs'[j].running => /\ jobs[j].enabled /\ j \notin old => ~jobs[j].running
                                        /\ slot'[j] = "met" => slot[j] = "met"
                                        /\ jobs'[j].ran = jobs[j].ran
                                        /\ jobs[j].missed => jobs'[j].missed
  PROVE  InspectedOwes'
<1>1. \A j : Recurring(j)' <=> Recurring(j)
  BY DEF Recurring
<1>2. ASSUME NEW m \in Manuals, NEW j \in Jobs, Asks(m, j)', j \notin released'
      PROVE  Unclaimed(j)'
  <2>1. Active(j)' /\ (Marked(j)' <=> j \in DOMAIN jobs' /\ jobs'[j].running)
    BY <1>2 DEF Active, Asks, Marked
  <2>2. /\ j \notin released
        /\ j \in DOMAIN jobs' => jobs'[j].enabled
        /\ j \in old => Marked(j)'
    BY <1>2, <2>1 DEF Records
  <2>3. Unclaimed(j)
    BY <1>2, <2>2 DEF InspectedOwes
  <2> QED
    BY <1>1, <1>2, <2>1, <2>2, <2>3 DEF Unclaimed
<1> QED
  BY <1>2 DEF InspectedOwes

\* Steps of a service that is running, which is not at its first start.
LEMMA FirstStartKept ==
  ASSUME FirstStart, UNCHANGED <<svc, interrupted, crashes>>, svc # "off"
  PROVE  FirstStart'
  BY DEF FirstStart

\* A walk changes no record of a job that has been met but a next run.
LEMMA WalkKeepsOnce ==
  ASSUME CronInv, MetOnce, FirstStart, svc # "off", NEW lapsed, jobs' = Walk(jobs, lapsed),
         UNCHANGED <<kind, svc, interrupted, slot, crashes>>
  PROVE  /\ MetOnce' /\ FirstStart'
         /\ DOMAIN jobs' = DOMAIN jobs
         /\ \A j \in DOMAIN jobs : /\ jobs'[j].enabled <=> jobs[j].enabled
                                   /\ jobs'[j].running <=> jobs[j].enabled /\ jobs[j].running /\ j \notin old
                                   /\ jobs'[j].ran = jobs[j].ran
                                   /\ jobs'[j].missed <=> jobs[j].missed
<1>1. \A j \in DOMAIN jobs : Orderly(j, jobs[j])
  BY DEF CronInv, JobsInOrder
<1>2. /\ DOMAIN jobs' = DOMAIN jobs
      /\ \A j \in DOMAIN jobs :
           /\ jobs'[j].enabled <=> jobs[j].enabled
           /\ jobs'[j].running <=> jobs[j].enabled /\ jobs[j].running /\ j \notin old
           /\ jobs'[j].ran = jobs[j].ran
           /\ jobs'[j].missed <=> jobs[j].missed
           /\ jobs[j].enabled => jobs'[j].next = IF jobs[j].next \in lapsed
                                                 THEN NextRun(j, jobs[j]) ELSE jobs[j].next
  BY <1>1, WalkEffect
<1>3. \A j \in DOMAIN jobs : Recurring(j) /\ jobs[j].enabled => NextRun(j, jobs[j]) = "future"
  BY <1>1, NextRunOrderly
<1>4. \A j \in DOMAIN jobs : Recurring(j) /\ jobs[j].enabled /\ Past(jobs'[j]) => Past(jobs[j])
  BY <1>2, <1>3 DEF Past
<1>5. MetOnce'
  BY <1>2, <1>4, MetOnceKept DEF CronInv, History
<1> QED
  BY <1>2, <1>5, FirstStartKept

\* A claim marks its jobs, and who has asked for one of them finds it taken.
LEMMA MarksKeepOnce ==
  ASSUME CronInv, OnceInv, Records, NEW claimed, svc # "off", jobs' = Mark(jobs, claimed),
         \/ slot' = Meets(claimed) /\ claimed \in SUBSET DOMAIN jobs
         \/ slot' = slot,
         UNCHANGED <<kind, svc, interrupted, crashes>>,
         \A m \in Manuals, j \in Jobs : Asks(m, j)' => Asks(m, j)
  PROVE  OnceInv'
<1>1. /\ DOMAIN jobs' = DOMAIN jobs
      /\ \A j \in DOMAIN jobs : /\ jobs'[j].enabled <=> jobs[j].enabled
                                /\ jobs'[j].running <=> jobs[j].running \/ j \in claimed
                                /\ jobs'[j].next = jobs[j].next
                                /\ jobs'[j].ran = jobs[j].ran
                                /\ jobs'[j].missed <=> jobs[j].missed
      /\ slot' = Meets(claimed)
           => \A j \in Jobs : slot'[j] = IF j \in claimed THEN "met" ELSE slot[j]
  BY MarkEffect DEF CronInv
<1>2. DOMAIN jobs \subseteq Jobs
  BY DEF CronInv, JobsInOrder
<1>3. MetOnce'
  BY <1>1, <1>2, MetOnceKept DEF OnceInv, Past
<1>4. InspectedOwes'
  BY <1>1, <1>2, InspectedKept DEF OnceInv
<1> QED
  BY <1>3, <1>4, FirstStartKept DEF OnceInv

\* Results leave no next run that is past to a recurring job, and are not of jobs that
\* have been inspected, unless those have lost their marker.
LEMMA ResultsKeepOnce ==
  ASSUME CronInv, OnceInv, Records, NEW over, NEW later, ResultsIn(over, later), svc = "on",
         UNCHANGED <<kind, svc, interrupted, crashes>>,
         \A m \in Manuals, j \in Jobs :
            Asks(m, j)' => Asks(m, j) /\ (j \in over => j \in released)
  PROVE  OnceInv'
<1>1. /\ DOMAIN jobs' \subseteq DOMAIN jobs /\ DOMAIN jobs \subseteq Jobs
      /\ \A j \in Jobs : slot'[j] = IF j \in DOMAIN jobs \ DOMAIN jobs' THEN "gone" ELSE slot[j]
  BY DEF CronInv, JobsInOrder, ResultsIn
<1>2. \A j \in DOMAIN jobs' :
        /\ jobs'[j].enabled => jobs[j].enabled
        /\ j \in over => ~jobs'[j].running /\ ~jobs'[j].missed
        /\ Recurring(j) /\ Past(jobs'[j]) => j \notin over /\ Past(jobs[j])
        /\ j \notin over =>
             /\ jobs'[j].ran = jobs[j].ran /\ (jobs'[j].missed <=> jobs[j].missed)
             /\ jobs'[j].enabled <=> jobs[j].enabled
             /\ jobs'[j].running <=> jobs[j].enabled /\ jobs[j].running /\ j \notin old
  BY DEF ResultsIn
<1>3. MetOnce'
  BY <1>1, <1>2, MetOnceKept DEF OnceInv, CronInv, History
<1>4. \A m \in Manuals, j \in Jobs : Asks(m, j)' /\ j \notin released' => j \notin released
  BY DEF Records, Asks, Active
<1>5. InspectedOwes'
  BY <1>1, <1>2, <1>4, InspectedKept DEF OnceInv
<1> QED
  BY <1>3, <1>5, FirstStartKept DEF OnceInv

\* A start skips the runs that a crash has interrupted.
LEMMA StartKeepsOnce ==
  ASSUME CronInv, OnceInv, Start
  PROVE  OnceInv'
<1>1. /\ svc = "off" /\ svc' = "loaded"
      /\ interrupted' = {j \in DOMAIN jobs : jobs[j].running}
      /\ jobs' = Unmarked(jobs) /\ slot' = Meets(interrupted')
      /\ UNCHANGED <<kind, manual, crashes>>
  BY DEF Start
<1>2. /\ DOMAIN jobs \subseteq Jobs
      /\ \A j \in DOMAIN jobs : jobs[j] \in JobType
  BY DEF CronInv, JobsInOrder
<1>3. /\ DOMAIN jobs' = DOMAIN jobs
      /\ \A j \in DOMAIN jobs : jobs'[j] = [jobs[j] EXCEPT !.running = FALSE]
  BY <1>1 DEF Unmarked
<1>4. \A j \in DOMAIN jobs : /\ jobs'[j].next = jobs[j].next
                             /\ jobs'[j].missed <=> jobs[j].missed
                             /\ jobs'[j].enabled <=> jobs[j].enabled
  BY <1>2, <1>3 DEF JobType
<1>5. MetOnce'
  <2>1. ASSUME NEW j \in DOMAIN jobs', Recurring(j)', slot'[j] = "met", jobs'[j].enabled
        PROVE  Excused(j)' \/ (~Past(jobs'[j]) /\ ~jobs'[j].missed)
    <3>1. CASE jobs[j].running
      BY <1>1, <1>3, <3>1 DEF Excused
    <3>2. CASE ~jobs[j].running
      <4>1. slot[j] = "met" /\ Recurring(j)
        BY <1>1, <1>2, <1>3, <2>1, <3>2 DEF Meets, Recurring
      <4>2. ~Past(jobs[j]) /\ ~jobs[j].missed
        BY <1>1, <1>3, <1>4, <2>1, <3>2, <4>1 DEF OnceInv, MetOnce, Excused
      <4> QED
        BY <1>3, <1>4, <4>2 DEF Past
    <3> QED
      BY <3>1, <3>2
  <2> QED
    BY <2>1 DEF MetOnce
<1>6. FirstStart'
  BY <1>1 DEF OnceInv, FirstStart
<1>7. InspectedOwes'
  BY <1>1, NobodyAsks DEF InspectedOwes, Asks
<1> QED
  BY <1>5, <1>6, <1>7 DEF OnceInv

\* The plan claims jobs that have missed a run.
LEMMA PlanKeepsOnce ==
  ASSUME CronInv, OnceInv, MaxCrashes <= 1, PlanStartupCatchup
  PROVE  OnceInv'
<1> DEFINE missed == {j \in DOMAIN jobs : Missed(j)} \ Skipped
<1>1. PICK claimed \in SUBSET missed : Claims(claimed)
  BY DEF PlanStartupCatchup
<1>2. /\ svc = "loaded" /\ interrupted' = {} /\ svc' \in {"caughtUp", "catchup"}
      /\ UNCHANGED <<kind, manual, crashes>>
  BY DEF PlanStartupCatchup
<1>3. jobs' = Mark(jobs, claimed) /\ slot' = Meets(claimed) /\ claimed \in SUBSET DOMAIN jobs
  BY <1>1 DEF Claims
<1> HIDE DEF missed
<1>4. /\ DOMAIN jobs' = DOMAIN jobs
      /\ \A j \in DOMAIN jobs : /\ jobs'[j].enabled <=> jobs[j].enabled
                                /\ jobs'[j].running <=> jobs[j].running \/ j \in claimed
                                /\ jobs'[j].next = jobs[j].next
                                /\ jobs'[j].missed <=> jobs[j].missed
      /\ \A j \in Jobs : slot'[j] = IF j \in claimed THEN "met" ELSE slot[j]
  BY <1>2, <1>3, MarkEffect DEF CronInv
<1>5. DOMAIN jobs \subseteq Jobs
  BY DEF CronInv, JobsInOrder
<1>6. crashes # 0 => crashes = 1
  BY CronBounds DEF CronBounds, CronInv, Phases
<1>7. MetOnce'
  <2>1. ASSUME NEW j \in DOMAIN jobs', Recurring(j)', slot'[j] = "met", jobs'[j].enabled,
               ~jobs'[j].running, Past(jobs'[j]) \/ jobs'[j].missed
        PROVE  crashes' = 1
    <3>1. /\ Recurring(j) /\ slot[j] = "met" /\ jobs[j].enabled /\ ~jobs[j].running
          /\ Past(jobs[j]) \/ jobs[j].missed
      BY <1>2, <1>4, <1>5, <2>1 DEF Recurring, Past
    <3>2. j \in interrupted
      BY <1>2, <1>4, <3>1 DEF OnceInv, MetOnce, Excused
    <3> QED
      BY <1>2, <1>6, <3>2 DEF OnceInv, FirstStart
  <2> QED
    BY <1>2, <2>1 DEF MetOnce
<1>8. FirstStart'
  BY <1>2 DEF FirstStart
<1>9. InspectedOwes'
  BY <1>2, NobodyAsks DEF InspectedOwes, Asks
<1> QED
  BY <1>7, <1>8, <1>9 DEF OnceInv

\* The catch-up applies its results.
LEMMA CatchupKeepsOnce ==
  ASSUME CronInv, OnceInv, ApplyStartupCatchup
  PROVE  OnceInv'
<1> DEFINE over == {j \in Jobs : batch[j] # "none"}
<1>1. /\ svc = "catchup" /\ BatchOver /\ Applies(deferred) /\ svc' = "caughtUp" /\ deferred' = {}
      /\ UNCHANGED <<kind, interrupted, manual, crashes>>
  BY DEF ApplyStartupCatchup
<1>2. ResultsIn(over, deferred)
  BY <1>1, AppliesEffect
<1> HIDE DEF over
<1>3. MetOnce'
  <2>1. ASSUME NEW j \in DOMAIN jobs', Recurring(j)', slot'[j] = "met", jobs'[j].enabled,
               ~jobs'[j].running, Past(jobs'[j]) \/ jobs'[j].missed
        PROVE  crashes' = 1
    <3>1. j \in DOMAIN jobs /\ j \in Jobs /\ Recurring(j)
      BY <1>1, <1>2, <2>1 DEF CronInv, JobsInOrder, ResultsIn, Recurring
    <3>2. /\ j \notin over /\ slot[j] = "met" /\ jobs[j].enabled /\ ~jobs[j].running
          /\ Past(jobs[j]) \/ jobs[j].missed
      BY <1>2, <2>1, <3>1 DEF ResultsIn, CronInv, History
    <3> QED
      BY <1>1, <3>1, <3>2 DEF OnceInv, MetOnce, Excused
  <2> QED
    BY <1>1, <2>1 DEF MetOnce
<1>4. FirstStart'
  BY <1>1 DEF OnceInv, FirstStart
<1>5. InspectedOwes'
  BY <1>1, NobodyAsks DEF InspectedOwes, Asks
<1> QED
  BY <1>3, <1>4, <1>5 DEF OnceInv

\* At its end a start moves the next runs that are past.
LEMMA FinishStartKeepsOnce ==
  ASSUME CronInv, OnceInv, FinishStart
  PROVE  OnceInv'
<1>1. /\ svc = "caughtUp" /\ svc' = "on" /\ jobs' = Walk(jobs, {"none", "due", "stale"})
      /\ UNCHANGED <<kind, interrupted, manual, slot, crashes>>
  BY DEF FinishStart, RecomputeNextRuns
<1>2. \A j \in DOMAIN jobs : Orderly(j, jobs[j])
  BY DEF CronInv, JobsInOrder
<1>3. /\ DOMAIN jobs' = DOMAIN jobs
      /\ \A j \in DOMAIN jobs :
           /\ jobs'[j].enabled <=> jobs[j].enabled
           /\ jobs'[j].running <=> jobs[j].enabled /\ jobs[j].running /\ j \notin old
           /\ jobs'[j].missed <=> jobs[j].missed
           /\ jobs[j].enabled => jobs'[j].next = IF jobs[j].next \in {"none", "due", "stale"}
                                                 THEN NextRun(j, jobs[j]) ELSE jobs[j].next
  BY <1>1, <1>2, WalkEffect
<1>4. ASSUME NEW j \in DOMAIN jobs, Recurring(j), jobs[j].enabled
      PROVE  ~Past(jobs'[j])
  <2>1. NextRun(j, jobs[j]) = "future"
    BY <1>2, <1>4, NextRunOrderly
  <2> QED
    BY <1>3, <1>4, <2>1 DEF Past
<1>5. MetOnce'
  <2>1. ASSUME NEW j \in DOMAIN jobs', Recurring(j)', slot'[j] = "met", jobs'[j].enabled,
               ~jobs'[j].running
        PROVE  ~Past(jobs'[j]) /\ (jobs'[j].missed => crashes' = 1)
    <3>1. /\ Recurring(j) /\ slot[j] = "met" /\ jobs[j].enabled /\ ~jobs[j].running
      BY <1>1, <1>3, <2>1 DEF Recurring, CronInv, History
    <3>2. ~Past(jobs'[j])
      BY <1>3, <1>4, <3>1
    <3>3. jobs[j].missed => crashes = 1
      BY <1>1, <1>3, <3>1 DEF OnceInv, MetOnce, Excused
    <3> QED
      BY <1>1, <1>3, <3>2, <3>3
  <2> QED
    BY <1>1, <2>1 DEF MetOnce
<1>6. FirstStart'
  BY <1>1 DEF OnceInv, FirstStart
<1>7. InspectedOwes'
  BY <1>1, NobodyAsks DEF InspectedOwes, Asks
<1> QED
  BY <1>5, <1>6, <1>7 DEF OnceInv

\* A next run that comes due does not leave a slot that is met.
LEMMA TimePassesKeepsOnce ==
  ASSUME CronInv, OnceInv, Records, NEW j \in Jobs, TimePasses(j)
  PROVE  OnceInv'
<1>1. /\ UNCHANGED <<kind, svc, interrupted, deferred, tick, batch, timer, manual, crashes>>
      /\ DOMAIN jobs' = DOMAIN jobs /\ \A k \in DOMAIN jobs : k # j => jobs'[k] = jobs[k]
      /\ ~jobs'[j].running /\ j \in DOMAIN jobs /\ ~jobs[j].running
      /\ jobs'[j].ran = jobs[j].ran /\ (jobs[j].missed => jobs'[j].missed)
      /\ \A k \in Jobs : k # j => slot'[k] = slot[k]
      /\ slot'[j] \in {"moved", "owed"}
  BY TimePassesEffect
<1>2. DOMAIN jobs \subseteq Jobs
  BY DEF CronInv, JobsInOrder
<1>3. MetOnce'
  <2>1. ASSUME NEW k \in DOMAIN jobs', slot'[k] = "met"
        PROVE  k \in DOMAIN jobs /\ jobs'[k] = jobs[k] /\ slot[k] = "met"
    BY <1>1, <1>2, <2>1
  <2> QED
    BY <1>1, <2>1, MetOnceKept DEF OnceInv
<1>4. FirstStart'
  BY <1>1 DEF OnceInv, FirstStart
<1>5. InspectedOwes'
  <2>1. \A m \in Manuals, k \in Jobs : Asks(m, k)' => Asks(m, k)
    BY <1>1 DEF Asks
  <2>2. ASSUME NEW k \in Jobs
        PROVE  /\ slot'[k] = "new" => slot[k] = "new"
               /\ k \in DOMAIN jobs' =>
                    /\ k \in DOMAIN jobs
                    /\ ~jobs'[k].running => ~jobs[k].running
                    /\ slot'[k] = "met" => slot[k] = "met"
                    /\ jobs'[k].ran = jobs[k].ran
                    /\ jobs[k].missed => jobs'[k].missed
    BY <1>1
  <2> QED
    BY <1>1, <2>1, <2>2, InspectedKept DEF OnceInv
<1> QED
  BY <1>3, <1>4, <1>5 DEF OnceInv

\* An edit does not meet a slot, but that of a new job, whose next run is ahead; and a
\* job that has been inspected loses its marker when it is disabled.
LEMMA EditKeepsOnce ==
  ASSUME CronInv, OnceInv, Records, NEW j \in Jobs, Edit(j)
  PROVE  OnceInv'
<1>1. svc = "on" /\ UNCHANGED <<kind, svc, interrupted, manual, crashes>>
  BY EditFrame
<1>2. FirstStart' /\ \A m \in Manuals, k \in Jobs : Asks(m, k)' => Asks(m, k)
  BY <1>1, FirstStartKept DEF OnceInv, Asks
<1>3. /\ DOMAIN jobs \subseteq Jobs /\ jobs \in [DOMAIN jobs -> JobType]
      /\ slot \in [Jobs -> {"new", "owed", "met", "moved", "gone"}]
      /\ \A k \in DOMAIN jobs : Orderly(k, jobs[k])
  BY DEF CronInv, JobsInOrder
<1>4. CASE Add(j)
  <2> DEFINE added == [k \in DOMAIN jobs \cup {j} |-> IF k = j THEN NewJob(j) ELSE jobs[k]]
  <2>1. /\ slot[j] = "new" /\ jobs' = Walk(added, {"none", "due", "stale"})
        /\ slot' = [slot EXCEPT ![j] = "met"]
    BY <1>4 DEF Add, RecomputeNextRuns
  <2>2. /\ Orderly(j, NewJob(j)) /\ ~NewJob(j).missed /\ NewJob(j).next = "future"
    BY DEF Orderly, NewJob, JobType
  <2>3. /\ DOMAIN added = DOMAIN jobs \cup {j}
        /\ \A k \in DOMAIN added : added[k] = IF k = j THEN NewJob(j) ELSE jobs[k]
    OBVIOUS
  <2> HIDE DEF added
  <2>4. \A k \in DOMAIN added : Orderly(k, added[k])
    BY <1>3, <2>2, <2>3
  <2>5. /\ DOMAIN jobs' = DOMAIN added
        /\ \A k \in DOMAIN added :
             /\ jobs'[k].enabled <=> added[k].enabled
             /\ jobs'[k].running <=> added[k].enabled /\ added[k].running /\ k \notin old
             /\ jobs'[k].ran = added[k].ran
             /\ jobs'[k].missed <=> added[k].missed
             /\ added[k].enabled => jobs'[k].next = IF added[k].next \in {"none", "due", "stale"}
                                                    THEN NextRun(k, added[k]) ELSE added[k].next
    BY <2>1, <2>4, WalkEffect
  <2>6. \A k \in DOMAIN added :
          Recurring(k) /\ added[k].enabled => NextRun(k, added[k]) = "future"
    BY <2>4, NextRunOrderly
  <2>7. MetOnce'
    <3>1. ASSUME NEW k \in DOMAIN jobs', Recurring(k), slot'[k] = "met", jobs'[k].enabled,
                 ~jobs'[k].running
          PROVE  \/ ~Past(jobs'[k]) /\ ~jobs'[k].missed
                 \/ /\ k \in DOMAIN jobs /\ slot[k] = "met"
                    /\ jobs[k].enabled /\ ~jobs[k].running
                    /\ Past(jobs'[k]) => Past(jobs[k])
                    /\ jobs'[k].missed => jobs[k].missed
      <4>1. ~Past(jobs'[k])
        BY <2>5, <2>6, <3>1 DEF Past
      <4>2. CASE k = j
        BY <2>2, <2>3, <2>5, <4>1, <4>2
      <4>3. CASE k # j
        <5>1. k \in DOMAIN jobs /\ slot[k] = "met" /\ added[k] = jobs[k] /\ k \notin old
          BY <1>3, <2>1, <2>3, <2>5, <3>1, <4>3 DEF CronInv, History
        <5> QED
          BY <2>3, <2>5, <3>1, <4>1, <5>1
      <4> QED
        BY <4>2, <4>3
    <3> QED
      BY <1>1, <3>1, MetOnceKept DEF OnceInv
  <2>8. InspectedOwes'
    <3>1. ASSUME NEW m \in Manuals, NEW k \in Jobs, Asks(m, k)', k \notin released'
          PROVE  /\ Asks(m, k)
                 /\ slot'[k] = slot[k]
                 /\ k \in DOMAIN jobs' =>
                      /\ k \in DOMAIN jobs
                      /\ jobs'[k].running <=> jobs[k].enabled /\ jobs[k].running /\ k \notin old
                      /\ jobs'[k].ran = jobs[k].ran
                      /\ jobs'[k].missed <=> jobs[k].missed
      <4>1. Asks(m, k) /\ k \notin released
        BY <1>2, <3>1 DEF Records, Asks, Active
      <4>2. slot[k] # "new"
        BY <4>1 DEF OnceInv, InspectedOwes, Unclaimed
      <4>3. k # j
        BY <2>1, <4>2
      <4> QED
        BY <1>3, <2>1, <2>3, <2>5, <4>1, <4>3
    <3> QED
      BY <1>1, <3>1, InspectedKept DEF OnceInv
  <2> QED
    BY <1>2, <2>7, <2>8 DEF OnceInv
<1>5. ASSUME NEW enabled \in BOOLEAN, SetEnabled(j, enabled)
      PROVE  OnceInv'
  <2> DEFINE next == NextRun(j, [jobs[j] EXCEPT !.enabled = enabled])
             edited(missed) == [jobs[j] EXCEPT !.enabled = enabled, !.missed = missed,
                                               !.running = enabled /\ @]
  <2>1. /\ j \in DOMAIN jobs
        /\ slot' = [slot EXCEPT ![j] = IF next \in {"due", "stale"} /\ ~Runs(j)
                                          THEN "owed" ELSE "moved"]
    BY <1>5 DEF SetEnabled
  <2>2. PICK missed \in {jobs[j].missed, jobs[j].missed \/ (kind[j] = "cron" /\ ~jobs[j].enabled)} :
           jobs' = [jobs EXCEPT ![j] = [edited(missed) EXCEPT !.next = next]]
    BY <1>5 DEF SetEnabled
  <2>3. slot'[j] \in {"owed", "moved"} /\ \A k \in Jobs : k # j => slot'[k] = slot[k]
    BY <1>3, <2>1
  <2> HIDE DEF next
  <2>4. /\ jobs'[j].enabled = enabled /\ jobs'[j].running = (enabled /\ jobs[j].running)
        /\ jobs'[j].ran = jobs[j].ran /\ (jobs[j].missed => jobs'[j].missed)
    <3>1. jobs[j] \in JobType /\ (jobs[j].missed => missed)
      BY <1>3, <2>1, <2>2
    <3>2. jobs'[j] = [edited(missed) EXCEPT !.next = next]
      BY <1>3, <2>1, <2>2
    <3> QED
      BY <3>1, <3>2 DEF JobType
  <2>5. DOMAIN jobs' = DOMAIN jobs /\ \A k \in DOMAIN jobs : k # j => jobs'[k] = jobs[k]
    BY <1>3, <2>2
  <2> HIDE DEF edited
  <2>6. MetOnce'
    <3>1. ASSUME NEW k \in DOMAIN jobs', slot'[k] = "met"
          PROVE  k \in DOMAIN jobs /\ jobs'[k] = jobs[k] /\ slot[k] = "met"
      BY <1>3, <2>3, <2>5, <3>1
    <3> QED
      BY <1>1, <3>1, MetOnceKept DEF OnceInv
  <2>7. InspectedOwes'
    <3>1. ASSUME NEW m \in Manuals, NEW k \in Jobs, Asks(m, k)', k \notin released'
          PROVE  /\ Asks(m, k)
                 /\ slot'[k] = "new" => slot[k] = "new"
                 /\ k \in DOMAIN jobs' =>
                      /\ k \in DOMAIN jobs
                      /\ ~jobs'[k].running => ~jobs[k].running
                      /\ slot'[k] = "met" => slot[k] = "met"
                      /\ jobs'[k].ran = jobs[k].ran
                      /\ jobs[k].missed => jobs'[k].missed
      <4>1. Asks(m, k) /\ (k \in DOMAIN jobs' => jobs'[k].enabled)
        BY <1>2, <3>1 DEF Records, Asks, Active
      <4>2. CASE k = j
        BY <2>1, <2>3, <2>4, <4>1, <4>2
      <4>3. CASE k # j
        BY <2>3, <2>5, <4>1, <4>3
      <4> QED
        BY <4>2, <4>3
    <3> QED
      BY <1>1, <3>1, InspectedKept DEF OnceInv
  <2> QED
    BY <1>2, <2>6, <2>7 DEF OnceInv
<1>6. CASE Remove(j)
  <2>1. /\ jobs' = [k \in DOMAIN jobs \ {j} |-> jobs[k]]
        /\ slot' = [k \in Jobs |-> IF k \in DOMAIN jobs \ DOMAIN jobs' THEN "gone" ELSE slot[k]]
    BY <1>6 DEF Remove, Leave
  <2>2. /\ DOMAIN jobs' \subseteq DOMAIN jobs
        /\ \A k \in DOMAIN jobs' : jobs'[k] = jobs[k] /\ slot'[k] = slot[k]
        /\ \A k \in Jobs : slot'[k] = "new" => slot[k] = "new"
    BY <1>3, <2>1
  <2>3. MetOnce'
    BY <1>1, <2>2, MetOnceKept DEF OnceInv
  <2>4. InspectedOwes'
    BY <1>1, <1>2, <2>2, InspectedKept DEF OnceInv
  <2> QED
    BY <1>2, <2>3, <2>4 DEF OnceInv
<1> QED
  BY <1>4, <1>5, <1>6 DEF Edit

\* A request passes its inspection when the next run of its job is past: it is not of a
\* slot that has been met, nor of a one-shot that has succeeded.
LEMMA ReadsKeepOnce ==
  ASSUME CronInv, OnceInv, Records, ReadStep
  PROVE  OnceInv'
<1>1. /\ svc = "on" /\ jobs' = Walk(jobs, {"none"})
      /\ UNCHANGED <<kind, svc, interrupted, slot, crashes>>
  BY ReadFrame
<1>2. /\ MetOnce' /\ FirstStart'
      /\ DOMAIN jobs' = DOMAIN jobs
      /\ \A j \in DOMAIN jobs : /\ jobs'[j].enabled <=> jobs[j].enabled
                                /\ jobs'[j].running <=> jobs[j].enabled /\ jobs[j].running /\ j \notin old
                                /\ jobs'[j].ran = jobs[j].ran
                                /\ jobs'[j].missed <=> jobs[j].missed
  BY <1>1, WalkKeepsOnce DEF OnceInv
<1>3. CASE \A m \in Manuals, j \in Jobs : Asks(m, j)' => Asks(m, j)
  BY <1>1, <1>2, <1>3, InspectedKept DEF OnceInv
<1>4. CASE \E m \in Manuals : Inspect(m)
  <2>1. PICK m \in Manuals : Inspect(m)
    BY <1>4
  <2>2. /\ manual[m].at = "queued" /\ manual \in [Manuals -> ManualType]
        /\ manual' = Goes(m, "inspected") \/ manual' = Drops(m)
    BY <2>1 DEF Inspect, Inspects, CronInv, Phases
  <2>3. \A n \in Manuals \ {m} : manual'[n] = manual[n]
    BY <2>2 DEF Goes, Drops
  <2>4. ASSUME NEW j \in Jobs, Asks(m, j)'
        PROVE  Unclaimed(j)'
    <3>1. manual' = Goes(m, "inspected") /\ manual' # Drops(m)
      <4>1. manual' # Drops(m)
        BY <2>2, <2>4, NoManualType DEF Drops, Asks
      <4> QED
        BY <2>2, <4>1
    <3>2. manual'[m].job = manual[m].job /\ manual'[m].force = manual[m].force
      BY <2>2, <3>1 DEF Goes
    <3>3. /\ j \in DOMAIN jobs /\ ~jobs'[j].running
          /\ jobs'[j].enabled /\ Past(jobs'[j])
      BY <2>1, <2>4, <3>1, <3>2 DEF Inspect, Inspects, Asks
    <3>4. slot'[j] # "new"
      BY <1>1, <3>3 DEF CronInv, JobsInOrder
    <3>5. CASE Recurring(j)
      <4>1. slot'[j] # "met"
        BY <1>1, <1>2, <3>3, <3>5 DEF MetOnce, Excused, Recurring
      <4> QED
        BY <1>1, <3>3, <3>4, <3>5, <4>1 DEF Unclaimed, Recurring
    <3>6. CASE ~Recurring(j)
      <4>1. \A k \in DOMAIN jobs : Orderly(k, jobs[k])
        BY DEF CronInv, JobsInOrder
      <4>2. Orderly(j, jobs'[j])
        BY <1>1, <3>3, <4>1, WalkEffect
      <4>3. jobs'[j].ran # "ok" \/ jobs'[j].missed
        BY <3>3, <3>6, <4>2 DEF Orderly, Past
      <4> QED
        BY <1>1, <3>3, <3>4, <3>6, <4>3 DEF Unclaimed, Recurring
    <3> QED
      BY <3>5, <3>6
  <2>5. ASSUME NEW n \in Manuals \ {m}, NEW j \in Jobs, Asks(n, j)', j \notin released'
        PROVE  Unclaimed(j)'
    <3>1. Asks(n, j)
      BY <2>3, <2>5 DEF Asks
    <3>2. /\ j \notin released
          /\ j \in DOMAIN jobs' => jobs'[j].enabled
          /\ j \in old => j \in DOMAIN jobs' /\ jobs'[j].running
      BY <2>5 DEF Records, Asks, Active, Marked
    <3>3. Unclaimed(j)
      BY <3>1, <3>2 DEF OnceInv, InspectedOwes
    <3> QED
      BY <1>1, <1>2, <3>2, <3>3 DEF Unclaimed, Recurring
  <2>6. InspectedOwes'
    BY <2>4, <2>5 DEF InspectedOwes
  <2> QED
    BY <1>2, <2>6 DEF OnceInv
<1>5. ASSUME NEW m \in Manuals, NEW k \in Jobs, NEW force \in BOOLEAN, EnqueueRun(m, k, force)
      PROVE  \A n \in Manuals, j \in Jobs : Asks(n, j)' => Asks(n, j)
  <2> DEFINE request == [NoManual EXCEPT !.at = "queued", !.job = k, !.force = force]
  <2>1. /\ manual' = manual \/ manual' = [manual EXCEPT ![m] = request]
        /\ manual \in [Manuals -> ManualType]
    BY <1>5 DEF EnqueueRun, Inspects, CronInv, Phases
  <2>2. request.at = "queued"
    BY DEF NoManual
  <2> HIDE DEF request
  <2> QED
    BY <2>1, <2>2 DEF Asks
<1>6. List => \A m \in Manuals, j \in Jobs : Asks(m, j)' => Asks(m, j)
  BY DEF List, Asks
<1> QED
  BY <1>3, <1>4, <1>5, <1>6 DEF ReadStep

\* A crash before which there was none leaves no slot that has been met to be run again.
LEMMA CrashKeepsOnce ==
  ASSUME CronInv, OnceInv, MaxCrashes <= 1, Crash
  PROVE  OnceInv'
<1>1. /\ svc' = "off" /\ crashes < MaxCrashes /\ crashes' = crashes + 1
      /\ manual' = [m \in Manuals |-> NoManual]
      /\ UNCHANGED <<kind, jobs, slot>>
  BY DEF Crash
<1>2. crashes = 0 /\ crashes' = 1
  BY <1>1, CronBounds DEF CronBounds, CronInv, Phases
<1>3. interrupted = {}
  BY <1>2 DEF OnceInv, FirstStart
<1>4. MetOnce'
  BY <1>1, <1>2, <1>3 DEF OnceInv, MetOnce, Excused, Recurring
<1>5. FirstStart'
  BY <1>2 DEF FirstStart
<1>6. InspectedOwes'
  BY <1>1, NoManualType DEF InspectedOwes, Asks
<1> QED
  BY <1>4, <1>5, <1>6 DEF OnceInv

\* Steps that leave the jobs alone.
LEMMA SameJobsKeepOnce ==
  ASSUME OnceInv, Records, UNCHANGED <<kind, svc, interrupted, jobs, slot, crashes>>,
         \A m \in Manuals, j \in Jobs : Asks(m, j)' => Asks(m, j)
  PROVE  OnceInv'
<1>1. MetOnce'
  BY MetOnceKept DEF OnceInv
<1>2. InspectedOwes'
  BY InspectedKept DEF OnceInv
<1>3. FirstStart'
  BY DEF OnceInv, FirstStart
<1> QED
  BY <1>1, <1>2, <1>3 DEF OnceInv

\* Every step keeps what has been met, when the process crashes at most once.
LEMMA OnceStep ==
  ASSUME CronInv, OnceInv, MaxCrashes <= 1, [Next]_vars
  PROVE  OnceInv'
<1>0. CASE UNCHANGED vars
  BY <1>0 DEF vars, OnceInv, MetOnce, Excused, FirstStart, InspectedOwes, Asks, Unclaimed, Recurring
<1> SUFFICES ASSUME Next PROVE OnceInv'
  BY <1>0
<1>9. Records
  BY HistoryStep
<1>1. CASE Start \/ PlanStartupCatchup \/ ApplyStartupCatchup \/ FinishStart \/ Crash
  BY <1>1, StartKeepsOnce, PlanKeepsOnce, CatchupKeepsOnce, FinishStartKeepsOnce, CrashKeepsOnce
<1>2. CASE TickFindsNothing
  <2>1. /\ timer /\ jobs' = Walk(jobs, {"none"})
        /\ UNCHANGED <<kind, svc, interrupted, manual, slot, crashes>>
    BY <1>2 DEF TickFindsNothing, RecomputeForMaintenance, startup
  <2>2. svc # "off"
    BY <2>1 DEF CronInv, Phases
  <2>3. /\ MetOnce' /\ FirstStart'
        /\ DOMAIN jobs' = DOMAIN jobs
        /\ \A j \in DOMAIN jobs : /\ jobs'[j].enabled <=> jobs[j].enabled
                                  /\ jobs'[j].running <=> jobs[j].enabled /\ jobs[j].running /\ j \notin old
                                  /\ jobs'[j].ran = jobs[j].ran
                                  /\ jobs'[j].missed <=> jobs[j].missed
    BY <2>1, <2>2, WalkKeepsOnce DEF OnceInv
  <2>4. \A m \in Manuals, j \in Jobs : Asks(m, j)' => Asks(m, j)
    BY <2>1 DEF Asks
  <2>5. InspectedOwes'
    BY <1>9, <2>1, <2>3, <2>4, InspectedKept DEF OnceInv
  <2> QED
    BY <2>3, <2>5 DEF OnceInv
<1>3. CASE TickClaims
  <2> DEFINE due == {j \in DOMAIN jobs : Runnable(j)}
  <2>1. /\ timer /\ Claims(due) /\ due \subseteq DOMAIN jobs
        /\ UNCHANGED <<kind, svc, interrupted, manual, crashes>>
    BY <1>3 DEF TickClaims, startup
  <2> HIDE DEF due
  <2>2. svc # "off" /\ \A m \in Manuals, j \in Jobs : Asks(m, j)' => Asks(m, j)
    BY <2>1 DEF CronInv, Phases, Asks
  <2>3. jobs' = Mark(jobs, due) /\ slot' = Meets(due)
    BY <2>1 DEF Claims
  <2> QED
    BY <1>9, <2>1, <2>2, <2>3, MarksKeepOnce
<1>4. CASE TickApplies
  <2> DEFINE over == {j \in Jobs : batch[j] # "none"}
  <2>1. /\ tick = "runs" /\ BatchOver /\ AfterPrepare(Finished) /\ Applies({})
        /\ UNCHANGED <<kind, svc, interrupted, deferred, manual, crashes>>
    BY <1>4 DEF TickApplies, startup
  <2>2. svc = "on" /\ deferred = {}
    BY <2>1 DEF CronInv, Phases
  <2>3. ResultsIn(over, {})
    BY <2>1, <2>2, AppliesEffect
  <2>4. \A j \in over \cap Jobs : j \in Finished
    BY <2>1 DEF CronInv, Phases, BatchOver, Finished, Answers
  <2> HIDE DEF over
  <2>5. \A m \in Manuals, j \in Jobs :
           Asks(m, j)' => Asks(m, j) /\ (j \in over => j \in released)
    BY <2>1, <2>4 DEF Asks, AfterPrepare
  <2> QED
    BY <1>9, <2>1, <2>2, <2>3, <2>5, ResultsKeepOnce
<1>5. CASE \E m \in Manuals : PrepareManualRun(m)
  <2>1. PICK m \in Manuals : PrepareManualRun(m)
    BY <1>5
  <2>2. PICK j : j = manual[m].job
    OBVIOUS
  <2>3. /\ manual[m].at = "inspected" /\ manual \in [Manuals -> ManualType]
        /\ UNCHANGED <<kind, svc, interrupted, crashes>>
        /\ \/ manual' = Drops(m) /\ UNCHANGED <<jobs, slot>>
           \/ /\ manual' = Goes(m, "running")
              /\ j \in DOMAIN jobs /\ jobs' = Mark(jobs, {j}) /\ slot' = Meets({j})
    BY <2>1, <2>2 DEF PrepareManualRun, Reservable, scheduler, startup, CronInv, Phases
  <2>4. svc # "off"
    BY <2>3 DEF CronInv, Phases
  <2>5. \A n \in Manuals, k \in Jobs : Asks(n, k)' => Asks(n, k)
    <3>1. \A n \in Manuals \ {m} : manual'[n] = manual[n]
      BY <2>3 DEF Drops, Goes
    <3>2. manual'[m].at # "inspected"
      <4>1. CASE manual' = Drops(m)
        BY <2>3, <4>1, NoManualType DEF Drops
      <4>2. CASE manual' = Goes(m, "running")
        BY <4>2, GoesEffect
      <4> QED
        BY <2>3, <4>1, <4>2
    <3> QED
      BY <3>1, <3>2 DEF Asks
  <2>6. CASE UNCHANGED <<jobs, slot>>
    <3>1. MetOnce'
      BY <2>3, <2>6, MetOnceKept DEF OnceInv
    <3>2. InspectedOwes'
      BY <1>9, <2>3, <2>5, <2>6, InspectedKept DEF OnceInv
    <3> QED
      BY <2>3, <2>4, <3>1, <3>2, FirstStartKept DEF OnceInv
  <2>7. CASE j \in DOMAIN jobs /\ jobs' = Mark(jobs, {j}) /\ slot' = Meets({j})
    <3>1. {j} \in SUBSET DOMAIN jobs
      BY <2>7
    <3> QED
      BY <1>9, <2>3, <2>4, <2>5, <2>7, <3>1, MarksKeepOnce
  <2> QED
    BY <2>3, <2>6, <2>7
<1>6. CASE \E m \in Manuals : FinishManualRun(m)
  <2>1. PICK m \in Manuals : FinishManualRun(m)
    BY <1>6
  <2>2. PICK j : j = manual[m].job
    OBVIOUS
  <2>3. /\ manual[m].at = "ended" /\ AfterPrepare({j}) /\ manual' = Drops(m)
        /\ UNCHANGED <<kind, svc, interrupted, crashes>>
        /\ UNCHANGED <<jobs, slot>> \/ ResultsIn({j}, {})
    BY <2>1, <2>2, FinishEffect DEF FinishManualRun
  <2>4. svc = "on" /\ manual \in [Manuals -> ManualType]
    BY <2>3 DEF CronInv, Phases
  <2>5. \A n \in Manuals, k \in Jobs : Asks(n, k)' => Asks(n, k)
    BY <2>3, <2>4, NoManualType DEF Asks, Drops
  <2>6. CASE UNCHANGED <<jobs, slot>>
    <3>1. MetOnce'
      BY <2>3, <2>6, MetOnceKept DEF OnceInv
    <3>2. InspectedOwes'
      BY <1>9, <2>3, <2>5, <2>6, InspectedKept DEF OnceInv
    <3> QED
      BY <2>3, <2>4, <3>1, <3>2, FirstStartKept DEF OnceInv
  <2>7. CASE ResultsIn({j}, {})
    <3>1. \A n \in Manuals, k \in Jobs :
             Asks(n, k)' => Asks(n, k) /\ (k \in {j} => k \in released)
      BY <2>3, <2>5 DEF Asks, AfterPrepare
    <3> QED
      BY <1>9, <2>3, <2>4, <2>7, <3>1, ResultsKeepOnce
  <2> QED
    BY <2>3, <2>6, <2>7
<1>7. CASE ReadStep
  BY <1>7, <1>9, ReadsKeepOnce
<1>8. CASE TickBusy \/ TickEnds \/ (\E m \in Manuals : ManualRunEnds(m))
  <2>1. UNCHANGED <<kind, svc, interrupted, jobs, slot, crashes>>
    BY <1>8 DEF TickBusy, TickEnds, ManualRunEnds, scheduler, startup
  <2>2. \A n \in Manuals, k \in Jobs : Asks(n, k)' => Asks(n, k)
    <3>1. CASE \E m \in Manuals : ManualRunEnds(m)
      <4>1. PICK m \in Manuals : ManualRunEnds(m)
        BY <3>1
      <4>2. /\ manual \in [Manuals -> ManualType]
            /\ manual'[m].at = "ended" /\ \A n \in Manuals \ {m} : manual'[n] = manual[n]
        BY <4>1 DEF ManualRunEnds, CronInv, Phases, ManualType
      <4> QED
        BY <4>2 DEF Asks
    <3>2. CASE UNCHANGED manual
      BY <3>2 DEF Asks
    <3> QED
      BY <1>8, <3>1, <3>2 DEF TickBusy, TickEnds
  <2> QED
    BY <1>9, <2>1, <2>2, SameJobsKeepOnce
<1>10. ASSUME NEW j \in Jobs, Runner(j)
       PROVE  OnceInv'
  <2>1. /\ svc # "off" /\ (jobs' = jobs \/ jobs' = Mark(jobs, {j}))
        /\ UNCHANGED <<kind, svc, interrupted, manual, slot, crashes>>
    BY <1>10, RunnerEffect
  <2>2. \A n \in Manuals, k \in Jobs : Asks(n, k)' => Asks(n, k)
    BY <2>1 DEF Asks
  <2>3. CASE jobs' = jobs
    BY <1>9, <2>1, <2>2, <2>3, SameJobsKeepOnce
  <2>4. CASE jobs' = Mark(jobs, {j})
    <3>1. PICK claimed : claimed = {j}
      OBVIOUS
    <3>2. svc # "off" /\ jobs' = Mark(jobs, claimed) /\ slot' = slot
      BY <2>1, <2>4, <3>1
    <3> QED
      BY <1>9, <2>1, <2>2, <3>2, MarksKeepOnce
  <2> QED
    BY <2>1, <2>3, <2>4
<1>11. ASSUME NEW j \in Jobs, MarkerAges(j)
       PROVE  OnceInv'
  <2>1. /\ svc = "on" /\ slot' = [slot EXCEPT ![j] = "moved"]
        /\ slot \in [Jobs -> {"new", "owed", "met", "moved", "gone"}]
        /\ UNCHANGED <<kind, svc, interrupted, jobs, manual, crashes>>
    BY <1>11 DEF MarkerAges, scheduler, startup, CronInv, JobsInOrder
  <2>2. \A k \in Jobs : slot'[k] \in {"new", "met"} => slot'[k] = slot[k]
    BY <2>1
  <2>3. MetOnce'
    <3>1. \A k \in DOMAIN jobs : k \in Jobs
      BY DEF CronInv, JobsInOrder
    <3> QED
      BY <2>1, <2>2, <3>1, MetOnceKept DEF OnceInv
  <2>4. InspectedOwes'
    <3>1. \A n \in Manuals, k \in Jobs : Asks(n, k)' => Asks(n, k)
      BY <2>1 DEF Asks
    <3> QED
      BY <1>9, <2>1, <2>2, <3>1, InspectedKept DEF OnceInv
  <2> QED
    BY <2>1, <2>3, <2>4, FirstStartKept DEF OnceInv
<1> QED
  BY <1>1, <1>2, <1>3, <1>4, <1>5, <1>6, <1>7, <1>8, <1>9, <1>10, <1>11, EditKeepsOnce,
     TimePassesKeepsOnce DEF Next, Scheduler, Manual, ReadStep

\* Who claims a job finds its slot owed, and a one-shot that has not succeeded since it
\* was scheduled.
LEMMA ClaimsOwed ==
  ASSUME CronInv, OnceInv, [Next]_vars, NEW j \in Jobs \ released, Claimed(j)
  PROVE  IF Recurring(j) THEN slot[j] # "met" ELSE jobs[j].ran # "ok" \/ jobs[j].missed
<1>1. CASE batch[j] = "none" /\ batch'[j] = "claimed"
  <2>1. PlanStartupCatchup \/ TickClaims
    <3>1. ASSUME NEW k \in Jobs, Runner(k) PROVE FALSE
      BY <1>1, <3>1, RunnerEffect
    <3>2. ~(\E later : Applies(later))
      BY <1>1 DEF Applies
    <3>3. batch' # batch /\ batch' # [k \in Jobs |-> "none"]
      BY <1>1
    <3>4. ~(\E k \in Jobs : Edit(k) \/ TimePasses(k) \/ MarkerAges(k))
      BY <3>3, EditFrame DEF TimePasses, MarkerAges, scheduler
    <3>5. ~ReadStep
      BY <3>3, ReadFrame
    <3>6. ~(Start \/ FinishStart \/ TickBusy \/ TickFindsNothing \/ TickEnds \/ Crash)
      BY <3>3 DEF Start, FinishStart, TickBusy, TickFindsNothing, TickEnds, Crash, scheduler
    <3>7. ~(ApplyStartupCatchup \/ TickApplies)
      BY <3>2 DEF ApplyStartupCatchup, TickApplies
    <3>8. ~(\E m \in Manuals : PrepareManualRun(m) \/ ManualRunEnds(m) \/ FinishManualRun(m))
      BY <3>3 DEF PrepareManualRun, ManualRunEnds, FinishManualRun, scheduler
    <3>9. ~UNCHANGED vars
      BY <3>3 DEF vars
    <3> QED
      BY <3>1, <3>4, <3>5, <3>6, <3>7, <3>8, <3>9 DEF Next, Scheduler, Manual, ReadStep
  <2>2. CASE PlanStartupCatchup
    <3> DEFINE missed == {k \in DOMAIN jobs : Missed(k)} \ Skipped
    <3>1. PICK claimed \in SUBSET missed : Claims(claimed)
      BY <2>2 DEF PlanStartupCatchup
    <3>2. j \in missed /\ svc = "loaded"
      BY <1>1, <2>2, <3>1 DEF Claims, PlanStartupCatchup
    <3>3. j \in DOMAIN jobs /\ Missed(j) /\ ~Excused(j)
      BY <3>2 DEF Skipped, Excused
    <3>4. jobs[j].enabled /\ ~jobs[j].running
      BY <3>3 DEF Missed
    <3>5. CASE Recurring(j)
      <4>1. Past(jobs[j]) \/ jobs[j].missed
        BY <3>3, <3>5 DEF Missed, Recurring, Past
      <4> QED
        BY <3>2, <3>3, <3>4, <3>5, <4>1 DEF OnceInv, MetOnce
    <3>6. CASE ~Recurring(j)
      BY <3>3, <3>6 DEF Missed, Recurring
    <3> QED
      BY <3>5, <3>6
  <2>3. CASE TickClaims
    <3>1. Claims({k \in DOMAIN jobs : Runnable(k)}) /\ timer
      BY <2>3 DEF TickClaims
    <3>2. j \in DOMAIN jobs /\ Runnable(j) /\ svc = "on"
      BY <1>1, <3>1 DEF Claims, CronInv, Phases
    <3>3. CASE Recurring(j)
      BY <3>2, <3>3 DEF OnceInv, MetOnce, Excused, Runnable
    <3>4. CASE ~Recurring(j)
      BY <3>2, <3>4 DEF CronInv, JobsInOrder, Orderly, Runnable, Past
    <3> QED
      BY <3>3, <3>4
  <2> QED
    BY <2>1, <2>2, <2>3
<1>2. ASSUME NEW m \in Manuals, manual[m].at = "inspected", manual'[m].at = "running",
             manual[m].job = j, ~manual[m].force
      PROVE  IF Recurring(j) THEN slot[j] # "met" ELSE jobs[j].ran # "ok" \/ jobs[j].missed
  <2>1. manual \in [Manuals -> ManualType] /\ svc = "on"
    BY <1>2 DEF CronInv, Phases
  <2>2. PrepareManualRun(m)
    <3>1. manual' # manual
      BY <1>2
    <3>2. ASSUME NEW n \in Manuals, manual' = Drops(n) \/ manual' = Goes(n, "inspected")
          PROVE  FALSE
      <4>1. manual'[n].at \in {"idle", "inspected"}
        <5>1. CASE manual' = Drops(n)
          BY <2>1, <5>1, NoManualType DEF Drops
        <5>2. CASE manual' = Goes(n, "inspected")
          BY <5>2, GoesEffect
        <5> QED
          BY <3>2, <5>1, <5>2
      <4>2. \A i \in Manuals \ {n} : manual'[i] = manual[i]
        BY <2>1, <3>2 DEF Drops, Goes
      <4> QED
        BY <1>2, <4>1, <4>2
    <3>3. ASSUME NEW n \in Manuals, n # m, \A k \in Manuals \ {n} : manual'[k] = manual[k]
          PROVE  FALSE
      BY <1>2, <3>3
    <3>4. ~(\E k \in Jobs : Edit(k) \/ TimePasses(k) \/ MarkerAges(k) \/ Runner(k))
      BY <3>1, EditFrame, RunnerEffect DEF TimePasses, MarkerAges
    <3>5. ~(Scheduler \/ TickBusy \/ List \/ UNCHANGED vars)
      BY <3>1 DEF Scheduler, Start, PlanStartupCatchup, ApplyStartupCatchup, FinishStart,
                  TickFindsNothing, TickClaims, TickApplies, TickEnds, TickBusy, List, vars
    <3>6. ~Crash
      BY <1>2, NoManualType DEF Crash
    <3>7. ASSUME NEW n \in Manuals, Inspect(n) PROVE FALSE
      BY <3>2, <3>7 DEF Inspect, Inspects
    <3>8. ASSUME NEW n \in Manuals, NEW k \in Jobs, NEW force \in BOOLEAN, EnqueueRun(n, k, force)
          PROVE  FALSE
      <4>1. /\ manual[n].at = "idle" /\ \A i \in Manuals \ {n} : manual'[i] = manual[i]
        BY <2>1, <3>8 DEF EnqueueRun, Inspects
      <4>2. n # m
        BY <1>2, <4>1
      <4> QED
        BY <3>3, <4>1, <4>2
    <3>9. ASSUME NEW n \in Manuals, ManualRunEnds(n) \/ FinishManualRun(n)
          PROVE  FALSE
      <4>1. /\ manual[n].at \in {"running", "ended"}
            /\ \A i \in Manuals \ {n} : manual'[i] = manual[i]
        BY <2>1, <3>9 DEF ManualRunEnds, FinishManualRun, Drops
      <4>2. n # m
        BY <1>2, <4>1
      <4> QED
        BY <3>3, <4>1, <4>2
    <3>10. ASSUME NEW n \in Manuals, PrepareManualRun(n) PROVE n = m
      <4>1. \A i \in Manuals \ {n} : manual'[i] = manual[i]
        BY <2>1, <3>10 DEF PrepareManualRun, Drops, Goes
      <4> QED
        BY <3>3, <4>1
    <3> QED
      BY <3>4, <3>5, <3>6, <3>7, <3>8, <3>9, <3>10 DEF Next, Manual
  <2>3. j \in DOMAIN jobs /\ ~jobs[j].running
    <3>1. manual' # Drops(m)
      BY <1>2, <2>1, NoManualType DEF Drops
    <3> QED
      BY <1>2, <2>2, <3>1 DEF PrepareManualRun, Reservable
  <2>4. Unclaimed(j)
    BY <1>2 DEF OnceInv, InspectedOwes, Asks
  <2> QED
    BY <2>3, <2>4 DEF Unclaimed
<1> QED
  BY <1>1, <1>2 DEF Claimed

\* NoRepeat: a slot is run at most once, by a tick, by the catch-up or by a manual run that
\* asks whether it is due, when the process crashes at most once; and no one-shot that has
\* succeeded is run again.  Excepted is a job that lost its marker during a run.
THEOREM NothingRunsTwice == MaxCrashes <= 1 => (Spec => NoRepeat)
<1> SUFFICES ASSUME MaxCrashes <= 1 PROVE Spec => NoRepeat
  OBVIOUS
<1>1. Init => OnceInv
  <2>1. \A j : NewJob(j).next = "future" /\ ~NewJob(j).missed /\ ~NewJob(j).running
    BY DEF NewJob
  <2> QED
    BY <2>1, NoManualType DEF Init, OnceInv, MetOnce, FirstStart, InspectedOwes, Asks, Past
<1>2. CronInv /\ OnceInv /\ [Next]_vars => OnceInv'
  BY OnceStep
<1>3. CronInv /\ OnceInv /\ [Next]_vars =>
        [\A j \in Jobs \ released : Claimed(j) =>
           IF Recurring(j) THEN slot[j] # "met" ELSE jobs[j].ran # "ok" \/ jobs[j].missed]_vars
  BY ClaimsOwed
<1> QED
  BY <1>1, <1>2, <1>3, CronInvariance, PTL DEF Spec, NoRepeat

=============================================================================
