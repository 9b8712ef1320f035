--------------------------- MODULE ChannelManager ---------------------------
(***************************************************************************)
(* The channel manager for one account of a channel                        *)
(* (gateway/server-channels.ts), with the health monitor that restarts     *)
(* accounts through it (gateway/channel-health-monitor.ts), the hot reload *)
(* of the configuration, and the requests of a user.                       *)
(*                                                                         *)
(* A start has an abort controller and, once it has booted, a tracked      *)
(* task: the connector's run, the backoff after it and the automatic       *)
(* restart.  The manager's maps hold the start that is current, 0 if none. *)
(* A step ends at an await; the continuation of a promise that has settled *)
(* runs before any other event.                                            *)
(***************************************************************************)
EXTENDS Integers

CONSTANTS MaxStarts,     \* bound: starts that are in use at a time
          MaxAttempts,   \* MAX_RESTART_ATTEMPTS
          Races          \* of RaceKinds

RaceKinds == {"overlap"}   \* a start gets past a stop whose hook is at work

ASSUME StartsAssumption == MaxStarts \in Nat \ {0} /\ MaxAttempts \in Nat
ASSUME ChannelRacesAssumption == Races \subseteq RaceKinds

Starts == 1 .. MaxStarts

\* Who stops the account.  The reload and the monitor start it again.
Stoppers == {"user", "reload", "monitor"}

Usabilities == {"yes", "disabled", "unconfigured"}

VARIABLES
  hook,       \* the plugin has a stopAccount
  usable,     \* what the configuration says of the account
  at,         \* at[n]: "over" (or not made), "booting", "unfit" (booting with a
              \* configuration that will not do), "running", "backoff"
  auto,       \* auto[n]: n is an automatic restart
  aborted,    \* starts whose abort signal has fired
  task,       \* store.tasks
  abort,      \* store.aborts
  starting,   \* store.starting
  manual,     \* manuallyStopped
  attempts,   \* restartAttempts
  status,     \* the running flag of the runtime snapshot
  stopAt,     \* stopAt[w]: "idle", "hook", "waiting" (for the task), and then
              \* "starting" or "loggingOut"
  stopTask,   \* stopTask[w]: the task that w's stop awaits
  wanted      \* history: "running", "stopped" by the user, "contested" (the stop
              \* met an explicit boot or a restart of the monitor, or the start
              \* joined a boot that a stop had aborted), or "failed" (the hook of a
              \* stop rejected, and no start has taken effect since)

records == <<task, abort, starting>>
memory == <<manual, attempts, status>>
stops == <<stopAt, stopTask>>
vars == <<hook, usable, at, auto, aborted, records, memory, stops, wanted>>

Init ==
  /\ hook \in BOOLEAN
  /\ usable \in Usabilities
  /\ at = [n \in Starts |-> "over"]
  /\ auto = [n \in Starts |-> FALSE]
  /\ aborted = {}
  /\ task = 0 /\ abort = 0 /\ starting = 0
  /\ manual = FALSE /\ attempts = 0 /\ status = FALSE
  /\ stopAt = [w \in Stoppers |-> "idle"]
  /\ stopTask = [w \in Stoppers |-> 0]
  /\ wanted = "running"

InStop(w) == stopAt[w] \in {"hook", "waiting"}

-----------------------------------------------------------------------------
(* startChannelInternal.                                                   *)

\* The least number no task or stop refers to.
Fresh(stages) == {n \in Starts : stages[n] = "over" /\ \A w \in Stoppers : stopTask[w] # n}
Least(n, S) == n \in S /\ \A m \in S : n <= m

\* A start makes the records its own before the first await.  It boots with the
\* configuration it has read, whatever a reload makes of it meanwhile.
Records(stages, isAuto) ==
  /\ \E n \in Starts :
       /\ Least(n, Fresh(stages))
       /\ at' = [stages EXCEPT ![n] = IF usable = "yes" THEN "booting" ELSE "unfit"]
       /\ auto' = [auto EXCEPT ![n] = isAuto]
       /\ task' = 0 /\ abort' = n /\ starting' = n
  /\ UNCHANGED status

StartIgnoringBoots(stages, t, a, isAuto) ==
  t = 0 /\ usable # "disabled" /\ Records(stages, isAuto)

Reserve(stages, t, a, isAuto) ==
  /\ t = 0 /\ starting = 0 /\ usable # "disabled"
  /\ "overlap" \in Races \/ \A w \in Stoppers : ~InStop(w)
  /\ Records(stages, isAuto)

\* A task is known, a boot is under way (which the call awaits), or the account
\* is disabled.
NoReserve(stages, t, a) ==
  /\ t # 0 \/ starting # 0 \/ usable = "disabled"
  /\ at' = stages /\ task' = t
  /\ IF t # 0 \/ starting # 0
     THEN abort' = a /\ UNCHANGED status
     ELSE abort' = 0 /\ status' = FALSE
  /\ UNCHANGED <<auto, starting>>

\* The call, in a handler that has left the starts and records so.
StartCall(stages, t, a, isAuto) ==
  Reserve(stages, t, a, isAuto) \/ NoReserve(stages, t, a)

Unless(n, record) == IF record = n THEN 0 ELSE record

\* The start ends without a task, or its task ends: what is still its own is
\* forgotten.
Over(n) ==
  /\ at' = [at EXCEPT ![n] = "over"]
  /\ aborted' = aborted \ {n}
  /\ task' = Unless(n, task) /\ abort' = Unless(n, abort) /\ starting' = Unless(n, starting)

Unconfigured(n) ==
  /\ at[n] = "unfit"
  /\ Over(n)
  /\ status' = FALSE
  /\ UNCHANGED <<hook, usable, auto, manual, attempts, stops, wanted>>

ManualAlwaysLifted(n) == FALSE

\* An explicit start lifts a manual stop, even if it then finds itself aborted.
ManualAtBoot(n) == auto[n] /\ manual

BootEnds(n) ==
  LET cancelled == n \in aborted \/ ManualAtBoot(n)
  IN  /\ at[n] = "booting"
      /\ manual' = ManualAtBoot(n)
      /\ status' = ~cancelled
      /\ attempts' = IF cancelled \/ auto[n] THEN attempts ELSE 0
      /\ IF cancelled
         THEN Over(n)
         ELSE /\ at' = [at EXCEPT ![n] = "running"]
              /\ task' = n /\ starting' = Unless(n, starting)
              /\ UNCHANGED <<aborted, abort>>
      /\ UNCHANGED <<hook, usable, auto, stops, wanted>>

(* The connector's task settles, by itself or because it was aborted.      *)

GiveUpLate(n) ==
  /\ at[n] = "running" /\ ~manual /\ attempts >= MaxAttempts
  /\ attempts' = attempts + 1
  /\ status' = FALSE
  /\ IF attempts = MaxAttempts
     THEN at' = [at EXCEPT ![n] = "backoff"] /\ UNCHANGED <<aborted, records>>
     ELSE Over(n)
  /\ UNCHANGED <<hook, usable, auto, manual, stops, wanted>>

GiveUpKeepingRecord(n) ==
  /\ at[n] = "running" /\ ~manual /\ attempts >= MaxAttempts
  /\ attempts' = attempts + 1
  /\ status' = FALSE
  /\ at' = [at EXCEPT ![n] = "over"]
  /\ UNCHANGED <<hook, usable, auto, aborted, records, manual, stops, wanted>>

GiveUp(n) ==
  /\ at[n] = "running" /\ ~manual /\ attempts >= MaxAttempts
  /\ attempts' = attempts + 1
  /\ status' = FALSE
  /\ Over(n)
  /\ UNCHANGED <<hook, usable, auto, manual, stops, wanted>>

StoppedExit(n) ==
  /\ at[n] = "running" /\ manual
  /\ status' = FALSE
  /\ Over(n)
  /\ UNCHANGED <<hook, usable, auto, manual, attempts, stops, wanted>>

BackOff(n) ==
  /\ at[n] = "running" /\ ~manual /\ attempts < MaxAttempts
  /\ attempts' = attempts + 1
  /\ status' = FALSE
  /\ at' = [at EXCEPT ![n] = "backoff"]
  /\ UNCHANGED <<hook, usable, auto, aborted, records, manual, stops, wanted>>

TaskExits(n) == StoppedExit(n) \/ GiveUp(n) \/ BackOff(n)

\* sleepWithAbort rejects.
BackoffAborted(n) ==
  /\ at[n] = "backoff" /\ n \in aborted
  /\ Over(n)
  /\ UNCHANGED <<hook, usable, auto, memory, stops, wanted>>

\* The delay is over: the records are given up and the account is started.
Restart(n) ==
  /\ at[n] = "backoff" /\ n \notin aborted
  /\ IF manual
     THEN Over(n) /\ UNCHANGED <<auto, status>>
     ELSE /\ StartCall([at EXCEPT ![n] = "over"], Unless(n, task), Unless(n, abort), TRUE)
          /\ UNCHANGED aborted
  /\ UNCHANGED <<hook, usable, manual, attempts, stops, wanted>>

Start(n) ==
  \/ Unconfigured(n) \/ BootEnds(n)
  \/ TaskExits(n)
  \/ BackoffAborted(n) \/ Restart(n)

-----------------------------------------------------------------------------
(* stopChannel.                                                            *)

CanStop == hook \/ task # 0 \/ abort # 0

\* An account with no record and no hook is left alone.
BeginStop(w) ==
  /\ CanStop
  /\ manual' = TRUE
  /\ aborted' = IF abort = 0 THEN aborted ELSE aborted \cup {abort}
  /\ stopAt' = [stopAt EXCEPT ![w] = IF hook THEN "hook" ELSE "waiting"]
  /\ stopTask' = [stopTask EXCEPT ![w] = task]

HookEnds(w) ==
  /\ stopAt[w] = "hook"
  /\ stopAt' = [stopAt EXCEPT ![w] = "waiting"]
  /\ UNCHANGED <<hook, usable, at, auto, aborted, records, memory, stopTask, wanted>>

\* stopAccount rejects: the stop is abandoned with its mark set and its records
\* kept, and with it the start or the logout that was to follow.
HookFails(w) ==
  /\ stopAt[w] = "hook"
  /\ stopAt' = [stopAt EXCEPT ![w] = "idle"]
  /\ stopTask' = [stopTask EXCEPT ![w] = 0]
  /\ wanted' = IF w # "user" /\ wanted = "stopped" THEN wanted ELSE "failed"
  /\ UNCHANGED <<hook, usable, at, auto, aborted, records, memory>>

\* The task the stop found has settled: the records are deleted, whosever they
\* are.  A user's stop may be part of a logout.
StopEnds(w) ==
  /\ stopAt[w] = "waiting"
  /\ stopTask[w] # 0 => at[stopTask[w]] = "over"
  /\ task' = 0 /\ abort' = 0
  /\ status' = FALSE
  /\ stopTask' = [stopTask EXCEPT ![w] = 0]
  /\ \E next \in IF w = "user" THEN {"idle", "loggingOut"} ELSE {"starting"} :
        stopAt' = [stopAt EXCEPT ![w] = next]
  /\ UNCHANGED <<hook, usable, at, auto, aborted, starting, manual, attempts, wanted>>

\* markChannelLoggedOut, when logoutAccount has answered.
LoggedOut ==
  /\ stopAt["user"] = "loggingOut"
  /\ status' = FALSE
  /\ stopAt' = [stopAt EXCEPT !["user"] = "idle"]
  /\ UNCHANGED <<hook, usable, at, auto, aborted, records, manual, attempts, stopTask, wanted>>

-----------------------------------------------------------------------------
(* The user, by a request of a client.                                     *)

Contested ==
  \/ starting # 0 /\ ~auto[starting]
  \/ stopAt["monitor"] # "idle"

UserStops ==
  /\ stopAt["user"] = "idle"
  /\ BeginStop("user")
  /\ wanted' = IF Contested THEN "contested" ELSE "stopped"
  /\ UNCHANGED <<hook, usable, at, auto, records, attempts, status>>

\* The call awaits the boot under way, and is lost if that boot is aborted.  It
\* does nothing while a task is known, also one that a stop which failed has
\* aborted.
AfterStart ==
  CASE starting \in aborted                     -> "contested"
    [] wanted = "failed" /\ task \in aborted -> "failed"
    [] OTHER                                    -> "running"

UserStarts ==
  /\ stopAt["user"] = "idle"
  /\ StartCall(at, task, abort, FALSE)
  /\ wanted' = AfterStart
  /\ UNCHANGED <<hook, usable, aborted, manual, attempts, stops>>

(* The hot reload of a configuration that changes the channel.             *)

ReloadStops ==
  /\ stopAt["reload"] = "idle"
  /\ usable' \in Usabilities
  /\ IF CanStop
     THEN BeginStop("reload")
     ELSE stopAt' = [stopAt EXCEPT !["reload"] = "starting"] /\ UNCHANGED <<manual, aborted, stopTask>>
  /\ UNCHANGED <<hook, at, auto, records, attempts, status, wanted>>

ReloadStarts ==
  /\ stopAt["reload"] = "starting"
  /\ StartCall(at, task, abort, FALSE)
  /\ wanted' = IF InStop("user") THEN wanted ELSE AfterStart
  /\ stopAt' = [stopAt EXCEPT !["reload"] = "idle"]
  /\ UNCHANGED <<hook, usable, aborted, manual, attempts, stopTask>>

(* The health monitor: it leaves alone what a user stopped, and restarts   *)
(* what does not run or is judged stuck.                                   *)

MonitorLooks == stopAt["monitor"] = "idle" /\ usable = "yes" /\ ~manual

MonitorFindsDown ==
  /\ MonitorLooks /\ ~status
  /\ attempts' = 0
  /\ StartCall(at, task, abort, FALSE)
  /\ UNCHANGED <<hook, usable, aborted, manual, stops, wanted>>

MonitorFindsStuck ==
  /\ MonitorLooks /\ status
  /\ IF CanStop
     THEN BeginStop("monitor")
     ELSE stopAt' = [stopAt EXCEPT !["monitor"] = "starting"] /\ UNCHANGED <<manual, aborted, stopTask>>
  /\ UNCHANGED <<hook, usable, at, auto, records, attempts, status, wanted>>

MonitorStarts ==
  /\ stopAt["monitor"] = "starting"
  /\ attempts' = 0
  /\ StartCall(at, task, abort, FALSE)
  /\ stopAt' = [stopAt EXCEPT !["monitor"] = "idle"]
  /\ UNCHANGED <<hook, usable, aborted, manual, stopTask, wanted>>

Monitor == MonitorFindsDown \/ MonitorStarts

Next ==
  \/ \E n \in Starts : Start(n)
  \/ \E w \in Stoppers : HookEnds(w) \/ HookFails(w) \/ StopEnds(w)
  \/ LoggedOut
  \/ UserStops \/ UserStarts
  \/ ReloadStops \/ ReloadStarts
  \/ MonitorFindsStuck \/ Monitor

Spec == Init /\ [][Next]_vars

(* A boot, a delay and a hook end or fail, an aborted connector settles, a reload  *)
(* and a logout go on, and the monitor checks at its interval.  No task    *)
(* ends by itself, nobody has to start or stop anything.                   *)
Fairness ==
  /\ \A n \in Starts :
       /\ WF_vars(Unconfigured(n) \/ BootEnds(n))
       /\ WF_vars(BackoffAborted(n) \/ Restart(n))
       /\ WF_vars(n \in aborted /\ TaskExits(n))
  /\ \A w \in Stoppers : WF_vars(HookEnds(w) \/ HookFails(w)) /\ WF_vars(StopEnds(w))
  /\ WF_vars(LoggedOut) /\ WF_vars(ReloadStarts) /\ WF_vars(Monitor)

FairSpec == Spec /\ Fairness

-----------------------------------------------------------------------------
(* Properties                                                              *)

\* Types; a start in use that is not booting has been recorded with its abort
\* signal, and only starts in use are recorded.
ChannelTypeOK ==
  /\ hook \in BOOLEAN /\ usable \in Usabilities
  /\ at \in [Starts -> {"over", "booting", "unfit", "running", "backoff"}]
  /\ auto \in [Starts -> BOOLEAN]
  /\ aborted \subseteq Starts
  /\ {task, abort, starting} \subseteq 0 .. MaxStarts
  /\ manual \in BOOLEAN /\ attempts \in 0 .. MaxAttempts + 1 /\ status \in BOOLEAN
  /\ stopAt \in [Stoppers -> {"idle", "hook", "waiting", "starting", "loggingOut"}]
  /\ stopTask \in [Stoppers -> 0 .. MaxStarts]
  /\ wanted \in {"running", "stopped", "contested", "failed"}

\* Every connector that runs is the one on record, with its abort signal: no
\* account runs twice, and a stop reaches whatever runs.  Boots, stops, backoffs
\* and restarts of several callers may have overlapped before, but for a start
\* that gets past a stop whose hook is at work (the race "overlap").
RunningIsRecorded ==
  \A n \in Starts : at[n] = "running" => task = n /\ abort = n

\* A user's stop that meets neither a boot of an explicit start nor a restart by
\* the monitor, and whose hook does not reject, leaves the account down until a
\* user or a reload starts it: no backoff or automatic boot begun before the stop,
\* and no health check made after it, revives it.
StopSticks ==
  wanted = "stopped" /\ ~InStop("user") => \A n \in Starts : at[n] # "running"

\* The same of a stop that meets a boot or the monitor's restart.  The code
\* revives the account after some of these.
EveryStopSticks ==
  wanted \in {"stopped", "contested"} /\ ~InStop("user") => \A n \in Starts : at[n] # "running"

Down ==
  /\ wanted = "running" /\ usable = "yes" /\ stopAt["reload"] = "idle"
  /\ \A n \in Starts : at[n] # "running"

\* An account that should run comes up again, after crashes, failed restarts,
\* giving up, and a boot that a reload cut short; or it is stopped, or another
\* reload begins.  Not after a stop whose hook rejects: the mark it leaves keeps
\* the monitor away until somebody starts the account ("failed").
ComesUp == Down ~> ~Down

=============================================================================
