---------------------------- MODULE DeliveryQueue ----------------------------
(***************************************************************************)
(* The write-ahead queue of outbound deliveries (infra/outbound/deliver.ts, *)
(* delivery-queue-storage.ts and delivery-queue-recovery.ts): a delivery is *)
(* a file <id>.json before its first payload is sent and until it has been *)
(* sent or given up; a scan at each start of the gateway replays what is    *)
(* left.  The scan runs beside live deliveries and does not know them.      *)
(*                                                                          *)
(* A worker is the live sender of a delivery or a scan.  Each action is the *)
(* code between two awaits; what a worker knows is lost in a crash, files   *)
(* are not.  Renames are atomic, so temporary files are left out.           *)
(***************************************************************************)
EXTENDS Integers, FiniteSets

CONSTANTS
  MaxDeliveries,  \* bound: deliveries made
  Parts,          \* payloads of a delivery: 1 .. Parts
  MaxRetries,     \* MAX_RETRIES
  MaxCrashes,     \* bound: crashes of the process
  Scans,          \* recovery scans that can run at once
  Modes,          \* Modes[d]: the kinds of delivery d may be, of ModeKinds
  Faults          \* of FaultKinds

ModeKinds == {"strict",      \* the first payload that fails ends the delivery
              "bestEffort",  \* it goes on, and the caller's onError notes it
              "quiet"}       \* it goes on, and the caller passed no onError

\* "unheard": a payload of a best-effort delivery fails when there is no
\* onError to note it.
FaultKinds == {"unheard"}

ASSUME DeliveryBounds == /\ MaxDeliveries \in Nat /\ Parts \in Nat \ {0}
                         /\ MaxRetries \in Nat \ {0} /\ MaxCrashes \in Nat
ASSUME ScansAssumption == "live" \notin Scans

Deliveries == 1 .. MaxDeliveries   \* in the order of enqueuedAt
Payloads == 1 .. Parts
ASSUME DeliveryKinds == Modes \in [Deliveries -> SUBSET ModeKinds] /\ Faults \subseteq FaultKinds

Workers == {"live"} \cup Scans

VARIABLES
  json,       \* deliveries with a file <id>.json
  retry,      \* retry[d]: the retryCount in it, at most MaxRetries, 0 without a file
  marker,     \* deliveries with a file <id>.delivered
  failedDir,  \* deliveries with a file failed/<id>.json
  op,         \* op[w][d]: what worker w does with delivery d
  scan,       \* scan[s]: the state of a recovery scan
  mode,       \* mode[d], "new" before the delivery is made
  sent,       \* sent[d]: payloads the channel has taken (history)
  accepted,   \* deliveries that were persisted (history)
  aborted,    \* deliveries aborted by their caller (history)
  settled,    \* deliveries acked while no other worker held them (history)
  crashes     \* crashes so far

vars == <<json, retry, marker, failedDir, op, scan, mode, sent, accepted,
          aborted, settled, crashes>>
files == <<json, retry, marker, failedDir>>
history == <<accepted, aborted, settled>>

Sends(part, partial) == [at |-> "sending", part |-> part, partial |-> partial, read |-> 0]
At(at) == [at |-> at, part |-> 1, partial |-> FALSE, read |-> 0]
Writes(n) == [at |-> "writing", part |-> 1, partial |-> FALSE, read |-> n]
Nothing == At("none")
Off == [at |-> "off", list |-> {}, entries |-> {}, slow |-> FALSE]

Init ==
  /\ json = {} /\ marker = {} /\ failedDir = {}
  /\ retry = [d \in Deliveries |-> 0]
  /\ op = [w \in Workers |-> [d \in Deliveries |-> Nothing]]
  /\ scan = [s \in Scans |-> Off]
  /\ mode = [d \in Deliveries |-> "new"]
  /\ sent = [d \in Deliveries |-> {}]
  /\ accepted = {} /\ aborted = {} /\ settled = {}
  /\ crashes = 0

\* Worker w goes on to `at` with delivery d.
Goes(w, d, at) == op' = [op EXCEPT ![w][d] = At(at)]
Stops(w, d) == op' = [op EXCEPT ![w][d] = Nothing]

-----------------------------------------------------------------------------
(* deliverOutboundPayloads                                                 *)

\* The delivery is persisted before its first payload is sent; a failure to
\* write the file does not stop it.
Deliver(d, m) ==
  /\ mode[d] = "new"
  /\ \A e \in Deliveries : e < d => mode[e] # "new"
  /\ mode' = [mode EXCEPT ![d] = m]
  /\ op' = [op EXCEPT !["live"][d] = Sends(1, FALSE)]
  /\ \/ json' = json \cup {d} /\ accepted' = accepted \cup {d}
     \/ UNCHANGED <<json, accepted>>
  /\ UNCHANGED <<retry, marker, failedDir, scan, sent, aborted, settled, crashes>>

\* A delivery without a file has no bookkeeping.
BookAlways(w, d, at) == Goes(w, d, at)
Book(w, d, at) == IF d \in accepted THEN Goes(w, d, at) ELSE Stops(w, d)

AlwaysAck(w, d, partial) == Book(w, d, "acking")
AfterLast(w, d, partial) == Book(w, d, IF partial THEN "failing" ELSE "acking")

\* On to the next payload, or to the bookkeeping after the last one.
Advance(w, d, partial) ==
  IF op[w][d].part < Parts
  THEN op' = [op EXCEPT ![w][d] = Sends(@.part + 1, partial)]
  ELSE AfterLast(w, d, partial)

PartSent(w, d) ==
  /\ op[w][d].at = "sending"
  /\ sent' = [sent EXCEPT ![d] = @ \cup {op[w][d].part}]
  /\ Advance(w, d, op[w][d].partial)
  /\ UNCHANGED <<files, scan, mode, history, crashes>>

\* onError is the live caller's; a scan passes none.
Heard(w, d) == w = "live" /\ mode[d] = "bestEffort"

PartFails(w, d) ==
  /\ op[w][d].at = "sending"
  /\ mode[d] # "strict"
  /\ Heard(w, d) \/ "unheard" \in Faults
  /\ Advance(w, d, op[w][d].partial \/ Heard(w, d))
  /\ UNCHANGED <<files, scan, mode, sent, history, crashes>>

\* The delivery throws: a payload fails, or the channel's handler cannot be
\* made.  A scan gives up on a permanent error.
SendFails(w, d) ==
  /\ op[w][d].at = "sending"
  /\ mode[d] = "strict" \/ op[w][d].part = 1
  /\ \/ Book(w, d, "failing")
     \/ w \in Scans /\ Goes(w, d, "moving")
  /\ UNCHANGED <<files, scan, mode, sent, history, crashes>>

\* The caller's abort signal, seen before a payload.
Abort(d) ==
  /\ op["live"][d].at = "sending"
  /\ mode[d] = "strict"
  /\ Book("live", d, "acking")
  /\ aborted' = aborted \cup {d}
  /\ UNCHANGED <<files, scan, mode, sent, accepted, settled, crashes>>

-----------------------------------------------------------------------------
(* ackDelivery, failDelivery and moveToFailed                              *)

Settles(w, d) ==
  /\ d \in json
  /\ \A v \in Workers \ {w} : op[v][d].at = "none"
  /\ \A s \in Scans : \A e \in scan[s].entries : e.d # d

\* The file of d leaves the queue directory.
Unqueue(d) == json' = json \ {d} /\ retry' = [retry EXCEPT ![d] = 0]

\* Phase 1, the atomic rename; a file that is gone already is no error.
AckByCopy(w, d) ==
  /\ op[w][d].at = "acking"
  /\ marker' = IF d \in json THEN marker \cup {d} ELSE marker
  /\ settled' = IF Settles(w, d) THEN settled \cup {d} ELSE settled
  /\ Goes(w, d, "unlinking")
  /\ UNCHANGED <<json, retry, failedDir, scan, mode, sent, accepted, aborted, crashes>>

AckRename(w, d) ==
  /\ op[w][d].at = "acking"
  /\ Unqueue(d)
  /\ marker' = IF d \in json THEN marker \cup {d} ELSE marker
  /\ settled' = IF Settles(w, d) THEN settled \cup {d} ELSE settled
  /\ Goes(w, d, "unlinking")
  /\ UNCHANGED <<failedDir, scan, mode, sent, accepted, aborted, crashes>>

\* Phase 2
AckUnlink(w, d) ==
  /\ op[w][d].at = "unlinking"
  /\ marker' = marker \ {d}
  /\ Stops(w, d)
  /\ UNCHANGED <<json, retry, failedDir, scan, mode, sent, history, crashes>>

\* failDelivery reads the file, and fails if it is gone ...
FailRead(w, d) ==
  /\ op[w][d].at = "failing"
  /\ IF d \in json
     THEN op' = [op EXCEPT ![w][d] = Writes(retry[d])]
     ELSE Stops(w, d)
  /\ UNCHANGED <<files, scan, mode, sent, history, crashes>>

\* ... and writes it with a higher retryCount, whatever became of it meanwhile.
Uncounted(n) == n
Counted(n) == IF n < MaxRetries THEN n + 1 ELSE n

FailWrite(w, d) ==
  /\ op[w][d].at = "writing"
  /\ json' = json \cup {d}
  /\ retry' = [retry EXCEPT ![d] = Counted(op[w][d].read)]
  /\ Stops(w, d)
  /\ UNCHANGED <<marker, failedDir, scan, mode, sent, history, crashes>>

MoveToFailed(w, d) ==
  /\ op[w][d].at = "moving"
  /\ Unqueue(d)
  /\ failedDir' = IF d \in json THEN failedDir \cup {d} ELSE failedDir
  /\ Stops(w, d)
  /\ UNCHANGED <<marker, scan, mode, sent, history, crashes>>

Worker(w, d) ==
  \/ PartSent(w, d) \/ PartFails(w, d) \/ SendFails(w, d)
  \/ AckRename(w, d) \/ AckUnlink(w, d)
  \/ FailRead(w, d) \/ FailWrite(w, d) \/ MoveToFailed(w, d)

-----------------------------------------------------------------------------
(* recoverPendingDeliveries, once per start of the gateway in this process  *)
(* or the next                                                              *)

Idle(s) == \A d \in Deliveries : op[s][d].at = "none"

\* readdir; markers that a crash left are removed.
List(s) == [Off EXCEPT !.at = "reading", !.list = json]

StartScan(s) ==
  /\ scan[s].at = "off"
  /\ scan' = [scan EXCEPT ![s] = List(s)]
  /\ marker' = {}
  /\ UNCHANGED <<json, retry, failedDir, op, mode, sent, history, crashes>>

\* One listed file is read, or skipped if it is gone.
ReadEntry(s, d) ==
  /\ scan[s].at = "reading"
  /\ d \in scan[s].list
  /\ scan' = [scan EXCEPT ![s].list = @ \ {d},
                          ![s].entries = IF d \in json
                                         THEN @ \cup {[d |-> d, retry |-> retry[d]]}
                                         ELSE @]
  /\ UNCHANGED <<files, op, mode, sent, history, crashes>>

AllRead(s) ==
  /\ scan[s].at = "reading"
  /\ scan[s].list = {}
  /\ scan' = [scan EXCEPT ![s].at = "running"]
  /\ UNCHANGED <<files, op, mode, sent, history, crashes>>

\* The oldest entry left.
IsNext(s, e) ==
  /\ scan[s].at = "running"
  /\ Idle(s)
  /\ e \in scan[s].entries
  /\ \A f \in scan[s].entries : e.d <= f.d

Taken(s, e) == [scan EXCEPT ![s].entries = @ \ {e}, ![s].slow = TRUE]

GiveUp(s, e) ==
  /\ IsNext(s, e)
  /\ e.retry >= MaxRetries
  /\ scan' = Taken(s, e)
  /\ Goes(s, e.d, "moving")
  /\ UNCHANGED <<files, mode, sent, history, crashes>>

Retry(s, e) ==
  /\ IsNext(s, e)
  /\ e.retry < MaxRetries
  /\ scan' = Taken(s, e)
  /\ op' = [op EXCEPT ![s][e.d] = Sends(1, FALSE)]
  /\ UNCHANGED <<files, mode, sent, history, crashes>>

\* The backoff of an entry that has failed before is not over.
BackoffSkip(s, e) ==
  /\ IsNext(s, e)
  /\ 0 < e.retry /\ e.retry < MaxRetries
  /\ scan' = [scan EXCEPT ![s].entries = @ \ {e}]
  /\ UNCHANGED <<files, op, mode, sent, history, crashes>>

\* The time budget, which only work on earlier entries can use up, is spent:
\* all entries left count as failed.
OutOfTime(s) ==
  /\ \E e \in scan[s].entries : IsNext(s, e)
  /\ scan[s].slow
  /\ op' = [op EXCEPT ![s] = [d \in Deliveries |->
              IF \E e \in scan[s].entries : e.d = d
              THEN At("failing") ELSE @[d]]]
  /\ scan' = [scan EXCEPT ![s].entries = {}]
  /\ UNCHANGED <<files, mode, sent, history, crashes>>

ScanEnds(s) ==
  /\ scan[s].at = "running"
  /\ scan[s].entries = {}
  /\ Idle(s)
  /\ scan' = [scan EXCEPT ![s] = Off]
  /\ UNCHANGED <<files, op, mode, sent, history, crashes>>

-----------------------------------------------------------------------------
Crash ==
  /\ crashes < MaxCrashes
  /\ crashes' = crashes + 1
  /\ op' = [w \in Workers |-> [d \in Deliveries |-> Nothing]]
  /\ scan' = [s \in Scans |-> Off]
  /\ UNCHANGED <<files, mode, sent, history>>

Entries == [d : Deliveries, retry : 0 .. MaxRetries]

Scanner(s) ==
  \/ StartScan(s)
  \/ \E d \in Deliveries : ReadEntry(s, d)
  \/ AllRead(s)
  \/ \E e \in Entries : GiveUp(s, e) \/ Retry(s, e) \/ BackoffSkip(s, e)
  \/ OutOfTime(s)
  \/ ScanEnds(s)

Next ==
  \/ \E d \in Deliveries : \E m \in Modes[d] : Deliver(d, m)
  \/ \E w \in Workers, d \in Deliveries : Worker(w, d)
  \/ \E d \in Deliveries : Abort(d)
  \/ \E s \in Scans : Scanner(s)
  \/ Crash

Spec == Init /\ [][Next]_vars

(* A send is answered and a file operation ends; the gateway is started     *)
(* again and again, and not always before a backoff is over.                *)
Fairness ==
  /\ \A w \in Workers, d \in Deliveries : WF_vars(Worker(w, d))
  /\ \A s \in Scans : WF_vars(Scanner(s))
  /\ \A s \in Scans, d \in Deliveries :
        SF_vars(\E e \in Entries : e.d = d /\ (Retry(s, e) \/ GiveUp(s, e)))

FairSpec == Spec /\ Fairness

-----------------------------------------------------------------------------
(* Properties                                                              *)

Holds(s, d) == op[s][d].at # "none" \/ \E e \in scan[s].entries : e.d = d

OpType == [at : {"none", "sending", "acking", "unlinking", "failing", "writing", "moving"},
           part : Payloads, partial : BOOLEAN, read : 0 .. MaxRetries]

ScanType == [at : {"off", "reading", "running"}, list : SUBSET Deliveries,
             entries : SUBSET Entries, slow : BOOLEAN]

\* Types; only a persisted delivery has a file, bookkeeping or a place in a scan.
DeliveryTypeOK ==
  /\ json \cup marker \cup failedDir \cup settled \subseteq accepted
  /\ accepted \subseteq {d \in Deliveries : mode[d] # "new"}
  /\ retry \in [Deliveries -> 0 .. MaxRetries]
  /\ op \in [Workers -> [Deliveries -> OpType]]
  /\ scan \in [Scans -> ScanType]
  /\ \A s \in Scans, d \in Deliveries : Holds(s, d) => d \in accepted
  /\ \A d \in Deliveries : op["live"][d].at \notin {"none", "sending"} => d \in accepted
  /\ mode \in [Deliveries -> ModeKinds \cup {"new"}]
  /\ sent \in [Deliveries -> SUBSET Payloads]
  /\ aborted \subseteq Deliveries
  /\ crashes \in 0 .. MaxCrashes

\* A delivery that was persisted is queued or in failed/ until every payload of
\* it has been sent, over crashes, failures, scans beside live senders, and
\* workers that rewrite, rename and move the same file.
Outbox ==
  \A d \in accepted :
    d \in json \cup failedDir \/ sent[d] = Payloads \/ d \in aborted

\* A delivery that was acked while nobody else held it is never sent again, also
\* when the process dies between the two phases of the ack.
NoReplay ==
  [][\A w \in Workers, d \in Deliveries :
       op[w][d].at # "sending" /\ op'[w][d].at = "sending" => d \notin settled]_vars

\* A queued delivery leaves the queue, if the gateway is started again and again:
\* neither backoff nor the time budget nor its own failures keep it for ever.
QueueEmpties == \A d \in Deliveries : d \in json ~> d \notin json

=============================================================================
