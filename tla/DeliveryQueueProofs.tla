------------------------ MODULE DeliveryQueueProofs ------------------------
(* Theorems about the outbound delivery queue: for any number of deliveries, *)
(* payloads, retries, crashes and scans, nothing persisted is lost and       *)
(* nothing settled is sent again.                                            *)
EXTENDS DeliveryQueue, TLAPS

Ops == [Workers -> [Deliveries -> OpType]]

USE DeliveryBounds, ScansAssumption DEF DeliveryBounds, ScansAssumption

\* The records the actions write are operation records.
LEMMA Records ==
  /\ \A at \in {"none", "sending", "acking", "unlinking", "failing", "writing", "moving"} :
        At(at) \in OpType /\ At(at).at = at
  /\ \A part \in Payloads, partial \in BOOLEAN :
        LET r == Sends(part, partial)
        IN  r \in OpType /\ r.at = "sending" /\ r.part = part /\ r.partial = partial
  /\ \A n \in 0 .. MaxRetries : Writes(n) \in OpType /\ Writes(n).at = "writing"
<1>1. 1 \in Payloads /\ 0 \in 0 .. MaxRetries
  BY DEF Payloads
<1> QED
  BY <1>1 DEF At, Sends, Writes, OpType

-----------------------------------------------------------------------------
(* What the bookkeeping and the sending make of an operation.              *)

Steps == {"sending", "acking", "unlinking", "failing", "writing", "moving"}

\* A worker that goes on has the record of its next step, one that stops none.
LEMMA GoesOp ==
  ASSUME op \in Ops, NEW w \in Workers, NEW d \in Deliveries, NEW at \in Steps
  PROVE  /\ Goes(w, d, at) => \E r \in OpType : r.at = at /\ op' = [op EXCEPT ![w][d] = r]
         /\ Stops(w, d) => \E r \in OpType : r.at = "none" /\ op' = [op EXCEPT ![w][d] = r]
  BY Records DEF Goes, Stops, Nothing, Steps

\* Only a delivery that was persisted has bookkeeping.
LEMMA BookOp ==
  ASSUME op \in Ops, NEW w \in Workers, NEW d \in Deliveries, NEW at \in Steps,
         Book(w, d, at)
  PROVE  \E r \in OpType : /\ op' = [op EXCEPT ![w][d] = r]
                           /\ r.at = "none" \/ (r.at = at /\ d \in accepted)
  BY GoesOp DEF Book

\* A sender goes on to the next payload, or after the last one to an ack if no
\* payload failed and to a failure otherwise.
LEMMA AdvanceOp ==
  ASSUME op \in Ops, NEW w \in Workers, NEW d \in Deliveries, NEW partial \in BOOLEAN,
         op[w][d].at = "sending", Advance(w, d, partial)
  PROVE  \E r \in OpType :
           /\ op' = [op EXCEPT ![w][d] = r]
           /\ \/ /\ r.at = "sending"
                 /\ r.part = op[w][d].part + 1
                 /\ r.partial = partial
              \/ r.at = "failing" /\ d \in accepted
              \/ r.at = "acking" /\ d \in accepted /\ ~partial /\ op[w][d].part = Parts
              \/ r.at = "none"
<1>1. op[w][d] \in OpType /\ op[w] \in [Deliveries -> OpType]
  BY DEF Ops
<1>2. CASE op[w][d].part < Parts
  <2>1. op[w][d].part + 1 \in Payloads
    BY <1>1, <1>2 DEF OpType, Payloads
  <2>2. op' = [op EXCEPT ![w][d] = Sends(op[w][d].part + 1, partial)]
    BY <1>1, <1>2 DEF Advance, Ops
  <2>3. /\ Sends(op[w][d].part + 1, partial) \in OpType
        /\ Sends(op[w][d].part + 1, partial).at = "sending"
        /\ Sends(op[w][d].part + 1, partial).part = op[w][d].part + 1
        /\ Sends(op[w][d].part + 1, partial).partial = partial
    BY <2>1, Records
  <2> QED
    BY <2>2, <2>3
<1>3. CASE ~(op[w][d].part < Parts)
  <2>1. op[w][d].part = Parts
    BY <1>1, <1>3 DEF OpType, Payloads
  <2>2. Book(w, d, IF partial THEN "failing" ELSE "acking")
    BY <1>3 DEF Advance, AfterLast
  <2>3. CASE partial
    <3>1. Book(w, d, "failing")
      BY <2>2, <2>3
    <3> QED
      BY <3>1, BookOp DEF Steps
  <2>4. CASE ~partial
    <3>1. Book(w, d, "acking")
      BY <2>2, <2>4
    <3> QED
      BY <2>1, <2>4, <3>1, BookOp DEF Steps
  <2> QED
    BY <2>3, <2>4
<1> QED
  BY <1>2, <1>3

-----------------------------------------------------------------------------
(* Types.                                                                  *)

\* The files and the operations, apart from the scans.
FilesType ==
  /\ json \cup marker \cup failedDir \cup settled \subseteq accepted
  /\ accepted \subseteq {d \in Deliveries : mode[d] # "new"}
  /\ retry \in [Deliveries -> 0 .. MaxRetries]
  /\ mode \in [Deliveries -> ModeKinds \cup {"new"}]
  /\ sent \in [Deliveries -> SUBSET Payloads]
  /\ aborted \subseteq Deliveries
  /\ crashes \in 0 .. MaxCrashes

Booked ==
  /\ \A s \in Scans, d \in Deliveries : Holds(s, d) => d \in accepted
  /\ \A d \in Deliveries : op["live"][d].at \notin {"none", "sending"} => d \in accepted

\* The operations a step of a worker leaves behind.
LEMMA WorkerOp ==
  ASSUME op \in Ops, FilesType, Booked, NEW w \in Workers, NEW d \in Deliveries, Worker(w, d)
  PROVE  /\ op[w][d].at # "none"
         /\ \E r \in OpType :
              /\ op' = [op EXCEPT ![w][d] = r]
              /\ r.at \in {"none", "sending"} \/ d \in accepted
<1>1. CASE PartSent(w, d)
  <2>1. op[w][d].partial \in BOOLEAN
    BY DEF Ops, OpType
  <2>2. op[w][d].at = "sending" /\ Advance(w, d, op[w][d].partial)
    BY <1>1 DEF PartSent
  <2> QED
    BY <2>1, <2>2, AdvanceOp
<1>2. CASE PartFails(w, d)
  <2>1. (op[w][d].partial \/ Heard(w, d)) \in BOOLEAN
    OBVIOUS
  <2>2. op[w][d].at = "sending" /\ Advance(w, d, op[w][d].partial \/ Heard(w, d))
    BY <1>2 DEF PartFails
  <2>3. PICK partial \in BOOLEAN : Advance(w, d, partial)
    BY <2>1, <2>2, Zenon
  <2> QED
    BY <2>2, <2>3, AdvanceOp
<1>3. CASE SendFails(w, d)
  <2>1. CASE Book(w, d, "failing")
    BY <1>3, <2>1, BookOp DEF SendFails, Steps
  <2>2. CASE w \in Scans /\ Goes(w, d, "moving")
    <3>1. d \in accepted
      BY <1>3, <2>2 DEF SendFails, Booked, Holds
    <3> QED
      BY <1>3, <2>2, <3>1, GoesOp DEF SendFails, Steps
  <2> QED
    BY <1>3, <2>1, <2>2 DEF SendFails

<1>4. CASE AckRename(w, d)
  BY <1>4, GoesOp DEF AckRename, Steps, Booked, Holds, Workers
<1>5. CASE AckUnlink(w, d)
  BY <1>5, GoesOp DEF AckUnlink, Steps
<1>6. CASE FailRead(w, d)
  <2>1. CASE d \in json
    <3>1. retry[d] \in 0 .. MaxRetries /\ d \in accepted
      BY <2>1 DEF FilesType
    <3>2. op' = [op EXCEPT ![w][d] = Writes(retry[d])] /\ op[w][d].at # "none"
      BY <1>6, <2>1 DEF FailRead
    <3>3. Writes(retry[d]) \in OpType
      BY <3>1, Records
    <3> QED
      BY <3>1, <3>2, <3>3
  <2>2. CASE d \notin json
    BY <1>6, <2>2, GoesOp DEF FailRead, Steps
  <2> QED
    BY <2>1, <2>2
<1>7. CASE FailWrite(w, d)
  BY <1>7, GoesOp DEF FailWrite, Steps
<1>8. CASE MoveToFailed(w, d)
  BY <1>8, GoesOp DEF MoveToFailed, Steps
<1> QED
  BY <1>1, <1>2, <1>3, <1>4, <1>5, <1>6, <1>7, <1>8 DEF Worker

\* What a worker leaves of the files.
LEMMA WorkerFiles ==
  ASSUME op \in Ops, FilesType, Booked, NEW w \in Workers, NEW d \in Deliveries, Worker(w, d)
  PROVE  FilesType' /\ UNCHANGED <<scan, accepted>>
<1>1. CASE PartSent(w, d)
  <2>1. op[w][d].part \in Payloads
    BY DEF Ops, OpType
  <2> QED
    BY <1>1, <2>1 DEF PartSent, FilesType, files, history
<1>2. CASE PartFails(w, d) \/ SendFails(w, d) \/ FailRead(w, d)
  BY <1>2 DEF PartFails, SendFails, FailRead, FilesType, files, history
<1>3. CASE AckRename(w, d)
  BY <1>3 DEF AckRename, Unqueue, Settles, FilesType
<1>4. CASE AckUnlink(w, d)
  BY <1>4 DEF AckUnlink, FilesType, history
<1>5. CASE FailWrite(w, d)
  <2>1. d \in accepted
    BY <1>5 DEF FailWrite, Booked, Holds, Workers
  <2>2. Counted(op[w][d].read) \in 0 .. MaxRetries
    BY DEF Ops, OpType, Counted
  <2> HIDE DEF Counted
  <2> QED
    BY <1>5, <2>1, <2>2 DEF FailWrite, FilesType, history
<1>6. CASE MoveToFailed(w, d)
  BY <1>6 DEF MoveToFailed, Unqueue, FilesType, history
<1> QED
  BY <1>1, <1>2, <1>3, <1>4, <1>5, <1>6 DEF Worker

Typing == op \in Ops /\ scan \in [Scans -> ScanType] /\ FilesType /\ Booked

\* Typing is the type invariant, cut into the parts that the proofs use.
LEMMA TypingIsTypeOK == Typing <=> DeliveryTypeOK
  BY DEF Typing, Ops, FilesType, Booked, DeliveryTypeOK

\* Written out: a worker's step keeps what the bookkeeping relies on.
LEMMA WorkerTyping ==
  ASSUME Typing, NEW w \in Workers, NEW d \in Deliveries, Worker(w, d)
  PROVE  Typing'
<1>1. op \in Ops /\ FilesType /\ Booked
  BY DEF Typing
<1>2. FilesType' /\ scan' = scan /\ accepted' = accepted
  BY <1>1, WorkerFiles
<1>3. op[w][d].at # "none"
  BY <1>1, WorkerOp
<1>4. PICK r \in OpType : /\ op' = [op EXCEPT ![w][d] = r]
                          /\ r.at \in {"none", "sending"} \/ d \in accepted
  BY <1>1, WorkerOp
<1>5. /\ op' \in Ops
      /\ op'[w][d] = r
      /\ \A v \in Workers, e \in Deliveries : v # w \/ e # d => op'[v][e] = op[v][e]
  BY <1>1, <1>4 DEF Ops
<1>6. Booked'
  <2>1. ASSUME NEW s \in Scans, NEW e \in Deliveries, Holds(s, e)'
        PROVE  e \in accepted'
    BY <1>1, <1>2, <1>3, <1>5, <2>1 DEF Booked, Holds, Workers
  <2>2. ASSUME NEW e \in Deliveries, op'["live"][e].at \notin {"none", "sending"}
        PROVE  e \in accepted'
    <3>1. CASE w = "live" /\ e = d
      BY <1>2, <1>4, <1>5, <2>2, <3>1
    <3>2. CASE w # "live" \/ e # d
      BY <1>1, <1>2, <1>5, <2>2, <3>2 DEF Booked, Workers
    <3> QED
      BY <3>1, <3>2
  <2> QED
    BY <2>1, <2>2 DEF Booked
<1> QED
  BY <1>2, <1>5, <1>6 DEF Typing

\* An entry a scan holds is one it has read of a delivery that was persisted.
LEMMA EntryAccepted ==
  ASSUME Typing, NEW s \in Scans, NEW e \in scan[s].entries
  PROVE  e \in Entries /\ e.d \in Deliveries /\ e.d \in accepted
<1>1. scan[s].entries \subseteq Entries
  BY DEF Typing, ScanType
<1>2. e.d \in Deliveries
  BY <1>1 DEF Entries
<1> QED
  BY <1>1, <1>2 DEF Typing, Booked, Holds

\* What a scan does keeps the types.
LEMMA ScannerTyping ==
  ASSUME Typing, NEW s \in Scans, Scanner(s)
  PROVE  Typing'
<1> USE DEF Typing
<1>1. scan[s] \in ScanType
  OBVIOUS
<1>2. CASE StartScan(s)
  <2>1. json \subseteq Deliveries
    BY DEF FilesType
  <2>2. List(s) \in ScanType /\ List(s).entries = {}
    BY <2>1 DEF List, Off, ScanType
  <2>3. scan' \in [Scans -> ScanType]
    BY <1>2, <2>2 DEF StartScan
  <2>4. FilesType'
    BY <1>2 DEF StartScan, FilesType, history
  <2>5. Booked'
    <3>1. \A t \in Scans : scan'[t].entries \subseteq scan[t].entries
      BY <1>2, <2>2 DEF StartScan
    <3> QED
      BY <1>2, <3>1 DEF StartScan, Booked, Holds, history
  <2> QED
    BY <1>2, <2>3, <2>4, <2>5 DEF StartScan
<1>3. CASE \E d \in Deliveries : ReadEntry(s, d)
  <2>1. PICK d \in Deliveries : ReadEntry(s, d)
    BY <1>3
  <2>2. [d |-> d, retry |-> retry[d]] \in Entries
    BY DEF Entries, FilesType
  <2>3. scan' \in [Scans -> ScanType]
    BY <1>1, <2>1, <2>2 DEF ReadEntry, ScanType
  <2>4. \A t \in Scans : \A e \in scan'[t].entries : e \in scan[t].entries \/ (e.d = d /\ d \in json)
    BY <1>1, <2>1 DEF ReadEntry, ScanType
  <2>5. Booked'
    BY <2>1, <2>4 DEF ReadEntry, Booked, Holds, FilesType, files, history
  <2>6. FilesType'
    BY <2>1 DEF ReadEntry, FilesType, files, history
  <2> QED
    BY <2>1, <2>3, <2>5, <2>6 DEF ReadEntry
<1>4. CASE AllRead(s) \/ ScanEnds(s) \/ \E e \in Entries : BackoffSkip(s, e)
  <2>1. scan' \in [Scans -> ScanType]
    <3>1. CASE AllRead(s)
      BY <1>1, <3>1 DEF AllRead, ScanType
    <3>2. CASE ScanEnds(s)
      <4>1. Off \in ScanType
        BY DEF Off, ScanType
      <4> QED
        BY <3>2, <4>1 DEF ScanEnds
    <3>3. CASE \E e \in Entries : BackoffSkip(s, e)
      BY <1>1, <3>3 DEF BackoffSkip, ScanType
    <3> QED
      BY <1>4, <3>1, <3>2, <3>3
  <2>2. \A t \in Scans : scan'[t].entries \subseteq scan[t].entries
    BY <1>1, <1>4 DEF AllRead, ScanEnds, BackoffSkip, ScanType, Off
  <2>3. UNCHANGED <<op, json, retry, marker, failedDir, mode, sent, accepted, aborted, settled, crashes>>
    BY <1>4 DEF AllRead, ScanEnds, BackoffSkip, files, history
  <2>4. FilesType'
    BY <2>3 DEF FilesType
  <2> QED
    BY <2>1, <2>2, <2>3, <2>4 DEF Booked, Holds
<1>5. CASE \E e \in Entries : GiveUp(s, e) \/ Retry(s, e)
  <2>1. PICK e \in Entries : GiveUp(s, e) \/ Retry(s, e)
    BY <1>5
  <2>2. e \in scan[s].entries /\ scan' = Taken(s, e)
    BY <2>1 DEF GiveUp, Retry, IsNext
  <2>3. e.d \in Deliveries /\ e.d \in accepted
    BY <2>2, EntryAccepted
  <2>4. \E r \in OpType : op' = [op EXCEPT ![s][e.d] = r]
    <3>1. CASE GiveUp(s, e)
      BY <2>3, <3>1, GoesOp DEF GiveUp, Steps, Workers
    <3>2. CASE Retry(s, e)
      <4>1. 1 \in Payloads
        BY DEF Payloads
      <4>2. Sends(1, FALSE) \in OpType
        BY <4>1, Records
      <4> QED
        BY <3>2, <4>2 DEF Retry
    <3> QED
      BY <2>1, <3>1, <3>2
  <2>5. PICK r \in OpType : op' = [op EXCEPT ![s][e.d] = r]
    BY <2>4
  <2>6. /\ op' \in Ops
        /\ \A v \in Workers, f \in Deliveries : v # s \/ f # e.d => op'[v][f] = op[v][f]
    BY <2>3, <2>5 DEF Ops, Workers
  <2>7. scan' \in [Scans -> ScanType]
    BY <1>1, <2>2 DEF Taken, ScanType
  <2>8. \A t \in Scans : scan'[t].entries \subseteq scan[t].entries
    BY <1>1, <2>2 DEF Taken, ScanType
  <2>9. UNCHANGED <<json, retry, marker, failedDir, mode, sent, accepted, aborted, settled, crashes>>
    BY <2>1 DEF GiveUp, Retry, files, history
  <2>10. FilesType'
    BY <2>9 DEF FilesType
  <2>11. Booked'
    BY <2>3, <2>6, <2>8, <2>9 DEF Booked, Holds, Workers
  <2> QED
    BY <2>6, <2>7, <2>10, <2>11
<1>6. CASE OutOfTime(s)
  <2>1. /\ op' \in Ops
        /\ \A v \in Workers, d \in Deliveries : v # s => op'[v][d] = op[v][d]
        /\ \A d \in Deliveries : op'[s][d].at # "none" => Holds(s, d)
    <3>1. At("failing") \in OpType
      BY Records
    <3> DEFINE row == [d \in Deliveries |-> IF \E e \in scan[s].entries : e.d = d
                                            THEN At("failing") ELSE op[s][d]]
    <3>2. op' = [op EXCEPT ![s] = row]
      BY <1>6 DEF OutOfTime, Ops, Workers
    <3>3. row \in [Deliveries -> OpType]
      BY <3>1 DEF Ops, Workers
    <3>4. \A d \in Deliveries : row[d].at # "none" => Holds(s, d)
      BY DEF Holds
    <3> HIDE DEF row
    <3> QED
      BY <3>2, <3>3, <3>4 DEF Ops, Workers
  <2>2. scan' \in [Scans -> ScanType]
    BY <1>1, <1>6 DEF OutOfTime, ScanType
  <2>3. \A t \in Scans : scan'[t].entries \subseteq scan[t].entries
    BY <1>1, <1>6 DEF OutOfTime, ScanType
  <2>4. UNCHANGED <<json, retry, marker, failedDir, mode, sent, accepted, aborted, settled, crashes>>
    BY <1>6 DEF OutOfTime, files, history
  <2>5. FilesType'
    BY <2>4 DEF FilesType
  <2>6. Booked'
    BY <2>1, <2>3, <2>4 DEF Booked, Holds, Workers
  <2> QED
    BY <2>1, <2>2, <2>5, <2>6
<1> QED
  BY <1>2, <1>3, <1>4, <1>5, <1>6 DEF Scanner

\* A live sender's call, its abort and a crash keep the types, too.
LEMMA TypingStep ==
  ASSUME Typing, [Next]_vars
  PROVE  Typing'
<1> USE DEF Typing
<1>1. ASSUME NEW d \in Deliveries, NEW m \in Modes[d], Deliver(d, m)
      PROVE  Typing'
  <2>1. m \in ModeKinds /\ m # "new" /\ mode[d] = "new"
    BY <1>1, DeliveryKinds DEF DeliveryKinds, ModeKinds, Deliver
  <2>2. 1 \in Payloads
    BY DEF Payloads
  <2>3. Sends(1, FALSE) \in OpType /\ Sends(1, FALSE).at = "sending"
    BY <2>2, Records
  <2>4. op' = [op EXCEPT !["live"][d] = Sends(1, FALSE)] /\ scan' = scan
    BY <1>1 DEF Deliver
  <2>5. op' \in Ops
    BY <2>3, <2>4 DEF Ops, Workers
  <2>6. FilesType' /\ accepted \subseteq accepted'
    BY <1>1, <2>1 DEF Deliver, FilesType
  <2>7. Booked'
    BY <2>3, <2>4, <2>6 DEF Booked, Holds, Workers, Ops
  <2> QED
    BY <2>4, <2>5, <2>6, <2>7
<1>2. ASSUME NEW d \in Deliveries, Abort(d)
      PROVE  Typing'
  <2>1. PICK r \in OpType : /\ op' = [op EXCEPT !["live"][d] = r]
                            /\ r.at = "none" \/ (r.at = "acking" /\ d \in accepted)
    BY <1>2, BookOp DEF Abort, Workers, Steps
  <2>2. op' \in Ops
    BY <2>1 DEF Ops, Workers
  <2>3. FilesType' /\ accepted' = accepted /\ scan' = scan
    BY <1>2 DEF Abort, FilesType, files
  <2>4. Booked'
    BY <2>1, <2>3 DEF Booked, Holds, Workers, Ops
  <2> QED
    BY <2>2, <2>3, <2>4
<1>3. CASE Crash
  <2>1. Nothing \in OpType /\ Nothing.at = "none"
    BY Records DEF Nothing
  <2>2. Off \in ScanType /\ Off.entries = {}
    BY DEF Off, ScanType
  <2>3. op' \in Ops /\ scan' \in [Scans -> ScanType]
    BY <1>3, <2>1, <2>2 DEF Crash, Ops
  <2>4. FilesType'
    BY <1>3 DEF Crash, FilesType, files, history
  <2>5. Booked'
    BY <1>3, <2>1, <2>2 DEF Crash, Booked, Holds, Workers
  <2> QED
    BY <2>3, <2>4, <2>5
<1>4. CASE UNCHANGED vars
  BY <1>4 DEF vars, FilesType, Booked, Holds
<1> QED
  BY <1>1, <1>2, <1>3, <1>4, WorkerTyping, ScannerTyping DEF Next

\* The initial state is well typed.
LEMMA TypingInit == Init => Typing
<1> SUFFICES ASSUME Init PROVE Typing
  OBVIOUS
<1>1. Nothing \in OpType /\ Nothing.at = "none"
  BY Records DEF Nothing
<1>2. Off \in ScanType /\ Off.entries = {}
  BY DEF Off, ScanType
<1>3. op \in Ops /\ scan \in [Scans -> ScanType]
  BY <1>1, <1>2 DEF Init, Ops
<1>4. FilesType
  BY DEF Init, FilesType
<1>5. Booked
  BY <1>1, <1>2 DEF Init, Booked, Holds, Workers
<1> QED
  BY <1>3, <1>4, <1>5 DEF Typing

\* Type correctness of the delivery queue.
THEOREM DeliveryTypeCorrect == Spec => []DeliveryTypeOK
<1>1. Spec => []Typing
  BY TypingInit, TypingStep, PTL DEF Spec
<1> QED
  BY <1>1, TypingIsTypeOK, PTL

-----------------------------------------------------------------------------
(* Nothing persisted is lost.                                              *)

\* What is sent, aborted or persisted stays so.
LEMMA HistoryGrows ==
  ASSUME Typing, [Next]_vars, NEW d \in Deliveries
  PROVE  sent[d] \subseteq sent'[d] /\ aborted \subseteq aborted' /\ accepted \subseteq accepted'
<1>1. sent \in [Deliveries -> SUBSET Payloads]
  BY DEF Typing, FilesType
<1>2. CASE \E w \in Workers, e \in Deliveries : Worker(w, e)
  BY <1>1, <1>2 DEF Worker, PartSent, PartFails, SendFails, AckRename, AckUnlink, FailRead,
                    FailWrite, MoveToFailed, history
<1>3. CASE \E s \in Scans : Scanner(s)
  BY <1>3 DEF Scanner, StartScan, ReadEntry, AllRead, GiveUp, Retry, BackoffSkip, OutOfTime,
              ScanEnds, history
<1>4. CASE \E e \in Deliveries : Abort(e) \/ \E m \in Modes[e] : Deliver(e, m)
  BY <1>4 DEF Abort, Deliver
<1>5. CASE Crash \/ UNCHANGED vars
  BY <1>5 DEF Crash, vars, history
<1> QED
  BY <1>2, <1>3, <1>4, <1>5 DEF Next

\* A sender has sent what is behind it, unless the delivery is marked partial;
\* an ack is due only after all of it or an abort.
Progress(w, d) ==
  /\ op[w][d].at = "sending" /\ ~op[w][d].partial => 1 .. (op[w][d].part - 1) \subseteq sent[d]
  /\ op[w][d].at = "acking" => sent[d] = Payloads \/ d \in aborted

\* A payload that is sent brings the sender up to its next one.
LEMMA PartSentProgress ==
  ASSUME Typing, NEW w \in Workers, NEW d \in Deliveries, Progress(w, d), PartSent(w, d)
  PROVE  Progress(w, d)'
<1>1. op \in Ops /\ op[w][d] \in OpType /\ sent[d] \subseteq Payloads /\ sent \in [Deliveries -> SUBSET Payloads]
  BY DEF Typing, Ops, FilesType
<1>2. /\ op[w][d].part \in Payloads /\ op[w][d].partial \in BOOLEAN
      /\ op[w][d].at = "sending" /\ Advance(w, d, op[w][d].partial)
  BY <1>1 DEF OpType, PartSent
<1>3. PICK r \in OpType :
        /\ op' = [op EXCEPT ![w][d] = r]
        /\ \/ /\ r.at = "sending"
              /\ r.part = op[w][d].part + 1
              /\ r.partial = op[w][d].partial
           \/ r.at = "failing" /\ d \in accepted
           \/ r.at = "acking" /\ d \in accepted /\ ~op[w][d].partial /\ op[w][d].part = Parts
           \/ r.at = "none"
  BY <1>1, <1>2, AdvanceOp
<1>4. op'[w][d] = r
  BY <1>1, <1>3 DEF Ops
<1>5. sent'[d] = sent[d] \cup {op[w][d].part}
  BY <1>1 DEF PartSent
<1>6. CASE r.at = "sending"
  <2>1. r.part = op[w][d].part + 1 /\ r.partial = op[w][d].partial
    BY <1>3, <1>6
  <2>2. ASSUME ~op[w][d].partial
        PROVE  1 .. (r.part - 1) \subseteq sent'[d]
    <3>1. 1 .. (op[w][d].part - 1) \subseteq sent[d]
      BY <1>2, <2>2 DEF Progress
    <3> QED
      BY <1>2, <1>5, <2>1, <3>1 DEF Payloads
  <2> QED
    BY <1>4, <1>6, <2>1, <2>2 DEF Progress
<1>7. CASE r.at = "acking"
  <2>1. ~op[w][d].partial /\ op[w][d].part = Parts
    BY <1>3, <1>7
  <2>2. 1 .. (op[w][d].part - 1) \subseteq sent[d]
    BY <1>2, <2>1 DEF Progress
  <2>3. sent'[d] = Payloads
    BY <1>1, <1>2, <1>5, <2>1, <2>2 DEF Payloads
  <2> QED
    BY <1>4, <1>7, <2>3 DEF Progress
<1> QED
  BY <1>3, <1>4, <1>6, <1>7 DEF Progress

\* A payload that fails is noted, so that no ack follows.
LEMMA PartFailsProgress ==
  ASSUME Typing, "unheard" \notin Faults,
         NEW w \in Workers, NEW d \in Deliveries, PartFails(w, d)
  PROVE  Progress(w, d)'
<1>1. op \in Ops
  BY DEF Typing
<1>2. op[w][d].at = "sending" /\ Advance(w, d, TRUE)
  <2>1. Heard(w, d)
    BY DEF PartFails
  <2>2. (op[w][d].partial \/ Heard(w, d)) = TRUE
    BY <2>1
  <2> QED
    BY <2>2 DEF PartFails
<1>3. PICK r \in OpType :
        /\ op' = [op EXCEPT ![w][d] = r]
        /\ (r.at = "sending" /\ r.partial) \/ r.at = "failing" \/ r.at = "none"
  <2>1. \E partial \in BOOLEAN : partial /\ Advance(w, d, partial)
    BY <1>2, Zenon
  <2>2. PICK partial \in BOOLEAN : partial /\ Advance(w, d, partial)
    BY <2>1
  <2>3. partial \in BOOLEAN /\ Advance(w, d, partial)
    BY <2>2, Zenon
  <2>4. \E r \in OpType :
          /\ op' = [op EXCEPT ![w][d] = r]
          /\ \/ r.at = "sending" /\ r.part = op[w][d].part + 1 /\ r.partial = partial
             \/ r.at = "failing" /\ d \in accepted
             \/ r.at = "acking" /\ d \in accepted /\ ~partial /\ op[w][d].part = Parts
             \/ r.at = "none"
    BY <1>1, <1>2, <2>3, AdvanceOp
  <2> QED
    BY <2>2, <2>4, Zenon
<1>4. op'[w][d] = r
  BY <1>1, <1>3 DEF Ops
<1> QED
  BY <1>3, <1>4 DEF Progress

\* No other step of a worker leaves it sending or with an ack due.
LEMMA WorkerProgress ==
  ASSUME Typing, "unheard" \notin Faults,
         NEW w \in Workers, NEW d \in Deliveries, Progress(w, d), Worker(w, d)
  PROVE  Progress(w, d)'
<1>1. op \in Ops
  BY DEF Typing
<1>2. CASE SendFails(w, d)
  <2>1. CASE Book(w, d, "failing")
    <3>1. PICK r \in OpType : op' = [op EXCEPT ![w][d] = r] /\ r.at \in {"none", "failing"}
      BY <1>1, <2>1, BookOp DEF Steps
    <3> QED
      BY <1>1, <3>1 DEF Progress, Ops
  <2>2. CASE Goes(w, d, "moving")
    <3>1. PICK r \in OpType : op' = [op EXCEPT ![w][d] = r] /\ r.at = "moving"
      BY <1>1, <2>2, GoesOp DEF Steps
    <3> QED
      BY <1>1, <3>1 DEF Progress, Ops
  <2> QED
    BY <1>2, <2>1, <2>2 DEF SendFails
<1>3. CASE AckRename(w, d)
  <2>1. PICK r \in OpType : op' = [op EXCEPT ![w][d] = r] /\ r.at = "unlinking"
    BY <1>1, <1>3, GoesOp DEF AckRename, Steps
  <2> QED
    BY <1>1, <2>1 DEF Progress, Ops
<1>4. CASE FailRead(w, d)
  <2>1. CASE d \in json
    <3>1. retry[d] \in 0 .. MaxRetries
      BY DEF Typing, FilesType
    <3>2. op'[w][d].at = "writing"
      BY <1>1, <1>4, <2>1, <3>1, Records DEF FailRead, Ops
    <3> QED
      BY <3>2 DEF Progress
  <2>2. CASE d \notin json
    <3>1. PICK r \in OpType : op' = [op EXCEPT ![w][d] = r] /\ r.at = "none"
      BY <1>1, <1>4, <2>2, GoesOp DEF FailRead, Steps
    <3> QED
      BY <1>1, <3>1 DEF Progress, Ops
  <2> QED
    BY <2>1, <2>2
<1>5. CASE AckUnlink(w, d) \/ FailWrite(w, d) \/ MoveToFailed(w, d)
  <2>1. PICK r \in OpType : op' = [op EXCEPT ![w][d] = r] /\ r.at = "none"
    BY <1>1, <1>5, GoesOp DEF AckUnlink, FailWrite, MoveToFailed, Steps
  <2> QED
    BY <1>1, <2>1 DEF Progress, Ops
<1> QED
  BY <1>2, <1>3, <1>4, <1>5, PartSentProgress, PartFailsProgress DEF Worker

AllProgress == \A w \in Workers, d \in Deliveries : Progress(w, d)

\* An operation that does not change keeps its progress.
LEMMA SameProgress ==
  ASSUME Typing, [Next]_vars, NEW w \in Workers, NEW d \in Deliveries,
         Progress(w, d), op'[w][d] = op[w][d]
  PROVE  Progress(w, d)'
<1>1. sent[d] \subseteq sent'[d] /\ aborted \subseteq aborted'
  BY HistoryGrows
<1>2. sent'[d] \subseteq Payloads
  BY TypingStep DEF Typing, FilesType
<1> QED
  BY <1>1, <1>2 DEF Progress

\* Progress is preserved by every step.
LEMMA ProgressStep ==
  ASSUME Typing, "unheard" \notin Faults, AllProgress, [Next]_vars
  PROVE  AllProgress'
<1> SUFFICES ASSUME NEW v \in Workers, NEW f \in Deliveries
             PROVE  Progress(v, f)'
  BY DEF AllProgress
<1>1. op \in Ops /\ Progress(v, f)
  BY DEF Typing, AllProgress
<1>2. ASSUME NEW w \in Workers, NEW d \in Deliveries, Worker(w, d)
      PROVE  Progress(v, f)'
  <2>1. CASE v = w /\ f = d
    BY <1>1, <1>2, <2>1, WorkerProgress
  <2>2. CASE v # w \/ f # d
    <3>1. PICK r \in OpType : op' = [op EXCEPT ![w][d] = r]
      BY <1>1, <1>2, WorkerOp DEF Typing
    <3>2. op'[v][f] = op[v][f]
      BY <1>1, <2>2, <3>1 DEF Ops
    <3> QED
      BY <1>1, <3>2, SameProgress
  <2> QED
    BY <2>1, <2>2
<1>3. ASSUME NEW d \in Deliveries, NEW m \in Modes[d], Deliver(d, m)
      PROVE  Progress(v, f)'
  <2>1. 1 \in Payloads /\ "live" \in Workers
    BY DEF Payloads, Workers
  <2>2. Sends(1, FALSE).at = "sending" /\ Sends(1, FALSE).part = 1
    BY <2>1, Records
  <2>3. op' = [op EXCEPT !["live"][d] = Sends(1, FALSE)]
    BY <1>3 DEF Deliver
  <2>4. CASE v = "live" /\ f = d
    <3>1. op'[v][f] = Sends(1, FALSE)
      BY <1>1, <2>1, <2>3, <2>4 DEF Ops
    <3>2. op'[v][f].at = "sending" /\ op'[v][f].part = 1
      BY <2>2, <3>1, Zenon
    <3> QED
      BY <3>2 DEF Progress
  <2>5. CASE v # "live" \/ f # d
    <3>1. op'[v][f] = op[v][f]
      BY <1>1, <2>1, <2>3, <2>5 DEF Ops
    <3> QED
      BY <1>1, <3>1, SameProgress
  <2> QED
    BY <2>4, <2>5
<1>4. ASSUME NEW d \in Deliveries, Abort(d)
      PROVE  Progress(v, f)'
  <2>1. PICK r \in OpType : op' = [op EXCEPT !["live"][d] = r] /\ r.at \in {"none", "acking"}
    BY <1>1, <1>4, BookOp DEF Abort, Workers, Steps
  <2>2. CASE v = "live" /\ f = d
    <3>1. op'[v][f] = r /\ d \in aborted'
      BY <1>1, <1>4, <2>1, <2>2 DEF Ops, Workers, Abort
    <3> QED
      BY <2>1, <2>2, <3>1 DEF Progress
  <2>3. CASE v # "live" \/ f # d
    <3>1. op'[v][f] = op[v][f]
      BY <1>1, <2>1, <2>3 DEF Ops, Workers
    <3> QED
      BY <1>1, <3>1, SameProgress
  <2> QED
    BY <2>2, <2>3
<1>5. ASSUME NEW s \in Scans, Scanner(s)
      PROVE  Progress(v, f)'
  <2>1. s \in Workers
    BY DEF Workers
  <2>2. CASE UNCHANGED op
    BY <1>1, <2>2, SameProgress
  <2>3. ASSUME NEW e \in Entries, GiveUp(s, e) \/ Retry(s, e)
        PROVE  Progress(v, f)'
    <3>1. e.d \in Deliveries /\ 1 \in Payloads
      BY DEF Entries, Payloads
    <3>2. \E r \in OpType : /\ op' = [op EXCEPT ![s][e.d] = r]
                            /\ (r.at = "sending" /\ r.part = 1) \/ r.at = "moving"
      <4>1. CASE GiveUp(s, e)
        BY <1>1, <2>1, <3>1, <4>1, GoesOp DEF GiveUp, Steps
      <4>2. CASE Retry(s, e)
        <5>1. Sends(1, FALSE) \in OpType /\ Sends(1, FALSE).at = "sending" /\ Sends(1, FALSE).part = 1
          BY <3>1, Records
        <5>2. op' = [op EXCEPT ![s][e.d] = Sends(1, FALSE)]
          BY <4>2 DEF Retry
        <5> QED
          BY <5>1, <5>2
      <4> QED
        BY <2>3, <4>1, <4>2
    <3>3. PICK r \in OpType : /\ op' = [op EXCEPT ![s][e.d] = r]
                              /\ (r.at = "sending" /\ r.part = 1) \/ r.at = "moving"
      BY <3>2
    <3>4. CASE v = s /\ f = e.d
      <4>1. op'[v][f] = r
        BY <1>1, <2>1, <3>1, <3>3, <3>4 DEF Ops
      <4>2. CASE r.at = "sending" /\ r.part = 1
        BY <4>1, <4>2 DEF Progress
      <4>3. CASE r.at = "moving"
        BY <4>1, <4>3 DEF Progress
      <4> QED
        BY <3>3, <4>2, <4>3
    <3>5. CASE v # s \/ f # e.d
      <4>1. op'[v][f] = op[v][f]
        BY <1>1, <2>1, <3>1, <3>3, <3>5 DEF Ops
      <4> QED
        BY <1>1, <4>1, SameProgress
    <3> QED
      BY <3>4, <3>5
  <2>4. CASE OutOfTime(s)
    <3>1. At("failing").at = "failing"
      BY Records
    <3>2. op'[v][f] = op[v][f] \/ op'[v][f] = At("failing")
      BY <1>1, <2>1, <2>4 DEF OutOfTime, Ops
    <3>3. CASE op'[v][f] = op[v][f]
      BY <1>1, <3>3, SameProgress
    <3>4. CASE op'[v][f] = At("failing")
      BY <3>1, <3>4 DEF Progress
    <3> QED
      BY <3>2, <3>3, <3>4
  <2> QED
    BY <1>5, <2>2, <2>3, <2>4 DEF Scanner, StartScan, ReadEntry, AllRead, BackoffSkip, ScanEnds
<1>6. CASE Crash
  <2>1. Nothing.at = "none"
    BY Records DEF Nothing
  <2> QED
    BY <1>6, <2>1 DEF Crash, Progress
<1>7. CASE UNCHANGED vars
  BY <1>1, <1>7, SameProgress DEF vars
<1> QED
  BY <1>2, <1>3, <1>4, <1>5, <1>6, <1>7 DEF Next

\* A file leaves the queue only into failed/ or with everything sent.
LEMMA OutboxStep ==
  ASSUME Typing, AllProgress, Outbox, [Next]_vars
  PROVE  Outbox'
<1> SUFFICES ASSUME NEW d \in accepted'
             PROVE  d \in json' \cup failedDir' \/ sent'[d] = Payloads \/ d \in aborted'
  BY DEF Outbox
<1>1. d \in Deliveries
  BY TypingStep DEF Typing, FilesType
<1>2. sent'[d] \subseteq Payloads /\ sent[d] \subseteq sent'[d] /\ aborted \subseteq aborted'
  BY <1>1, TypingStep, HistoryGrows DEF Typing, FilesType
<1>3. CASE d \notin accepted
  <2>1. d \in json'
    BY <1>3 DEF Next, vars, Deliver, Abort, Crash, Worker, PartSent, PartFails, SendFails,
                AckRename, AckUnlink, FailRead, FailWrite, MoveToFailed, Scanner, StartScan,
                ReadEntry, AllRead, GiveUp, Retry, BackoffSkip, OutOfTime, ScanEnds, history
  <2> QED
    BY <2>1
<1>4. CASE d \in accepted /\ (sent[d] = Payloads \/ d \in aborted)
  BY <1>2, <1>4
<1>5. CASE d \in json \cup failedDir
  <2>1. CASE \E w \in Workers, e \in Deliveries : AckRename(w, e)
    <3>1. PICK w \in Workers, e \in Deliveries : AckRename(w, e)
      BY <2>1
    <3>2. sent[e] = Payloads \/ e \in aborted
      BY <3>1 DEF AckRename, AllProgress, Progress
    <3>3. CASE e = d
      BY <1>2, <3>2, <3>3
    <3>4. CASE e # d
      BY <1>5, <3>1, <3>4 DEF AckRename, Unqueue
    <3> QED
      BY <3>3, <3>4
  <2>2. CASE \E w \in Workers, e \in Deliveries : MoveToFailed(w, e)
    BY <1>5, <2>2 DEF MoveToFailed, Unqueue
  <2>3. CASE json \subseteq json' /\ failedDir \subseteq failedDir'
    BY <1>5, <2>3
  <2> QED
    BY <2>1, <2>2, <2>3 DEF Next, vars, Deliver, Abort, Crash, Worker, PartSent, PartFails,
                SendFails, AckUnlink, FailRead, FailWrite, Scanner, StartScan, ReadEntry, AllRead,
                GiveUp, Retry, BackoffSkip, OutOfTime, ScanEnds, history, files
<1> QED
  BY <1>3, <1>4, <1>5 DEF Outbox

\* Unless a payload fails that nobody listens to, a delivery that was persisted
\* is queued or in failed/ until it has been sent, whatever crashes and scans do.
THEOREM NothingPersistedIsLost ==
  ASSUME "unheard" \notin Faults
  PROVE  Spec => []Outbox
<1>1. Init => AllProgress /\ Outbox
  <2>1. Nothing.at = "none"
    BY Records DEF Nothing
  <2> QED
    BY <2>1 DEF Init, AllProgress, Progress, Outbox
<1>2. Typing /\ AllProgress /\ Outbox /\ [Next]_vars => (Typing /\ AllProgress /\ Outbox)'
  BY TypingStep, ProgressStep, OutboxStep
<1> QED
  BY <1>1, <1>2, TypingInit, PTL DEF Spec

-----------------------------------------------------------------------------
(* What is settled stays away.                                             *)

\* Delivery d has no file, no place in a scan, and no worker but one that cleans up.
Gone(d) ==
  /\ d \notin json
  /\ \A w \in Workers : op[w][d].at \in {"none", "unlinking"}
  /\ \A s \in Scans : \A e \in scan[s].entries : e.d # d

SettledGone == \A d \in settled : Gone(d)

\* Nothing brings a delivery back that is gone.
LEMMA GoneStays ==
  ASSUME Typing, NEW d \in accepted, Gone(d), [Next]_vars
  PROVE  Gone(d)'
<1>1. d \in Deliveries /\ mode[d] # "new" /\ op \in Ops /\ FilesType /\ Booked
  BY DEF Typing, FilesType
<1>2. ASSUME NEW w \in Workers, NEW e \in Deliveries, Worker(w, e)
      PROVE  Gone(d)'
  <2>1. scan' = scan
    BY <1>1, <1>2, WorkerFiles
  <2>2. PICK r \in OpType : op' = [op EXCEPT ![w][e] = r]
    BY <1>1, <1>2, WorkerOp
  <2>3. CASE e = d
    <3>1. AckUnlink(w, d)
      BY <1>1, <1>2, <2>3, WorkerOp DEF Worker, Gone, PartSent, PartFails, SendFails,
         AckRename, FailRead, FailWrite, MoveToFailed
    <3>2. op' = [op EXCEPT ![w][d] = Nothing] /\ json' = json
      BY <3>1 DEF AckUnlink, Stops
    <3>3. Nothing.at = "none"
      BY Records DEF Nothing
    <3> HIDE DEF Nothing
    <3> QED
      BY <1>1, <2>1, <3>2, <3>3 DEF Gone, Ops
  <2>4. CASE e # d
    <3>1. d \notin json'
      BY <1>2, <2>4 DEF Gone, Worker, PartSent, PartFails, SendFails, AckRename, AckUnlink,
         FailRead, FailWrite, MoveToFailed, Unqueue, files
    <3>2. \A v \in Workers : op'[v][d] = op[v][d]
      BY <1>1, <2>2, <2>4 DEF Ops
    <3> QED
      BY <2>1, <3>1, <3>2 DEF Gone
  <2> QED
    BY <2>3, <2>4
<1>3. ASSUME NEW e \in Deliveries, NEW m \in Modes[e], Deliver(e, m)
      PROVE  Gone(d)'
  <2>1. e # d
    BY <1>1, <1>3 DEF Deliver
  <2>2. PICK r : op' = [op EXCEPT !["live"][e] = r]
    BY <1>3 DEF Deliver
  <2>3. \A v \in Workers : op'[v][d] = op[v][d]
    BY <1>1, <2>1, <2>2 DEF Ops, Workers
  <2> QED
    BY <1>3, <2>1, <2>3 DEF Deliver, Gone
<1>4. ASSUME NEW e \in Deliveries, Abort(e)
      PROVE  Gone(d)'
  <2>1. e # d
    BY <1>4 DEF Abort, Gone, Workers
  <2>2. PICK r \in OpType : op' = [op EXCEPT !["live"][e] = r]
    BY <1>1, <1>4, BookOp DEF Abort, Workers, Steps
  <2>3. \A v \in Workers : op'[v][d] = op[v][d]
    BY <1>1, <2>1, <2>2 DEF Ops, Workers
  <2> QED
    BY <1>4, <2>3 DEF Abort, Gone, files
<1>5. ASSUME NEW s \in Scans, Scanner(s)
      PROVE  Gone(d)'
  <2>1. s \in Workers /\ json' = json /\ scan[s] \in ScanType /\ scan \in [Scans -> ScanType]
    BY <1>5 DEF Workers, Scanner, StartScan, ReadEntry, AllRead, GiveUp, Retry, BackoffSkip,
       OutOfTime, ScanEnds, files, Typing
  <2>2. \A t \in Scans : \A e \in scan'[t].entries : e \in scan[t].entries \/ e.d \in json
    <3>1. CASE StartScan(s)
      <4>1. scan' = [scan EXCEPT ![s] = List(s)] /\ List(s).entries = {}
        BY <3>1 DEF StartScan, List, Off
      <4> HIDE DEF List
      <4> QED
        BY <2>1, <4>1
    <3>2. ASSUME NEW e \in Deliveries, ReadEntry(s, e)
          PROVE  \A t \in Scans : \A f \in scan'[t].entries : f \in scan[t].entries \/ f.d \in json
      BY <2>1, <3>2 DEF ReadEntry, ScanType
    <3>3. CASE AllRead(s)
      BY <2>1, <3>3 DEF AllRead, ScanType
    <3>4. ASSUME NEW e \in Entries, GiveUp(s, e) \/ Retry(s, e) \/ BackoffSkip(s, e)
          PROVE  \A t \in Scans : scan'[t].entries \subseteq scan[t].entries
      <4>1. scan' = Taken(s, e) \/ BackoffSkip(s, e)
        BY <3>4 DEF GiveUp, Retry
      <4>2. CASE scan' = Taken(s, e)
        BY <2>1, <4>2 DEF Taken, ScanType
      <4>3. CASE BackoffSkip(s, e)
        BY <2>1, <4>3 DEF BackoffSkip, ScanType
      <4> QED
        BY <4>1, <4>2, <4>3
    <3>5. CASE OutOfTime(s)
      BY <2>1, <3>5 DEF OutOfTime, ScanType
    <3>6. CASE ScanEnds(s)
      BY <2>1, <3>6 DEF ScanEnds, Off
    <3> QED
      BY <1>5, <3>1, <3>2, <3>3, <3>4, <3>5, <3>6 DEF Scanner
  <2>3. \A v \in Workers : op'[v][d] = op[v][d]
    <3>1. CASE UNCHANGED op
      BY <3>1
    <3>2. ASSUME NEW e \in Entries, GiveUp(s, e) \/ Retry(s, e)
          PROVE  \A v \in Workers : op'[v][d] = op[v][d]
      <4>1. e.d # d /\ e.d \in Deliveries
        BY <3>2 DEF GiveUp, Retry, IsNext, Gone, Entries
      <4>2. PICK r : op' = [op EXCEPT ![s][e.d] = r]
        BY <3>2 DEF GiveUp, Retry, Goes
      <4> QED
        BY <1>1, <2>1, <4>1, <4>2 DEF Ops
    <3>3. CASE OutOfTime(s)
      BY <1>1, <2>1, <3>3 DEF OutOfTime, Gone, Ops
    <3> QED
      BY <1>5, <3>1, <3>2, <3>3 DEF Scanner, StartScan, ReadEntry, AllRead, BackoffSkip, ScanEnds
  <2> QED
    BY <2>1, <2>2, <2>3 DEF Gone
<1>6. CASE Crash
  <2>1. Nothing.at = "none" /\ Off.entries = {}
    BY Records DEF Nothing, Off
  <2> HIDE DEF Nothing, Off
  <2> QED
    BY <1>1, <1>6, <2>1 DEF Crash, Gone, files
<1>7. CASE UNCHANGED vars
  BY <1>7 DEF vars, Gone
<1> QED
  BY <1>2, <1>3, <1>4, <1>5, <1>6, <1>7 DEF Next

\* The ack that settles a delivery takes its file and leaves nobody with it.
LEMMA SettledStep ==
  ASSUME Typing, SettledGone, [Next]_vars
  PROVE  SettledGone'
<1> SUFFICES ASSUME NEW d \in settled'
             PROVE  Gone(d)'
  BY DEF SettledGone
<1>1. CASE d \in settled
  BY <1>1, GoneStays DEF SettledGone, Typing, FilesType
<1>2. CASE d \notin settled
  <2>1. PICK w \in Workers, e \in Deliveries : AckRename(w, e)
    BY <1>2 DEF Next, vars, Deliver, Abort, Crash, Worker, PartSent, PartFails, SendFails,
       AckUnlink, FailRead, FailWrite, MoveToFailed, Scanner, StartScan, ReadEntry, AllRead,
       GiveUp, Retry, BackoffSkip, OutOfTime, ScanEnds, history
  <2>2. e = d /\ Settles(w, d) /\ d \notin json' /\ scan' = scan
    BY <1>2, <2>1 DEF AckRename, Unqueue
  <2>3. op \in Ops
    BY DEF Typing
  <2>4. PICK r \in OpType : r.at = "unlinking" /\ op' = [op EXCEPT ![w][d] = r]
    BY <2>1, <2>2, <2>3, GoesOp DEF AckRename, Steps
  <2>5. \A v \in Workers : op'[v][d].at \in {"none", "unlinking"}
    BY <2>1, <2>2, <2>3, <2>4 DEF Ops, Settles
  <2> QED
    BY <2>2, <2>5 DEF Gone, Settles
<1> QED
  BY <1>1, <1>2

\* A delivery acked while nobody else held it is never sent again: not by the
\* scan after a crash between the two phases of the ack, nor by a late rewrite.
THEOREM SettledIsNeverSentAgain == Spec => NoReplay
<1>1. Init => SettledGone
  BY DEF Init, SettledGone
<1>2. Typing /\ SettledGone /\ [Next]_vars => (Typing /\ SettledGone)'
  BY TypingStep, SettledStep
<1>3. Typing /\ SettledGone /\ [Next]_vars =>
        [\A w \in Workers, d \in Deliveries :
           op[w][d].at # "sending" /\ op'[w][d].at = "sending" => d \notin settled]_vars
  BY GoneStays DEF SettledGone, Typing, FilesType, Gone
<1> QED
  BY <1>1, <1>2, <1>3, TypingInit, PTL DEF Spec, NoReplay

=============================================================================
