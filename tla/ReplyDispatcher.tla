--------------------------- MODULE ReplyDispatcher ---------------------------
(***************************************************************************)
(* The dispatchers of replies (auto-reply/reply/reply-dispatcher.ts, their *)
(* registry dispatcher-registry.ts, and withReplyDispatcher of             *)
(* auto-reply/dispatch.ts).                                                *)
(*                                                                         *)
(* A dispatcher counts the replies that are not delivered yet and one      *)
(* reservation, held until no more replies can come; while it is           *)
(* registered its count keeps the gateway from restarting.                 *)
(***************************************************************************)
EXTENDS Integers

CONSTANTS Dispatchers,  \* dispatchers that may be in use at a time
          MaxReplies,   \* bound: replies of a dispatcher waiting at a time
          LateReplies   \* replies may come after markComplete

ASSUME RepliesAssumption == MaxReplies \in Nat /\ LateReplies \in BOOLEAN

VARIABLES
  run,         \* run[d]: "new", "running", or "complete" (completeCalled)
  chain,       \* chain[d]: replies in d's chain that are not delivered
  pending,     \* pending[d]
  clearing,    \* clearing[d]: markComplete's microtask has still to run
  registered   \* activeDispatchers

replyVars == <<run, chain, pending, clearing, registered>>

RepliesInit ==
  /\ run = [d \in Dispatchers |-> "new"]
  /\ chain = [d \in Dispatchers |-> 0]
  /\ pending = [d \in Dispatchers |-> 0]
  /\ clearing = [d \in Dispatchers |-> FALSE]
  /\ registered = {}

\* createReplyDispatcher: one is reserved.  A finished dispatcher stands for a new
\* one.
Create(d) ==
  /\ run[d] # "running" /\ chain[d] = 0 /\ ~clearing[d] /\ d \notin registered
  /\ run' = [run EXCEPT ![d] = "running"]
  /\ pending' = [pending EXCEPT ![d] = 1]
  /\ registered' = registered \cup {d}
  /\ UNCHANGED <<chain, clearing>>

\* sendToolResult, sendBlockReply, sendFinalReply.
Send(d) ==
  /\ run[d] = "running" \/ (LateReplies /\ run[d] = "complete")
  /\ chain[d] < MaxReplies
  /\ chain' = [chain EXCEPT ![d] = @ + 1]
  /\ pending' = [pending EXCEPT ![d] = @ + 1]
  /\ UNCHANGED <<run, clearing, registered>>

ReservationGone(d, count) == count = 1
\* Only the reservation is left, and nothing more will come.
ReservationOver(d, count) == count = 1 /\ run[d] = "complete"

CountOnly(d, count) ==
  /\ pending' = [pending EXCEPT ![d] = count]
  /\ registered' = IF count = 0 THEN registered \ {d} ELSE registered

\* The dispatcher's count, less the reservation if that is over.
Count(d, count) ==
  /\ pending' = [pending EXCEPT ![d] = IF ReservationOver(d, count) THEN 0 ELSE count]
  /\ registered' = IF ReservationOver(d, count) \/ count = 0 THEN registered \ {d} ELSE registered

\* The oldest reply is delivered, or fails.
Delivered(d) ==
  /\ chain[d] > 0
  /\ chain' = [chain EXCEPT ![d] = @ - 1]
  /\ Count(d, pending[d] - 1)
  /\ UNCHANGED <<run, clearing>>

\* The run settles, in whatever way; markComplete.
MarkComplete(d) ==
  /\ run[d] = "running"
  /\ run' = [run EXCEPT ![d] = "complete"]
  /\ clearing' = [clearing EXCEPT ![d] = TRUE]
  /\ UNCHANGED <<chain, pending, registered>>

\* markComplete's microtask.
ClearReservation(d) ==
  /\ clearing[d]
  /\ clearing' = [clearing EXCEPT ![d] = FALSE]
  /\ IF pending[d] = 1 THEN Count(d, 1) ELSE UNCHANGED <<pending, registered>>
  /\ UNCHANGED <<run, chain>>

Reply(d) == Send(d) \/ Delivered(d) \/ MarkComplete(d) \/ ClearReservation(d)

\* getTotalPendingReplies is positive.
RepliesPending == \E d \in registered : pending[d] > 0

\* A registered dispatcher counts what waits and its reservation, and is not
\* registered for ever: something still waits, or will come, or is to be cleared.
RepliesTypeOK ==
  /\ run \in [Dispatchers -> {"new", "running", "complete"}]
  /\ chain \in [Dispatchers -> 0 .. MaxReplies]
  /\ pending \in [Dispatchers -> 0 .. MaxReplies + 1]
  /\ clearing \in [Dispatchers -> BOOLEAN]
  /\ registered \subseteq Dispatchers
  /\ \A d \in Dispatchers :
       /\ pending[d] = IF d \in registered THEN chain[d] + 1 ELSE 0
       /\ d \in registered => run[d] = "running" \/ chain[d] > 0 \/ clearing[d]
       /\ run[d] = "running" \/ chain[d] > 0 => d \in registered

=============================================================================
