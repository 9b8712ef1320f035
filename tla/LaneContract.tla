---------------------------- MODULE LaneContract ----------------------------
(***************************************************************************)
(* What the callers of the command queue rely on, stated without lanes'    *)
(* queues, slots or generations: every call moves forward through its life *)
(* and, within one lane, calls start in the order in which they were made. *)
(*                                                                         *)
(*   new --> refused                           (gateway draining)          *)
(*   new --> waiting --> cleared               (lane cleared)              *)
(*   new --> waiting --> executing --> resolved | rejected                 *)
(*                                                                         *)
(* A call may be accepted and started in one step ("new" to "executing").  *)
(***************************************************************************)
EXTENDS Integers

CONSTANTS Lanes,    \* the command lanes
          Calls     \* the calls, numbered in the order they are made

VARIABLES stage,    \* stage[c]: where call c is in its life
          lane      \* lane[c]: the lane call c was made on

Stages == {"new", "refused", "waiting", "executing",
           "cleared", "resolved", "rejected"}

Settled == {"refused", "cleared", "resolved", "rejected"}

Forward == {<<"new", "refused">>, <<"new", "waiting">>, <<"new", "executing">>,
            <<"waiting", "executing">>, <<"waiting", "cleared">>,
            <<"executing", "resolved">>, <<"executing", "rejected">>}

Init == /\ stage = [c \in Calls |-> "new"]
        /\ lane \in [Calls -> Lanes]

\* A call starts in this step.
StartsNow(c) == stage[c] # "executing" /\ stage'[c] = "executing"

Advance ==
  /\ stage' \in [Calls -> Stages]
  /\ lane' \in [Calls -> Lanes]
  /\ \A c \in Calls : /\ stage'[c] # stage[c] => <<stage[c], stage'[c]>> \in Forward
                      /\ stage[c] # "new" => lane'[c] = lane[c]
  /\ \A c, d \in Calls :
        /\ StartsNow(c)
        /\ d < c
        /\ lane'[d] = lane'[c]
        => stage'[d] # "waiting"

Spec == Init /\ [][Advance]_<<stage, lane>>

=============================================================================
