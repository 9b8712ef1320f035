---------------------------- MODULE MCCronService ----------------------------
(* CronService for model checking: a recurring job and a one-shot, either of *)
(* which may be the one that is switched on and off and runs for long.       *)
EXTENDS CronService, TLC

CONSTANTS report, reminder

AllKinds ==
  {(report :> "cron") @@ (reminder :> "at"),
   (report :> "at") @@ (reminder :> "cron"),
   (report :> "atDelete") @@ (reminder :> "every")}

=============================================================================
