---------------------------- MODULE MCSchedules ----------------------------
(* Small instances of Schedules. *)
EXTENDS Schedules

\* One key with two crons, and another key.
SomeTriggers == {[key |-> "k1", cron |-> "c1"], [key |-> "k1", cron |-> "c2"],
                 [key |-> "k2", cron |-> "c1"]}

OneTrigger == {[key |-> "k1", cron |-> "c1"]}
=============================================================================
