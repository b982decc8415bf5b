-------------------------- MODULE MCScheduledWork --------------------------
(* Finite instance of ScheduledWork; schedules.cfg gives the bounds. *)
EXTENDS ScheduledWork, TLC

CONSTANTS t1, d1, d2, i1, i2, k1, k2

CronAndInterval == [d \in Definitions |-> IF d = d1 THEN "cron" ELSE "interval"]
AnyScheduler == Permutations(Instances) \cup Permutations(Ticks)
=============================================================================
