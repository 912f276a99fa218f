-------------------------- MODULE MCCronScheduler --------------------------
(* Small instances of CronScheduler: its jobs, in the .cfg, are once, daily *)
(* and leap (a cron expression that has no next run within 366 days).      *)
EXTENDS CronScheduler
=============================================================================
