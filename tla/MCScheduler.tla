---------------------------- MODULE MCScheduler -----------------------------
(* The scheduler with three threads: deques, sleep and shutdown.           *)
EXTENDS Scheduler
=============================================================================
