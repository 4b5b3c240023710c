----------------------------- MODULE MCScheduler -----------------------------
(* Scheduler for TLC: threads and locks are model values. *)
EXTENDS Scheduler
=============================================================================
