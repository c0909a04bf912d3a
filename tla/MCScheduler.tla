---------------------------- MODULE MCScheduler -----------------------------
(***************************************************************************)
(* Scheduler with a second of a few milliseconds: intervals of 1 and 3    *)
(* ms, repeated checks of 2 and 4 ms, polls up to 3 ms apart.                     *)
(***************************************************************************)
EXTENDS Scheduler

MCFps == {300, 5000}
=============================================================================
