------------------------- MODULE MCSchedulerSnapshot -------------------------
(***************************************************************************)
(* A small instance of SchedulerSnapshot for TLC.                          *)
(***************************************************************************)
EXTENDS SchedulerSnapshot, MCScheduler
==============================================================================
