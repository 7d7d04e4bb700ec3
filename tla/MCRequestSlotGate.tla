-------------------------- MODULE MCRequestSlotGate --------------------------
(***************************************************************************)
(* Small instances of RequestSlotGate for TLC.                             *)
(***************************************************************************)
EXTENDS RequestSlotGate

\* c is urgent.
Urgent == [a |-> 0, b |-> 0, c |-> 1]
==============================================================================
