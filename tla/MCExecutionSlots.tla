-------------------------- MODULE MCExecutionSlots --------------------------
(* ExecutionSlots on three jobs and two slots, with both recycle triggers. *)
EXTENDS ExecutionSlots
=============================================================================
