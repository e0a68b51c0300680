------------------------------ MODULE RecycleGate ------------------------------
(***************************************************************************)
(* What the execution slots promise to jobs and to the recycle             *)
(* (_acquire_all_slots of src/app.py: "Grab every execution slot so no job *)
(* can run during a restart"): up to MaxSlots jobs are inside at a time,   *)
(* and the gate closes in one step, and only on an empty room.             *)
(* ExecutionSlots implements it permit by permit.                          *)
(***************************************************************************)
EXTENDS Integers

CONSTANTS Job, MaxSlots

VARIABLES
  inside,     \* the jobs in the room
  vacancies,  \* how many more may enter
  closed

gateVars == <<inside, vacancies, closed>>

GateInit ==
  /\ inside = {}
  /\ vacancies = MaxSlots
  /\ closed = FALSE

Enter(j) ==
  /\ ~closed
  /\ j \notin inside
  /\ vacancies > 0
  /\ inside' = inside \cup {j}
  /\ vacancies' = vacancies - 1
  /\ UNCHANGED closed

Leave(j) ==
  /\ j \in inside
  /\ inside' = inside \ {j}
  /\ vacancies' = vacancies + 1
  /\ UNCHANGED closed

Close ==
  /\ inside = {}
  /\ closed' = TRUE
  /\ UNCHANGED <<inside, vacancies>>

Open ==
  /\ closed' = FALSE
  /\ UNCHANGED <<inside, vacancies>>

GateNext == (\E j \in Job : Enter(j) \/ Leave(j)) \/ Close \/ Open

GateSpec == GateInit /\ [][GateNext]_gateVars

================================================================================
