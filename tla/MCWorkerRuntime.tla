--------------------------- MODULE MCWorkerRuntime ---------------------------
(* WorkerRuntime on one slot and two records: a job that runs in ComfyUI,  *)
(* another and one of POST /run that do not, and the preflight.            *)
EXTENDS WorkerRuntime

CONSTANTS a1, a2, s1

\* (bound) The second accepted job comes and goes before the body of the first.
OneBody == record[a2] # "absent" => step[a1] = "idle"

MCSpec == Init /\ [][Next /\ OneBody']_vars
=============================================================================
