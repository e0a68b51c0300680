------------------------------ MODULE ComfyServer ------------------------------
(***************************************************************************)
(* The local ComfyUI server as the worker sees it over HTTP (external:     *)
(* /prompt, /queue, /history/{id}, /system_stats), and the worker's way of *)
(* restarting it, restart_comfy of src/comfy_process.py, which any number  *)
(* of threads may be executing at once: no lock guards it.  COMFY_START_CMD *)
(* is set (without it restart_comfy raises at once).                        *)
(*                                                                         *)
(* A prompt is <<job, attempt>>: the id is fresh for every submission.     *)
(* Prompts run one at a time in the order of the queue.  Queue and history *)
(* live in the server's memory and die with the process.                   *)
(***************************************************************************)
EXTENDS Integers, Sequences, FiniteSets

CONSTANTS
  Job,         \* jobs that submit prompts
  Restarter,   \* threads that may be inside restart_comfy
  HasStopCmd,  \* whether COMFY_STOP_CMD is set
  MaxFaults    \* bound: crashes of the server and failures of its start command

ASSUME ServerAssumption ==
  /\ Job \subseteq Restarter
  /\ HasStopCmd \in BOOLEAN
  /\ MaxFaults \in Nat

VARIABLES
  alive,    \* the server answers
  queue,    \* queue_running followed by queue_pending
  history,  \* how each prompt ended, as /history reports it: "none" = no entry
  present,  \* the jobs' asset group is on disk and provisioned
  loaded,   \* ... and was so when the current ComfyUI process started
  restart,  \* where each thread is in restart_comfy
  faults,   \* faults so far
  lost,     \* (history variable) prompts that were in the queue or in the
            \* history when the process died
  rendered  \* (history variable) prompts that ever ran to success

serverVars == <<alive, queue, history, present, loaded, restart, faults, lost, rendered>>

Prompt == Job \X {1, 2}
Outcomes == {"success", "oom", "error"}

InQueue(p) == \E i \in 1 .. Len(queue) : queue[i] = p

ServerTypeOK ==
  /\ alive \in BOOLEAN
  /\ queue \in Seq(Prompt)
  /\ history \in [Prompt -> Outcomes \cup {"none"}]
  /\ present \in BOOLEAN
  /\ loaded \in BOOLEAN
  /\ restart \in [Restarter -> {"none", "stop", "start", "await", "ready", "failed"}]
  /\ faults \in 0 .. MaxFaults
  /\ lost \subseteq Prompt
  /\ rendered \subseteq Prompt

ServerInit ==
  /\ alive = TRUE
  /\ queue = << >>
  /\ history = [p \in Prompt |-> "none"]
  /\ present \in BOOLEAN
  /\ loaded = present
  /\ restart = [r \in Restarter |-> "none"]
  /\ faults = 0
  /\ lost = {}
  /\ rendered = {}

-----------------------------------------------------------------------------
(* The server on its own                                                   *)

\* The running prompt ends and gets its history entry.
Execute(outcome) ==
  /\ alive
  /\ queue # << >>
  /\ queue' = Tail(queue)
  /\ history' = [history EXCEPT ![Head(queue)] = outcome]
  /\ rendered' = IF outcome = "success" THEN rendered \cup {Head(queue)} ELSE rendered
  /\ UNCHANGED <<alive, present, loaded, restart, faults, lost>>

\* The process dies: what it had in memory is gone.
ProcessDies ==
  /\ alive' = FALSE
  /\ queue' = << >>
  /\ history' = [p \in Prompt |-> "none"]
  /\ lost' = lost \cup {p \in Prompt : InQueue(p) \/ history[p] # "none"}

Crash ==
  /\ alive
  /\ faults < MaxFaults
  /\ faults' = faults + 1
  /\ ProcessDies
  /\ UNCHANGED <<present, loaded, restart, rendered>>

-----------------------------------------------------------------------------
(* restart_comfy, one action per command it runs                           *)

\* The stop command kills the process, or fails; without one the call goes on
\* to the start command.
StopComfy(r) ==
  /\ restart[r] = "stop"
  /\ \/ /\ restart' = [restart EXCEPT ![r] = "start"]
        /\ IF HasStopCmd THEN ProcessDies ELSE UNCHANGED <<alive, queue, history, lost>>
     \/ /\ HasStopCmd
        /\ restart' = [restart EXCEPT ![r] = "failed"]
        /\ UNCHANGED <<alive, queue, history, lost>>
  /\ UNCHANGED <<present, loaded, faults, rendered>>

\* The start command brings a process up, or finds one already running and
\* does nothing.  Beside the fault of a command that fails, a supervisor may
\* answer "already started" with an error.
StartComfy(r) ==
  /\ restart[r] = "start"
  /\ \/ /\ alive' = TRUE
        /\ loaded' = IF alive THEN loaded ELSE present
        /\ restart' = [restart EXCEPT ![r] = "await"]
        /\ UNCHANGED faults
     \/ /\ alive \/ faults < MaxFaults
        /\ restart' = [restart EXCEPT ![r] = "failed"]
        /\ faults' = IF alive THEN faults ELSE faults + 1
        /\ UNCHANGED <<alive, loaded>>
  /\ UNCHANGED <<queue, history, present, lost, rendered>>

\* wait_for_comfy_ready: any healthy answer before the deadline will do, this
\* process's or another's; the deadline passes only while none comes.
AwaitComfy(r) ==
  /\ restart[r] = "await"
  /\ restart' = [restart EXCEPT ![r] = IF alive THEN "ready" ELSE "failed"]
  /\ UNCHANGED <<alive, queue, history, present, loaded, faults, lost, rendered>>

RestartStep(r) == StopComfy(r) \/ StartComfy(r) \/ AwaitComfy(r)

ServerStep == (\E outcome \in Outcomes : Execute(outcome)) \/ Crash

=============================================================================
