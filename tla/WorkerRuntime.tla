----------------------------- MODULE WorkerRuntime -----------------------------
(***************************************************************************)
(* The worker process as a whole: the job registry, the execution slots    *)
(* with the watchdog, and the ComfyUI runs, composed.  A job's thread      *)
(* crosses all three: its record is running while _execute_run takes a     *)
(* slot, runs the body against ComfyUI and gives the slot back.            *)
(*                                                                         *)
(* Besides the jobs and the watchdog two more callers restart ComfyUI      *)
(* without a slot: the preflight thread once its downloads are done, and   *)
(* the handler of POST /assets/ensure.                                     *)
(***************************************************************************)
EXTENDS Integers, Sequences, FiniteSets

CONSTANTS
  AsyncJob,    \* jobs of POST /jobs
  SyncJob,     \* jobs of POST /run, which have no record
  AudioJob,    \* those of the jobs that do not use ComfyUI (SA3, dialogue TTS)
  Maintainer,  \* which of "preflight" and "ensure" call restart_comfy
  MaxSlots, MaxRecords, AfterJobs, VramFloor, HasStopCmd, ThreadsFail, MaxFaults

ASSUME RuntimeAssumption ==
  /\ AsyncJob \cap SyncJob = {}
  /\ AudioJob \subseteq AsyncJob \cup SyncJob
  /\ Maintainer \subseteq {"preflight", "ensure"}
  /\ (AsyncJob \cup SyncJob) \cap {"watchdog", "preflight", "ensure"} = {}
  /\ IsFiniteSet(AsyncJob) /\ IsFiniteSet(SyncJob)
  /\ MaxSlots \in Nat \ {0} /\ MaxRecords \in Nat \ {0}
  /\ AfterJobs \in Nat /\ MaxFaults \in Nat
  /\ {VramFloor, HasStopCmd, ThreadsFail} \subseteq BOOLEAN

AllJob == AsyncJob \cup SyncJob
ComfyJob == AllJob \ AudioJob
Caller == ComfyJob \cup {"watchdog"} \cup Maintainer

VARIABLES
  record, finished, expired, thread,
  permits, active, completed, stage, watchdog, reason, taken, baseline,
  alive, queue, history, present, loaded, restart, faults, lost, rendered,
  step, attempt, why, result,
  maintenance  \* where each maintainer is

Registry == INSTANCE JobRegistry WITH Job <- AsyncJob
Slots == INSTANCE ExecutionSlots WITH Job <- AllJob
Run == INSTANCE PromptRun WITH Job <- ComfyJob, Restarter <- Caller

registryVars == <<record, finished, expired, thread>>
slotVars == <<permits, active, completed, stage, watchdog, reason, taken, baseline>>
runVars == <<step, attempt, why, result>>
serverVars == <<alive, queue, history, present, loaded, restart, faults, lost, rendered>>
promptVars == <<serverVars, runVars>>
vars == <<registryVars, slotVars, serverVars, runVars, maintenance>>

TypeOK ==
  /\ Registry!RegistryTypeOK
  /\ Slots!SlotsTypeOK
  /\ Run!RunTypeOK
  /\ maintenance \in [Maintainer -> {"loading", "checking", "restarting", "done"}]

Init ==
  /\ Registry!RegistryInit
  /\ Slots!SlotsInit
  /\ Run!PromptInit
  /\ maintenance = [m \in Maintainer |-> "loading"]

-----------------------------------------------------------------------------
(* The thread of a job                                                     *)

\* The registry's own steps: requests, thread start, result, polls, the clock.
RegistryStep ==
  /\ \/ \E j \in AsyncJob : Registry!Submit(j) \/ Registry!Spawn(j)
                            \/ Registry!SpawnFails(j) \/ Registry!Start(j)
                            \/ Registry!Store(j)
     \/ Registry!Poll
     \/ Registry!Expire
  /\ UNCHANGED <<slotVars, promptVars, maintenance>>

\* _execute_run is called, by the job's thread or by the handler of POST /run.
Called(j) == j \in AsyncJob => thread[j] = "executing"

EnterRun(j) ==
  /\ Called(j)
  /\ Slots!Arrive(j) \/ Slots!RejectEarly(j)
  /\ UNCHANGED <<registryVars, promptVars, maintenance>>

\* The steps around the body that touch only the slots and the counters.
SlotStep(j) ==
  /\ Slots!Acquire(j) \/ Slots!NoteCompleted(j) \/ Slots!Release(j)
  /\ UNCHANGED <<registryVars, promptVars, maintenance>>

BeginBody(j) ==
  /\ Slots!CountIn(j)
  /\ IF j \in ComfyJob /\ stage'[j] = "running"
       THEN Run!Begin(j) ELSE UNCHANGED promptVars
  /\ UNCHANGED <<registryVars, maintenance>>

\* The body proper; Begin belongs to BeginBody.
RunBody(j) ==
  /\ step[j] # "idle"
  /\ Run!BodyStep(j)
  /\ UNCHANGED <<registryVars, slotVars, maintenance>>

\* Mutant: the count goes down before the body is over.
EndBodyEarly(j) ==
  /\ Slots!CountOut(j)
  /\ UNCHANGED <<registryVars, promptVars, maintenance>>

EndBody(j) ==
  /\ j \in ComfyJob => step[j] \in {"ok", "error"}
  /\ Slots!CountOut(j)
  /\ UNCHANGED <<registryVars, promptVars, maintenance>>

\* Mutant: ok whatever happened.
ResponseAlwaysOk(j) == {"ok"}

\* The response of _execute_run: the body's, an audio runner's, or an early
\* rejection's error.
Response(j) ==
  IF j \in AudioJob THEN {"ok", "error"}
  ELSE IF step[j] = "ok" THEN {"ok"} ELSE {"error"}

ReturnResponse(j) ==
  /\ stage[j] = "done"
  /\ \E response \in Response(j) : Registry!Return(j, response)
  /\ UNCHANGED <<slotVars, promptVars, maintenance>>

\* _execute_run raises, before its `try` or at the very end of its `finally`.
RunRaises(j) ==
  /\ stage[j] \in {"stranded", "done"}
  /\ Registry!Die(j)
  /\ UNCHANGED <<slotVars, promptVars, maintenance>>

-----------------------------------------------------------------------------
(* The watchdog and the maintainers                                        *)

\* restart_comfy, called by a thread that is not a job's.
CallRestart(r) ==
  /\ restart' = [restart EXCEPT ![r] = "stop"]
  /\ UNCHANGED <<alive, queue, history, present, loaded, faults, lost, rendered, runVars>>

RestartReturns(r) == Run!RestartReturns(r) /\ UNCHANGED runVars

Restarted(r) == restart[r] = "ready"

\* The watchdog's readings of ComfyUI's health are the server's.
WatchdogObserves ==
  /\ \/ Slots!Tick(alive)
     \/ Slots!CheckIdleBeforeRecycle
     \/ \E low \in BOOLEAN : Slots!Decide(low)
     \/ Slots!Claim \/ Slots!ClaimTimesOut \/ Slots!GiveBack \/ Slots!RecycleReturns
     \/ Slots!Confirm(TRUE)
  /\ UNCHANGED <<registryVars, promptVars, maintenance>>

WatchdogChecksIdle ==
  /\ Slots!CheckIdleBeforeRestart
  /\ IF active > 0 THEN UNCHANGED promptVars ELSE CallRestart("watchdog")
  /\ UNCHANGED <<registryVars, maintenance>>

WatchdogStartsRecycle ==
  /\ Slots!Confirm(FALSE)
  /\ CallRestart("watchdog")
  /\ UNCHANGED <<registryVars, maintenance>>

WatchdogRestartReturns ==
  /\ RestartReturns("watchdog")
  /\ Slots!RestartEnds(Restarted("watchdog")) \/ Slots!RecycleEnds(Restarted("watchdog"))
  /\ UNCHANGED <<registryVars, maintenance>>

\* The end of the download loops: something changed and nothing failed, or
\* there is no restart to do.  Here the group is downloaded if it is missing.
MaintainerLoads(m) ==
  /\ maintenance[m] = "loading"
  /\ \/ /\ present' = TRUE
        /\ maintenance' = [maintenance EXCEPT ![m] = IF present THEN "done" ELSE "checking"]
     \/ /\ maintenance' = [maintenance EXCEPT ![m] = "done"]
        /\ UNCHANGED present
  /\ UNCHANGED <<alive, queue, history, loaded, restart, faults, lost, rendered, runVars>>
  /\ UNCHANGED <<registryVars, slotVars>>

\* The preflight restarts after one idle snapshot, or never; the handler of
\* /assets/ensure restarts at once.
MaintainerChecksIdle(m) ==
  /\ maintenance[m] = "checking"
  /\ IF m = "preflight" /\ active > 0
       THEN /\ maintenance' = [maintenance EXCEPT ![m] = "done"]
            /\ UNCHANGED promptVars
       ELSE /\ maintenance' = [maintenance EXCEPT ![m] = "restarting"]
            /\ CallRestart(m)
  /\ UNCHANGED <<registryVars, slotVars>>

MaintainerRestartReturns(m) ==
  /\ maintenance[m] = "restarting"
  /\ RestartReturns(m)
  /\ maintenance' = [maintenance EXCEPT ![m] = "done"]
  /\ UNCHANGED <<registryVars, slotVars>>

-----------------------------------------------------------------------------
ServerStep ==
  /\ Run!ServerStep
  /\ UNCHANGED <<runVars, registryVars, slotVars, maintenance>>

RestartCommand(r) ==
  /\ Run!RestartStep(r)
  /\ UNCHANGED <<runVars, registryVars, slotVars, maintenance>>

\* The step of a job's thread, but for the acquisition of the slot and the
\* thread's own creation.
JobStep(j) ==
  \/ EnterRun(j) \/ SlotStep(j) \/ BeginBody(j) \/ EndBody(j)
  \/ j \in ComfyJob /\ RunBody(j)
  \/ j \in AsyncJob /\ (ReturnResponse(j) \/ RunRaises(j))

WatchdogStep ==
  \/ WatchdogObserves \/ WatchdogChecksIdle
  \/ WatchdogStartsRecycle \/ WatchdogRestartReturns

MaintainerStep(m) ==
  MaintainerLoads(m) \/ MaintainerChecksIdle(m) \/ MaintainerRestartReturns(m)

Next ==
  \/ RegistryStep
  \/ \E j \in AllJob : JobStep(j)
  \/ WatchdogStep
  \/ \E m \in Maintainer : MaintainerStep(m)
  \/ \E r \in Caller : RestartCommand(r)
  \/ ServerStep

Spec == Init /\ [][Next]_vars

\* Fairness of the parts (see ExecutionSlots and PromptRun), and of the two
\* critical sections of _run_job_async.  Requests, faults and ComfyUI's own
\* progress are not assumed.
Fairness ==
  /\ \A j \in AllJob :
       /\ WF_vars(JobStep(j))
       /\ SF_vars(Slots!Acquire(j) /\ UNCHANGED <<registryVars, promptVars, maintenance>>)
  /\ \A j \in ComfyJob :
       SF_vars(Run!PollTimesOut(j) /\ UNCHANGED <<registryVars, slotVars, maintenance>>)
  /\ \A j \in AsyncJob :
       WF_vars((Registry!Start(j) \/ Registry!Store(j))
               /\ UNCHANGED <<slotVars, promptVars, maintenance>>)
  /\ WF_vars(WatchdogStep)
  /\ \A m \in Maintainer : WF_vars(MaintainerStep(m))
  /\ \A r \in Caller : WF_vars(RestartCommand(r))

FairSpec == Spec /\ Fairness

-----------------------------------------------------------------------------
(* Properties                                                              *)

\* When _ACTIVE_JOBS is 0 no job has or may submit a prompt: the snapshots of
\* the preflight and of the watchdog, and the "idle" of a heartbeat, mean that
\* nobody waits for ComfyUI at that moment.
IdleMeansIdle ==
  active = 0 => \A j \in ComfyJob : step[j] \in {"idle", "ok", "error"}

\* What a client of POST /jobs is promised: a job whose thread was started
\* reaches a terminal record, through slots, restarts and timeouts, as long as
\* the process does not run out of threads.
StartedJobsFinish ==
  ~ThreadsFail => \A j \in AsyncJob : thread[j] = "ready" ~> thread[j] = "exited"

\* The capacity check of POST /jobs makes the wait for a slot short: an accepted job
\* that finds no permit waits for a job of POST /run or for the watchdog's claim,
\* never for another accepted job, not even for one that was stranded.
AcceptedJobsFindSlots ==
  \A j \in AsyncJob : stage[j] = "waiting" /\ permits = 0 =>
    taken > 0 \/ \E k \in SyncJob : stage[k] \in Slots!HoldingStages

\* A completed record of a ComfyUI job stands for a prompt of that very job
\* that rendered, and the job has given its slot back: a client that sees
\* "completed" may submit again without finding the worker busy with it.
CompletedIsRendered ==
  \A j \in AsyncJob \cap ComfyJob : record[j] = "completed" =>
    /\ stage[j] = "done"
    /\ \E p \in rendered : p[1] = j /\ result[j] = p

\* A recycle never takes a prompt away from a job that waits for it.
RecycleSparesPrompts ==
  [][(watchdog = "recycling" /\ restart["watchdog"] = "stop"
        /\ restart'["watchdog"] = "start")
       => \A j \in ComfyJob : step[j] \notin {"polling", "checking"}]_vars

\* The docstring of _watchdog_loop, for its other action: "Two idle-gated
\* actions, never taken while a job is running: 1. Restart ComfyUI when it
\* goes unhealthy".
WatchdogSparesPrompts ==
  [][(watchdog = "restarting" /\ restart["watchdog"] = "stop"
        /\ restart'["watchdog"] = "start")
       => \A j \in ComfyJob : step[j] \notin {"polling", "checking"}]_vars

=============================================================================
