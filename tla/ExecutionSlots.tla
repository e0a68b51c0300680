---------------------------- MODULE ExecutionSlots ----------------------------
(***************************************************************************)
(* The execution slots of the worker (src/app.py): _EXECUTION_SEMAPHORE,   *)
(* the counters _ACTIVE_JOBS and _JOBS_COMPLETED, the entry and the        *)
(* `finally` of every job (_execute_run, _run_sa3_audio,                   *)
(* _run_tts_dialogue), and the watchdog thread, which restarts an          *)
(* unhealthy ComfyUI and recycles a healthy one while the worker is idle.  *)
(*                                                                         *)
(* The semaphore and the two counters have different locks, so each of     *)
(* their updates is a step of its own.  Readings of the outside world      *)
(* (health, VRAM) and the outcome of restart_comfy are parameters of the   *)
(* actions: any value here, ComfyUI's in WorkerRuntime.                    *)
(***************************************************************************)
EXTENDS Integers, FiniteSets

CONSTANTS
  Job,         \* runs of _execute_run: the threads of POST /jobs and POST /run
  MaxSlots,    \* _MAX_EXECUTION_SLOTS
  AfterJobs,   \* WORKER_RECYCLE_AFTER_JOBS, 0 = no periodic recycle
  VramFloor,   \* whether WORKER_RECYCLE_MIN_FREE_MIB is set
  ThreadsFail  \* whether Thread.start may raise: the process is out of threads

ASSUME SlotsAssumption ==
  /\ IsFiniteSet(Job)
  /\ MaxSlots \in Nat \ {0}
  /\ AfterJobs \in Nat
  /\ VramFloor \in BOOLEAN
  /\ ThreadsFail \in BOOLEAN

VARIABLES
  permits,    \* value of _EXECUTION_SEMAPHORE
  active,     \* _ACTIVE_JOBS
  completed,  \* _JOBS_COMPLETED
  stage,      \* where each job is
  watchdog,   \* where the watchdog thread is
  reason,     \* the trigger of the recycle in progress
  taken,      \* permits the watchdog has acquired
  baseline    \* recycle_baseline

jobVars == <<permits, active, completed, stage>>
watchdogVars == <<watchdog, reason, taken, baseline>>
slotVars == <<jobVars, watchdogVars>>

\* Between semaphore.acquire() and semaphore.release().
HoldingStages == {"acquired", "running", "leaving", "noted", "stranded"}
Holders == {j \in Job : stage[j] \in HoldingStages}

\* Counted in _ACTIVE_JOBS.
CountedStages == {"running", "stranded"}
Counted == {j \in Job : stage[j] \in CountedStages}

SlotsTypeOK ==
  /\ permits \in 0 .. MaxSlots
  /\ active \in Nat
  /\ completed \in Nat
  /\ stage \in [Job -> {"idle", "waiting", "done"} \cup HoldingStages]
  /\ watchdog \in {"sleeping", "unhealthy", "restarting", "healthy", "idle",
                   "claiming", "quiesced", "recycling", "yielding", "recycled"}
  /\ reason \in {"none", "periodic", "low"}
  /\ taken \in 0 .. MaxSlots
  /\ baseline \in Nat

SlotsInit ==
  /\ permits = MaxSlots
  /\ active = 0
  /\ completed = 0
  /\ stage = [j \in Job |-> "idle"]
  /\ watchdog = "sleeping"
  /\ reason = "none"
  /\ taken = 0
  /\ baseline = 0

-----------------------------------------------------------------------------
(* A job                                                                   *)

\* _execute_run starts and gets as far as semaphore.acquire().
Arrive(j) ==
  /\ stage[j] = "idle"
  /\ stage' = [stage EXCEPT ![j] = "waiting"]
  /\ UNCHANGED <<permits, active, completed, watchdogVars>>

\* The two early returns before the slot: unsupported group, vram_pressure.
RejectEarly(j) ==
  /\ stage[j] = "idle"
  /\ stage' = [stage EXCEPT ![j] = "done"]
  /\ UNCHANGED <<permits, active, completed, watchdogVars>>

Acquire(j) ==
  /\ stage[j] = "waiting"
  /\ permits > 0
  /\ permits' = permits - 1
  /\ stage' = [stage EXCEPT ![j] = "acquired"]
  /\ UNCHANGED <<active, completed, watchdogVars>>

\* The job counts itself and starts a thread for a heartbeat.  The `try` whose
\* `finally` gives the slot back begins after that: if Thread.start raises, the
\* slot and the count stay taken.
CountIn(j) ==
  /\ stage[j] = "acquired"
  /\ active' = active + 1
  /\ \E next \in CountedStages :
       /\ next = "stranded" => ThreadsFail
       /\ stage' = [stage EXCEPT ![j] = next]
  /\ UNCHANGED <<permits, completed, watchdogVars>>

\* Mutant: the counter is left as it is.
CountOutForgotten(j) ==
  /\ stage[j] = "running"
  /\ stage' = [stage EXCEPT ![j] = "leaving"]
  /\ UNCHANGED <<permits, active, completed, watchdogVars>>

\* The `finally` clause, whatever the body did: three steps under two locks.
CountOut(j) ==
  /\ stage[j] = "running"
  /\ active' = IF active > 0 THEN active - 1 ELSE 0
  /\ stage' = [stage EXCEPT ![j] = "leaving"]
  /\ UNCHANGED <<permits, completed, watchdogVars>>

NoteCompleted(j) ==
  /\ stage[j] = "leaving"
  /\ completed' = completed + 1
  /\ stage' = [stage EXCEPT ![j] = "noted"]
  /\ UNCHANGED <<permits, active, watchdogVars>>

\* Mutant: the slot is taken and never given back (what G573 repaired in
\* _run_tts_dialogue).
ReleaseForgotten(j) ==
  /\ stage[j] = "noted"
  /\ stage' = [stage EXCEPT ![j] = "done"]
  /\ UNCHANGED <<permits, active, completed, watchdogVars>>

Release(j) ==
  /\ stage[j] = "noted"
  /\ permits' = permits + 1
  /\ stage' = [stage EXCEPT ![j] = "done"]
  /\ UNCHANGED <<active, completed, watchdogVars>>

-----------------------------------------------------------------------------
(* The watchdog: health check every 30 s                                   *)

Tick(healthy) ==
  /\ watchdog = "sleeping"
  /\ watchdog' = IF healthy THEN "healthy" ELSE "unhealthy"
  /\ UNCHANGED <<jobVars, reason, taken, baseline>>

\* Unhealthy: the idle snapshot.  The lock is released before the restart.
CheckIdleBeforeRestart ==
  /\ watchdog = "unhealthy"
  /\ watchdog' = IF active > 0 THEN "sleeping" ELSE "restarting"
  /\ UNCHANGED <<jobVars, reason, taken, baseline>>

RestartEnds(ok) ==
  /\ watchdog = "restarting"
  /\ watchdog' = "sleeping"
  /\ baseline' = IF ok THEN completed ELSE baseline
  /\ UNCHANGED <<jobVars, reason, taken>>

-----------------------------------------------------------------------------
(* The watchdog: _maybe_recycle_comfy                                      *)

CheckIdleBeforeRecycle ==
  /\ watchdog = "healthy"
  /\ watchdog' = IF (AfterJobs = 0 /\ ~VramFloor) \/ active > 0
                 THEN "sleeping" ELSE "idle"
  /\ UNCHANGED <<jobVars, reason, taken, baseline>>

PeriodicDue == AfterJobs > 0 /\ completed - baseline >= AfterJobs

Decide(low) ==
  /\ watchdog = "idle"
  /\ low => VramFloor
  /\ watchdog' = IF PeriodicDue \/ low THEN "claiming" ELSE "sleeping"
  /\ reason' = IF PeriodicDue THEN "periodic" ELSE IF low THEN "low" ELSE "none"
  /\ UNCHANGED <<jobVars, taken, baseline>>

\* Mutant: one permit short of all.
ClaimOneShort ==
  /\ watchdog = "claiming"
  /\ permits > 0
  /\ permits' = permits - 1
  /\ taken' = taken + 1
  /\ watchdog' = IF taken + 1 >= MaxSlots - 1 THEN "quiesced" ELSE "claiming"
  /\ UNCHANGED <<active, completed, stage, reason, baseline>>

\* _acquire_all_slots: one permit at a time, one deadline for all of them.
Claim ==
  /\ watchdog = "claiming"
  /\ permits > 0
  /\ permits' = permits - 1
  /\ taken' = taken + 1
  /\ watchdog' = IF taken + 1 = MaxSlots THEN "quiesced" ELSE "claiming"
  /\ UNCHANGED <<active, completed, stage, reason, baseline>>

\* Mutants: the False of _acquire_all_slots is ignored; it returns False
\* without giving the partial claim back; its acquire has no timeout.
ClaimTimeoutIgnored ==
  /\ watchdog = "claiming"
  /\ permits = 0
  /\ watchdog' = "quiesced"
  /\ UNCHANGED <<jobVars, reason, taken, baseline>>
ClaimKeepsPartial ==
  /\ watchdog = "claiming"
  /\ permits = 0
  /\ watchdog' = "sleeping"
  /\ UNCHANGED <<jobVars, reason, taken, baseline>>
ClaimNeverTimesOut == FALSE /\ UNCHANGED slotVars

\* The deadline passes on an acquire that finds no permit.
ClaimTimesOut ==
  /\ watchdog = "claiming"
  /\ permits = 0
  /\ watchdog' = "yielding"
  /\ UNCHANGED <<jobVars, reason, taken, baseline>>

\* With all slots: a periodic recycle restarts at once, a low-VRAM one only if
\* /free does not bring the memory back.
Confirm(recovered) ==
  /\ watchdog = "quiesced"
  /\ recovered => reason = "low"
  /\ watchdog' = IF recovered THEN "yielding" ELSE "recycling"
  /\ UNCHANGED <<jobVars, reason, taken, baseline>>

RecycleEnds(ok) ==
  /\ watchdog = "recycling"
  /\ watchdog' = IF ok THEN "recycled" ELSE "yielding"
  /\ UNCHANGED <<jobVars, reason, taken, baseline>>

\* Mutants: all slots are released after a partial claim; none is.
GiveBackAll ==
  /\ watchdog \in {"yielding", "recycled"}
  /\ taken > 0
  /\ taken' = 0
  /\ permits' = permits + MaxSlots
  /\ UNCHANGED <<active, completed, stage, watchdog, reason, baseline>>
GiveBackNothing ==
  /\ watchdog \in {"yielding", "recycled"}
  /\ taken > 0
  /\ taken' = 0
  /\ UNCHANGED <<jobVars, watchdog, reason, baseline>>

\* _release_all_slots, and the release of a partial claim.
GiveBack ==
  /\ watchdog \in {"yielding", "recycled"}
  /\ taken > 0
  /\ taken' = taken - 1
  /\ permits' = permits + 1
  /\ UNCHANGED <<active, completed, stage, watchdog, reason, baseline>>

\* Back in _watchdog_loop, which re-reads the baseline after a restart.
RecycleReturns ==
  /\ watchdog \in {"yielding", "recycled"}
  /\ taken = 0
  /\ watchdog' = "sleeping"
  /\ reason' = "none"
  /\ baseline' = IF watchdog = "recycled" THEN completed ELSE baseline
  /\ UNCHANGED <<jobVars, taken>>

-----------------------------------------------------------------------------
JobStep(j) ==
  \/ Arrive(j) \/ RejectEarly(j) \/ Acquire(j) \/ CountIn(j)
  \/ CountOut(j) \/ NoteCompleted(j) \/ Release(j)

WatchdogStep ==
  \/ \E healthy \in BOOLEAN : Tick(healthy)
  \/ CheckIdleBeforeRestart
  \/ \E ok \in BOOLEAN : RestartEnds(ok)
  \/ CheckIdleBeforeRecycle
  \/ \E low \in BOOLEAN : Decide(low)
  \/ Claim
  \/ ClaimTimesOut
  \/ \E recovered \in BOOLEAN : Confirm(recovered)
  \/ \E ok \in BOOLEAN : RecycleEnds(ok)
  \/ GiveBack
  \/ RecycleReturns

SlotsNext == (\E j \in Job : JobStep(j)) \/ WatchdogStep

SlotsSpec == SlotsInit /\ [][SlotsNext]_slotVars

\* A thread that can run does run.  Acquire is strongly fair: the watchdog
\* holds permits for one attempt of at most 5 s and a restart, then sleeps
\* 30 s, and a release wakes a waiter of the semaphore.
FairSlotsSpec ==
  /\ SlotsSpec
  /\ \A j \in Job : WF_slotVars(JobStep(j)) /\ SF_slotVars(Acquire(j))
  /\ WF_slotVars(WatchdogStep)

-----------------------------------------------------------------------------
(* Properties                                                              *)

\* No permit is lost or invented: whatever the interleaving of jobs and of the
\* watchdog's partial claims, permits are in the semaphore, with a job, or
\* with a claim in progress.  A lost permit shrinks the worker for good; one
\* too many makes BoundedSemaphore.release raise inside a `finally`.
SlotsConserved ==
  /\ permits + Cardinality(Holders) + taken = MaxSlots
  /\ watchdog \notin {"claiming", "quiesced", "recycling", "yielding", "recycled"}
       => taken = 0

\* _ACTIVE_JOBS is exactly the number of jobs in their body or stranded before
\* it, so the broker is told the truth, the watchdog's snapshot means what it
\* says, and the max(0, ...) in the `finally` clauses never hides a miscount.
ActiveIsExact == active = Cardinality(Counted)

\* A recycle never runs beside a job: from the moment all slots are claimed to
\* the end of the restart no job is anywhere between acquire and release
\* (_acquire_all_slots: "so no job can run during a restart").
RecycleIsExclusive == watchdog \in {"quiesced", "recycling"} => Holders = {}

\* The permits, taken one by one under a deadline, are a gate that closes at
\* once and only on an empty room: no job slips in between two acquires of a
\* claim that succeeds, or into a recycle.
GateClosed == watchdog \in {"quiesced", "recycling"}
Gate == INSTANCE RecycleGate WITH
  inside <- Holders, vacancies <- MaxSlots - Cardinality(Holders), closed <- GateClosed
ImplementsGate == Gate!GateSpec

\* Neither the watchdog's claims nor the other jobs can hold a job up for ever;
\* only a job stranded with its slot can.
EveryJobLeaves ==
  \A j \in Job :
    stage[j] = "waiting" ~> (stage[j] = "done" \/ \E k \in Job : stage[k] = "stranded")

\* A recycle attempt ends: the watchdog returns to its health checks even if a
\* job holds a slot for the whole attempt.
WatchdogReturns == watchdog # "sleeping" ~> watchdog = "sleeping"

=============================================================================
