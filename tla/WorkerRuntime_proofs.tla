------------------------ MODULE WorkerRuntime_proofs ------------------------
(***************************************************************************)
(* What the worker process does for any number of jobs, slots, records and *)
(* faults.  The composition implements the specifications of its registry, *)
(* its slots and its bodies, so what was proved of them holds of it; what  *)
(* relates the parts rests on one fact: a body waits for ComfyUI only      *)
(* while its job is counted and holds its slot.  The last two sections are *)
(* what can be proved of progress: no job is thrown back, and none waits   *)
(* without a cause.                                                        *)
(***************************************************************************)
EXTENDS WorkerRuntime, FiniteSetTheorems, TLAPS

RegistryP == INSTANCE JobRegistry_proofs WITH Job <- AsyncJob
SlotsP == INSTANCE ExecutionSlots_proofs WITH Job <- AllJob
RunP == INSTANCE PromptRun_proofs WITH Job <- ComfyJob, Restarter <- Caller

-----------------------------------------------------------------------------
(* The assumptions of the parts                                            *)

\* The jobs are finitely many.
LEMMA FiniteJobs == IsFiniteSet(AsyncJob) /\ IsFiniteSet(AllJob)
BY RuntimeAssumption, FS_Union DEF RuntimeAssumption, AllJob

\* Each part may assume of its constants what it does.
LEMMA PartsAssume ==
  /\ RegistryP!RegistryAssumption
  /\ SlotsP!SlotsAssumption
  /\ RunP!ServerAssumption
<1>1. RegistryP!IsFiniteSet(AsyncJob) /\ SlotsP!IsFiniteSet(AllJob)
  BY FiniteJobs DEF IsFiniteSet, RegistryP!IsFiniteSet, SlotsP!IsFiniteSet
<1>2. ComfyJob \subseteq Caller
  BY DEF Caller
<1>3. /\ MaxSlots \in Nat \ {0} /\ MaxRecords \in Nat \ {0}
      /\ AfterJobs \in Nat /\ MaxFaults \in Nat
      /\ VramFloor \in BOOLEAN /\ HasStopCmd \in BOOLEAN /\ ThreadsFail \in BOOLEAN
  BY RuntimeAssumption DEF RuntimeAssumption
<1> QED
  BY <1>1, <1>2, <1>3 DEF RegistryP!RegistryAssumption, SlotsP!SlotsAssumption,
                          RunP!ServerAssumption

\* The watchdog and the maintainers are not jobs.
LEMMA CallersApart ==
  /\ ComfyJob \subseteq AllJob
  /\ "watchdog" \in Caller \ ComfyJob
  /\ \A m \in Maintainer : m \in Caller \ ComfyJob
BY RuntimeAssumption DEF RuntimeAssumption, AllJob, ComfyJob, Caller

-----------------------------------------------------------------------------
(* The composition implements the slots                                    *)

\* Each step of the composition is one of the slots, or leaves them alone.
LEMMA StepOfSlots == [Next]_vars => [SlotsP!SlotsNext]_SlotsP!slotVars
<1> SUFFICES ASSUME [Next]_vars PROVE [SlotsP!SlotsNext]_SlotsP!slotVars
  OBVIOUS
<1> USE DEF SlotsP!slotVars, SlotsP!jobVars, SlotsP!watchdogVars, Slots!jobVars,
            Slots!watchdogVars, slotVars
<1>1. ASSUME NEW j \in AllJob, JobStep(j) PROVE [SlotsP!SlotsNext]_SlotsP!slotVars
  <2>1. CASE EnterRun(j)
    <3>1. SlotsP!Arrive(j) \/ SlotsP!RejectEarly(j)
      BY <2>1 DEF EnterRun, Slots!Arrive, Slots!RejectEarly, SlotsP!Arrive, SlotsP!RejectEarly
    <3> QED
      BY <3>1 DEF SlotsP!SlotsNext, SlotsP!JobStep
  <2>2. CASE SlotStep(j)
    <3>1. SlotsP!Acquire(j) \/ SlotsP!NoteCompleted(j) \/ SlotsP!Release(j)
      BY <2>2 DEF SlotStep, Slots!Acquire, Slots!NoteCompleted, Slots!Release,
                  SlotsP!Acquire, SlotsP!NoteCompleted, SlotsP!Release
    <3> QED
      BY <3>1 DEF SlotsP!SlotsNext, SlotsP!JobStep
  <2>3. CASE BeginBody(j)
    <3>1. SlotsP!CountIn(j)
      BY <2>3 DEF BeginBody, Slots!CountIn, SlotsP!CountIn, Slots!CountedStages,
                  SlotsP!CountedStages
    <3> QED
      BY <3>1 DEF SlotsP!SlotsNext, SlotsP!JobStep
  <2>4. CASE EndBody(j)
    <3>1. SlotsP!CountOut(j)
      BY <2>4 DEF EndBody, Slots!CountOut, SlotsP!CountOut
    <3> QED
      BY <3>1 DEF SlotsP!SlotsNext, SlotsP!JobStep
  <2>5. CASE RunBody(j) \/ ReturnResponse(j) \/ RunRaises(j)
    BY <2>5 DEF RunBody, ReturnResponse, RunRaises
  <2> QED
    BY <1>1, <2>1, <2>2, <2>3, <2>4, <2>5 DEF JobStep
<1>2. CASE WatchdogStep
  <2> SUFFICES SlotsP!WatchdogStep
    BY DEF SlotsP!SlotsNext
  <2> USE DEF SlotsP!WatchdogStep
  <2>1. CASE WatchdogChecksIdle
    BY <2>1 DEF WatchdogChecksIdle, Slots!CheckIdleBeforeRestart, SlotsP!CheckIdleBeforeRestart
  <2>2. CASE WatchdogStartsRecycle
    <3>1. SlotsP!Confirm(FALSE)
      BY <2>2 DEF WatchdogStartsRecycle, Slots!Confirm, SlotsP!Confirm
    <3> QED
      BY <3>1
  <2>3. CASE WatchdogRestartReturns
    <3>1. PICK ok \in BOOLEAN : SlotsP!RestartEnds(ok) \/ SlotsP!RecycleEnds(ok)
      BY <2>3 DEF WatchdogRestartReturns, Restarted, Slots!RestartEnds, Slots!RecycleEnds,
                  SlotsP!RestartEnds, SlotsP!RecycleEnds
    <3> QED
      BY <3>1
  <2>4. CASE WatchdogObserves
    <3>1. CASE Slots!Tick(alive)
      <4>1. \E healthy \in BOOLEAN : SlotsP!Tick(healthy)
        BY <3>1 DEF Slots!Tick, SlotsP!Tick
      <4> QED
        BY <4>1
    <3>2. CASE Slots!CheckIdleBeforeRecycle
      BY <3>2 DEF Slots!CheckIdleBeforeRecycle, SlotsP!CheckIdleBeforeRecycle
    <3>3. CASE \E low \in BOOLEAN : Slots!Decide(low)
      BY <3>3 DEF Slots!Decide, SlotsP!Decide, Slots!PeriodicDue, SlotsP!PeriodicDue
    <3>4. CASE Slots!Claim \/ Slots!ClaimTimesOut
      BY <3>4 DEF Slots!Claim, SlotsP!Claim, Slots!ClaimTimesOut, SlotsP!ClaimTimesOut
    <3>5. CASE Slots!GiveBack \/ Slots!RecycleReturns
      BY <3>5 DEF Slots!GiveBack, SlotsP!GiveBack, Slots!RecycleReturns, SlotsP!RecycleReturns
    <3>6. CASE Slots!Confirm(TRUE)
      <4>1. SlotsP!Confirm(TRUE)
        BY <3>6 DEF Slots!Confirm, SlotsP!Confirm
      <4> QED
        BY <4>1
    <3> QED
      BY <2>4, <3>1, <3>2, <3>3, <3>4, <3>5, <3>6 DEF WatchdogObserves
  <2> QED
    BY <1>2, <2>1, <2>2, <2>3, <2>4 DEF WatchdogStep
<1>3. CASE RegistryStep \/ ServerStep \/ UNCHANGED vars
  BY <1>3 DEF RegistryStep, ServerStep, vars
<1>4. CASE \E m \in Maintainer : MaintainerStep(m)
  BY <1>4 DEF MaintainerStep, MaintainerLoads, MaintainerChecksIdle, MaintainerRestartReturns
<1>5. CASE \E r \in Caller : RestartCommand(r)
  BY <1>5 DEF RestartCommand
<1> QED
  BY <1>1, <1>2, <1>3, <1>4, <1>5 DEF Next

\* The worker's slots behave as ExecutionSlots says, whatever the rest of the
\* process does with them.
THEOREM RuntimeImplementsSlots == Spec => SlotsP!SlotsSpec
<1>1. Init => SlotsP!SlotsInit
  BY DEF Init, Slots!SlotsInit, SlotsP!SlotsInit
<1> QED
  BY <1>1, StepOfSlots, PTL DEF Spec, SlotsP!SlotsSpec

-----------------------------------------------------------------------------
(* The composition implements the registry                                 *)

\* The two instances of the registry mean the same.
LEMMA RegistryAlike ==
  /\ Registry!Cardinality(Registry!InFlight) = RegistryP!Cardinality(RegistryP!InFlight)
  /\ Registry!InFlight = RegistryP!InFlight
  /\ \A reserve : Registry!Kept(reserve) = RegistryP!Kept(reserve)
  /\ \A reserve : Registry!Fits(reserve) <=> RegistryP!Fits(reserve)
  /\ \A kept : Registry!Evict(kept) = RegistryP!Evict(kept)
<1>1. Registry!InFlight = RegistryP!InFlight
  BY DEF Registry!InFlight, RegistryP!InFlight, Registry!InFlightStates,
         RegistryP!InFlightStates
<1>2. Registry!Cardinality(RegistryP!InFlight) = RegistryP!Cardinality(RegistryP!InFlight)
  BY DEF Registry!Cardinality, RegistryP!Cardinality
<1>3. \A reserve : Registry!Kept(reserve) = RegistryP!Kept(reserve)
  BY <1>1, <1>2 DEF Registry!Kept, RegistryP!Kept, Registry!Overflow, RegistryP!Overflow,
     Registry!AtLeastZero, RegistryP!AtLeastZero
<1>4. \A reserve : Registry!Fits(reserve) <=> RegistryP!Fits(reserve)
  BY <1>1, <1>2, <1>3 DEF Registry!Fits, RegistryP!Fits
<1>5. \A kept : Registry!Evict(kept) = RegistryP!Evict(kept)
  BY DEF Registry!Evict, RegistryP!Evict, Registry!InSeq, RegistryP!InSeq,
     Registry!TerminalStates, RegistryP!TerminalStates
<1> QED
  BY <1>1, <1>2, <1>3, <1>4, <1>5

\* Each step of the composition is one of the registry, or leaves it alone.
LEMMA StepOfRegistry == [Next]_vars => [RegistryP!RegistryNext]_RegistryP!registryVars
<1> SUFFICES ASSUME [Next]_vars
             PROVE  [RegistryP!RegistryNext]_RegistryP!registryVars
  OBVIOUS
<1> USE DEF RegistryP!registryVars, registryVars
<1>1. CASE RegistryStep
  <2> SUFFICES RegistryP!RegistryNext
    OBVIOUS
  <2>1. ASSUME NEW j \in AsyncJob, Registry!Submit(j) PROVE RegistryP!Submit(j)
    BY <2>1, RegistryAlike DEF Registry!Submit, RegistryP!Submit, Registry!HasCapacity,
       RegistryP!HasCapacity
  <2>2. ASSUME NEW j \in AsyncJob, Registry!Spawn(j) \/ Registry!SpawnFails(j)
        PROVE  RegistryP!Spawn(j) \/ RegistryP!SpawnFails(j)
    BY <2>2 DEF Registry!Spawn, RegistryP!Spawn, Registry!SpawnFails, RegistryP!SpawnFails
  <2>3. ASSUME NEW j \in AsyncJob, Registry!Start(j) PROVE RegistryP!Start(j)
    BY <2>3 DEF Registry!Start, RegistryP!Start
  <2>4. ASSUME NEW j \in AsyncJob, Registry!Store(j) PROVE RegistryP!Store(j)
    BY <2>4 DEF Registry!Store, RegistryP!Store
  <2>5. CASE Registry!Poll
    <3>1. RegistryP!Poll
      BY <2>5, RegistryAlike DEF Registry!Poll, RegistryP!Poll
    <3> QED
      BY <3>1 DEF RegistryP!RegistryNext
  <2>6. CASE Registry!Expire
    <3>1. RegistryP!Expire
      BY <2>6 DEF Registry!Expire, RegistryP!Expire
    <3> QED
      BY <3>1 DEF RegistryP!RegistryNext
  <2> QED
    BY <1>1, <2>1, <2>2, <2>3, <2>4, <2>5, <2>6 DEF RegistryStep, RegistryP!RegistryNext
<1>2. ASSUME NEW j \in AllJob, JobStep(j)
      PROVE  [RegistryP!RegistryNext]_RegistryP!registryVars
  <2>1. CASE j \in AsyncJob /\ ReturnResponse(j)
    <3>1. PICK response \in {"ok", "error"} : Registry!Return(j, response)
      BY <2>1 DEF ReturnResponse, Response
    <3>2. RegistryP!Return(j, response)
      BY <3>1 DEF Registry!Return, RegistryP!Return
    <3> QED
      BY <2>1, <3>2 DEF RegistryP!RegistryNext
  <2>2. CASE j \in AsyncJob /\ RunRaises(j)
    <3>1. RegistryP!Die(j)
      BY <2>2 DEF RunRaises, Registry!Die, RegistryP!Die
    <3> QED
      BY <2>2, <3>1 DEF RegistryP!RegistryNext
  <2>3. CASE EnterRun(j) \/ SlotStep(j) \/ BeginBody(j) \/ EndBody(j) \/ RunBody(j)
    BY <2>3 DEF EnterRun, SlotStep, BeginBody, EndBody, RunBody
  <2> QED
    BY <1>2, <2>1, <2>2, <2>3 DEF JobStep
<1>3. CASE WatchdogStep
  BY <1>3 DEF WatchdogStep, WatchdogObserves, WatchdogChecksIdle, WatchdogStartsRecycle,
     WatchdogRestartReturns
<1>4. CASE \E m \in Maintainer : MaintainerStep(m)
  BY <1>4 DEF MaintainerStep, MaintainerLoads, MaintainerChecksIdle, MaintainerRestartReturns
<1>5. CASE (\E r \in Caller : RestartCommand(r)) \/ ServerStep \/ UNCHANGED vars
  BY <1>5 DEF RestartCommand, ServerStep, vars
<1> QED
  BY <1>1, <1>2, <1>3, <1>4, <1>5 DEF Next

\* The worker's registry behaves as JobRegistry says.
THEOREM RuntimeImplementsRegistry == Spec => RegistryP!RegistrySpec
<1>1. Init => RegistryP!RegistryInit
  BY DEF Init, Registry!RegistryInit, RegistryP!RegistryInit
<1> QED
  BY <1>1, StepOfRegistry, PTL DEF Spec, RegistryP!RegistrySpec

-----------------------------------------------------------------------------
(* The bodies and their ComfyUI                                            *)

\* The two instances of PromptRun mean the same.
LEMMA BodyAlike ==
  ASSUME NEW j \in ComfyJob, Run!BodyStep(j)
  PROVE  RunP!BodyStep(j)
BY DEF Run!BodyStep, RunP!BodyStep, Run!Begin, RunP!Begin, Run!Ensure, RunP!Ensure,
   Run!WarmRestartReturns, RunP!WarmRestartReturns, Run!StageInputs, RunP!StageInputs,
   Run!SubmitPrompt, RunP!SubmitPrompt, Run!PollHistory, RunP!PollHistory, Run!CheckQueue,
   RunP!CheckQueue, Run!PollTimesOut, RunP!PollTimesOut, Run!Triage, RunP!Triage,
   Run!RetryRestartReturns, RunP!RetryRestartReturns, Run!Collect, RunP!Collect,
   Run!RestartReturns, RunP!RestartReturns, Run!CallRestart, RunP!CallRestart, Run!Goto,
   RunP!Goto, Run!Raise, RunP!Raise, Run!Current, RunP!Current, Run!serverVars,
   RunP!serverVars

\* So do the commands of restart_comfy.
LEMMA RestartAlike ==
  ASSUME NEW r \in Caller, Run!RestartStep(r)
  PROVE  RunP!RestartStep(r)
BY DEF Run!RestartStep, RunP!RestartStep, Run!StopComfy, RunP!StopComfy, Run!StartComfy,
   RunP!StartComfy, Run!AwaitComfy, RunP!AwaitComfy, Run!ProcessDies, RunP!ProcessDies,
   Run!InQueue, RunP!InQueue, Run!Prompt, RunP!Prompt

\* Each step of the composition is a step of PromptRun, or one of a restarter
\* that is not a job, or leaves the bodies and ComfyUI alone.
LEMMA StepOfRun == [Next]_vars => [RunP!OpenNext]_RunP!promptVars
<1> SUFFICES ASSUME [Next]_vars PROVE [RunP!OpenNext]_RunP!promptVars
  OBVIOUS
<1> USE DEF promptVars, serverVars, runVars, RunP!promptVars, RunP!serverVars, RunP!runVars
<1>1. CASE UNCHANGED promptVars
  BY <1>1
<1>2. ASSUME UNCHANGED <<alive, queue, history, loaded, faults, lost, rendered, runVars>>,
             present' \in {present, TRUE},
             restart' = restart \/ \E r \in Caller \ ComfyJob, s \in {"none", "stop"} :
                                      restart' = [restart EXCEPT ![r] = s]
      PROVE  RunP!OpenNext
  BY <1>2 DEF RunP!OpenNext, RunP!OtherCaller
<1>3. ASSUME NEW j \in AllJob, JobStep(j) PROVE [RunP!OpenNext]_RunP!promptVars
  <2>1. CASE j \in ComfyJob /\ RunBody(j)
    <3>1. RunP!BodyStep(j)
      BY <2>1, BodyAlike DEF RunBody
    <3> QED
      BY <2>1, <3>1 DEF RunP!PromptNext, RunP!OpenNext
  <2>2. CASE BeginBody(j)
    <3>1. UNCHANGED promptVars \/ (j \in ComfyJob /\ RunP!Begin(j))
      BY <2>2 DEF BeginBody, Run!Begin, RunP!Begin, Run!Goto, RunP!Goto, Run!serverVars
    <3> QED
      BY <3>1 DEF RunP!PromptNext, RunP!OpenNext, RunP!BodyStep
  <2>3. CASE EnterRun(j) \/ SlotStep(j) \/ EndBody(j) \/ ReturnResponse(j) \/ RunRaises(j)
    BY <1>1, <2>3 DEF EnterRun, SlotStep, EndBody, ReturnResponse, RunRaises
  <2> QED
    BY <1>3, <2>1, <2>2, <2>3 DEF JobStep
<1>4. CASE WatchdogStep
  <2>1. CASE WatchdogObserves
    BY <1>1, <2>1 DEF WatchdogObserves
  <2>2. CASE WatchdogChecksIdle \/ WatchdogStartsRecycle
    <3>1. CallRestart("watchdog") \/ UNCHANGED promptVars
      BY <2>2 DEF WatchdogChecksIdle, WatchdogStartsRecycle
    <3> QED
      BY <1>1, <1>2, <3>1, CallersApart DEF CallRestart
  <2>3. CASE WatchdogRestartReturns
    BY <1>2, <2>3, CallersApart DEF WatchdogRestartReturns, RestartReturns,
       Run!RestartReturns
  <2> QED
    BY <1>4, <2>1, <2>2, <2>3 DEF WatchdogStep
<1>5. ASSUME NEW m \in Maintainer, MaintainerStep(m) PROVE [RunP!OpenNext]_RunP!promptVars
  <2>1. CASE MaintainerLoads(m)
    BY <1>2, <2>1 DEF MaintainerLoads
  <2>2. CASE MaintainerChecksIdle(m)
    BY <1>1, <1>2, <2>2, CallersApart DEF MaintainerChecksIdle, CallRestart
  <2>3. CASE MaintainerRestartReturns(m)
    BY <1>2, <2>3, CallersApart DEF MaintainerRestartReturns, RestartReturns,
       Run!RestartReturns
  <2> QED
    BY <1>5, <2>1, <2>2, <2>3 DEF MaintainerStep
<1>6. ASSUME NEW r \in Caller, RestartCommand(r) PROVE [RunP!OpenNext]_RunP!promptVars
  <2>1. RunP!RestartStep(r) /\ UNCHANGED runVars
    BY <1>6, RestartAlike DEF RestartCommand
  <2> QED
    BY <2>1 DEF RunP!PromptNext, RunP!OpenNext
<1>7. CASE ServerStep
  <2>1. RunP!ServerStep /\ UNCHANGED runVars
    BY <1>7 DEF ServerStep, Run!ServerStep, RunP!ServerStep, Run!Execute, RunP!Execute,
       Run!Crash, RunP!Crash, Run!Outcomes, RunP!Outcomes, Run!ProcessDies,
       RunP!ProcessDies, Run!InQueue, RunP!InQueue, Run!Prompt, RunP!Prompt
  <2> QED
    BY <2>1 DEF RunP!PromptNext, RunP!OpenNext
<1>8. CASE RegistryStep \/ UNCHANGED vars
  BY <1>1, <1>8 DEF RegistryStep, vars
<1> QED
  BY <1>3, <1>4, <1>5, <1>6, <1>7, <1>8 DEF Next

\* The bodies behave as PromptRun says, among callers that are not jobs: the
\* slots, the registry and the watchdog add nothing else to what they may do.
THEOREM RuntimeImplementsRun == Spec => RunP!OpenSpec
<1>1. Init => RunP!PromptInit
  BY DEF Init, Run!PromptInit, RunP!PromptInit, Run!ServerInit, RunP!ServerInit,
     Run!RunInit, RunP!RunInit, Run!Prompt, RunP!Prompt, Run!NoPrompt, RunP!NoPrompt
<1> QED
  BY <1>1, StepOfRun, PTL DEF Spec, RunP!OpenSpec

\* The invariant of PromptRun holds in the composition too.
LEMMA RunInvariantHere == Spec => []RunP!RunInv
<1>1. RunP!OpenSpec => []RunP!RunInv
  BY PartsAssume, RunP!OpenInvariant
<1> QED
  BY <1>1, RuntimeImplementsRun, PTL

-----------------------------------------------------------------------------
(* What relates the parts                                                  *)

\* A body that has begun and is not over runs inside its slot, and is counted.
BodyInSlot == \A j \in ComfyJob : step[j] \notin {"idle", "ok", "error"} => stage[j] = "running"

\* Success is reported by a body that succeeded and left its slot.
SuccessIsDone ==
  \A j \in AsyncJob \cap ComfyJob :
    thread[j] = "ok" \/ record[j] = "completed" => stage[j] = "done" /\ step[j] = "ok"

MaintenanceTypeOK ==
  maintenance \in [Maintainer -> {"loading", "checking", "restarting", "done"}]

PartsInv == RegistryP!RegistryInv /\ SlotsP!SlotsInv /\ RunP!RunInv

CrossInv == BodyInSlot /\ SuccessIsDone /\ MaintenanceTypeOK

\* The types of the parts, in the composition's own terms.
LEMMA PartTypes ==
  ASSUME PartsInv
  PROVE  /\ Registry!RegistryTypeOK
         /\ Slots!SlotsTypeOK
         /\ Run!RunTypeOK
<1>1. Registry!RegistryTypeOK
  BY DEF PartsInv, RegistryP!RegistryInv, RegistryP!RegistryTypeOK, Registry!RegistryTypeOK,
     RegistryP!InFlightStates, Registry!InFlightStates, RegistryP!TerminalStates,
     Registry!TerminalStates
<1>2. Slots!SlotsTypeOK
  BY DEF PartsInv, SlotsP!SlotsInv, SlotsP!SlotsTypeOK, Slots!SlotsTypeOK,
     SlotsP!HoldingStages, Slots!HoldingStages
<1>3. Run!RunTypeOK
  BY DEF PartsInv, RunP!RunInv, RunP!RunTypeOK, Run!RunTypeOK, RunP!ServerTypeOK,
     Run!ServerTypeOK, RunP!Prompt, Run!Prompt, RunP!Outcomes, Run!Outcomes,
     RunP!NoPrompt, Run!NoPrompt
<1> QED
  BY <1>1, <1>2, <1>3

\* A step of a job moves its own stage and its own body only, and keeps both in
\* step.
LEMMA JobKeepsCross ==
  ASSUME PartsInv, CrossInv, NEW j \in AllJob, JobStep(j)
  PROVE  CrossInv'
<1> USE PartTypes DEF Registry!RegistryTypeOK, Slots!SlotsTypeOK, Run!RunTypeOK
<1>0. ComfyJob \subseteq AllJob /\ AsyncJob \subseteq AllJob
  BY DEF ComfyJob, AllJob
<1>1. MaintenanceTypeOK'
  BY DEF CrossInv, MaintenanceTypeOK, JobStep, EnterRun, SlotStep, BeginBody, EndBody,
     RunBody, ReturnResponse, RunRaises
<1>2. CASE EnterRun(j)
  <2>1. /\ stage[j] = "idle" /\ \E s \in {"waiting", "done"} : stage' = [stage EXCEPT ![j] = s]
        /\ UNCHANGED <<step, thread, record>>
    BY <1>2 DEF EnterRun, Slots!Arrive, Slots!RejectEarly, registryVars, promptVars, runVars
  <2> QED
    BY <1>0, <1>1, <2>1 DEF CrossInv, BodyInSlot, SuccessIsDone
<1>3. CASE SlotStep(j)
  <2>1. /\ stage[j] \in {"waiting", "leaving", "noted"}
        /\ \E s \in {"acquired", "noted", "done"} : stage' = [stage EXCEPT ![j] = s]
        /\ UNCHANGED <<step, thread, record>>
    BY <1>3 DEF SlotStep, Slots!Acquire, Slots!NoteCompleted, Slots!Release, registryVars,
       promptVars, runVars
  <2> QED
    BY <1>0, <1>1, <2>1 DEF CrossInv, BodyInSlot, SuccessIsDone
<1>4. CASE BeginBody(j)
  <2>1. /\ stage[j] = "acquired" /\ UNCHANGED <<thread, record>>
        /\ \/ stage' = [stage EXCEPT ![j] = "running"] /\ j \in ComfyJob
              /\ step' = [step EXCEPT ![j] = "ensuring"]
           \/ (\E s \in {"running", "stranded"} : stage' = [stage EXCEPT ![j] = s])
              /\ UNCHANGED step
    BY <1>4 DEF BeginBody, Slots!CountIn, Slots!CountedStages, Run!Begin, Run!Goto,
       registryVars, promptVars, runVars
  <2> QED
    BY <1>0, <1>1, <2>1 DEF CrossInv, BodyInSlot, SuccessIsDone
<1>5. CASE EndBody(j)
  <2>1. /\ stage[j] = "running" /\ stage' = [stage EXCEPT ![j] = "leaving"]
        /\ j \in ComfyJob => step[j] \in {"ok", "error"}
        /\ UNCHANGED <<step, thread, record>>
    BY <1>5 DEF EndBody, Slots!CountOut, registryVars, promptVars, runVars
  <2> QED
    BY <1>0, <1>1, <2>1 DEF CrossInv, BodyInSlot, SuccessIsDone
<1>6. CASE j \in ComfyJob /\ RunBody(j)
  <2>1. /\ step[j] \notin {"idle", "ok", "error"}
        /\ \A q \in ComfyJob : q # j => step'[q] = step[q]
        /\ UNCHANGED <<stage, thread, record>>
    <3>1. Run!BodyStep(j) /\ step[j] # "idle" /\ UNCHANGED <<stage, thread, record>>
      BY <1>6 DEF RunBody, registryVars, slotVars
    <3>2. step[j] \notin {"ok", "error"}
      BY <3>1 DEF Run!BodyStep, Run!Begin, Run!Ensure, Run!WarmRestartReturns,
         Run!StageInputs, Run!SubmitPrompt, Run!PollHistory, Run!CheckQueue,
         Run!PollTimesOut, Run!Triage, Run!RetryRestartReturns, Run!Collect
    <3>3. \A q \in ComfyJob : q # j => step'[q] = step[q]
      <4>1. RunP!BodyStep(j)
        BY <1>6, <3>1, BodyAlike
      <4> QED
        BY <1>6, <4>1, PartsAssume, RunP!JobSteps DEF PartsInv
    <3> QED
      BY <3>1, <3>2, <3>3
  <2> QED
    BY <1>1, <1>6, <2>1 DEF CrossInv, BodyInSlot, SuccessIsDone
<1>7. CASE j \in AsyncJob /\ ReturnResponse(j)
  <2>1. PICK response \in Response(j) : thread' = [thread EXCEPT ![j] = response]
    BY <1>7 DEF ReturnResponse, Registry!Return
  <2>2. stage[j] = "done" /\ UNCHANGED <<stage, step, record>>
    BY <1>7 DEF ReturnResponse, Registry!Return, promptVars, runVars, slotVars
  <2>3. j \in ComfyJob /\ response = "ok" => step[j] = "ok"
    BY <2>1 DEF Response, ComfyJob
  <2> QED
    BY <1>1, <1>7, <2>1, <2>2, <2>3 DEF CrossInv, BodyInSlot, SuccessIsDone
<1>8. CASE j \in AsyncJob /\ RunRaises(j)
  <2>1. thread' = [thread EXCEPT ![j] = "dead"] /\ UNCHANGED <<stage, step, record>>
    BY <1>8 DEF RunRaises, Registry!Die, promptVars, runVars, slotVars
  <2> QED
    BY <1>1, <2>1 DEF CrossInv, BodyInSlot, SuccessIsDone
<1> QED
  BY <1>2, <1>3, <1>4, <1>5, <1>6, <1>7, <1>8 DEF JobStep

\* The registry completes only the records of threads that have succeeded.
LEMMA RegistryKeepsCross ==
  ASSUME PartsInv, CrossInv, RegistryStep
  PROVE  CrossInv'
<1> USE PartTypes DEF Registry!RegistryTypeOK
<1>1. UNCHANGED <<stage, step, maintenance>>
  BY DEF RegistryStep, slotVars, promptVars, runVars
<1> DEFINE OkComesFromOk ==
             \A j \in AsyncJob : thread'[j] = "ok" \/ record'[j] = "completed"
                                   => thread[j] = "ok" \/ record[j] = "completed"
<1>2. OkComesFromOk
  <2>1. \A kept : \A j \in AsyncJob :
          Registry!Evict(kept)[j] = "completed" => record[j] = "completed"
    BY DEF Registry!Evict
  <2>2. CASE Registry!Poll
    <3>1. record' = Registry!Evict(Registry!Kept(0)) /\ thread' = thread
      BY <2>2 DEF Registry!Poll
    <3> QED
      BY <2>1, <3>1
  <2>3. CASE Registry!Expire
    BY <2>3 DEF Registry!Expire
  <2>4. ASSUME NEW j \in AsyncJob, Registry!Submit(j) PROVE OkComesFromOk
    <3>1. /\ \A q \in AsyncJob : thread'[q] = "ok" => thread[q] = "ok"
          /\ \/ record' = [Registry!Evict(Registry!Kept(1)) EXCEPT ![j] = "queued"]
             \/ record' = Registry!Evict(Registry!Kept(1))
      BY <2>4 DEF Registry!Submit
    <3>2. Registry!Evict(Registry!Kept(1)) = [q \in AsyncJob |-> Registry!Evict(Registry!Kept(1))[q]]
      BY DEF Registry!Evict
    <3>3. \A q \in AsyncJob : record'[q] = "completed"
                                => Registry!Evict(Registry!Kept(1))[q] = "completed"
      BY <3>1, <3>2
    <3> QED
      BY <2>1, <3>1, <3>3
  <2>5. ASSUME NEW j \in AsyncJob,
               Registry!Spawn(j) \/ Registry!SpawnFails(j) \/ Registry!Start(j) \/ Registry!Store(j)
        PROVE  OkComesFromOk
    BY <2>5 DEF Registry!Spawn, Registry!SpawnFails, Registry!Start, Registry!Store
  <2> QED
    BY <2>2, <2>3, <2>4, <2>5 DEF RegistryStep
<1> QED
  BY <1>1, <1>2 DEF CrossInv, BodyInSlot, SuccessIsDone, MaintenanceTypeOK

\* What relates the parts is kept by every step of the worker,
LEMMA StepKeepsCross == PartsInv /\ CrossInv /\ [Next]_vars => CrossInv'
<1> SUFFICES ASSUME PartsInv, CrossInv, [Next]_vars PROVE CrossInv'
  OBVIOUS
<1>1. ASSUME UNCHANGED <<record, thread, step, maintenance>>, UNCHANGED stage
      PROVE  CrossInv'
  BY <1>1 DEF CrossInv, BodyInSlot, SuccessIsDone, MaintenanceTypeOK
<1>2. CASE RegistryStep
  BY <1>2, RegistryKeepsCross
<1>3. CASE \E j \in AllJob : JobStep(j)
  BY <1>3, JobKeepsCross
<1>4. CASE WatchdogStep
  <2>1. UNCHANGED <<record, thread, step, maintenance>>
    BY <1>4 DEF WatchdogStep, WatchdogObserves, WatchdogChecksIdle, WatchdogStartsRecycle,
       WatchdogRestartReturns, registryVars, promptVars, runVars, CallRestart, RestartReturns
  <2>2. UNCHANGED stage
    BY <1>4 DEF WatchdogStep, WatchdogObserves, WatchdogChecksIdle, WatchdogStartsRecycle,
       WatchdogRestartReturns, Slots!Tick, Slots!CheckIdleBeforeRecycle, Slots!Decide,
       Slots!Claim, Slots!ClaimTimesOut, Slots!GiveBack, Slots!RecycleReturns,
       Slots!Confirm, Slots!CheckIdleBeforeRestart, Slots!RestartEnds, Slots!RecycleEnds,
       Slots!jobVars
  <2> QED
    BY <1>1, <2>1, <2>2
<1>5. ASSUME NEW m \in Maintainer, MaintainerStep(m) PROVE CrossInv'
  <2>1. UNCHANGED <<record, thread, step, stage>>
    BY <1>5 DEF MaintainerStep, MaintainerLoads, MaintainerChecksIdle,
       MaintainerRestartReturns, registryVars, slotVars, promptVars, runVars, CallRestart,
       RestartReturns
  <2>2. MaintenanceTypeOK'
    BY <1>5 DEF CrossInv, MaintenanceTypeOK, MaintainerStep, MaintainerLoads,
       MaintainerChecksIdle, MaintainerRestartReturns
  <2> QED
    BY <2>1, <2>2 DEF CrossInv, BodyInSlot, SuccessIsDone
<1>6. CASE (\E r \in Caller : RestartCommand(r)) \/ ServerStep \/ UNCHANGED vars
  BY <1>1, <1>6 DEF RestartCommand, ServerStep, vars, registryVars, slotVars, runVars
<1> QED
  BY <1>2, <1>3, <1>4, <1>5, <1>6 DEF Next

\* and holds when the process starts.
LEMMA InitiallyCross == Init => CrossInv
BY DEF Init, Registry!RegistryInit, Slots!SlotsInit, Run!PromptInit, Run!RunInit, CrossInv,
   BodyInSlot, SuccessIsDone, MaintenanceTypeOK

\* The invariant of the worker process: those of its parts, and what relates
\* them.
THEOREM RuntimeInvariant == Spec => [](PartsInv /\ CrossInv)
<1>1. Spec => []RegistryP!RegistryInv
  <2>1. RegistryP!RegistrySpec => []RegistryP!RegistryInv
    BY PartsAssume, RegistryP!RegistryInvariant
  <2> QED
    BY <2>1, RuntimeImplementsRegistry, PTL
<1>2. Spec => []SlotsP!SlotsInv
  <2>1. SlotsP!SlotsSpec => []SlotsP!SlotsInv
    BY PartsAssume, SlotsP!SlotsInvariant
  <2> QED
    BY <2>1, RuntimeImplementsSlots, PTL
<1>3. RegistryP!RegistryInv /\ SlotsP!SlotsInv /\ RunP!RunInv <=> PartsInv
  BY DEF PartsInv
<1>4. Spec => []PartsInv
  BY <1>1, <1>2, <1>3, RunInvariantHere, PTL
<1> QED
  BY <1>4, InitiallyCross, StepKeepsCross, PTL DEF Spec

-----------------------------------------------------------------------------
(* The theorems                                                            *)

\* The states of the worker process are of the right types.
THEOREM RuntimeTypeCorrect == Spec => []TypeOK
<1>1. PartsInv /\ CrossInv => TypeOK
  BY PartTypes DEF CrossInv, MaintenanceTypeOK, TypeOK
<1> QED
  BY <1>1, RuntimeInvariant, PTL

\* When _ACTIVE_JOBS reads 0 no job waits for ComfyUI.
THEOREM IdleIsIdle == Spec => []IdleMeansIdle
<1>1. PartsInv /\ CrossInv => IdleMeansIdle
  <2> SUFFICES ASSUME PartsInv, CrossInv, active = 0, NEW j \in ComfyJob
               PROVE  step[j] \in {"idle", "ok", "error"}
    BY DEF IdleMeansIdle
  <2>1. SlotsP!Counted = {}
    BY PartsAssume, SlotsP!ZeroMeansNone DEF PartsInv
  <2>2. stage[j] # "running"
    BY <2>1, CallersApart DEF SlotsP!Counted, SlotsP!CountedStages
  <2> QED
    BY <2>2 DEF CrossInv, BodyInSlot
<1> QED
  BY <1>1, RuntimeInvariant, PTL

\* A completed record stands for a prompt of that job that rendered, and the
\* job has left its slot.
THEOREM CompletedHasRendered == Spec => []CompletedIsRendered
<1>1. PartsInv /\ CrossInv => CompletedIsRendered
  <2> SUFFICES ASSUME PartsInv, CrossInv, NEW j \in AsyncJob \cap ComfyJob,
                      record[j] = "completed"
               PROVE  stage[j] = "done" /\ \E p \in rendered : p[1] = j /\ result[j] = p
    BY DEF CompletedIsRendered
  <2>1. stage[j] = "done" /\ step[j] = "ok"
    BY DEF CrossInv, SuccessIsDone
  <2>2. result[j] = <<j, attempt[j]>> /\ result[j] \in rendered
    BY <2>1 DEF PartsInv, RunP!RunInv, RunP!OwnOutput, RunP!Current
  <2> QED
    BY <2>1, <2>2
<1> QED
  BY <1>1, RuntimeInvariant, PTL

\* A recycle takes no prompt away from a job that waits for it.
THEOREM RecyclesSparePrompts == Spec => RecycleSparesPrompts
<1>1. PartsInv /\ CrossInv =>
        [(watchdog = "recycling" /\ restart["watchdog"] = "stop"
            /\ restart'["watchdog"] = "start")
           => \A j \in ComfyJob : step[j] \notin {"polling", "checking"}]_vars
  <2> SUFFICES ASSUME PartsInv, CrossInv, watchdog = "recycling", NEW j \in ComfyJob
               PROVE  step[j] \notin {"polling", "checking"}
    OBVIOUS
  <2>1. SlotsP!Holders = {}
    BY PartsAssume, SlotsP!ClosedMeansEmpty DEF PartsInv, SlotsP!RecycleIsExclusive
  <2>2. stage[j] # "running"
    BY <2>1, CallersApart DEF SlotsP!Holders, SlotsP!HoldingStages
  <2> QED
    BY <2>2 DEF CrossInv, BodyInSlot
<1> QED
  BY <1>1, RuntimeInvariant, PTL DEF RecycleSparesPrompts

\* What the parts promise on their own they keep in the worker process, where they
\* share threads and ComfyUI: bounded registry, no result dropped and recent ones
\* kept; permits and count exact and a recycle alone; outputs of one's own, sound
\* verdicts, one live prompt and no more restarts of ComfyUI than a job may spend.
THEOREM PartsKeepTheirPromises ==
  Spec => /\ [](/\ RegistryP!RegistryBounded /\ RegistryP!NoResultDropped
                /\ SlotsP!SlotsConserved /\ SlotsP!ActiveIsExact /\ SlotsP!RecycleIsExclusive
                /\ RunP!OwnOutput /\ RunP!SingleLivePrompt /\ RunP!VerdictIsSound)
          /\ RegistryP!RecentResultsSurvive
          /\ RunP!RestartsAreSpent
<1>1. Spec => []RegistryP!RegistryBounded /\ []RegistryP!NoResultDropped
  <2>1. RegistryP!RegistrySpec => []RegistryP!RegistryBounded
    BY PartsAssume, RegistryP!RegistryStaysBounded
  <2>2. RegistryP!RegistrySpec => []RegistryP!NoResultDropped
    BY PartsAssume, RegistryP!ResultsAreNotDropped
  <2> QED
    BY <2>1, <2>2, RuntimeImplementsRegistry, PTL
<1>2. Spec => []SlotsP!SlotsConserved /\ []SlotsP!ActiveIsExact /\ []SlotsP!RecycleIsExclusive
  <2>1. SlotsP!SlotsSpec => []SlotsP!SlotsConserved
    BY PartsAssume, SlotsP!PermitsConserved
  <2>2. SlotsP!SlotsSpec => []SlotsP!ActiveIsExact
    BY PartsAssume, SlotsP!CountIsExact
  <2>3. SlotsP!SlotsSpec => []SlotsP!RecycleIsExclusive
    BY PartsAssume, SlotsP!RecycleExcludesJobs
  <2> QED
    BY <2>1, <2>2, <2>3, RuntimeImplementsSlots, PTL
<1>3. RunP!RunInv => RunP!OwnOutput /\ RunP!SingleLivePrompt
  BY PartsAssume, RunP!InvMeansOwn
<1>4. Spec => []RunP!VerdictIsSound /\ RunP!RestartsAreSpent
  <2>1. RunP!OpenSpec => []RunP!VerdictIsSound
    BY PartsAssume, RunP!VerdictsAreSound
  <2>2. RunP!OpenSpec => RunP!RestartsAreSpent
    BY PartsAssume, RunP!RestartsAreBounded
  <2> QED
    BY <2>1, <2>2, RuntimeImplementsRun, PTL
<1>5. Spec => RegistryP!RecentResultsSurvive
  <2>1. RegistryP!RegistrySpec => RegistryP!RecentResultsSurvive
    BY PartsAssume, RegistryP!RecentResultsAreKept
  <2> QED
    BY <2>1, RuntimeImplementsRegistry, PTL
<1> QED
  BY <1>1, <1>2, <1>3, <1>4, <1>5, RunInvariantHere, PTL

\* So the slots of the whole worker are a RecycleGate: whatever else restarts
\* ComfyUI or takes time, the watchdog closes the gate at once, on an empty room.
THEOREM RuntimeImplementsGate == Spec => SlotsP!ImplementsGate
<1>1. SlotsP!SlotsSpec => SlotsP!ImplementsGate
  BY PartsAssume, SlotsP!SlotsImplementGate
<1> QED
  BY <1>1, RuntimeImplementsSlots, PTL

-----------------------------------------------------------------------------
(* Every job goes forward                                                  *)

\* How many steps a job has before it at most, on its thread, in the slots and in
\* its body: 23 when it arrives.
ThreadAhead(j) == IF j \in AsyncJob THEN RegistryP!ThreadLeft[thread[j]] ELSE 0
StageAhead(j) == SlotsP!StageLeft[stage[j]]
BodyAhead(j) == IF j \in ComfyJob THEN RunP!Rank(j) ELSE 0

StepsAhead(j) == ThreadAhead(j) + StageAhead(j) + BodyAhead(j)

\* Nothing changes for the job, or it looks at the queue between two polls.
Stays(j) ==
  /\ j \in AsyncJob => UNCHANGED thread[j]
  /\ UNCHANGED stage[j]
  /\ j \in ComfyJob =>
       /\ UNCHANGED attempt[j]
       /\ UNCHANGED step[j] \/ {step[j], step'[j]} = {"polling", "checking"}

\* Whatever happens in the worker, no job is thrown back.
JobsNeverGoBack ==
  [][\A j \in AllJob : Stays(j) \/ StepsAhead(j)' < StepsAhead(j)]_vars

\* Each part brings the job forward or leaves it, and one of them brings it forward
\* unless all leave it.
LEMMA StepBringsForward ==
  ASSUME PartsInv, RegistryP!FreshHasNoThread, [Next]_vars, NEW j \in AllJob
  PROVE  Stays(j) \/ StepsAhead(j)' < StepsAhead(j)
<1> DEFINE T == ThreadAhead(j)
           S == StageAhead(j)
           R == BodyAhead(j)
<1>1. /\ T' < T \/ (T' = T /\ (j \in AsyncJob => UNCHANGED thread[j]))
      /\ T \in Nat /\ T' \in Nat
  <2>1. CASE j \in AsyncJob
    <3>1. [RegistryP!RegistryNext]_RegistryP!registryVars
      BY StepOfRegistry
    <3>2. /\ thread'[j] = thread[j]
             \/ RegistryP!ThreadLeft[thread'[j]] < RegistryP!ThreadLeft[thread[j]]
          /\ RegistryP!ThreadLeft[thread[j]] \in Nat
          /\ RegistryP!ThreadLeft[thread'[j]] \in Nat
      BY <2>1, <3>1, PartsAssume, RegistryP!ThreadAdvances DEF PartsInv
    <3> QED
      BY <2>1, <3>2 DEF ThreadAhead
  <2>2. CASE j \notin AsyncJob
    BY <2>2 DEF ThreadAhead
  <2> QED
    BY <2>1, <2>2
<1>2. /\ S' < S \/ (S' = S /\ UNCHANGED stage[j])
      /\ S \in Nat /\ S' \in Nat
  <2>1. [SlotsP!SlotsNext]_SlotsP!slotVars
    BY StepOfSlots
  <2>2. /\ stage'[j] = stage[j] \/ SlotsP!StageLeft[stage'[j]] < SlotsP!StageLeft[stage[j]]
        /\ SlotsP!StageLeft[stage[j]] \in Nat /\ SlotsP!StageLeft[stage'[j]] \in Nat
    BY <2>1, PartsAssume, SlotsP!StageAdvances DEF PartsInv
  <2> QED
    BY <2>2 DEF StageAhead
<1>3. /\ \/ R' < R
         \/ /\ R' = R
            /\ j \in ComfyJob =>
                 /\ UNCHANGED attempt[j]
                 /\ UNCHANGED step[j] \/ {step[j], step'[j]} = {"polling", "checking"}
      /\ R \in Nat /\ R' \in Nat
  <2>1. CASE j \in ComfyJob
    <3>1. [RunP!OpenNext]_RunP!promptVars /\ RunP!RunInv
      BY StepOfRun DEF PartsInv
    <3>2. \/ RunP!Rank(j)' < RunP!Rank(j)
          \/ UNCHANGED <<step[j], attempt[j]>>
          \/ {step[j], step'[j]} = {"polling", "checking"} /\ UNCHANGED attempt[j]
      BY <2>1, <3>1, PartsAssume, RunP!StepsAdvance
    <3>3. RunP!Rank(j) \in Nat /\ RunP!Rank(j)' \in Nat
      BY <2>1, <3>1, PartsAssume, RunP!RankIsNat
    <3>4. \/ UNCHANGED <<step[j], attempt[j]>>
          \/ {step[j], step'[j]} = {"polling", "checking"} /\ UNCHANGED attempt[j]
          => RunP!Rank(j)' = RunP!Rank(j)
      BY DEF RunP!Rank, RunP!StepsLeft, RunP!PassStep
    <3> QED
      BY <2>1, <3>2, <3>3, <3>4 DEF BodyAhead
  <2>2. CASE j \notin ComfyJob
    BY <2>2 DEF BodyAhead
  <2> QED
    BY <2>1, <2>2
<1>4. StepsAhead(j) = T + S + R /\ StepsAhead(j)' = T' + S' + R'
  BY DEF StepsAhead
<1>5. T' <= T /\ S' <= S /\ R' <= R
  BY <1>1, <1>2, <1>3
<1>6. Stays(j) \/ T' < T \/ S' < S \/ R' < R
  BY <1>1, <1>2, <1>3 DEF Stays
<1>7. T' < T \/ S' < S \/ R' < R => T' + S' + R' < T + S + R
  BY <1>1, <1>2, <1>3, <1>5
<1> QED
  BY <1>4, <1>6, <1>7

\* A job takes at most 23 steps besides its polls, and nobody can undo one of
\* them: restarts, faults, the watchdog and the other jobs may only keep it waiting.
THEOREM JobsAlwaysAdvance == Spec => JobsNeverGoBack
<1>1. Spec => []RegistryP!FreshHasNoThread
  <2>1. RegistryP!RegistrySpec => []RegistryP!FreshHasNoThread
    BY PartsAssume, RegistryP!FreshInvariant
  <2> QED
    BY <2>1, RuntimeImplementsRegistry, PTL
<1>2. PartsInv /\ RegistryP!FreshHasNoThread /\ [Next]_vars =>
        [\A j \in AllJob : Stays(j) \/ StepsAhead(j)' < StepsAhead(j)]_vars
  BY StepBringsForward
<1> QED
  BY <1>1, <1>2, RuntimeInvariant, PTL DEF Spec, JobsNeverGoBack

-----------------------------------------------------------------------------
(* Whose turn it is                                                        *)

\* From its arrival at the slots to its departure a job is in the hands of its
\* thread; only one that was stranded may have lost it.
ThreadAtWork ==
  \A j \in AsyncJob :
    /\ stage[j] \notin {"idle", "stranded", "done"} => thread[j] = "executing"
    /\ stage[j] = "stranded" => thread[j] \in {"executing", "dead"}

\* A body begins when the job is counted, not before and not twice.
BodyInStep ==
  \A j \in ComfyJob :
    /\ stage[j] \in {"idle", "waiting", "acquired", "stranded"} => step[j] = "idle"
    /\ stage[j] \in {"running", "leaving", "noted"} => step[j] # "idle"

\* The watchdog and the maintainers are in a restart just while restart_comfy is
\* called for them.
CallsInStep ==
  /\ restart["watchdog"] # "none" <=> watchdog \in {"restarting", "recycling"}
  /\ \A m \in Maintainer : restart[m] # "none" <=> maintenance[m] = "restarting"

\* Only a failing Thread.start strands a job.
StrandedIsExcused == \A j \in AllJob : stage[j] = "stranded" => ThreadsFail

InStep == ThreadAtWork /\ BodyInStep /\ CallsInStep /\ StrandedIsExcused

\* The jobs never touch the calls of the others.
LEMMA JobLeavesCallers ==
  ASSUME PartsInv, NEW j \in AllJob, JobStep(j)
  PROVE  /\ UNCHANGED <<watchdog, maintenance>>
         /\ \A r \in Caller \ ComfyJob : restart'[r] = restart[r]
<1>1. UNCHANGED maintenance
  BY DEF JobStep, EnterRun, SlotStep, BeginBody, EndBody, RunBody, ReturnResponse, RunRaises
<1>2. UNCHANGED watchdog
  BY DEF JobStep, EnterRun, SlotStep, BeginBody, EndBody, RunBody, ReturnResponse, RunRaises,
     Slots!Arrive, Slots!RejectEarly, Slots!Acquire, Slots!NoteCompleted, Slots!Release,
     Slots!CountIn, Slots!CountOut, Slots!watchdogVars, slotVars
<1>3. CASE j \in ComfyJob /\ RunBody(j)
  <2>1. RunP!BodyStep(j)
    BY <1>3, BodyAlike DEF RunBody
  <2>2. \A r \in Caller : r # j => restart'[r] = restart[r]
    BY <1>3, <2>1, PartsAssume, RunP!JobEffects DEF PartsInv
  <2> QED
    BY <1>1, <1>2, <1>3, <2>2
<1>4. CASE ~(j \in ComfyJob /\ RunBody(j))
  <2>1. UNCHANGED restart
    BY <1>4 DEF JobStep, EnterRun, SlotStep, BeginBody, EndBody, ReturnResponse, RunRaises,
       Run!Begin, Run!serverVars, promptVars, serverVars
  <2> QED
    BY <1>1, <1>2, <2>1
<1> QED
  BY <1>3, <1>4

\* A step of a job keeps its thread, its stage and its body in step.
LEMMA JobKeepsInStep ==
  ASSUME PartsInv, CrossInv, InStep, NEW j \in AllJob, JobStep(j)
  PROVE  InStep'
<1> USE PartTypes DEF Registry!RegistryTypeOK, Slots!SlotsTypeOK, Run!RunTypeOK
<1>0. ComfyJob \subseteq AllJob /\ AsyncJob \subseteq AllJob
  BY DEF ComfyJob, AllJob
<1>1. CallsInStep'
  BY JobLeavesCallers, CallersApart DEF InStep, CallsInStep
<1>2. CASE EnterRun(j)
  <2>1. /\ j \in AsyncJob => thread[j] = "executing"
        /\ \/ stage' = [stage EXCEPT ![j] = "waiting"]
           \/ stage' = [stage EXCEPT ![j] = "done"]
        /\ UNCHANGED <<step, thread>>
    BY <1>2 DEF EnterRun, Called, Slots!Arrive, Slots!RejectEarly, registryVars, promptVars, runVars
  <2>2. stage[j] = "idle"
    BY <1>2 DEF EnterRun, Slots!Arrive, Slots!RejectEarly
  <2>3. ThreadAtWork'
    BY <1>0, <2>1 DEF InStep, ThreadAtWork
  <2>4. BodyInStep' /\ StrandedIsExcused'
    BY <1>0, <2>1, <2>2 DEF InStep, BodyInStep, StrandedIsExcused
  <2> QED
    BY <1>1, <2>3, <2>4 DEF InStep
<1>3. CASE SlotStep(j)
  <2>1. /\ \/ stage[j] = "waiting" /\ stage' = [stage EXCEPT ![j] = "acquired"]
           \/ stage[j] = "leaving" /\ stage' = [stage EXCEPT ![j] = "noted"]
           \/ stage[j] = "noted" /\ stage' = [stage EXCEPT ![j] = "done"]
        /\ UNCHANGED <<step, thread>>
    BY <1>3 DEF SlotStep, Slots!Acquire, Slots!NoteCompleted, Slots!Release, registryVars,
       promptVars, runVars
  <2> QED
    BY <1>0, <1>1, <2>1 DEF InStep, ThreadAtWork, BodyInStep, StrandedIsExcused
<1>4. CASE BeginBody(j)
  <2>1. /\ stage[j] = "acquired" /\ UNCHANGED thread
        /\ \/ /\ stage' = [stage EXCEPT ![j] = "running"]
              /\ \/ j \in ComfyJob /\ step' = [step EXCEPT ![j] = "ensuring"]
                 \/ j \notin ComfyJob /\ UNCHANGED step
           \/ /\ stage' = [stage EXCEPT ![j] = "stranded"] /\ ThreadsFail
              /\ UNCHANGED step
    <3>1. PICK s \in {"running", "stranded"} :
            stage' = [stage EXCEPT ![j] = s] /\ (s = "stranded" => ThreadsFail)
      BY <1>4 DEF BeginBody, Slots!CountIn, Slots!CountedStages
    <3>2. stage'[j] = s /\ stage[j] = "acquired" /\ UNCHANGED thread
      BY <1>4, <3>1 DEF BeginBody, Slots!CountIn, registryVars
    <3>3. IF j \in ComfyJob /\ s = "running"
            THEN step' = [step EXCEPT ![j] = "ensuring"] ELSE UNCHANGED step
      BY <1>4, <3>2 DEF BeginBody, Run!Begin, Run!Goto, promptVars, runVars
    <3> QED
      BY <3>1, <3>2, <3>3
  <2>2. ThreadAtWork' /\ StrandedIsExcused'
    BY <1>0, <2>1 DEF InStep, ThreadAtWork, StrandedIsExcused
  <2>3. BodyInStep'
    BY <1>0, <2>1 DEF InStep, BodyInStep
  <2> QED
    BY <1>1, <2>2, <2>3 DEF InStep
<1>5. CASE EndBody(j)
  <2>1. /\ stage[j] = "running" /\ stage' = [stage EXCEPT ![j] = "leaving"]
        /\ UNCHANGED <<step, thread>>
    BY <1>5 DEF EndBody, Slots!CountOut, registryVars, promptVars, runVars
  <2> QED
    BY <1>0, <1>1, <2>1 DEF InStep, ThreadAtWork, BodyInStep, StrandedIsExcused
<1>6. CASE j \in ComfyJob /\ RunBody(j)
  <2>1. RunP!BodyStep(j) /\ step[j] # "idle" /\ UNCHANGED <<stage, thread>>
    BY <1>6, BodyAlike DEF RunBody, registryVars, slotVars
  <2>2. \A q \in ComfyJob : q # j => step'[q] = step[q]
    BY <1>6, <2>1, PartsAssume, RunP!JobSteps DEF PartsInv
  <2>3. step'[j] # "idle" /\ stage[j] = "running"
    <3>1. step'[j] \in RunP!Follows[step[j]]
      BY <1>6, <2>1, PartsAssume, RunP!JobMoves DEF PartsInv
    <3>2. step[j] \in DOMAIN RunP!Follows
      BY <1>6 DEF RunP!Follows
    <3>3. step[j] \notin {"ok", "error"}
      BY <3>1, <3>2 DEF RunP!Follows
    <3>4. step'[j] # "idle"
      <4>1. \A s \in DOMAIN RunP!Follows : "idle" \notin RunP!Follows[s]
        BY DEF RunP!Follows
      <4> QED
        BY <3>1, <3>2, <4>1
    <3> QED
      BY <1>6, <2>1, <3>3, <3>4 DEF CrossInv, BodyInSlot
  <2> QED
    BY <1>1, <1>6, <2>1, <2>2, <2>3 DEF InStep, ThreadAtWork, BodyInStep, StrandedIsExcused
<1>7. CASE j \in AsyncJob /\ (ReturnResponse(j) \/ RunRaises(j))
  <2>1. /\ stage[j] \in {"stranded", "done"} /\ UNCHANGED <<stage, step>>
        /\ \/ \E response : thread' = [thread EXCEPT ![j] = response] /\ stage[j] = "done"
           \/ thread' = [thread EXCEPT ![j] = "dead"]
    BY <1>7 DEF ReturnResponse, RunRaises, Registry!Return, Registry!Die, slotVars,
       promptVars, runVars
  <2> QED
    BY <1>1, <1>7, <2>1 DEF InStep, ThreadAtWork, BodyInStep, StrandedIsExcused
<1> QED
  BY <1>2, <1>3, <1>4, <1>5, <1>6, <1>7 DEF JobStep

\* The watchdog calls restart_comfy as it enters a restart or a recycle, and leaves
\* it as the call returns.
LEMMA WatchdogKeepsInStep ==
  ASSUME PartsInv, InStep, WatchdogStep
  PROVE  InStep'
<1> USE PartTypes, CallersApart DEF Slots!SlotsTypeOK, Run!RunTypeOK, Run!ServerTypeOK
<1>1. UNCHANGED <<thread, step, stage, maintenance>>
  <2>1. UNCHANGED <<thread, step, maintenance>>
    BY DEF WatchdogStep, WatchdogObserves, WatchdogChecksIdle, WatchdogStartsRecycle,
       WatchdogRestartReturns, registryVars, promptVars, runVars, CallRestart, RestartReturns
  <2>2. UNCHANGED stage
    BY DEF WatchdogStep, WatchdogObserves, WatchdogChecksIdle, WatchdogStartsRecycle,
       WatchdogRestartReturns, Slots!Tick, Slots!CheckIdleBeforeRecycle, Slots!Decide,
       Slots!Claim, Slots!ClaimTimesOut, Slots!GiveBack, Slots!RecycleReturns,
       Slots!Confirm, Slots!CheckIdleBeforeRestart, Slots!RestartEnds, Slots!RecycleEnds,
       Slots!jobVars
  <2> QED
    BY <2>1, <2>2
<1>2. ThreadAtWork' /\ BodyInStep' /\ StrandedIsExcused'
  BY <1>1 DEF InStep, ThreadAtWork, BodyInStep, StrandedIsExcused
<1>3. \A m \in Maintainer : m # "watchdog"
  BY RuntimeAssumption DEF RuntimeAssumption
<1>4. CallsInStep'
  <2>1. CASE WatchdogObserves
    <3>1. UNCHANGED restart
      BY <2>1 DEF WatchdogObserves, promptVars, serverVars
    <3>2. {watchdog, watchdog'} \cap {"restarting", "recycling"} = {}
      BY <2>1 DEF WatchdogObserves, Slots!Tick, Slots!CheckIdleBeforeRecycle, Slots!Decide,
         Slots!Claim, Slots!ClaimTimesOut, Slots!GiveBack, Slots!RecycleReturns, Slots!Confirm
    <3> QED
      BY <1>1, <3>1, <3>2 DEF InStep, CallsInStep
  <2>2. CASE WatchdogChecksIdle \/ WatchdogStartsRecycle
    <3>1. /\ watchdog \in {"unhealthy", "quiesced"}
          /\ \/ watchdog' \in {"restarting", "recycling"}
                /\ restart' = [restart EXCEPT !["watchdog"] = "stop"]
             \/ watchdog' = "sleeping" /\ UNCHANGED restart
      BY <2>2 DEF WatchdogChecksIdle, WatchdogStartsRecycle, Slots!CheckIdleBeforeRestart,
         Slots!Confirm, CallRestart, promptVars, serverVars
    <3> QED
      BY <1>1, <1>3, <3>1 DEF InStep, CallsInStep
  <2>3. CASE WatchdogRestartReturns
    <3>1. /\ restart' = [restart EXCEPT !["watchdog"] = "none"]
          /\ watchdog' \in {"sleeping", "recycled", "yielding"}
      BY <2>3 DEF WatchdogRestartReturns, RestartReturns, Run!RestartReturns,
         Slots!RestartEnds, Slots!RecycleEnds
    <3> QED
      BY <1>1, <1>3, <3>1 DEF InStep, CallsInStep
  <2> QED
    BY <2>1, <2>2, <2>3 DEF WatchdogStep
<1> QED
  BY <1>2, <1>4 DEF InStep

\* So does each maintainer.
LEMMA MaintainerKeepsInStep ==
  ASSUME PartsInv, CrossInv, InStep, NEW m \in Maintainer, MaintainerStep(m)
  PROVE  InStep'
<1> USE PartTypes, CallersApart DEF Run!RunTypeOK, Run!ServerTypeOK, CrossInv, MaintenanceTypeOK
<1>1. UNCHANGED <<thread, step, stage, watchdog>>
  BY DEF MaintainerStep, MaintainerLoads, MaintainerChecksIdle, MaintainerRestartReturns,
     registryVars, slotVars, promptVars, runVars, CallRestart, RestartReturns
<1>2. ThreadAtWork' /\ BodyInStep' /\ StrandedIsExcused'
  BY <1>1 DEF InStep, ThreadAtWork, BodyInStep, StrandedIsExcused
<1>3. /\ maintenance[m] # "restarting"
         /\ \/ maintenance'[m] # "restarting" /\ UNCHANGED restart
            \/ maintenance'[m] = "restarting" /\ restart' = [restart EXCEPT ![m] = "stop"]
      \/ /\ maintenance'[m] # "restarting"
         /\ restart' = [restart EXCEPT ![m] = "none"]
  BY DEF MaintainerStep, MaintainerLoads, MaintainerChecksIdle, MaintainerRestartReturns,
     CallRestart, RestartReturns, Run!RestartReturns, promptVars, serverVars
<1>4. /\ \A n \in Maintainer : n # m => maintenance'[n] = maintenance[n]
      /\ m # "watchdog"
  BY RuntimeAssumption DEF RuntimeAssumption, MaintainerStep, MaintainerLoads,
     MaintainerChecksIdle, MaintainerRestartReturns
<1>5. CallsInStep'
  BY <1>1, <1>3, <1>4 DEF InStep, CallsInStep
<1> QED
  BY <1>2, <1>5 DEF InStep

\* Every step keeps the threads in step.
LEMMA StepKeepsInStep == PartsInv /\ CrossInv /\ InStep /\ [Next]_vars => InStep'
<1> SUFFICES ASSUME PartsInv, CrossInv, InStep, [Next]_vars PROVE InStep'
  OBVIOUS
<1> USE PartTypes DEF Registry!RegistryTypeOK
<1>1. CASE RegistryStep
  <2>1. UNCHANGED <<step, stage, restart, watchdog, maintenance>>
    BY <1>1 DEF RegistryStep, slotVars, promptVars, runVars, serverVars
  <2>2. \A j \in AsyncJob : thread[j] \in {"executing", "dead"} => thread'[j] = thread[j]
    <3>1. \A j \in AsyncJob : thread[j] \in {"executing", "dead"} => record[j] = "running"
      BY DEF PartsInv, RegistryP!RegistryInv, RegistryP!NoResultDropped
    <3>2. CASE Registry!Poll \/ Registry!Expire
      BY <3>2 DEF Registry!Poll, Registry!Expire
    <3>3. ASSUME NEW q \in AsyncJob,
                 Registry!Submit(q) \/ Registry!Spawn(q) \/ Registry!SpawnFails(q)
                 \/ Registry!Start(q) \/ Registry!Store(q)
          PROVE  /\ thread[q] \notin {"executing", "dead"}
                 /\ \A j \in AsyncJob : j # q => thread'[j] = thread[j]
      <4>1. thread[q] \notin {"executing", "dead"}
        BY <3>1, <3>3 DEF Registry!Submit, Registry!Spawn, Registry!SpawnFails,
           Registry!Start, Registry!Store
      <4>2. thread' = thread \/ \E s : thread' = [thread EXCEPT ![q] = s]
        BY <3>3 DEF Registry!Submit, Registry!Spawn, Registry!SpawnFails, Registry!Start,
           Registry!Store
      <4> QED
        BY <4>1, <4>2
    <3> QED
      BY <1>1, <3>2, <3>3 DEF RegistryStep
  <2> QED
    BY <2>1, <2>2 DEF InStep, ThreadAtWork, BodyInStep, CallsInStep, StrandedIsExcused
<1>2. CASE \E j \in AllJob : JobStep(j)
  BY <1>2, JobKeepsInStep
<1>3. CASE WatchdogStep
  BY <1>3, WatchdogKeepsInStep
<1>4. CASE \E m \in Maintainer : MaintainerStep(m)
  BY <1>4, MaintainerKeepsInStep
<1>5. ASSUME NEW r \in Caller, RestartCommand(r) PROVE InStep'
  <2>1. UNCHANGED <<thread, step, stage, watchdog, maintenance>>
    BY <1>5 DEF RestartCommand, registryVars, runVars, slotVars
  <2>2. \A q \in Caller : restart'[q] # "none" <=> restart[q] # "none"
    <3>1. RunP!RestartStep(r)
      BY <1>5, RestartAlike DEF RestartCommand
    <3> QED
      BY <1>5, <3>1, PartsAssume, RunP!CommandsGoOn DEF PartsInv
  <2> QED
    BY <2>1, <2>2, CallersApart DEF InStep, ThreadAtWork, BodyInStep, CallsInStep, StrandedIsExcused
<1>6. CASE ServerStep \/ UNCHANGED vars
  <2>1. UNCHANGED <<thread, step, stage, watchdog, maintenance, restart>>
    BY <1>6 DEF ServerStep, Run!ServerStep, Run!Execute, Run!Crash, vars, registryVars,
       runVars, slotVars, serverVars
  <2> QED
    BY <2>1 DEF InStep, ThreadAtWork, BodyInStep, CallsInStep, StrandedIsExcused
<1> QED
  BY <1>1, <1>2, <1>3, <1>4, <1>5, <1>6 DEF Next

\* They are in step at every moment.
LEMMA InStepInvariant == Spec => []InStep
<1>1. Init => InStep
  <2> SUFFICES ASSUME Init PROVE InStep
    OBVIOUS
  <2>1. stage = [j \in AllJob |-> "idle"] /\ watchdog = "sleeping"
    BY DEF Init, Slots!SlotsInit
  <2>2. step = [j \in ComfyJob |-> "idle"] /\ restart = [r \in Caller |-> "none"]
    BY DEF Init, Run!PromptInit, Run!ServerInit, Run!RunInit
  <2>3. maintenance = [m \in Maintainer |-> "loading"]
    BY DEF Init
  <2>4. ThreadAtWork /\ BodyInStep /\ StrandedIsExcused
    BY <2>1, <2>2 DEF ThreadAtWork, BodyInStep, StrandedIsExcused, ComfyJob, AllJob
  <2>5. CallsInStep
    BY <2>1, <2>2, <2>3, CallersApart DEF CallsInStep
  <2> QED
    BY <2>4, <2>5 DEF InStep
<1> QED
  BY <1>1, RuntimeInvariant, StepKeepsInStep, PTL DEF Spec

\* Nobody waits for what no one will bring: a job without a permit waits for one
\* that is taken, a restart that is waited for is under way, a prompt that is polled
\* has been accepted, and no slot is held without a thread at work in it, except the
\* slots that a failing Thread.start has stranded.
EveryWaitHasACause ==
  /\ \A j \in AllJob : stage[j] = "waiting" /\ permits = 0 =>
       taken > 0 \/ \E k \in AllJob : stage[k] \in Slots!HoldingStages
  /\ RunP!CallersWait /\ RunP!PromptsAreKnown
  /\ CallsInStep
  /\ ThreadAtWork /\ BodyInStep /\ StrandedIsExcused

\* The three counts of finite sets are one.
LEMMA CountsAlike ==
  ASSUME NEW S
  PROVE  /\ RegistryP!Cardinality(S) = Cardinality(S)
         /\ SlotsP!Cardinality(S) = Cardinality(S)
BY DEF Cardinality, RegistryP!Cardinality, SlotsP!Cardinality

\* Permits that are neither free nor claimed are with jobs.
LEMMA PermitsAreHeld ==
  ASSUME PartsInv, permits = 0, taken = 0
  PROVE  /\ SlotsP!Holders = {j \in AllJob : stage[j] \in Slots!HoldingStages}
         /\ Cardinality(SlotsP!Holders) = MaxSlots
         /\ MaxSlots \in Nat \ {0}
<1>1. SlotsP!Holders = {j \in AllJob : stage[j] \in Slots!HoldingStages}
  BY DEF SlotsP!Holders, SlotsP!HoldingStages, Slots!HoldingStages
<1>2. permits + SlotsP!Cardinality(SlotsP!Holders) + taken = MaxSlots
  BY DEF PartsInv, SlotsP!SlotsInv, SlotsP!Conserved
<1>3. MaxSlots \in Nat \ {0} /\ IsFiniteSet(SlotsP!Holders)
  BY RuntimeAssumption, FiniteJobs, FS_Subset DEF RuntimeAssumption, SlotsP!Holders
<1>4. Cardinality(SlotsP!Holders) \in Nat
  BY <1>3, FS_CardinalityType
<1> QED
  BY <1>1, <1>2, <1>3, <1>4, CountsAlike

\* The watchdog's claim is a number of permits.
LEMMA ClaimIsCount == PartsInv => taken = 0 \/ taken > 0
BY RuntimeAssumption DEF RuntimeAssumption, PartsInv, SlotsP!SlotsInv, SlotsP!SlotsTypeOK

\* No thread of the worker is forgotten: the safety half of StartedJobsFinish.
THEOREM NobodyIsForgotten == Spec => []EveryWaitHasACause
<1>1. ASSUME PartsInv, NEW j \in AllJob, permits = 0
      PROVE  taken > 0 \/ \E k \in AllJob : stage[k] \in Slots!HoldingStages
  <2> SUFFICES ASSUME ~(taken > 0) PROVE \E k \in AllJob : stage[k] \in Slots!HoldingStages
    OBVIOUS
  <2>1. taken = 0
    BY <1>1, ClaimIsCount
  <2>2. SlotsP!Holders # {}
    BY <1>1, <2>1, PermitsAreHeld, FS_EmptySet
  <2> QED
    BY <1>1, <2>1, <2>2, PermitsAreHeld
<1>2. Spec => [](RunP!CallersWait /\ RunP!PromptsAreKnown)
  <2>1. RunP!OpenSpec => [](RunP!CallersWait /\ RunP!PromptsAreKnown)
    BY PartsAssume, RunP!NobodyWaitsInVain
  <2> QED
    BY <2>1, RuntimeImplementsRun, PTL
<1>3. PartsInv /\ InStep /\ RunP!CallersWait /\ RunP!PromptsAreKnown => EveryWaitHasACause
  BY <1>1 DEF InStep, EveryWaitHasACause
<1> QED
  BY <1>2, <1>3, RuntimeInvariant, InStepInvariant, PTL

\* The jobs that wait for a slot or hold one are in flight in the registry, which
\* admits as many as there are slots.
THEOREM AdmissionMatchesSlots == Spec => []AcceptedJobsFindSlots
<1>1. PartsInv /\ InStep => AcceptedJobsFindSlots
  <2> SUFFICES ASSUME PartsInv, InStep, NEW j \in AsyncJob, stage[j] = "waiting", permits = 0,
                      ~(taken > 0), \A k \in SyncJob : stage[k] \notin Slots!HoldingStages
               PROVE  FALSE
    BY DEF AcceptedJobsFindSlots
  <2> DEFINE Accepted == RegistryP!InFlight
  <2>1. taken = 0
    BY ClaimIsCount
  <2>2. \A k \in AsyncJob : stage[k] \notin {"idle", "done"} => k \in Accepted
    BY DEF PartsInv, RegistryP!RegistryInv, RegistryP!NoResultDropped, RegistryP!InFlight,
       RegistryP!InFlightStates, InStep, ThreadAtWork
  <2>3. SlotsP!Holders \subseteq Accepted \ {j}
    <3>1. j \notin SlotsP!Holders
      BY <2>1, PermitsAreHeld DEF Slots!HoldingStages
    <3>2. \A k \in SlotsP!Holders : k \in AsyncJob /\ stage[k] \notin {"idle", "done"}
      BY <2>1, PermitsAreHeld DEF Slots!HoldingStages, AllJob
    <3> QED
      BY <2>2, <3>1, <3>2
  <2>4. j \in Accepted /\ IsFiniteSet(Accepted)
    <3>1. Accepted \subseteq AsyncJob
      BY DEF RegistryP!InFlight
    <3> QED
      BY <2>2, <3>1, FiniteJobs, FS_Subset
  <2>5. /\ Cardinality(Accepted \ {j}) = Cardinality(Accepted) - 1
        /\ Cardinality(Accepted) \in Nat
        /\ Cardinality(SlotsP!Holders) <= Cardinality(Accepted \ {j})
    <3>1. IsFiniteSet(Accepted \ {j}) /\ Cardinality(Accepted \ {j}) = Cardinality(Accepted) - 1
      BY <2>4, FS_RemoveElement
    <3> QED
      BY <2>3, <2>4, <3>1, FS_Subset, FS_CardinalityType
  <2>6. Cardinality(Accepted) <= MaxSlots
    BY CountsAlike DEF PartsInv, RegistryP!RegistryInv, RegistryP!RegistryBounded
  <2> QED
    BY <2>1, <2>5, <2>6, PermitsAreHeld
<1> QED
  BY <1>1, RuntimeInvariant, InStepInvariant, PTL

===============================================================================
