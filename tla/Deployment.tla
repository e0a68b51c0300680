------------------------------ MODULE Deployment ------------------------------
(***************************************************************************)
(* The one-click deployment of a secure worker (src/secure_one_click.py,   *)
(* the Verda half of src/deploy_gpu.py): a saga run on the operator's own  *)
(* computer that creates a machine, points a hostname at it, works on it   *)
(* over SSH, turns the backend's dispatch on, and compensates in reverse   *)
(* when a step fails.                                                      *)
(*                                                                         *)
(* The machine is that of CodeRelease.  A command the saga loses touch     *)
(* with is not withdrawn: it may run to its end, or start late, while the  *)
(* saga is already compensating.  A machine driven by hand, in any order   *)
(* of requests, is the other case of the same module.                      *)
(***************************************************************************)
EXTENDS CodeRelease

CONSTANT HandFaults  \* the share of MaxFaults a machine driven by hand may meet

ASSUME DeploymentAssumption == HandFaults \in 0 .. MaxFaults

VARIABLES
  at,          \* the saga's step; "by-hand" when there is no saga
  profile,     \* the secure profile it installs
  asked,       \* its commands that the machine has not begun
  doing,       \* its command that holds the machine's profile lock
  reply,       \* what the command it waits for has answered
  vm,          \* the machine, as the provider sees it
  dns,         \* the addresses the hostname's A records name
  previousDns, \* the record the preflight found
  mutation,    \* dns_mutation
  dispatch,    \* GPU_WORKER_ENABLED, as the backend's secrets have it
  preserve,    \* the backend's secrets are only verified, never set
  synced,      \* fly_secrets_synced
  profileStaged,
  envFile,     \* the local backend's environment names the new worker
  warned       \* the compensations that failed

sagaFlags == <<preserve, synced, profileStaged, envFile, warned>>
outside == <<vm, dns, previousDns, mutation, dispatch>>
calls == <<asked, doing, reply>>
sagaVars == <<at, profile, calls, outside, sagaFlags>>
deploymentVars == <<hostVars, sagaVars>>

\* Steps that send a command to the machine and wait for it; the command has
\* the name of the step.
RemoteStep == {"install", "retire", "stage", "prepare", "provision", "cutover", "activate",
               "undo-activation", "undo-code", "undo-profile"}
LocalStep == {"sync", "create-vm", "delete-dns", "create-dns", "recreate-dns", "tls", "tls-again",
              "ready", "enable", "finalize", "undo-dns", "restore-dns", "undo-dispatch"}
Ended == {"done", "failed", "killed", "by-hand"}

DeploymentTypeOK ==
  /\ HostTypeOK
  /\ at \in RemoteStep \cup LocalStep \cup Ended /\ profile \in Link
  /\ asked \subseteq RemoteStep /\ doing \in RemoteStep \cup {"none"}
  /\ reply \in {"none", "ok", "failed"}
  /\ vm \in {"none", "up", "gone"}
  /\ dns \subseteq {"old", "new"} /\ previousDns \subseteq {"old"}
  /\ mutation \in {"none", "unchanged", "changed"}
  /\ dispatch \in BOOLEAN /\ preserve \in BOOLEAN /\ synced \in BOOLEAN
  /\ profileStaged \in BOOLEAN /\ envFile \in BOOLEAN
  /\ warned \subseteq {"profile", "dns", "dispatch"}

\* The saga has a profile of its own, and meets a first-install machine: a new
\* one, or one that boots from the volume of an earlier deployment.
DeploymentInit ==
  /\ HostMachine
  /\ asked = {} /\ doing = "none" /\ reply = "none"
  /\ mutation = "none" /\ synced = FALSE /\ profileStaged = FALSE
  /\ envFile = FALSE /\ warned = {}
  /\ previousDns \in {{}, {"old"}} /\ dns = previousDns
  /\ \/ /\ at = "by-hand" /\ vm = "up"
        /\ profile = None /\ faults = MaxFaults - HandFaults
        /\ dns = {} /\ preserve = FALSE /\ dispatch = FALSE
     \/ /\ at = "sync" /\ vm = "none" /\ faults = 0
        /\ mode = "first-install"
        /\ profile \in Release /\ ~Staged(profile)
        /\ preserve \in BOOLEAN /\ dispatch \in IF preserve THEN {FALSE} ELSE BOOLEAN

-----------------------------------------------------------------------------
(* Steps of the saga                                                       *)

Move(step) ==
  /\ at' = step
  /\ asked' = asked \cup ({step} \cap RemoteStep)
  /\ reply' = "none"
  /\ UNCHANGED <<doing, profile>>

\* What fails costs one fault.
Fault == faults < MaxFaults /\ faults' = faults + 1
AllOtherHostVars == <<mode, receipt, links, marks, prior, services, pc, rel, codeVars>>
NoFault == UNCHANGED hostVars
WithFault == Fault /\ UNCHANGED AllOtherHostVars

\* Compensation, in the order of the except block.

\* Mutant: the profile is not rolled back.
NoProfileCompensation == IF mutation # "none" THEN "undo-dns"
                         ELSE IF synced THEN "undo-dispatch" ELSE "failed"

Compensation == IF profileStaged THEN "undo-profile"
                ELSE IF mutation # "none" THEN "undo-dns"
                ELSE IF synced THEN "undo-dispatch" ELSE "failed"
AfterProfile == IF mutation # "none" THEN "undo-dns" ELSE IF synced THEN "undo-dispatch" ELSE "failed"
AfterDns == IF synced THEN "undo-dispatch" ELSE "failed"

\* The backend's secrets: worker dispatch off, before anything is paid for.  An
\* import that raises may have been applied.
SyncSecrets ==
  /\ at = "sync" /\ ~preserve
  /\ \/ NoFault /\ dispatch' = FALSE /\ synced' = TRUE /\ Move("create-vm")
     \/ WithFault /\ dispatch' \in {dispatch, FALSE} /\ Move("failed") /\ UNCHANGED synced
  /\ UNCHANGED <<vm, dns, previousDns, mutation, preserve, profileStaged, envFile, warned>>

\* Or the secrets are found in place, and nothing is set.
VerifyContract ==
  /\ at = "sync" /\ preserve
  /\ \/ NoFault /\ Move("create-vm")
     \/ WithFault /\ Move("failed")
  /\ UNCHANGED <<outside, sagaFlags>>

\* stage-code: preflight, vm create, wait for the address and for SSH.  A machine
\* that comes up on a reused volume boots what is enabled on it.
CreateVm ==
  /\ at = "create-vm"
  /\ \/ NoFault /\ vm' = "up" /\ Move("install")
     \/ WithFault /\ vm' \in {"none", "up"} /\ Move(Compensation)
  /\ UNCHANGED <<dns, previousDns, mutation, dispatch, sagaFlags>>

\* The hostname has one record, and it is the one this saga created.
OnlyOurs == dns = {"new"}

\* A create that raises may have landed.
Created(address) == dns' = dns \cup {address}
MayBeCreated(address) == dns' \in {dns, dns \cup {address}}

\* VercelDns.point_to: nothing to do if the record already names the machine;
\* otherwise the record that was there goes first.
DeleteDns ==
  /\ at = "delete-dns"
  /\ \/ /\ NoFault
        /\ previousDns # {} /\ mutation' = "unchanged"
        /\ Move("retire")
        /\ UNCHANGED dns
     \/ /\ NoFault
        /\ dns' = dns \ previousDns
        /\ Move("create-dns")
        /\ UNCHANGED mutation
     \/ /\ WithFault
        /\ previousDns # {}
        /\ dns' \in {dns, dns \ previousDns}
        /\ Move(Compensation)
        /\ UNCHANGED mutation
  /\ UNCHANGED <<vm, previousDns, dispatch, sagaFlags>>

\* When the create raises, the earlier record is put back and the mutation is lost
\* with the exception.
CreateDns ==
  /\ at = "create-dns"
  /\ \/ /\ NoFault
        /\ Created("new")
        /\ mutation' = "changed"
        /\ Move("retire")
     \/ /\ WithFault
        /\ MayBeCreated("new")
        /\ UNCHANGED mutation
        /\ Move(IF previousDns = {} THEN Compensation ELSE "recreate-dns")
  /\ UNCHANGED <<vm, previousDns, dispatch, sagaFlags>>

RecreateDns ==
  /\ at = "recreate-dns"
  /\ \E old \in previousDns : (NoFault /\ Created(old)) \/ (WithFault /\ MayBeCreated(old))
  /\ Move(Compensation)
  /\ UNCHANGED <<vm, previousDns, mutation, dispatch, sagaFlags>>

\* _wait_for_tls_hostname: the hostname names the machine and the edge answers.
EdgeAnswers == vm = "up" /\ tunnel = profile /\ ("new" \in dns \/ mutation = "unchanged")

WaitTls ==
  /\ at \in {"tls", "tls-again"}
  /\ \/ /\ NoFault
        /\ EdgeAnswers
        /\ Move(IF at = "tls" THEN "provision" ELSE "cutover")
     \/ /\ IF EdgeAnswers THEN WithFault ELSE NoFault
        /\ Move(Compensation)
  /\ UNCHANGED <<outside, sagaFlags>>

\* _wait_for_authenticated_worker_ready, for every worker in turn.
AllAnswer == EdgeAnswers /\ \A u \in Unit : run[u] = profile

\* Mutant: dispatch is turned on as soon as the workers answer.
ReadyThenEnable ==
  /\ at = "ready"
  /\ \/ NoFault /\ AllAnswer /\ Move("enable")
     \/ (IF AllAnswer THEN WithFault ELSE NoFault) /\ Move(Compensation)
  /\ UNCHANGED <<outside, sagaFlags>>

WaitReady ==
  /\ at = "ready"
  /\ \/ NoFault /\ AllAnswer /\ Move("activate")
     \/ (IF AllAnswer THEN WithFault ELSE NoFault) /\ Move(Compensation)
  /\ UNCHANGED <<outside, sagaFlags>>

Enable ==
  /\ at = "enable"
  /\ \/ NoFault /\ dispatch' = TRUE /\ Move("finalize")
     \/ WithFault /\ dispatch' \in BOOLEAN /\ Move(Compensation)
  /\ UNCHANGED <<vm, dns, previousDns, mutation, sagaFlags>>

Finalize ==
  /\ at = "finalize"
  /\ \/ NoFault /\ envFile' = TRUE /\ Move("done")
     \/ WithFault /\ Move(Compensation) /\ UNCHANGED envFile
  /\ UNCHANGED <<outside, preserve, synced, profileStaged, warned>>

\* What the saga waits for has answered, or it gives up: the connection is lost,
\* or the client's time is up.  The command stays with the machine, unless it
\* never got there.
Onward == [install |-> "delete-dns", retire |-> "stage", stage |-> "prepare", prepare |-> "tls",
           provision |-> "tls-again", cutover |-> "ready"]

\* Mutant: the answer itself is not looked at.
AnsweredAnyhow ==
  /\ at \in DOMAIN Onward \cup {"activate"}
  /\ reply # "none"
  /\ profileStaged' = (profileStaged \/ at = "prepare")
  /\ Move(IF at # "activate" THEN Onward[at] ELSE IF preserve THEN "finalize" ELSE "enable")
  /\ NoFault
  /\ UNCHANGED <<outside, preserve, synced, envFile, warned>>

Answered ==
  /\ at \in DOMAIN Onward \cup {"activate"}
  /\ reply = "ok"
  /\ profileStaged' = (profileStaged \/ at = "prepare")
  /\ Move(IF at # "activate" THEN Onward[at] ELSE IF preserve THEN "finalize" ELSE "enable")
  /\ NoFault
  /\ UNCHANGED <<outside, preserve, synced, envFile, warned>>

\* Deploy phases that fail have a compensation of their own: the profile, then
\* the code pointer.
Refused ==
  CASE at = "activate"        -> "undo-activation"
    [] at = "provision"       -> "undo-code"
    [] at = "undo-activation" -> IF reply = "ok" THEN "undo-code" ELSE Compensation
    [] at = "undo-code"       -> Compensation
    [] at = "undo-profile"    -> AfterProfile
    [] OTHER                  -> Compensation

Compensate ==
  /\ warned' = IF at = "undo-profile" /\ reply # "ok" THEN warned \cup {"profile"} ELSE warned
  /\ UNCHANGED <<outside, preserve, synced, profileStaged, envFile>>

\* A failed command, and a compensation that answered either way.
TurnBack ==
  /\ at \in RemoteStep
  /\ reply = "failed" \/ (reply = "ok" /\ at \in {"undo-activation", "undo-code", "undo-profile"})
  /\ Move(Refused)
  /\ NoFault
  /\ Compensate

GiveUp ==
  /\ at \in RemoteStep
  /\ reply = "none"
  /\ at' = Refused
  /\ \E lost \in {{}, {at}} : asked' = (asked \ lost) \cup ({Refused} \cap RemoteStep)
  /\ UNCHANGED <<doing, profile, reply>>
  /\ WithFault
  /\ Compensate

\* VercelDns.rollback refuses when the hostname has several records.
UndoDns ==
  /\ at \in {"undo-dns", "restore-dns"}
  /\ \/ /\ at = "undo-dns" /\ mutation = "changed"
        /\ NoFault
        /\ OnlyOurs /\ dns' = {}
        /\ Move(IF previousDns = {} THEN AfterDns ELSE "restore-dns")
        /\ UNCHANGED warned
     \/ /\ at = "undo-dns" /\ mutation = "unchanged"
        /\ NoFault
        /\ Move(AfterDns)
        /\ UNCHANGED <<dns, warned>>
     \/ /\ at = "restore-dns"
        /\ NoFault
        /\ dns' = previousDns
        /\ Move(AfterDns)
        /\ UNCHANGED warned
     \/ /\ WithFault
        /\ dns' \in IF at = "undo-dns" THEN {dns, {}} ELSE {dns, previousDns}
        /\ mutation = "changed"
        /\ warned' = warned \cup {"dns"}
        /\ Move(AfterDns)
  /\ UNCHANGED <<vm, previousDns, mutation, dispatch, preserve, synced, profileStaged, envFile>>

UndoDispatch ==
  /\ at = "undo-dispatch"
  /\ \/ NoFault /\ dispatch' = FALSE /\ UNCHANGED warned
     \/ WithFault /\ dispatch' \in {dispatch, FALSE} /\ warned' = warned \cup {"dispatch"}
  /\ Move("failed")
  /\ UNCHANGED <<vm, dns, previousDns, mutation, preserve, synced, profileStaged, envFile>>

\* The saga's own process dies: nothing compensates.
Killed ==
  /\ at \notin Ended
  /\ WithFault
  /\ at' = "killed"
  /\ UNCHANGED <<profile, calls, outside, sagaFlags>>

SagaStep ==
  \/ SyncSecrets \/ VerifyContract \/ CreateVm \/ DeleteDns \/ CreateDns \/ RecreateDns
  \/ WaitTls \/ WaitReady \/ Enable \/ Finalize
  \/ Answered \/ TurnBack \/ GiveUp \/ UndoDns \/ UndoDispatch \/ Killed

-----------------------------------------------------------------------------
(* The machine at work for the saga                                        *)

\* An answer reaches the saga only if it still waits for it.
Answer(op, ok) == reply' = IF at = op THEN (IF ok THEN "ok" ELSE "failed") ELSE reply

Take(op) == asked' = asked \ {op}

\* Commands done on the spot: the answer is all there is to see.
AtOnce(op, ok) == Answer(op, ok) /\ UNCHANGED doing

\* Commands that go on under the profile lock.
Onto(op) == doing' = op /\ UNCHANGED reply

\* manage_worker_release.py runs from the candidate itself.
Runnable == profile \in Works

Undo == {"undo-profile", "undo-activation"}

\* _rollback_secure_profiles_over_ssh takes a profile that is cut over, or whose
\* rollback is open, and is content with one that is rolled back.
UndoAccepted(op) ==
  /\ Runnable /\ RollbackAccepted(profile)
  /\ op = "undo-activation" => receipt[profile].performed /\ receipt[profile].rollback # "complete"

UndoneAlready(op) ==
  /\ op = "undo-activation" /\ Runnable
  /\ ~receipt[profile].performed /\ receipt[profile].rollback = "complete"

BeginProfile(op) ==
  /\ pc = "idle"
  /\ UNCHANGED <<mode, codeVars>>
  /\ \/ op = "retire" /\ active # None /\ Runnable /\ Retire(active) /\ Onto(op)
     \/ op = "stage" /\ Ready(codeOf[profile]) /\ Stage(profile) /\ Onto(op)
     \/ op = "prepare" /\ Runnable /\ Prepare(profile) /\ Onto(op)
     \/ op = "cutover" /\ Runnable /\ Cutover(profile) /\ Onto(op)
     \/ op \in Undo /\ UndoAccepted(op) /\ Rollback(profile) /\ Onto(op)

\* Phase "activate": the gate, the health of the worker, and the finalization.
Promotable == GatePassed(profile) /\ InForce(profile) /\ Ready(codeOf[profile])

\* Nothing to do, or nothing that is allowed.
Settle(op) ==
  /\ pc = "idle"
  /\ UNCHANGED hostVars
  /\ \/ op = "retire" /\ active = None /\ AtOnce(op, TRUE)
     \/ op = "retire" /\ active # None /\ ~(Runnable /\ RetireAccepted(active)) /\ AtOnce(op, FALSE)
     \/ op = "stage" /\ ~(Ready(codeOf[profile]) /\ StageAccepted(profile)) /\ AtOnce(op, FALSE)
     \/ op = "prepare" /\ ~(Runnable /\ PrepareAccepted(profile)) /\ AtOnce(op, FALSE)
     \/ op = "cutover" /\ ~(Runnable /\ CutoverAccepted(profile) /\ tunnel # None) /\ AtOnce(op, FALSE)
     \/ op \in Undo /\ UndoneAlready(op) /\ AtOnce(op, TRUE)
     \/ op \in Undo /\ ~UndoneAlready(op) /\ ~UndoAccepted(op) /\ AtOnce(op, FALSE)
     \/ op = "provision" /\ ~ProvisionAccepted(profile) /\ AtOnce(op, FALSE)
     \/ op = "activate" /\ ~Promotable /\ AtOnce(op, FALSE)
     \/ op = "activate" /\ Promotable /\ CodeLockFree
          /\ current = codeOf[profile] /\ AtOnce(op, TRUE)

\* Commands on the code releases.
BeginCode(op) ==
  LET c == codeOf[profile] IN
  \/ /\ op = "provision" /\ Provision(profile) /\ AtOnce(op, TRUE)
  \/ /\ op = "activate" /\ GatePassed(profile) /\ Activate(profile) /\ Onto(op)
  \/ /\ op = "install" /\ Install(c) /\ UNCHANGED <<doing, reply>>
  \/ /\ op = "install" /\ CodeLockFree /\ ~Clearable(c)
     /\ AtOnce(op, Ready(c)) /\ UNCHANGED hostVars
  \/ /\ op = "undo-code" /\ RollbackCode(c) /\ UNCHANGED <<doing, reply>>
  \/ /\ op = "undo-code" /\ CodeLockFree /\ ~PointerCanGo(c)
     /\ AtOnce(op, FALSE) /\ UNCHANGED hostVars

Obey ==
  /\ vm = "up"
  /\ \E op \in asked : Take(op) /\ (BeginProfile(op) \/ Settle(op) \/ BeginCode(op))
  /\ UNCHANGED <<at, profile, outside, sagaFlags>>

\* Nobody answers on a machine that is gone.
Unreachable ==
  /\ vm # "up" /\ asked # {}
  /\ asked' = {} /\ reply' = "failed"
  /\ UNCHANGED <<at, profile, doing, outside, sagaFlags, hostVars>>

LastStep(op) ==
  CASE op = "stage" -> "stage-pointer"
    [] op = "prepare" -> "prepare-receipt"
    [] op = "cutover" -> "commit"
    [] op = "activate" -> "activate"
    [] OTHER -> "undone"

Work ==
  /\ vm = "up"
  /\ HostStep
  /\ IF pc # "idle" /\ pc' = "idle"
       THEN doing' = "none" /\ Answer(doing, pc = LastStep(doing))
     ELSE /\ UNCHANGED doing
          /\ IF pc # "activate" /\ script # Unlocked /\ script' = Unlocked
               THEN Answer(IF script.step = "retarget" THEN "undo-code" ELSE "install", TRUE)
               ELSE UNCHANGED reply
  /\ UNCHANGED <<at, profile, asked, outside, sagaFlags>>

\* A death or a power loss on the machine ends every session it had.
Breakdown ==
  /\ vm = "up"
  /\ \/ (\E c \in Code : Drift(c)) /\ UNCHANGED calls
     \/ /\ HostInterrupted
        /\ doing' = "none" /\ Answer(doing, FALSE) /\ UNCHANGED asked
     \/ /\ ScriptInterrupted
        /\ Answer(IF script.step = "retarget" THEN "undo-code" ELSE "install", FALSE)
        /\ UNCHANGED <<asked, doing>>
     \/ /\ HostPowerLoss
        /\ asked' = {} /\ doing' = "none"
        /\ reply' = IF at \in RemoteStep /\ reply = "none" THEN "failed" ELSE reply
  /\ UNCHANGED <<at, profile, outside, sagaFlags>>

\* The provider takes a spot machine back; the saga resumes exactly that
\* instance or none.
Preempted ==
  /\ vm = "up" /\ at # "by-hand"
  /\ vm' = "gone"
  /\ Fault
  /\ run' = [u \in Unit |-> "stopped"] /\ tunnel' = None
  /\ Finish /\ FreeCodeLock
  /\ asked' = {} /\ doing' = "none"
  /\ reply' = IF at \in RemoteStep /\ reply = "none" THEN "failed" ELSE reply
  /\ UNCHANGED <<mode, receipt, links, marks, prior, enabled, trees, pointers, unitText>>
  /\ UNCHANGED <<at, profile, dns, previousDns, mutation, dispatch, sagaFlags>>

ByHand == at = "by-hand" /\ HostRequest /\ UNCHANGED sagaVars

DeploymentNext ==
  SagaStep \/ Obey \/ Unreachable \/ Work \/ Breakdown \/ Preempted \/ ByHand

DeploymentSpec == DeploymentInit /\ [][DeploymentNext]_deploymentVars

-----------------------------------------------------------------------------
(* Properties                                                              *)

\* When the saga reports success, everything it speaks of is so at once, although
\* each part was only checked in passing: the profile in force, its code current,
\* the hostname naming this machine alone, dispatch as it was to be, and no
\* command of the saga still under way.
DoneIsInForce ==
  at = "done" /\ vm = "up" =>
    /\ InForce(profile)
    /\ current = codeOf[profile]
    /\ OnlyOurs \/ mutation = "unchanged"
    /\ dispatch = ~preserve
    /\ asked = {} /\ pc = "idle"

\* When the saga has failed and every compensation reported success, nothing of
\* it is left: dispatch off, the earlier record back, no worker running from its
\* profile, no authority to boot into it, the local environment untouched - even
\* if a command it gave up on was executed late.
FailedIsUndone ==
  at = "failed" /\ warned = {} =>
    /\ synced => ~dispatch
    /\ mutation # "none" => dns = previousDns
    /\ \A u \in Unit : run[u] # profile
    /\ profile \notin boot
    /\ ~envFile

\* The backend begins to dispatch to a machine only after its profile is in force
\* and its code is the current release: the order cutover, readiness, promotion,
\* dispatch holds across lost answers and late commands.
DispatchAfterPromotion ==
  [][ dispatch' /\ ~dispatch /\ vm = "up" => InForce(profile) /\ current = codeOf[profile] ]_deploymentVars
===============================================================================
