--------------------------- MODULE Deployment_proofs ---------------------------
(***************************************************************************)
(* What a deployment and its machine keep, for any profiles, code          *)
(* releases, units and number of faults: first the machine, with whatever  *)
(* is asked of it, then the saga that asks.                                *)
(***************************************************************************)
EXTENDS Deployment, TLAPS

-----------------------------------------------------------------------------
(* Types of the machine found                                              *)

\* The receipts that a machine is found with are receipts.
LEMMA Receipts ==
  /\ NoReceipt \in Receipt /\ FreshReceipt(FALSE) \in Receipt /\ FreshReceipt(TRUE) \in Receipt
  /\ [FreshReceipt(FALSE) EXCEPT !.prepared = TRUE, !.performed = TRUE,
        !.cutover = "complete"] \in Receipt
BY DEF NoReceipt, FreshReceipt, Receipt

\* What the writes of a receipt make of it is a receipt.
LEMMA ReceiptEdits ==
  ASSUME NEW p \in Receipt
  PROVE  /\ [p EXCEPT !.prepared = TRUE] \in Receipt
         /\ [p EXCEPT !.cutover = "open"] \in Receipt
         /\ [p EXCEPT !.rollback = "open"] \in Receipt
         /\ [[p EXCEPT !.performed = TRUE] EXCEPT !.cutover = "complete"] \in Receipt
         /\ [[p EXCEPT !.performed = TRUE] EXCEPT !.rollback = "open"] \in Receipt
         /\ [[[p EXCEPT !.performed = FALSE] EXCEPT !.cutover = "undone"]
               EXCEPT !.rollback = "complete"] \in Receipt
         /\ FreshReceipt(p.legacy) \in Receipt
BY DEF Receipt, FreshReceipt, NoReceipt

\* What systemd starts at boot is a configuration or nothing.
LEMMA BootTypes ==
  ASSUME dropin \in [Unit -> Link], tunnelDropin \in Link
  PROVE  (\A u \in Unit : BootConfig(u) \in Release \cup {"base", "stopped"}) /\ BootTunnel \in Link
BY DEF BootConfig, BootTunnel, Link

\* Every machine found is of the right types.
LEMMA MachineTypes ==
  ASSUME Machine, faults \in 0 .. MaxFaults
  PROVE  SecureTypeOK
<1>1. mode \in {"migration", "first-install"} /\ pc = "idle" /\ rel = None
  BY DEF Machine
<1>2. moved \in [Release -> SUBSET LegacyFile]
  BY DEF Machine
<1>3. CASE CleanMachine
  <2>1. receipt \in [Release -> Receipt]
    BY <1>3, Receipts DEF CleanMachine
  <2> QED
    BY <1>1, <1>2, <1>3, <2>1 DEF CleanMachine, SecureTypeOK, Link, LegacyFile, Unit, Step
<1>4. CASE DisplacedMachine
  <2>1. PICK r \in Release, f \in Release,
             displaced \in {{}, {"unit"}, {"unit", "profile"}, {"unit", "profile", "guard"}} :
          DisplacedBy(r, f, displaced)
    BY <1>4 DEF DisplacedMachine
  <2>2. receipt \in [Release -> Receipt]
    BY <2>1, Receipts DEF DisplacedBy
  <2>3. /\ dropin \in [Unit -> Link] /\ guard \in [Unit -> Link]
        /\ tunnelUnit \in Link /\ tunnelDropin \in Link /\ active \in Link /\ staged \in Link
        /\ auth \subseteq Release /\ boot \subseteq Release
        /\ override \in BOOLEAN /\ legacy \subseteq LegacyFile
        /\ enabled \subseteq Unit \cup {"tunnel"}
    BY <2>1 DEF DisplacedBy, Link
  <2>4. /\ run \in [Unit -> Release \cup {"base", "stopped"}]
        /\ tunnel \in Link
    BY <2>1, <2>3, BootTypes DEF DisplacedBy
  <2> QED
    BY <1>1, <1>2, <2>2, <2>3, <2>4 DEF SecureTypeOK, Step, Link
<1> QED
  BY <1>3, <1>4 DEF Machine

\* The saga has a profile; a machine driven by hand is sent no command.
SagaHasProfile ==
  /\ at # "by-hand" => profile \in Release
  /\ at = "by-hand" => asked = {} /\ doing = "none"

TypeInv == DeploymentTypeOK /\ SagaHasProfile

\* And so is everything else when a deployment begins.
LEMMA InitTypes ==
  ASSUME DeploymentInit
  PROVE  TypeInv
<1>1. SecureTypeOK
  <2>1. Machine
    BY DEF DeploymentInit, HostMachine
  <2>2. faults = 0 \/ faults = MaxFaults - HandFaults
    BY DEF DeploymentInit
  <2>3. faults \in 0 .. MaxFaults
    BY <2>2, ProfileAssumption, DeploymentAssumption
  <2> QED
    BY <2>1, <2>3, MachineTypes
<1>2. HostTypeOK
  <2>1. tree \in [Code -> {"absent", "partial", "ready", "drifted"}]
    BY DEF DeploymentInit, HostMachine
  <2> QED
    BY <1>1, <2>1 DEF DeploymentInit, HostMachine, HostTypeOK
<1>3. profile \in Link /\ at \in {"by-hand", "sync"} /\ SagaHasProfile
  BY DEF DeploymentInit, SagaHasProfile, Link
<1>4. previousDns \subseteq {"old"} /\ dns \subseteq {"old", "new"}
  BY DEF DeploymentInit
<1>5. vm \in {"none", "up", "gone"} /\ preserve \in BOOLEAN /\ dispatch \in BOOLEAN
  BY DEF DeploymentInit
<1> QED
  BY <1>2, <1>3, <1>4, <1>5
     DEF DeploymentInit, TypeInv, DeploymentTypeOK, RemoteStep, LocalStep, Ended

-----------------------------------------------------------------------------
(* Operations on the profile keep the types                                *)

\* A request for an operation keeps the types,
LEMMA RequestTypes ==
  ASSUME SecureTypeOK, NEW r \in Release, UNCHANGED mode,
         Stage(r) \/ Prepare(r) \/ Cutover(r) \/ CutoverAbandoned(r) \/ Rollback(r) \/ Retire(r)
  PROVE  SecureTypeOK'
<1>0. r \in Link /\ r # None /\ receipt[r] \in Receipt
  BY ProfileAssumption DEF SecureTypeOK, Link
<1>r. ASSUME Rollback(r) PROVE SecureTypeOK'
  <2>1. receipt' \in [Release -> Receipt]
    BY <1>0, <1>r, ReceiptEdits DEF Rollback, SecureTypeOK
  <2> QED
    BY <1>0, <1>r, <2>1
       DEF Rollback, Begin, SecureTypeOK, Step, RollbackStep, links, marks, prior, services
<1>1. CASE Stage(r)
  <2>1. ("dropin" \in legacy) \in BOOLEAN
    OBVIOUS
  <2>2. StagedReceipt(r) \in Receipt
    <3>1. FreshReceipt("dropin" \in legacy) \in Receipt
      BY <2>1, Receipts
    <3> QED
      BY <1>0, <3>1, ReceiptEdits DEF StagedReceipt
  <2>3. receipt' \in [Release -> Receipt]
    BY <1>0, <1>1, <2>2 DEF Stage, SecureTypeOK
  <2> QED
    BY <1>0, <1>1, <2>3
       DEF Stage, Begin, SecureTypeOK, Step, StageStep, links, marks, prior, services
<1>2. CASE Prepare(r)
  BY <1>0, <1>2 DEF Prepare, Begin, SecureTypeOK, Step, PrepareStep, links, marks, prior, services
<1>3. CASE Cutover(r)
  <2>1. receipt' \in [Release -> Receipt]
    BY <1>0, <1>3, ReceiptEdits DEF Cutover, SecureTypeOK
  <2> QED
    BY <1>0, <1>3, <2>1
       DEF Cutover, Begin, SecureTypeOK, Step, CutoverTry, links, marks, prior, services
<1>4. CASE CutoverAbandoned(r)
  BY <1>0, <1>4
     DEF CutoverAbandoned, Begin, SecureTypeOK, Step, CutoverEnd, links, marks, prior, services
<1>6. CASE Retire(r)
  <2>1. CASE ~Rollback(r)
    BY <1>0, <1>6, <2>1 DEF Retire, Begin, SecureTypeOK, Step, links, marks, prior, services
  <2> QED
    BY <2>1, <1>r
<1> QED
  BY <1>r, <1>1, <1>2, <1>3, <1>4, <1>6

\* as do the writes of a staging and of a preparation,
LEMMA StagingTypes ==
  ASSUME SecureTypeOK, UNCHANGED mode, StageWrite \/ PrepareTunnel \/ PrepareReceipt
  PROVE  SecureTypeOK'
<1>0. rel \in Link /\ (pc # "idle" => rel \in Release /\ rel # None)
  BY DEF SecureTypeOK, Link
<1>1. ASSUME StageWrite, StageUnit PROVE SecureTypeOK'
  BY <1>0, <1>1 DEF StageWrite, StageUnit, Goto, SecureTypeOK, Step, StageStep, marks, prior, services
<1>2. ASSUME StageWrite, StageProfile PROVE SecureTypeOK'
  BY <1>0, <1>2 DEF StageWrite, StageProfile, Goto, SecureTypeOK, Step, StageStep, marks, prior, services
<1>3. ASSUME StageWrite, StageGuards PROVE SecureTypeOK'
  <2>1. guard' = guard \/ \E u : guard' = [guard EXCEPT ![u] = rel]
    BY <1>3 DEF StageGuards
  <2>2. guard' \in [Unit -> Link]
    BY <1>0, <2>1 DEF SecureTypeOK
  <2> QED
    BY <1>0, <1>3, <2>2
       DEF StageWrite, StageGuards, Goto, SecureTypeOK, Step, StageStep, marks, prior, services
<1>4. ASSUME StageWrite, StagePointer PROVE SecureTypeOK'
  BY <1>0, <1>4 DEF StageWrite, StagePointer, Finish, SecureTypeOK, Step, marks, prior, services, Link
<1>5. CASE PrepareTunnel
  BY <1>0, <1>5 DEF PrepareTunnel, Goto, SecureTypeOK, Step, PrepareStep, links, marks, prior
<1>6. CASE PrepareReceipt
  <2>1. receipt' \in [Release -> Receipt]
    BY <1>0, <1>6, ReceiptEdits DEF PrepareReceipt, SecureTypeOK
  <2> QED
    BY <1>6, <2>1 DEF PrepareReceipt, Finish, SecureTypeOK, Step, links, marks, prior, services, Link
<1> QED
  BY <1>1, <1>2, <1>3, <1>4, <1>5, <1>6 DEF StageWrite

\* those of a cutover,
LEMMA CutoverTypes ==
  ASSUME SecureTypeOK, UNCHANGED mode, NEW works, CutoverWrite(works)
  PROVE  SecureTypeOK'
<1>0. rel \in Link /\ (pc # "idle" => rel \in Release /\ rel # None)
  BY DEF SecureTypeOK, Link
<1>1. CASE DisableLegacy
  <2>1. legacy' \subseteq legacy /\ moved' \in [Release -> SUBSET LegacyFile]
    BY <1>0, <1>1 DEF DisableLegacy, SecureTypeOK, LegacyFile
  <2>2. pc' \in {"legacy", "link"} /\ UNCHANGED rel
    BY <1>1 DEF DisableLegacy, Goto
  <2> QED
    BY <1>0, <1>1, <2>1, <2>2
       DEF DisableLegacy, SecureTypeOK, Step, CutoverTry, links, marks, services
<1>2. CASE LinkWorkers
  <2>1. dropin' = dropin \/ \E u : dropin' = [dropin EXCEPT ![u] = rel]
    BY <1>2 DEF LinkWorkers
  <2>2. dropin' \in [Unit -> Link]
    BY <1>0, <2>1 DEF SecureTypeOK
  <2> QED
    BY <1>0, <1>2, <2>2
       DEF LinkWorkers, Goto, SecureTypeOK, Step, CutoverTry, marks, prior, services
<1>3. CASE Authorize
  BY <1>0, <1>3 DEF Authorize, Goto, SecureTypeOK, Step, CutoverTry, links, prior, services
<1>4. CASE Unmask
  BY <1>0, <1>4 DEF Unmask, Goto, SecureTypeOK, Step, CutoverTry, links, marks, services
<1>5. CASE RestartWorkers(works)
  <2>1. run' = run \/ \E u : run' = [run EXCEPT ![u] = rel]
    BY <1>5 DEF RestartWorkers
  <2>2. run' \in [Unit -> Release \cup {"base", "stopped"}]
    BY <1>0, <1>5, <2>1 DEF SecureTypeOK, RestartWorkers
  <2> QED
    BY <1>0, <1>5, <2>2
       DEF RestartWorkers, Goto, SecureTypeOK, Step, CutoverTry, links, marks, prior
<1>6. CASE Probe
  BY <1>0, <1>6
     DEF Probe, Goto, SecureTypeOK, Step, CutoverTry, CutoverEnd, links, marks, prior, services
<1>7. CASE AuthorizeBoot
  BY <1>0, <1>7 DEF AuthorizeBoot, Goto, SecureTypeOK, Step, CutoverTry, links, prior, services
<1>8. CASE EnableUnits
  <2>1. enabled' \subseteq Unit \cup {"tunnel"}
    BY <1>8 DEF EnableUnits, SecureTypeOK, FirstOf
  <2> QED
    BY <1>0, <1>8, <2>1
       DEF EnableUnits, Goto, SecureTypeOK, Step, CutoverTry, CutoverEnd, links, marks, prior
<1>9. CASE Publish
  BY <1>0, <1>9 DEF Publish, Goto, SecureTypeOK, Step, CutoverEnd, marks, prior, services
<1>10. CASE Commit
  <2>1. receipt' \in [Release -> Receipt]
    BY <1>0, <1>10, ReceiptEdits DEF Commit, SecureTypeOK
  <2> QED
    BY <1>10, <2>1 DEF Commit, Finish, SecureTypeOK, Step, links, marks, prior, services, Link
<1>11. CASE CutoverFails(works)
  <2>1. faults' \in 0 .. MaxFaults
    <3>1. faults' \in {faults, faults + 1} /\ faults' <= MaxFaults
      BY <1>11 DEF CutoverFails
    <3> QED
      BY <3>1, ProfileAssumption DEF SecureTypeOK
  <2>2. pc' = "fail-pointer" /\ UNCHANGED rel /\ UNCHANGED <<receipt, links, marks, prior, services>>
        /\ pc # "idle"
    BY <1>11 DEF CutoverFails, Goto, CutoverTry
  <2> QED
    BY <2>1, <2>2, <1>0 DEF SecureTypeOK, Step, CutoverEnd, links, marks, prior, services
<1>12. CASE FailPointer
  BY <1>0, <1>12 DEF FailPointer, Goto, SecureTypeOK, Step, CutoverEnd, marks, prior, services
<1>13. CASE FailReceipt
  <2>1. receipt' \in [Release -> Receipt]
    BY <1>0, <1>13, ReceiptEdits DEF FailReceipt, SecureTypeOK
  <2> QED
    BY <1>0, <1>13, <2>1
       DEF FailReceipt, Goto, SecureTypeOK, Step, RollbackStep, links, marks, prior, services
<1> QED
  BY <1>1, <1>2, <1>3, <1>4, <1>5, <1>6, <1>7, <1>8, <1>9, <1>10, <1>11, <1>12, <1>13
     DEF CutoverWrite

\* of a rollback,
LEMMA RollbackTypes ==
  ASSUME SecureTypeOK, UNCHANGED mode, RollbackWrite \/ (CodePointer /\ UNCHANGED faults)
  PROVE  SecureTypeOK'
<1>0. rel \in Link /\ (pc # "idle" => rel \in Release /\ rel # None) /\ None \in Link
  BY DEF SecureTypeOK, Link
<1>f. UNCHANGED faults
  BY DEF RollbackWrite
<1>1. CASE RestoreOverride
  <2>1. override' \in BOOLEAN
    BY <1>1 DEF RestoreOverride, SecureTypeOK
  <2>2. /\ pc = "restore-override" /\ pc' = "revoke"
        /\ UNCHANGED <<rel, receipt, links, marks, legacy, moved, services>>
    BY <1>1 DEF RestoreOverride, Goto
  <2> QED
    BY <1>0, <1>f, <2>1, <2>2 DEF SecureTypeOK, Step, RollbackStep, links, marks, services
<1>2. CASE Revoke
  BY <1>0, <1>f, <1>2 DEF Revoke, Goto, SecureTypeOK, Step, RollbackStep, links, prior, services
<1>3. CASE RevokeBoot
  BY <1>0, <1>f, <1>3 DEF RevokeBoot, Goto, SecureTypeOK, Step, RollbackStep, links, prior, services
<1>4. CASE UnlinkWorkers
  <2>1. dropin' = dropin \/ \E u : dropin' = [dropin EXCEPT ![u] = None]
    BY <1>4 DEF UnlinkWorkers
  <2>2. dropin' \in [Unit -> Link]
    BY <1>0, <2>1 DEF SecureTypeOK
  <2> QED
    BY <1>0, <1>f, <1>4, <2>2
       DEF UnlinkWorkers, Goto, SecureTypeOK, Step, RollbackStep, marks, prior, services
<1>5. CASE RestoreLegacy
  <2>1. legacy' \subseteq LegacyFile /\ moved' \in [Release -> SUBSET LegacyFile]
    BY <1>0, <1>5 DEF RestoreLegacy, SecureTypeOK, LegacyFile
  <2>2. pc' \in {"service", "restore-legacy"} /\ UNCHANGED rel
    BY <1>5 DEF RestoreLegacy, Goto
  <2> QED
    BY <1>0, <1>f, <1>5, <2>1, <2>2
       DEF RestoreLegacy, SecureTypeOK, Step, RollbackStep, links, marks, services
<1>6. CASE RestoreService
  <2>1. \/ UNCHANGED <<run, enabled>>
        \/ UNCHANGED enabled /\ \E u : run' = [run EXCEPT ![u] = "base"]
        \/ UNCHANGED enabled /\ \E u : run' = [run EXCEPT ![u] = "stopped"]
        \/ UNCHANGED run /\ enabled' \subseteq enabled
    BY <1>6 DEF RestoreService
  <2>2. run' \in [Unit -> Release \cup {"base", "stopped"}] /\ enabled' \subseteq Unit \cup {"tunnel"}
    BY <2>1 DEF SecureTypeOK
  <2>3. pc' \in {"service", "stop-tunnel"} /\ UNCHANGED rel
    BY <1>6 DEF RestoreService, Goto
  <2> QED
    BY <1>0, <1>f, <1>6, <2>2, <2>3
       DEF RestoreService, SecureTypeOK, Step, RollbackStep, links, marks, prior
<1>7. CASE StopTunnel
  BY <1>0, <1>f, <1>7 DEF StopTunnel, Goto, SecureTypeOK, Step, RollbackStep, links, marks, prior
<1>8. CASE DisableTunnel
  BY <1>0, <1>f, <1>8 DEF DisableTunnel, Goto, SecureTypeOK, Step, RollbackStep, links, marks, prior
<1>9. CASE UnlinkTunnel
  BY <1>0, <1>f, <1>9
     DEF UnlinkTunnel, Goto, SecureTypeOK, Step, RollbackStep, marks, prior, services
<1>10. CASE UnlinkGuards
  <2>1. guard' = guard \/ \E u : guard' = [guard EXCEPT ![u] = None]
    BY <1>10 DEF UnlinkGuards
  <2>2. guard' \in [Unit -> Link]
    BY <1>0, <2>1 DEF SecureTypeOK
  <2> QED
    BY <1>0, <1>f, <1>10, <2>2
       DEF UnlinkGuards, Goto, SecureTypeOK, Step, RollbackStep, marks, prior, services
<1>11. CASE Unpublish
  BY <1>0, <1>f, <1>11
     DEF Unpublish, Goto, SecureTypeOK, Step, RollbackStep, marks, prior, services
<1>12. CASE Undone
  <2>1. receipt' \in [Release -> Receipt]
    BY <1>0, <1>12, ReceiptEdits DEF Undone, SecureTypeOK
  <2> QED
    BY <1>0, <1>f, <1>12, <2>1
       DEF Undone, Finish, SecureTypeOK, Step, links, marks, prior, services
<1>13. CASE CodePointer
  BY <1>0, <1>f, <1>13
     DEF CodePointer, Goto, SecureTypeOK, Step, RollbackStep, links, marks, prior, services
<1> QED
  BY <1>1, <1>2, <1>3, <1>4, <1>5, <1>6, <1>7, <1>8, <1>9, <1>10, <1>11, <1>12, <1>13
     DEF RollbackWrite

\* and of a retirement,
LEMMA RelinkTypes ==
  ASSUME SecureTypeOK, UNCHANGED mode, Relink \/ Unstage
  PROVE  SecureTypeOK'
<1>0. rel \in Link /\ (pc # "idle" => rel \in Release /\ rel # None) /\ None \in Link
  BY DEF SecureTypeOK, Link
<1>1. CASE Relink
  <2>1. /\ tunnelUnit' \in {tunnelUnit, rel} /\ tunnelDropin' \in {tunnelDropin, rel}
        /\ guard' = guard \/ \E u : guard' = [guard EXCEPT ![u] = rel]
        /\ pc' \in {"relink", "unstage"} /\ UNCHANGED rel
    BY <1>1 DEF Relink, Goto
  <2>2. guard' \in [Unit -> Link]
    BY <1>0, <2>1 DEF SecureTypeOK
  <2> QED
    BY <1>0, <1>1, <2>1, <2>2 DEF Relink, SecureTypeOK, Step, marks, prior, services
<1>2. CASE Unstage
  <2>1. receipt' \in [Release -> Receipt]
    BY <1>0, <1>2, ReceiptEdits DEF Unstage, SecureTypeOK
  <2> QED
    BY <1>0, <1>2, <2>1
       DEF Unstage, Goto, SecureTypeOK, Step, RollbackStep, marks, prior, services
<1> QED
  BY <1>1, <1>2

\* so every write of an operation does.
LEMMA WriteTypes ==
  ASSUME SecureTypeOK, UNCHANGED mode, NEW works, Write(works)
  PROVE  SecureTypeOK'
BY StagingTypes, CutoverTypes, RollbackTypes, RelinkTypes DEF Write

-----------------------------------------------------------------------------
(* What a step of the deployment does to its machine                       *)

\* The machine is taken away by its provider.
Taken ==
  /\ run' = [u \in Unit |-> "stopped"] /\ tunnel' = None
  /\ Finish /\ FreeCodeLock
  /\ Fault
  /\ UNCHANGED <<mode, receipt, links, marks, prior, enabled, trees, pointers, unitText>>

\* Nothing happens to the machine; something may fail elsewhere.
FaultElsewhere == NoFault \/ WithFault

\* A step of a deployment is one of the machine, or takes the machine away, or is
\* elsewhere and leaves the machine alone.
LEMMA StepOfMachine ==
  ASSUME TypeInv, [DeploymentNext]_deploymentVars
  PROVE  HostNext \/ Taken \/ FaultElsewhere
<1> USE DEF FaultElsewhere
<1>0. UNCHANGED hostVars => FaultElsewhere
  BY DEF NoFault
<1>1. ASSUME SagaStep PROVE FaultElsewhere
  <2>1. SyncSecrets \/ VerifyContract \/ CreateVm \/ DeleteDns \/ CreateDns \/ RecreateDns
          => NoFault \/ WithFault
    BY DEF SyncSecrets, VerifyContract, CreateVm, DeleteDns, CreateDns, RecreateDns
  <2>2. WaitTls \/ WaitReady \/ Enable \/ Finalize => NoFault \/ WithFault
    BY DEF WaitTls, WaitReady, Enable, Finalize
  <2>3. Answered \/ TurnBack \/ GiveUp \/ UndoDns \/ UndoDispatch \/ Killed => NoFault \/ WithFault
    BY DEF Answered, TurnBack, GiveUp, UndoDns, UndoDispatch, Killed
  <2> QED
    BY <1>1, <2>1, <2>2, <2>3 DEF SagaStep
<1>2. ASSUME Obey PROVE HostNext \/ FaultElsewhere
  <2>1. PICK op \in asked : BeginProfile(op) \/ Settle(op) \/ BeginCode(op)
    BY <1>2 DEF Obey
  <2>0. profile \in Release /\ (active # None => active \in Release)
    BY <2>1 DEF TypeInv, SagaHasProfile, DeploymentTypeOK, HostTypeOK, SecureTypeOK, Link
  <2>2. CASE Settle(op)
    BY <1>0, <2>2 DEF Settle
  <2>3. CASE BeginProfile(op)
    <3>1. \E r \in Release : ProfileRequest(r)
      BY <2>0, <2>3 DEF BeginProfile, ProfileRequest
    <3> QED
      BY <3>1 DEF HostNext, HostRequest
  <2>4. CASE BeginCode(op)
    <3>1. codeOf[profile] \in {codeOf[r] : r \in Release}
      BY <2>0
    <3>2. \/ Provision(profile) \/ Activate(profile)
          \/ Install(codeOf[profile]) \/ RollbackCode(codeOf[profile]) \/ UNCHANGED hostVars
      BY <2>4 DEF BeginCode
    <3> QED
      BY <1>0, <2>0, <3>1, <3>2 DEF HostNext, HostRequest
  <2> QED
    BY <2>1, <2>2, <2>3, <2>4
<1>3. CASE Unreachable
  BY <1>0, <1>3 DEF Unreachable
<1>4. CASE Work
  BY <1>4 DEF Work, HostNext
<1>5. CASE Breakdown
  BY <1>5 DEF Breakdown, HostNext, HostFault
<1>6. CASE Preempted
  BY <1>6 DEF Preempted, Taken
<1>7. CASE ByHand
  BY <1>7 DEF ByHand, HostNext
<1>8. CASE UNCHANGED deploymentVars
  BY <1>0, <1>8 DEF deploymentVars
<1> QED
  BY <1>1, <1>2, <1>3, <1>4, <1>5, <1>6, <1>7, <1>8 DEF DeploymentNext

-----------------------------------------------------------------------------
(* Types of the machine and of the saga                                    *)

\* What the steps of the installer write.
LEMMA InstallSteps ==
  ASSUME InstallStep
  PROVE  \/ /\ script.step = "remove"
            /\ tree' = [tree EXCEPT ![script.code] = "absent"] /\ Hold("extract", script.code)
         \/ /\ script.step = "extract"
            /\ tree' = [tree EXCEPT ![script.code] = "partial"] /\ Hold("ready", script.code)
         \/ /\ script.step = "ready"
            /\ tree' = [tree EXCEPT ![script.code] = "ready"] /\ FreeCodeLock
<1>1. PICK s \in {<<"remove", "absent", "extract">>, <<"extract", "partial", "ready">>,
                  <<"ready", "ready", "none">>} :
        /\ script.step = s[1]
        /\ tree' = [tree EXCEPT ![script.code] = s[2]]
        /\ IF s[3] = "none" THEN FreeCodeLock ELSE Hold(s[3], script.code)
  BY DEF InstallStep
<1>2. CASE s = <<"remove", "absent", "extract">>
  BY <1>1, <1>2
<1>3. CASE s = <<"extract", "partial", "ready">>
  BY <1>1, <1>3
<1>4. CASE s = <<"ready", "ready", "none">>
  BY <1>1, <1>4
<1> QED
  BY <1>1, <1>2, <1>3, <1>4

\* The holder of the code lock, at any step of its script.
LEMMA ScriptTypes ==
  ASSUME HostTypeOK
  PROVE  script # Unlocked => script.code \in Code /\ script.step \in ScriptStep
BY DEF HostTypeOK

\* Requests to the machine keep the types,
LEMMA HostRequestTypes ==
  ASSUME HostTypeOK, HostRequest
  PROVE  HostTypeOK'
<1>0. \A r \in Release : codeOf[r] \in Code /\ r \in Link
  BY DEF HostTypeOK, Link
<1>1. ASSUME NEW r \in Release, ProfileRequest(r) PROVE HostTypeOK'
  <2>1. SecureTypeOK'
    BY <1>1, RequestTypes DEF ProfileRequest, HostTypeOK
  <2> QED
    BY <1>1, <2>1 DEF ProfileRequest, HostTypeOK, codeVars, trees, pointers, unitText
<1>2. ASSUME NEW r \in Release, Provision(r) PROVE HostTypeOK'
  BY <1>0, <1>2
     DEF Provision, HostTypeOK, SecureTypeOK, trees, pointers, secureVars, links, marks, prior, services
<1>3. ASSUME NEW r \in Release, Activate(r) PROVE HostTypeOK'
  <2>1. script' \in [step : ScriptStep, code : Code]
    BY <1>0, <1>3 DEF Activate, Hold, ScriptStep
  <2>2. SecureTypeOK'
    BY <1>0, <1>3, ProfileAssumption
       DEF Activate, Begin, HostTypeOK, SecureTypeOK, Step, links, marks, prior, services
  <2> QED
    BY <1>3, <2>1, <2>2 DEF Activate, HostTypeOK, trees, pointers, unitText
<1>4. ASSUME NEW c \in Code, Install(c) \/ RollbackCode(c) PROVE HostTypeOK'
  <2>1. script' \in [step : ScriptStep, code : Code]
    BY <1>4 DEF Install, RollbackCode, Hold, ScriptStep
  <2>2. SecureTypeOK'
    BY <1>4 DEF Install, RollbackCode, HostTypeOK, SecureTypeOK, secureVars, links, marks, prior, services
  <2>3. current' \in Code \cup {None}
    BY <1>4 DEF Install, RollbackCode, HostTypeOK, pointers
  <2> QED
    BY <1>4, <2>1, <2>2, <2>3 DEF Install, RollbackCode, HostTypeOK, trees, pointers, unitText
<1>5. ASSUME NEW c \in Code, Reconcile(c) PROVE HostTypeOK'
  BY <1>5 DEF Reconcile, RemoveTree, HostTypeOK, SecureTypeOK, pointers, unitText, secureVars,
              links, marks, prior, services
<1> QED
  BY <1>0, <1>1, <1>2, <1>3, <1>4, <1>5 DEF HostRequest

\* its steps do,
LEMMA HostStepTypes ==
  ASSUME HostTypeOK, HostStep
  PROVE  HostTypeOK'
<1>0. rel \in Link /\ (pc # "idle" => rel \in Release /\ rel # None) /\ None \in Link
  BY DEF HostTypeOK, SecureTypeOK, Link
<1>s. SecureTypeOK
  BY DEF HostTypeOK
<1>1. CASE ProfileStep
  <2>1. SecureTypeOK'
    BY <1>s, <1>1, WriteTypes DEF ProfileStep
  <2> QED
    BY <1>1, <2>1 DEF ProfileStep, HostTypeOK, codeVars, trees, pointers, unitText
<1>2. CASE CodePointerStep
  <2>1. SecureTypeOK'
    BY <1>s, <1>2, RollbackTypes DEF CodePointerStep
  <2>2. current' \in {current, None, previous}
    BY <1>2 DEF CodePointerStep
  <2> QED
    BY <1>2, <2>1, <2>2 DEF CodePointerStep, HostTypeOK, trees, unitText
<1>3. CASE CodePointerRefused
  BY <1>0, <1>3 DEF CodePointerRefused, Finish, HostTypeOK, SecureTypeOK, Step, links, marks, prior,
                    services, codeVars, trees, pointers, unitText
<1>4. CASE Promote
  <2>1. SecureTypeOK'
    BY <1>0, <1>4
       DEF Promote, Goto, Finish, HostTypeOK, SecureTypeOK, Step, links, marks, prior, services
  <2>2. script # Unlocked
    BY <1>4 DEF Promote, Unlocked
  <2>3. /\ current' \in Code \cup {None} /\ previous' \in Code \cup {None}
        /\ script' \in [step : ScriptStep, code : Code] \cup {Unlocked}
    BY <1>4, <2>2, ScriptTypes DEF Promote, Hold, FreeCodeLock, HostTypeOK, ScriptStep
  <2> QED
    BY <1>4, <2>1, <2>3 DEF Promote, HostTypeOK, trees, unitText
<1>5. CASE InstallStep
  <2>1. script # Unlocked
    BY <1>5 DEF InstallStep, Unlocked
  <2>2. tree' \in [Code -> {"absent", "partial", "ready", "drifted"}]
    BY <1>5, InstallSteps DEF HostTypeOK
  <2>3. script' \in [step : ScriptStep, code : Code] \cup {Unlocked}
    BY <1>5, <2>1, ScriptTypes, InstallSteps DEF Hold, FreeCodeLock, ScriptStep
  <2>4. SecureTypeOK'
    BY <1>5, <1>s DEF InstallStep, SecureTypeOK, secureVars, links, marks, prior, services
  <2> QED
    BY <1>5, <2>2, <2>3, <2>4 DEF InstallStep, HostTypeOK, pointers, unitText
<1>6. CASE RetargetUnits
  <2>1. script # Unlocked
    BY <1>6 DEF RetargetUnits, Unlocked
  <2>2. unitExec' \in Code \cup {"current", None}
    BY <1>6 DEF RetargetUnits, HostTypeOK
  <2>3. \A u \in Unit : Restarted(u) \in Release \cup {"base", "stopped"}
    BY <1>s DEF Restarted, SecureTypeOK, Link
  <2>4. run' \in [Unit -> Release \cup {"base", "stopped"}]
    <3>1. CASE UNCHANGED run
      BY <1>s, <3>1 DEF SecureTypeOK
    <3>2. CASE run' = [u \in Unit |-> "stopped"]
      BY <3>2
    <3>3. CASE run' = [u \in Unit |-> IF run[u] = "stopped" THEN "stopped" ELSE Restarted(u)]
      BY <2>3, <3>3
    <3> QED
      BY <1>6, <3>1, <3>2, <3>3 DEF RetargetUnits
  <2>5. SecureTypeOK'
    BY <1>s, <1>6, <2>4 DEF RetargetUnits, SecureTypeOK, links, marks, prior
  <2> QED
    BY <1>6, <2>2, <2>5 DEF RetargetUnits, HostTypeOK, trees, pointers, FreeCodeLock
<1> QED
  BY <1>1, <1>2, <1>3, <1>4, <1>5, <1>6 DEF HostStep

\* deaths, power losses and drift do,
LEMMA HostFaultTypes ==
  ASSUME HostTypeOK, HostFault
  PROVE  HostTypeOK'
<1>s. SecureTypeOK
  BY DEF HostTypeOK
<1>f. faults < MaxFaults /\ faults' = faults + 1 => faults' \in 0 .. MaxFaults
  BY <1>s, ProfileAssumption DEF SecureTypeOK
<1>1. ASSUME NEW c \in Code, Drift(c) PROVE HostTypeOK'
  BY <1>1, <1>f DEF Drift, HostTypeOK, SecureTypeOK, pointers, unitText, links, marks, prior, services
<1>2. CASE HostInterrupted
  <2>1. SecureTypeOK'
    BY <1>2, <1>f, <1>s DEF HostInterrupted, Interrupted, Finish, SecureTypeOK, Step, Link,
                            links, marks, prior, services
  <2> QED
    BY <1>2, <2>1 DEF HostInterrupted, FreeCodeLock, HostTypeOK, trees, pointers, unitText
<1>3. CASE ScriptInterrupted
  <2>1. SecureTypeOK'
    BY <1>3, <1>f, <1>s DEF ScriptInterrupted, SecureTypeOK, links, marks, prior, services
  <2>2. tree' \in [Code -> {"absent", "partial", "ready", "drifted"}]
    BY <1>3 DEF ScriptInterrupted, HostTypeOK
  <2> QED
    BY <1>3, <2>1, <2>2 DEF ScriptInterrupted, FreeCodeLock, HostTypeOK, pointers, unitText
<1>4. CASE HostPowerLoss
  <2>1. /\ run' = [u \in Unit |->
             IF BootConfig(u) \in Works \cup {"base"} THEN BootConfig(u) ELSE "stopped"]
        /\ tunnel' = BootTunnel
    BY <1>4 DEF HostPowerLoss, PowerLoss
  <2>2. run' \in [Unit -> Release \cup {"base", "stopped"}] /\ tunnel' \in Link
    <3>1. dropin \in [Unit -> Link] /\ tunnelDropin \in Link
      BY <1>s DEF SecureTypeOK
    <3> QED
      BY <2>1, <3>1, BootTypes
  <2>3. SecureTypeOK'
    BY <1>4, <1>f, <1>s, <2>2
       DEF HostPowerLoss, PowerLoss, Finish, SecureTypeOK, Step, Link, links, marks, prior
  <2> QED
    BY <1>4, <2>3 DEF HostPowerLoss, FreeCodeLock, HostTypeOK, trees, pointers, unitText
<1> QED
  BY <1>1, <1>2, <1>3, <1>4 DEF HostFault

\* and so does the loss of the machine
LEMMA TakenTypes ==
  ASSUME HostTypeOK, Taken
  PROVE  HostTypeOK'
<1>1. SecureTypeOK'
  BY ProfileAssumption DEF Fault, Taken, Finish, HostTypeOK, SecureTypeOK, Step, Link, links, marks, prior
<1> QED
  BY <1>1 DEF Taken, FreeCodeLock, HostTypeOK, trees, pointers, unitText

\* or a step that is none of its own.
LEMMA ElsewhereTypes ==
  ASSUME HostTypeOK, FaultElsewhere
  PROVE  HostTypeOK'
<1>1. UNCHANGED AllOtherHostVars
  BY DEF FaultElsewhere, NoFault, WithFault, hostVars, secureVars, AllOtherHostVars
<1>2. faults' \in 0 .. MaxFaults
  BY ProfileAssumption
     DEF FaultElsewhere, NoFault, WithFault, Fault, hostVars, secureVars, HostTypeOK, SecureTypeOK
<1> QED
  BY <1>1, <1>2 DEF AllOtherHostVars, HostTypeOK, SecureTypeOK, links, marks, prior, services,
                    codeVars, trees, pointers, unitText

\* The machine keeps its types.
LEMMA HostTypes ==
  ASSUME TypeInv, [DeploymentNext]_deploymentVars
  PROVE  HostTypeOK'
<1>1. HostTypeOK
  BY DEF TypeInv, DeploymentTypeOK
<1>2. CASE HostNext
  BY <1>1, <1>2, HostRequestTypes, HostStepTypes, HostFaultTypes DEF HostNext
<1> QED
  BY <1>1, <1>2, StepOfMachine, TakenTypes, ElsewhereTypes

\* The commands of the saga, and what it knows.
SagaTypes ==
  /\ at \in RemoteStep \cup LocalStep \cup Ended /\ profile \in Link
  /\ asked \subseteq RemoteStep /\ doing \in RemoteStep \cup {"none"}
  /\ reply \in {"none", "ok", "failed"}
  /\ vm \in {"none", "up", "gone"}
  /\ dns \subseteq {"old", "new"} /\ previousDns \subseteq {"old"}
  /\ mutation \in {"none", "unchanged", "changed"}
  /\ dispatch \in BOOLEAN /\ preserve \in BOOLEAN /\ synced \in BOOLEAN
  /\ profileStaged \in BOOLEAN /\ envFile \in BOOLEAN
  /\ warned \subseteq {"profile", "dns", "dispatch"}

AllSteps == RemoteStep \cup LocalStep \cup Ended

\* Where the saga goes next is one of its steps.
LEMMA Moves ==
  ASSUME SagaTypes, SagaHasProfile, NEW step \in AllSteps \ {"by-hand"}, Move(step), at # "by-hand"
  PROVE  /\ at' \in AllSteps \ {"by-hand"} /\ profile' \in Release /\ profile' \in Link
         /\ asked' \subseteq RemoteStep /\ doing' \in RemoteStep \cup {"none"}
         /\ reply' \in {"none", "ok", "failed"}
BY DEF SagaTypes, SagaHasProfile, Move, AllSteps

\* Its compensations are steps of it.
LEMMA Compensations ==
  /\ Compensation \in AllSteps \ {"by-hand"}
  /\ AfterProfile \in AllSteps \ {"by-hand"} /\ AfterDns \in AllSteps \ {"by-hand"}
BY DEF Compensation, AfterProfile, AfterDns, AllSteps, RemoteStep, LocalStep, Ended

\* What follows a command that answered is a step of it.
LEMMA OnwardSteps ==
  \A step \in DOMAIN Onward : Onward[step] \in AllSteps \ {"by-hand"}
BY DEF Onward, AllSteps, RemoteStep, LocalStep, Ended

\* The saga keeps its types on the way forward,
LEMMA ForwardTypes ==
  ASSUME SagaTypes, SagaHasProfile,
         \/ SyncSecrets \/ VerifyContract \/ CreateVm \/ DeleteDns \/ CreateDns \/ RecreateDns
         \/ WaitTls \/ WaitReady \/ Enable \/ Finalize
  PROVE  SagaTypes' /\ SagaHasProfile'
<1> USE Compensations DEF SagaTypes, outside, sagaFlags
<1>m. ASSUME NEW step \in AllSteps \ {"by-hand"}, Move(step), at # "by-hand"
      PROVE  /\ SagaHasProfile' /\ at' \in AllSteps /\ profile' \in Link
             /\ asked' \subseteq RemoteStep /\ doing' \in RemoteStep \cup {"none"}
             /\ reply' \in {"none", "ok", "failed"}
  BY <1>m, Moves DEF SagaHasProfile
<1>1. CASE SyncSecrets
  <2>1. \E step \in AllSteps \ {"by-hand"} : Move(step)
    BY <1>1 DEF SyncSecrets, AllSteps, LocalStep, Ended
  <2>2. dispatch' \in BOOLEAN /\ synced' \in BOOLEAN
    BY <1>1 DEF SyncSecrets
  <2>3. /\ at # "by-hand"
        /\ UNCHANGED <<vm, dns, previousDns, mutation, preserve, profileStaged, envFile, warned>>
    BY <1>1 DEF SyncSecrets
  <2>4. /\ SagaHasProfile' /\ at' \in AllSteps /\ profile' \in Link
        /\ asked' \subseteq RemoteStep /\ doing' \in RemoteStep \cup {"none"}
        /\ reply' \in {"none", "ok", "failed"}
    BY <2>1, <2>3, <1>m
  <2> QED
    BY <2>2, <2>3, <2>4 DEF AllSteps
<1>2. CASE VerifyContract
  BY <1>2, <1>m DEF VerifyContract, AllSteps, LocalStep, Ended
<1>3. CASE CreateVm
  BY <1>3, <1>m DEF CreateVm, AllSteps, RemoteStep
<1>4. CASE DeleteDns
  <2>1. \E step \in AllSteps \ {"by-hand"} : Move(step)
    BY <1>4 DEF DeleteDns, AllSteps, RemoteStep, LocalStep
  <2>2. dns' \subseteq {"old", "new"}
    BY <1>4 DEF DeleteDns
  <2>3. /\ at # "by-hand" /\ mutation' \in {mutation, "unchanged"}
        /\ UNCHANGED <<vm, previousDns, dispatch, preserve, synced, profileStaged, envFile, warned>>
    BY <1>4 DEF DeleteDns
  <2>4. /\ SagaHasProfile' /\ at' \in AllSteps /\ profile' \in Link
        /\ asked' \subseteq RemoteStep /\ doing' \in RemoteStep \cup {"none"}
        /\ reply' \in {"none", "ok", "failed"}
    BY <2>1, <2>3, <1>m
  <2> QED
    BY <2>2, <2>3, <2>4 DEF AllSteps
<1>5. CASE CreateDns
  <2>1. \E step \in AllSteps \ {"by-hand"} : Move(step)
    BY <1>5 DEF CreateDns, AllSteps, RemoteStep, LocalStep
  <2>2. dns' \subseteq {"old", "new"}
    BY <1>5 DEF CreateDns, Created, MayBeCreated
  <2>3. /\ at # "by-hand" /\ mutation' \in {mutation, "changed"}
        /\ UNCHANGED <<vm, previousDns, dispatch, preserve, synced, profileStaged, envFile, warned>>
    BY <1>5 DEF CreateDns
  <2>4. /\ SagaHasProfile' /\ at' \in AllSteps /\ profile' \in Link
        /\ asked' \subseteq RemoteStep /\ doing' \in RemoteStep \cup {"none"}
        /\ reply' \in {"none", "ok", "failed"}
    BY <2>1, <2>3, <1>m
  <2> QED
    BY <2>2, <2>3, <2>4 DEF AllSteps
<1>6. CASE RecreateDns
  <2>2. dns' \subseteq {"old", "new"}
    BY <1>6 DEF RecreateDns, Created, MayBeCreated
  <2>1. \E step \in AllSteps \ {"by-hand"} : Move(step)
    BY <1>6 DEF RecreateDns
  <2>3. /\ at # "by-hand"
        /\ UNCHANGED <<vm, previousDns, mutation, dispatch, preserve, synced,
                       profileStaged, envFile, warned>>
    BY <1>6 DEF RecreateDns
  <2>4. /\ SagaHasProfile' /\ at' \in AllSteps /\ profile' \in Link
        /\ asked' \subseteq RemoteStep /\ doing' \in RemoteStep \cup {"none"}
        /\ reply' \in {"none", "ok", "failed"}
    BY <2>1, <2>3, <1>m
  <2> QED
    BY <2>2, <2>3, <2>4 DEF AllSteps
<1>7. CASE WaitTls
  BY <1>7, <1>m DEF WaitTls, AllSteps, RemoteStep
<1>8. CASE WaitReady
  BY <1>8, <1>m DEF WaitReady, AllSteps, RemoteStep
<1>9. CASE Enable
  <2>1. \E step \in AllSteps \ {"by-hand"} : Move(step)
    BY <1>9 DEF Enable, AllSteps, LocalStep
  <2>2. dispatch' \in BOOLEAN
    BY <1>9 DEF Enable
  <2>3. at # "by-hand" /\ UNCHANGED <<vm, dns, previousDns, mutation, sagaFlags>>
    BY <1>9 DEF Enable
  <2>4. /\ SagaHasProfile' /\ at' \in AllSteps /\ profile' \in Link
        /\ asked' \subseteq RemoteStep /\ doing' \in RemoteStep \cup {"none"}
        /\ reply' \in {"none", "ok", "failed"}
    BY <2>1, <2>3, <1>m
  <2> QED
    BY <2>2, <2>3, <2>4 DEF AllSteps
<1>10. CASE Finalize
  <2>1. \E step \in AllSteps \ {"by-hand"} : Move(step)
    BY <1>10 DEF Finalize, AllSteps, Ended
  <2>2. envFile' \in BOOLEAN
    BY <1>10 DEF Finalize
  <2>3. at # "by-hand" /\ UNCHANGED <<outside, preserve, synced, profileStaged, warned>>
    BY <1>10 DEF Finalize
  <2>4. /\ SagaHasProfile' /\ at' \in AllSteps /\ profile' \in Link
        /\ asked' \subseteq RemoteStep /\ doing' \in RemoteStep \cup {"none"}
        /\ reply' \in {"none", "ok", "failed"}
    BY <2>1, <2>3, <1>m
  <2> QED
    BY <2>2, <2>3, <2>4 DEF AllSteps
<1> QED
  BY <1>1, <1>2, <1>3, <1>4, <1>5, <1>6, <1>7, <1>8, <1>9, <1>10

\* on the way back,
LEMMA BackwardTypes ==
  ASSUME SagaTypes, SagaHasProfile,
         Answered \/ TurnBack \/ GiveUp \/ UndoDns \/ UndoDispatch \/ Killed
  PROVE  SagaTypes' /\ SagaHasProfile'
<1> USE Compensations DEF SagaTypes, outside, sagaFlags
<1>m. ASSUME NEW step \in AllSteps \ {"by-hand"}, Move(step), at # "by-hand"
      PROVE  /\ SagaHasProfile' /\ at' \in AllSteps /\ profile' \in Link
             /\ asked' \subseteq RemoteStep /\ doing' \in RemoteStep \cup {"none"}
             /\ reply' \in {"none", "ok", "failed"}
  BY <1>m, Moves DEF SagaHasProfile
<1>r. Refused \in AllSteps \ {"by-hand"}
  BY DEF Refused, AllSteps, RemoteStep
<1>w. Compensate => /\ warned' \subseteq {"profile", "dns", "dispatch"}
                    /\ UNCHANGED <<outside, preserve, synced, profileStaged, envFile>>
  BY DEF Compensate
<1>h. at \in RemoteStep => at # "by-hand"
  BY DEF RemoteStep
<1>1. CASE Answered
  <2>1. profileStaged' \in BOOLEAN
    BY <1>1 DEF Answered
  <2>2. /\ at # "by-hand"
        /\ \E step \in AllSteps \ {"by-hand"} : Move(step)
    BY <1>1, OnwardSteps DEF Answered, AllSteps, LocalStep, Onward
  <2> QED
    BY <1>1, <1>m, <2>1, <2>2 DEF Answered, AllSteps
<1>2. CASE TurnBack
  BY <1>2, <1>m, <1>r, <1>w, <1>h DEF TurnBack, AllSteps
<1>3. CASE GiveUp
  <2>1. asked' \subseteq RemoteStep
    BY <1>3 DEF GiveUp
  <2>2. /\ at # "by-hand" /\ at' \in AllSteps \ {"by-hand"}
        /\ UNCHANGED <<doing, profile, reply>>
        /\ Compensate
    BY <1>3, <1>r, <1>h DEF GiveUp
  <2>3. SagaHasProfile' /\ at' \in AllSteps /\ profile' \in Link
    BY <2>2 DEF SagaHasProfile, AllSteps
  <2>4. doing' \in RemoteStep \cup {"none"} /\ reply' \in {"none", "ok", "failed"}
    BY <2>2
  <2>5. /\ warned' \subseteq {"profile", "dns", "dispatch"}
        /\ UNCHANGED <<outside, preserve, synced, profileStaged, envFile>>
    BY <1>w, <2>2
  <2> QED
    BY <2>1, <2>3, <2>4, <2>5 DEF AllSteps
<1>4. CASE UndoDns
  <2>1. \E step \in AllSteps \ {"by-hand"} : Move(step)
    BY <1>4 DEF UndoDns, AllSteps, LocalStep
  <2>2. dns' \subseteq {"old", "new"} /\ warned' \subseteq {"profile", "dns", "dispatch"}
    BY <1>4 DEF UndoDns
  <2>3. /\ at # "by-hand"
        /\ UNCHANGED <<vm, previousDns, mutation, dispatch, preserve, synced, profileStaged, envFile>>
    BY <1>4 DEF UndoDns
  <2>4. /\ SagaHasProfile' /\ at' \in AllSteps /\ profile' \in Link
        /\ asked' \subseteq RemoteStep /\ doing' \in RemoteStep \cup {"none"}
        /\ reply' \in {"none", "ok", "failed"}
    BY <2>1, <2>3, <1>m
  <2> QED
    BY <2>2, <2>3, <2>4 DEF AllSteps
<1>5. CASE UndoDispatch
  <2>1. \E step \in AllSteps \ {"by-hand"} : Move(step)
    BY <1>5 DEF UndoDispatch, AllSteps, Ended
  <2>2. dispatch' \in BOOLEAN /\ warned' \subseteq {"profile", "dns", "dispatch"}
    BY <1>5 DEF UndoDispatch
  <2>3. /\ at # "by-hand"
        /\ UNCHANGED <<vm, dns, previousDns, mutation, preserve, synced, profileStaged, envFile>>
    BY <1>5 DEF UndoDispatch
  <2>4. /\ SagaHasProfile' /\ at' \in AllSteps /\ profile' \in Link
        /\ asked' \subseteq RemoteStep /\ doing' \in RemoteStep \cup {"none"}
        /\ reply' \in {"none", "ok", "failed"}
    BY <2>1, <2>3, <1>m
  <2> QED
    BY <2>2, <2>3, <2>4 DEF AllSteps
<1>6. CASE Killed
  BY <1>6 DEF Killed, Ended, SagaHasProfile, calls
<1> QED
  BY <1>1, <1>2, <1>3, <1>4, <1>5, <1>6

\* and while its commands are obeyed, worked on, or lost.
LEMMA MachineSideTypes ==
  ASSUME SagaTypes, SagaHasProfile, Obey \/ Unreachable \/ Work \/ Breakdown \/ Preempted \/ ByHand
  PROVE  SagaTypes' /\ SagaHasProfile'
<1> USE DEF SagaTypes, outside, sagaFlags, SagaHasProfile
<1>a. ASSUME NEW op, NEW ok, Answer(op, ok) PROVE reply' \in {"none", "ok", "failed"}
  BY <1>a DEF Answer
<1>1. CASE Obey
  <2>1. PICK op \in asked : Take(op) /\ (BeginProfile(op) \/ Settle(op) \/ BeginCode(op))
    BY <1>1 DEF Obey
  <2>2. BeginProfile(op) => doing' = op /\ UNCHANGED reply
    BY DEF BeginProfile, Onto
  <2>3. Settle(op) => UNCHANGED doing /\ \E ok : Answer(op, ok)
    BY DEF Settle, AtOnce
  <2>4. BeginCode(op) => /\ doing' = op \/ UNCHANGED doing
                         /\ UNCHANGED reply \/ \E ok : Answer(op, ok)
    BY DEF BeginCode, AtOnce, Onto
  <2>5. doing' \in RemoteStep \cup {"none"} /\ reply' \in {"none", "ok", "failed"}
    BY <1>a, <2>1, <2>2, <2>3, <2>4
  <2> QED
    BY <1>1, <2>1, <2>5 DEF Obey, Take
<1>2. CASE Unreachable
  BY <1>2 DEF Unreachable
<1>3. CASE Work
  <2>1. /\ doing' = "none" \/ UNCHANGED doing
        /\ UNCHANGED reply \/ \E op, ok : Answer(op, ok)
    BY <1>3 DEF Work
  <2>2. reply' \in {"none", "ok", "failed"}
    BY <1>a, <2>1
  <2> QED
    BY <1>3, <2>1, <2>2 DEF Work
<1>4. CASE Breakdown
  <2>1. /\ asked' \subseteq asked
        /\ doing' = "none" \/ UNCHANGED doing
        /\ UNCHANGED reply \/ reply' = "failed" \/ \E op, ok : Answer(op, ok)
    BY <1>4 DEF Breakdown, calls
  <2>2. reply' \in {"none", "ok", "failed"}
    BY <1>a, <2>1
  <2> QED
    BY <1>4, <2>1, <2>2 DEF Breakdown
<1>5. CASE Preempted
  BY <1>5 DEF Preempted
<1>6. CASE ByHand
  BY <1>6 DEF ByHand, sagaVars, calls
<1> QED
  BY <1>1, <1>2, <1>3, <1>4, <1>5, <1>6

\* Every step of a deployment keeps the types.
LEMMA StepTypes ==
  ASSUME TypeInv, [DeploymentNext]_deploymentVars
  PROVE  TypeInv'
<1>1. HostTypeOK'
  BY HostTypes
<1>2. SagaTypes /\ SagaHasProfile
  BY DEF TypeInv, DeploymentTypeOK, SagaTypes
<1>3. ASSUME DeploymentNext PROVE SagaTypes' /\ SagaHasProfile'
  BY <1>2, <1>3, ForwardTypes, BackwardTypes, MachineSideTypes DEF DeploymentNext, SagaStep
<1>4. ASSUME UNCHANGED deploymentVars PROVE SagaTypes' /\ SagaHasProfile'
  BY <1>2, <1>4 DEF SagaTypes, SagaHasProfile, deploymentVars, sagaVars, calls, outside, sagaFlags
<1>5. SagaTypes' /\ SagaHasProfile'
  BY <1>3, <1>4
<1> QED
  BY <1>1, <1>5 DEF TypeInv, DeploymentTypeOK, SagaTypes

\* Every variable of the machine and of the saga keeps its type, in every mode and
\* through every fault: no handler leaves a link, a receipt or a lock in a state
\* the others do not expect.
THEOREM DeploymentTypes == DeploymentSpec => []DeploymentTypeOK
<1>1. DeploymentSpec => []TypeInv
  BY InitTypes, StepTypes, PTL DEF DeploymentSpec
<1>2. TypeInv => DeploymentTypeOK
  BY DEF TypeInv
<1> QED
  BY <1>1, <1>2, PTL

-----------------------------------------------------------------------------
(* The invariant of the profile's files                                    *)

\* Steps of a cutover: its failure included, after the last link, after the proof.
Cutting == CutoverTry \cup CutoverEnd
Linked == {"authorize", "unmask", "restart", "probe", "boot", "enable", "publish", "commit"}
Proven == {"enable", "publish", "commit"}

\* Steps of a rollback, or after a part of it.
AfterGuards == {"unpublish", "code", "undone"}
AfterTunnel == {"unlink-guards"} \cup AfterGuards
AfterService == {"stop-tunnel", "disable-tunnel", "unlink-tunnel"} \cup AfterTunnel
AfterUnlink == {"restore-legacy", "service"} \cup AfterService
AfterRevoke == {"revoke-boot", "unlink"} \cup AfterUnlink

\* No link names another release.
OwnOrNone(r) ==
  /\ dropin[Main] \in {r, None} /\ guard[Main] \in {r, None} /\ active \in {r, None}
  /\ tunnelUnit \in {r, None} /\ tunnelDropin \in {r, None}

UnitsDisabled == \A u \in Unit : u \notin enabled

\* Each kind of machine has its own means of keeping a worker from the public.
KindInv ==
  /\ mode = "first-install" => ~override
  /\ mode = "migration" => \A u \in Unit : guard[u] = None

\* What is linked, named or run has been staged.
StagedInv ==
  /\ \A r \in Release : ~Staged(r) => receipt[r] = NoReceipt
  /\ rel # None => Staged(rel)
  /\ active # None => Staged(active)
  /\ \A u \in Unit : dropin[u] # None => Staged(dropin[u])
  /\ \A u \in Unit : run[u] \in Release => Staged(run[u])

\* What a staging relies on while it writes its links.
StageInv ==
  pc \in StageStep =>
    /\ dropin[Main] = active /\ active \in {rel, None}
    /\ receipt[rel].rollback # "complete"
    /\ pc = "stage-guards" => mode = "first-install"

\* What a cutover has done, and still relies on, at each of its steps.
CutoverInv ==
  pc \in Cutting =>
    /\ receipt[rel].rollback = "none" /\ receipt[rel].cutover # "none"
    /\ tunnelUnit = rel /\ tunnelDropin = rel
    /\ mode = "first-install" => guard[Main] = rel
    /\ dropin[Main] \in {rel, None}
    /\ (\A u \in Unit : dropin[u] = rel) \/ (mode = "first-install" => UnitsDisabled)
    /\ pc \in Linked => \A u \in Unit : dropin[u] = rel
    /\ pc \in Linked \ {"authorize"} => rel \in auth
    /\ pc \in {"boot", "enable"} => mode = "first-install"
    /\ mode = "first-install" /\ pc \in Proven => rel \in boot
    /\ mode = "first-install" /\ pc \in {"publish", "commit"} => Unit \subseteq enabled
    /\ pc = "fail-receipt" => active = rel

RelinkInv ==
  /\ pc \in {"relink", "unstage"} => dropin[Main] = rel /\ active = rel
  /\ pc = "unstage" => OwnOrNone(rel)

\* What a rollback has taken back, at each of its steps.
RollbackInv ==
  pc \in RollbackStep =>
    /\ receipt[rel].rollback = "open"
    /\ OwnOrNone(rel)
    /\ mode = "migration" /\ pc # "restore-override" => override
    /\ pc \in AfterRevoke => rel \notin auth
    /\ pc \in AfterRevoke \ {"revoke-boot"} => rel \notin boot
    /\ pc \in AfterUnlink => \A u \in Unit : dropin[u] = None
    /\ mode = "first-install" /\ pc \in AfterService =>
         UnitsDisabled /\ \A u \in Unit : run[u] = "stopped"
    /\ pc \in AfterTunnel => tunnelUnit = None /\ tunnelDropin = None
    /\ pc \in AfterGuards => \A u \in Unit : guard[u] = None
    /\ pc \in {"code", "undone"} => active = None

\* While a rollback is to be resumed, no other release gets into its links.
OpenInv ==
  \A r \in Release :
    receipt[r].rollback = "open" /\ r \in {active, dropin[Main]} => active = r /\ OwnOrNone(r)

\* What a complete rollback leaves.
CleanInv ==
  \A r \in Release : receipt[r].rollback = "complete" =>
    /\ r \notin auth \cup boot
    /\ \A u \in Unit : dropin[u] # r /\ guard[u] # r
    /\ active # r /\ tunnelUnit # r /\ tunnelDropin # r
    /\ mode = "first-install" => \A u \in Unit : run[u] # r

\* Only the linked release has authority.
AuthInv == \A r \in auth : dropin[Main] = r

\* A first install enables its units last, and disables them before anything else
\* they need is taken away.
BootInv ==
  mode = "first-install" =>
    /\ Main \in enabled => guard[Main] # None
    /\ UnitsDisabled \/ dropin[Main] # None
         \/ (active # None /\ receipt[active].rollback = "open")
    /\ \A u \in enabled \cap Unit : dropin[Main] # None => dropin[u] = dropin[Main]
    /\ UnitsDisabled \/ dropin[Main] = None \/ dropin[Main] \in boot
         \/ (receipt[dropin[Main]].rollback = "open" /\ dropin[Main] \notin auth)

\* A release that was cut over, and not since rolled back, is in place.
PerformedInv ==
  \A r \in Release : receipt[r].performed /\ receipt[r].rollback = "none" =>
    /\ dropin[Main] = r /\ r \in auth
    /\ mode = "first-install" => r \in boot /\ Unit \subseteq enabled

\* A release whose cutover was never begun has no worker.
UntriedInv ==
  \A r \in Release : receipt[r].cutover = "none" =>
    /\ r \notin auth \cup boot
    /\ active # r /\ \A u \in Unit : dropin[u] # r
    /\ mode = "first-install" => \A u \in Unit : run[u] # r

ProfileInv ==
  /\ KindInv /\ StagedInv /\ StageInv /\ CutoverInv /\ RelinkInv /\ RollbackInv /\ OpenInv
  /\ CleanInv /\ AuthInv /\ BootInv /\ AlwaysAService /\ PerformedInv /\ UntriedInv

\* What a write of a receipt makes of the journal of r.
Journal(r, performed, cutover, rollback) ==
  /\ \A x \in Release \ {r} : receipt'[x] = receipt[x]
  /\ receipt'[r].state = receipt[r].state /\ receipt'[r].performed = performed
  /\ receipt'[r].cutover = cutover /\ receipt'[r].rollback = rollback

\* The receipt of r may be written anew: nothing of it is in use.
Replaceable(r) ==
  /\ r \notin auth \cup boot
  /\ active # r /\ \A u \in Unit : dropin[u] # r
  /\ mode = "first-install" => \A u \in Unit : run[u] # r

\* Names that are apart, and the release an operation is about.
LEMMA ProfileBasics ==
  /\ None \notin Release /\ None \in Link /\ Main \in Unit
  /\ "base" \notin Release /\ "stopped" \notin Release
  /\ \A r \in Release : r \in Link
  /\ SecureTypeOK /\ pc # "idle" => rel \in Release
BY ProfileAssumption DEF Link, Unit, SecureTypeOK

\* A request is accepted only where the operation's first step finds what it needs.
LEMMA RequestKeepsProfile ==
  ASSUME SecureTypeOK, ProfileInv, UNCHANGED mode, NEW r \in Release, Request(r)
  PROVE  ProfileInv'
<1>a. ~Staged(r) \/ receipt[r].rollback = "complete" => Replaceable(r)
  BY DEF ProfileInv, StagedInv, CleanInv, UntriedInv, NoReceipt, Replaceable
<1>b. CutoverAccepted(r) =>
        /\ receipt[r].rollback = "none"
        /\ (\A u \in Unit : dropin[u] = r) \/ (mode = "first-install" => UnitsDisabled)
  <2>1. SUFFICES ASSUME CutoverAccepted(r)
                 PROVE  /\ receipt[r].rollback = "none"
                        /\ (\A u \in Unit : dropin[u] = r) \/ (mode = "first-install" => UnitsDisabled)
    OBVIOUS
  <2>2. /\ receipt[r].rollback # "open" /\ tunnelUnit = r
        /\ (\A u \in Unit : dropin[u] = r) \/ dropin[Main] = None
    BY <2>1, ProfileBasics DEF CutoverAccepted, LinksMatch
  <2>3. receipt[r].rollback = "none"
    BY <2>2 DEF ProfileInv, CleanInv, SecureTypeOK, Receipt
  <2>4. active # None => receipt[active].rollback # "open"
    BY <2>2, ProfileBasics DEF ProfileInv, OpenInv, OwnOrNone, SecureTypeOK, Link
  <2> QED
    BY <2>2, <2>3, <2>4 DEF ProfileInv, BootInv
<1>c. RollbackAccepted(r) /\ r \in {active, dropin[Main]} => active = r
  BY ProfileBasics DEF RollbackAccepted, ProfileInv, OpenInv, CleanInv
<1>1. Stage(r) =>
       /\ pc = "idle" /\ pc' = "stage-unit" /\ rel' = r
       /\ (dropin[Main] = None /\ active = None) \/ (dropin[Main] = r /\ active = r)
       /\ \/ receipt' = receipt /\ Staged(r) /\ (receipt[r].rollback = "complete" => dropin[Main] # None)
          \/ /\ Replaceable(r)
             /\ \A x \in Release \ {r} : receipt'[x] = receipt[x]
             /\ receipt'[r].state = "staged" /\ ~receipt'[r].performed
             /\ receipt'[r].cutover = "none" /\ receipt'[r].rollback = "none"
       /\ UNCHANGED <<dropin, guard, tunnelUnit, tunnelDropin, active, auth, boot, override, run,
                      enabled>>
  BY ProfileBasics, <1>a DEF Stage, StageAccepted, Begin, StagedReceipt, FreshReceipt, NoReceipt,
     SecureTypeOK, Receipt, Staged, links, marks, prior, services
<1>2. Prepare(r) =>
       /\ pc = "idle" /\ pc' = "prepare-tunnel" /\ rel' = r /\ Staged(r)
       /\ UNCHANGED <<receipt, dropin, guard, tunnelUnit, tunnelDropin, active, auth, boot,
                      override, run, enabled>>
  BY ProfileBasics DEF Prepare, PrepareAccepted, Begin, links, marks, prior, services
<1>3. Cutover(r) =>
       /\ pc = "idle" /\ pc' = "legacy" /\ rel' = r /\ Staged(r)
       /\ receipt[r].rollback = "none" /\ tunnelUnit = r /\ tunnelDropin = r
       /\ dropin[Main] \in {r, None} /\ (mode = "first-install" => guard[Main] = r)
       /\ (\A u \in Unit : dropin[u] = r) \/ (mode = "first-install" => UnitsDisabled)
       /\ Journal(r, receipt[r].performed, "open", receipt[r].rollback)
       /\ UNCHANGED <<dropin, guard, tunnelUnit, tunnelDropin, active, auth, boot, override, run,
                      enabled>>
  BY ProfileBasics, <1>b DEF Journal, Staged, SecureTypeOK, Receipt, Cutover, CutoverAccepted,
     LinksMatch, Begin, links, marks, prior, services
<1>4. CutoverAbandoned(r) =>
       /\ pc = "idle" /\ pc' = "fail-pointer" /\ rel' = r /\ Staged(r)
       /\ receipt[r].rollback = "none" /\ tunnelUnit = r /\ tunnelDropin = r
       /\ dropin[Main] \in {r, None} /\ (mode = "first-install" => guard[Main] = r)
       /\ (\A u \in Unit : dropin[u] = r) \/ (mode = "first-install" => UnitsDisabled)
       /\ receipt[r].cutover = "open"
       /\ UNCHANGED <<receipt, dropin, guard, tunnelUnit, tunnelDropin, active, auth, boot,
                      override, run, enabled>>
  BY ProfileBasics, <1>b DEF CutoverAbandoned, CutoverAccepted, LinksMatch, Begin, links, marks,
     prior, services
<1>5. Rollback(r) =>
       /\ pc = "idle" /\ pc' = "restore-override" /\ rel' = r /\ Staged(r) /\ OwnOrNone(r)
       /\ r \in {active, dropin[Main]} => active = r
       /\ Journal(r, receipt[r].performed, receipt[r].cutover, "open")
       /\ UNCHANGED <<dropin, guard, tunnelUnit, tunnelDropin, active, auth, boot, override, run,
                      enabled>>
  BY ProfileBasics, <1>c DEF Journal, Staged, SecureTypeOK, Receipt, Rollback, RollbackAccepted,
     OwnOrNone, KindInv, ProfileInv, Begin, links, marks, prior, services
<1>6. Retire(r) =>
       \/ Rollback(r)
       \/ /\ pc = "idle" /\ pc' = "relink" /\ rel' = r /\ dropin[Main] = r /\ active = r
          /\ UNCHANGED <<receipt, dropin, guard, tunnelUnit, tunnelDropin, active, auth, boot,
                         override, run, enabled>>
  BY ProfileBasics DEF Retire, RetireAccepted, Begin, links, marks, prior, services
<1>7. ASSUME Stage(r) PROVE ProfileInv'
  <2>1. (KindInv /\ StagedInv /\ StageInv)'
    BY <1>1, <1>7, ProfileBasics
       DEF ProfileInv, KindInv, StagedInv, StageInv, CleanInv, Staged, StageStep, Journal,
           SecureTypeOK, Link
  <2>2. (CutoverInv /\ RelinkInv /\ RollbackInv)'
    BY <1>1, <1>7, ProfileBasics
       DEF CutoverInv, RelinkInv, RollbackInv, UnitsDisabled, OwnOrNone, Journal, Cutting, Linked,
           Proven, AfterGuards, AfterTunnel, AfterService, AfterUnlink, AfterRevoke,
           CutoverTry, CutoverEnd, RollbackStep
  <2>3. (OpenInv /\ CleanInv)'
    BY <1>1, <1>7, ProfileBasics DEF ProfileInv, OpenInv, CleanInv, OwnOrNone, Journal, Replaceable
  <2>4. (AuthInv /\ BootInv /\ AlwaysAService)'
    BY <1>1, <1>7, ProfileBasics
       DEF ProfileInv, AuthInv, BootInv, AlwaysAService, UnitsDisabled, Journal, Replaceable,
           SecureTypeOK, Link
  <2>5. (PerformedInv /\ UntriedInv)'
    BY <1>1, <1>7, ProfileBasics
       DEF ProfileInv, PerformedInv, UntriedInv, Journal, Replaceable
  <2> QED
    BY <2>1, <2>2, <2>3, <2>4, <2>5 DEF ProfileInv
<1>9. ASSUME Cutover(r) PROVE ProfileInv'
  <2>1. (KindInv /\ StagedInv /\ StageInv)'
    BY <1>3, <1>9, ProfileBasics
       DEF ProfileInv, KindInv, StagedInv, StageInv, CleanInv, Staged, StageStep, Journal,
           SecureTypeOK, Link
  <2>2. (CutoverInv /\ RelinkInv /\ RollbackInv)'
    BY <1>3, <1>9, ProfileBasics
       DEF CutoverInv, RelinkInv, RollbackInv, UnitsDisabled, OwnOrNone, Journal, Cutting, Linked,
           Proven, AfterGuards, AfterTunnel, AfterService, AfterUnlink, AfterRevoke,
           CutoverTry, CutoverEnd, RollbackStep
  <2>3. (OpenInv /\ CleanInv)'
    BY <1>3, <1>9, ProfileBasics DEF ProfileInv, OpenInv, CleanInv, OwnOrNone, Journal, Replaceable
  <2>4. (AuthInv /\ BootInv /\ AlwaysAService)'
    BY <1>3, <1>9, ProfileBasics
       DEF ProfileInv, AuthInv, BootInv, AlwaysAService, UnitsDisabled, Journal, Replaceable,
           SecureTypeOK, Link
  <2>5. (PerformedInv /\ UntriedInv)'
    BY <1>3, <1>9, ProfileBasics
       DEF ProfileInv, PerformedInv, UntriedInv, Journal, Replaceable
  <2> QED
    BY <2>1, <2>2, <2>3, <2>4, <2>5 DEF ProfileInv
<1>11. ASSUME Rollback(r) PROVE ProfileInv'
  <2>1. (KindInv /\ StagedInv /\ StageInv)'
    BY <1>5, <1>11, ProfileBasics
       DEF ProfileInv, KindInv, StagedInv, StageInv, CleanInv, Staged, StageStep, Journal,
           SecureTypeOK, Link
  <2>2. (CutoverInv /\ RelinkInv /\ RollbackInv)'
    BY <1>5, <1>11, ProfileBasics
       DEF CutoverInv, RelinkInv, RollbackInv, UnitsDisabled, OwnOrNone, Journal, Cutting, Linked,
           Proven, AfterGuards, AfterTunnel, AfterService, AfterUnlink, AfterRevoke,
           CutoverTry, CutoverEnd, RollbackStep
  <2>3. (OpenInv /\ CleanInv)'
    BY <1>5, <1>11, ProfileBasics DEF ProfileInv, OpenInv, CleanInv, OwnOrNone, Journal, Replaceable
  <2>4. (AuthInv /\ BootInv /\ AlwaysAService)'
    BY <1>5, <1>11, ProfileBasics
       DEF ProfileInv, AuthInv, BootInv, AlwaysAService, UnitsDisabled, Journal, Replaceable,
           SecureTypeOK, Link
  <2>5. (PerformedInv /\ UntriedInv)'
    BY <1>5, <1>11, ProfileBasics
       DEF ProfileInv, PerformedInv, UntriedInv, Journal, Replaceable
  <2> QED
    BY <2>1, <2>2, <2>3, <2>4, <2>5 DEF ProfileInv
<1> USE ProfileBasics
        DEF ProfileInv, KindInv, StagedInv, StageInv, CutoverInv, RelinkInv, RollbackInv, OpenInv,
            CleanInv, AuthInv, BootInv, AlwaysAService, PerformedInv, UntriedInv,
            OwnOrNone, UnitsDisabled, Journal, Replaceable, Staged, Cutting, Linked, Proven,
            AfterGuards, AfterTunnel, AfterService, AfterUnlink, AfterRevoke,
            StageStep, CutoverTry, CutoverEnd, RollbackStep, SecureTypeOK
<1>8. Prepare(r) => ProfileInv'
  BY <1>2
<1>10. CutoverAbandoned(r) => ProfileInv'
  BY <1>4
<1>12. Retire(r) => ProfileInv'
  BY <1>6, <1>11
<1> QED
  BY <1>7, <1>8, <1>9, <1>10, <1>11, <1>12 DEF Request

\* The writes of a staging and of a preparation keep the invariant,
LEMMA StagingKeepsProfile ==
  ASSUME SecureTypeOK, ProfileInv, UNCHANGED mode, StageWrite \/ PrepareTunnel \/ PrepareReceipt
  PROVE  ProfileInv'
<1>1. StageWrite /\ StageUnit =>
       /\ pc = "stage-unit" /\ pc' = "stage-profile" /\ tunnelUnit' = rel
       /\ UNCHANGED <<rel, receipt, dropin, guard, tunnelDropin, active, auth, boot, override,
                      run, enabled>>
  BY ProfileBasics DEF StageWrite, marks, prior, services, StageUnit, Goto
<1>2. StageWrite /\ StageProfile =>
       /\ pc = "stage-profile" /\ tunnelDropin' = rel
       /\ pc' = IF mode = "first-install" THEN "stage-guards" ELSE "stage-pointer"
       /\ UNCHANGED <<rel, receipt, dropin, guard, tunnelUnit, active, auth, boot, override, run,
                      enabled>>
  BY ProfileBasics DEF StageWrite, marks, prior, services, StageProfile, Goto
<1>3. StageWrite /\ StageGuards =>
       /\ pc = "stage-guards"
       /\ \/ pc' = "stage-guards" /\ \E u \in Unit : guard' = [guard EXCEPT ![u] = rel]
          \/ pc' = "stage-pointer" /\ guard' = guard
       /\ UNCHANGED <<rel, receipt, dropin, tunnelUnit, tunnelDropin, active, auth, boot,
                      override, run, enabled>>
  BY ProfileBasics DEF StageWrite, marks, prior, services, StageGuards, Goto, FirstOf, Unit
<1>4. StageWrite /\ StagePointer =>
       /\ pc = "stage-pointer" /\ pc' = "idle" /\ rel' = None
       /\ UNCHANGED <<receipt, dropin, guard, tunnelUnit, tunnelDropin, active, auth, boot,
                      override, run, enabled>>
  BY ProfileBasics DEF StageWrite, marks, prior, services, StagePointer, Finish
<1>5. PrepareTunnel =>
       /\ pc = "prepare-tunnel" /\ pc' = "prepare-receipt"
       /\ UNCHANGED <<rel, receipt, dropin, guard, tunnelUnit, tunnelDropin, active, auth, boot,
                      override, run, enabled>>
  BY ProfileBasics DEF PrepareTunnel, Goto, links, marks, prior
<1>6. PrepareReceipt =>
       /\ pc = "prepare-receipt" /\ pc' = "idle" /\ rel' = None /\ Staged(rel)
       /\ Journal(rel, receipt[rel].performed, receipt[rel].cutover, receipt[rel].rollback)
       /\ UNCHANGED <<dropin, guard, tunnelUnit, tunnelDropin, active, auth, boot, override, run,
                      enabled>>
  BY ProfileBasics DEF Journal, Staged, ProfileInv, StagedInv, SecureTypeOK, Receipt,
     PrepareReceipt, Finish, links, marks, prior, services
<1>12. ASSUME PrepareReceipt PROVE ProfileInv'
  <2>1. (KindInv /\ StagedInv /\ StageInv)'
    BY <1>6, <1>12, ProfileBasics
       DEF ProfileInv, KindInv, StagedInv, StageInv, CleanInv, Staged, StageStep, Journal,
           SecureTypeOK, Link
  <2>2. (CutoverInv /\ RelinkInv /\ RollbackInv)'
    BY <1>6, <1>12, ProfileBasics
       DEF CutoverInv, RelinkInv, RollbackInv, UnitsDisabled, OwnOrNone, Journal, Cutting, Linked,
           Proven, AfterGuards, AfterTunnel, AfterService, AfterUnlink, AfterRevoke,
           CutoverTry, CutoverEnd, RollbackStep
  <2>3. (OpenInv /\ CleanInv)'
    BY <1>6, <1>12, ProfileBasics DEF ProfileInv, OpenInv, CleanInv, OwnOrNone, Journal, Replaceable
  <2>4. (AuthInv /\ BootInv /\ AlwaysAService)'
    BY <1>6, <1>12, ProfileBasics
       DEF ProfileInv, AuthInv, BootInv, AlwaysAService, UnitsDisabled, Journal, Replaceable,
           SecureTypeOK, Link
  <2>5. (PerformedInv /\ UntriedInv)'
    BY <1>6, <1>12, ProfileBasics
       DEF ProfileInv, PerformedInv, UntriedInv, Journal, Replaceable
  <2> QED
    BY <2>1, <2>2, <2>3, <2>4, <2>5 DEF ProfileInv
<1> USE ProfileBasics
        DEF ProfileInv, KindInv, StagedInv, StageInv, CutoverInv, RelinkInv, RollbackInv, OpenInv,
            CleanInv, AuthInv, BootInv, AlwaysAService, PerformedInv, UntriedInv,
            OwnOrNone, UnitsDisabled, Journal, Replaceable, Staged, Cutting, Linked, Proven,
            AfterGuards, AfterTunnel, AfterService, AfterUnlink, AfterRevoke,
            StageStep, CutoverTry, CutoverEnd, RollbackStep, SecureTypeOK
<1>7. StageWrite /\ StageUnit => ProfileInv'
  BY <1>1
<1>8. StageWrite /\ StageProfile => ProfileInv'
  BY <1>2
<1>9. StageWrite /\ StageGuards => ProfileInv'
  BY <1>3
<1>10. StageWrite /\ StagePointer => ProfileInv'
  BY <1>4
<1>11. PrepareTunnel => ProfileInv'
  BY <1>5
<1> QED
  BY <1>7, <1>8, <1>9, <1>10, <1>11, <1>12 DEF StageWrite

\* those of a cutover do, in its order: link, authorize, prove, enable, publish;
LEMMA CutoverKeepsProfile ==
  ASSUME SecureTypeOK, ProfileInv, UNCHANGED mode, NEW works, CutoverWrite(works)
  PROVE  ProfileInv'
<1>1. DisableLegacy =>
       /\ pc = "legacy" /\ pc' \in {"legacy", "link"}
       /\ UNCHANGED <<rel, receipt, dropin, guard, tunnelUnit, tunnelDropin, active, auth, boot,
                      override, run, enabled>>
  BY ProfileBasics DEF DisableLegacy, Goto, links, marks, services
<1>2. LinkWorkers =>
       /\ pc = "link" /\ pc' \in {"link", "authorize"}
       /\ dropin'[Main] = rel /\ \A u \in Unit : dropin'[u] \in {dropin[u], rel}
       /\ pc' = "authorize" => \A u \in Unit : dropin'[u] = rel
       /\ UNCHANGED <<rel, receipt, guard, tunnelUnit, tunnelDropin, active, auth, boot,
                      override, run, enabled>>
  BY ProfileBasics DEF SecureTypeOK, LinkWorkers, Goto, marks, prior, services, FirstOf, Unit
<1>3. Authorize =>
       /\ pc = "authorize" /\ pc' = "unmask" /\ auth' = auth \cup {rel}
       /\ UNCHANGED <<rel, receipt, dropin, guard, tunnelUnit, tunnelDropin, active, boot,
                      override, run, enabled>>
  BY ProfileBasics DEF Authorize, Goto, links, prior, services
<1>4. Unmask =>
       /\ pc = "unmask" /\ pc' = "restart" /\ override' = FALSE
       /\ UNCHANGED <<rel, receipt, dropin, guard, tunnelUnit, tunnelDropin, active, auth, boot,
                      run, enabled>>
  BY ProfileBasics DEF Unmask, Goto, links, marks, services
<1>5. RestartWorkers(works) =>
       /\ pc = "restart"
       /\ \/ pc' = "restart" /\ \E u \in Unit : run' = [run EXCEPT ![u] = rel]
          \/ pc' = "probe" /\ run' = run
       /\ UNCHANGED <<rel, receipt, dropin, guard, tunnelUnit, tunnelDropin, active, auth, boot,
                      override, enabled>>
  BY ProfileBasics DEF RestartWorkers, Goto, FirstOf, Unit, links, marks, prior
<1>6. Probe =>
       /\ pc = "probe" /\ pc' = IF mode = "first-install" THEN "boot" ELSE "publish"
       /\ UNCHANGED <<rel, receipt, dropin, guard, tunnelUnit, tunnelDropin, active, auth, boot,
                      override, run, enabled>>
  BY ProfileBasics DEF Probe, Goto, links, marks, prior, services
<1>7. AuthorizeBoot =>
       /\ pc = "boot" /\ pc' = "enable" /\ boot' = boot \cup {rel}
       /\ UNCHANGED <<rel, receipt, dropin, guard, tunnelUnit, tunnelDropin, active, auth,
                      override, run, enabled>>
  BY ProfileBasics DEF AuthorizeBoot, Goto, links, prior, services
<1>8. EnableUnits =>
       /\ pc = "enable"
       /\ \/ pc' = "enable" /\ \E u \in Unit \cup {"tunnel"} : enabled' = enabled \cup {u}
          \/ pc' = "publish" /\ enabled' = enabled /\ Unit \subseteq enabled
       /\ UNCHANGED <<rel, receipt, dropin, guard, tunnelUnit, tunnelDropin, active, auth, boot,
                      override, run>>
  BY ProfileBasics DEF EnableUnits, Goto, FirstOf, Unit, links, marks, prior
<1>9. Publish =>
       /\ pc = "publish" /\ pc' = "commit" /\ active' = rel
       /\ UNCHANGED <<rel, receipt, dropin, guard, tunnelUnit, tunnelDropin, auth, boot,
                      override, run, enabled>>
  BY ProfileBasics DEF Publish, Goto, marks, prior, services
<1>10. Commit =>
       /\ pc = "commit" /\ pc' = "idle" /\ rel' = None
       /\ dropin[Main] = rel /\ rel \in auth /\ receipt[rel].rollback = "none"
       /\ mode = "first-install" => rel \in boot /\ Unit \subseteq enabled
       /\ Journal(rel, TRUE, "complete", receipt[rel].rollback)
       /\ UNCHANGED <<dropin, guard, tunnelUnit, tunnelDropin, active, auth, boot, override, run,
                      enabled>>
  BY ProfileBasics DEF ProfileInv, StagedInv, CutoverInv, Cutting, Linked, Proven, CutoverTry,
     CutoverEnd, Journal, Staged, SecureTypeOK, Receipt, Commit, Finish, links, marks, prior,
     services
<1>11. CutoverFails(works) =>
       /\ pc \in CutoverTry /\ pc' = "fail-pointer"
       /\ UNCHANGED <<rel, receipt, dropin, guard, tunnelUnit, tunnelDropin, active, auth, boot,
                      override, run, enabled>>
  BY ProfileBasics DEF CutoverFails, Goto, links, marks, prior, services
<1>12. FailPointer =>
       /\ pc = "fail-pointer" /\ pc' = "fail-receipt" /\ active' = rel
       /\ UNCHANGED <<rel, receipt, dropin, guard, tunnelUnit, tunnelDropin, auth, boot,
                      override, run, enabled>>
  BY ProfileBasics DEF FailPointer, Goto, marks, prior, services
<1>13. FailReceipt =>
       /\ pc = "fail-receipt" /\ pc' = "restore-override" /\ Staged(rel)
       /\ active = rel /\ receipt[rel].rollback = "none" /\ receipt[rel].cutover # "none"
       /\ OwnOrNone(rel)
       /\ Journal(rel, TRUE, receipt[rel].cutover, "open")
       /\ UNCHANGED <<rel, dropin, guard, tunnelUnit, tunnelDropin, active, auth, boot, override,
                      run, enabled>>
  BY ProfileBasics DEF ProfileInv, KindInv, StagedInv, CutoverInv, OwnOrNone, Cutting, Linked,
     Proven, CutoverTry, CutoverEnd, Journal, Staged, SecureTypeOK, Receipt, FailReceipt, Goto,
     links, marks, prior, services
<1>23. ASSUME Commit PROVE ProfileInv'
  <2>1. (KindInv /\ StagedInv /\ StageInv)'
    BY <1>10, <1>23, ProfileBasics
       DEF ProfileInv, KindInv, StagedInv, StageInv, CleanInv, Staged, StageStep, Journal,
           SecureTypeOK, Link
  <2>2. (CutoverInv /\ RelinkInv /\ RollbackInv)'
    BY <1>10, <1>23, ProfileBasics
       DEF CutoverInv, RelinkInv, RollbackInv, UnitsDisabled, OwnOrNone, Journal, Cutting, Linked,
           Proven, AfterGuards, AfterTunnel, AfterService, AfterUnlink, AfterRevoke,
           CutoverTry, CutoverEnd, RollbackStep
  <2>3. (OpenInv /\ CleanInv)'
    BY <1>10, <1>23, ProfileBasics DEF ProfileInv, OpenInv, CleanInv, OwnOrNone, Journal, Replaceable
  <2>4. (AuthInv /\ BootInv /\ AlwaysAService)'
    BY <1>10, <1>23, ProfileBasics
       DEF ProfileInv, AuthInv, BootInv, AlwaysAService, UnitsDisabled, Journal, Replaceable,
           SecureTypeOK, Link
  <2>5. (PerformedInv /\ UntriedInv)'
    BY <1>10, <1>23, ProfileBasics
       DEF ProfileInv, PerformedInv, UntriedInv, Journal, Replaceable
  <2> QED
    BY <2>1, <2>2, <2>3, <2>4, <2>5 DEF ProfileInv
<1>26. ASSUME FailReceipt PROVE ProfileInv'
  <2>1. (KindInv /\ StagedInv /\ StageInv)'
    BY <1>13, <1>26, ProfileBasics
       DEF ProfileInv, KindInv, StagedInv, StageInv, CleanInv, Staged, StageStep, Journal,
           SecureTypeOK, Link
  <2>2. (CutoverInv /\ RelinkInv /\ RollbackInv)'
    BY <1>13, <1>26, ProfileBasics
       DEF CutoverInv, RelinkInv, RollbackInv, UnitsDisabled, OwnOrNone, Journal, Cutting, Linked,
           Proven, AfterGuards, AfterTunnel, AfterService, AfterUnlink, AfterRevoke,
           CutoverTry, CutoverEnd, RollbackStep
  <2>3. (OpenInv /\ CleanInv)'
    BY <1>13, <1>26, ProfileBasics DEF ProfileInv, OpenInv, CleanInv, OwnOrNone, Journal, Replaceable
  <2>4. (AuthInv /\ BootInv /\ AlwaysAService)'
    BY <1>13, <1>26, ProfileBasics
       DEF ProfileInv, AuthInv, BootInv, AlwaysAService, UnitsDisabled, Journal, Replaceable,
           SecureTypeOK, Link
  <2>5. (PerformedInv /\ UntriedInv)'
    BY <1>13, <1>26, ProfileBasics
       DEF ProfileInv, PerformedInv, UntriedInv, Journal, Replaceable
  <2> QED
    BY <2>1, <2>2, <2>3, <2>4, <2>5 DEF ProfileInv
<1> USE ProfileBasics
        DEF ProfileInv, KindInv, StagedInv, StageInv, CutoverInv, RelinkInv, RollbackInv, OpenInv,
            CleanInv, AuthInv, BootInv, AlwaysAService, PerformedInv, UntriedInv,
            OwnOrNone, UnitsDisabled, Journal, Replaceable, Staged, Cutting, Linked, Proven,
            AfterGuards, AfterTunnel, AfterService, AfterUnlink, AfterRevoke,
            StageStep, CutoverTry, CutoverEnd, RollbackStep, SecureTypeOK
<1>14. DisableLegacy => ProfileInv'
  BY <1>1
<1>15. LinkWorkers => ProfileInv'
  BY <1>2
<1>16. Authorize => ProfileInv'
  BY <1>3
<1>17. Unmask => ProfileInv'
  BY <1>4
<1>18. RestartWorkers(works) => ProfileInv'
  BY <1>5
<1>19. Probe => ProfileInv'
  BY <1>6
<1>20. AuthorizeBoot => ProfileInv'
  BY <1>7
<1>21. EnableUnits => ProfileInv'
  BY <1>8
<1>22. Publish => ProfileInv'
  BY <1>9
<1>24. CutoverFails(works) => ProfileInv'
  BY <1>11
<1>25. FailPointer => ProfileInv'
  BY <1>12
<1> QED
  BY <1>14, <1>15, <1>16, <1>17, <1>18, <1>19, <1>20, <1>21, <1>22, <1>23, <1>24, <1>25, <1>26
     DEF CutoverWrite

\* those of a rollback, in the reverse order;
LEMMA RollbackKeepsProfile ==
  ASSUME SecureTypeOK, ProfileInv, UNCHANGED mode, RollbackWrite
  PROVE  ProfileInv'
<1>1. RestoreOverride =>
       /\ pc = "restore-override" /\ pc' = "revoke"
       /\ mode = "migration" => override'
       /\ mode = "first-install" => override' = override
       /\ UNCHANGED <<rel, receipt, dropin, guard, tunnelUnit, tunnelDropin, active, auth, boot,
                      run, enabled>>
  BY ProfileBasics DEF RestoreOverride, Goto, links, marks, services, Journal, SecureTypeOK
<1>2. Revoke =>
       /\ pc = "revoke" /\ pc' = "revoke-boot" /\ auth' = auth \ {rel}
       /\ UNCHANGED <<rel, receipt, dropin, guard, tunnelUnit, tunnelDropin, active, boot,
                      override, run, enabled>>
  BY ProfileBasics DEF Revoke, Goto, links, prior, services
<1>3. RevokeBoot =>
       /\ pc = "revoke-boot" /\ pc' = "unlink" /\ boot' = boot \ {rel}
       /\ UNCHANGED <<rel, receipt, dropin, guard, tunnelUnit, tunnelDropin, active, auth,
                      override, run, enabled>>
  BY ProfileBasics DEF RevokeBoot, Goto, links, prior, services
<1>4. UnlinkWorkers =>
       /\ pc = "unlink" /\ pc' \in {"unlink", "restore-legacy"}
       /\ dropin'[Main] = None /\ \A u \in Unit : dropin'[u] \in {dropin[u], None}
       /\ pc' = "restore-legacy" => \A u \in Unit : dropin'[u] = None
       /\ UNCHANGED <<rel, receipt, guard, tunnelUnit, tunnelDropin, active, auth, boot,
                      override, run, enabled>>
  BY ProfileBasics DEF SecureTypeOK, UnlinkWorkers, Goto, marks, prior, services, FirstOf, Unit
<1>5. RestoreLegacy =>
       /\ pc = "restore-legacy" /\ pc' \in {"restore-legacy", "service"}
       /\ UNCHANGED <<rel, receipt, dropin, guard, tunnelUnit, tunnelDropin, active, auth, boot,
                      override, run, enabled>>
  BY ProfileBasics DEF RestoreLegacy, Goto, links, marks, services
<1>6. RestoreService =>
       /\ pc = "service" /\ pc' \in {"service", "stop-tunnel"}
       /\ \A u \in Unit : run'[u] \in {run[u], "base", "stopped"}
       /\ enabled' \subseteq enabled
       /\ mode = "migration" => enabled' = enabled
       /\ mode = "first-install" /\ pc' = "stop-tunnel" =>
            \A u \in Unit : run'[u] = "stopped" /\ u \notin enabled'
       /\ UNCHANGED <<rel, receipt, dropin, guard, tunnelUnit, tunnelDropin, active, auth, boot,
                      override>>
  BY ProfileBasics DEF RestoreService, Goto, FirstOf, Unit, Inactive, Disabled, links, marks,
     prior, Journal, SecureTypeOK
<1>7. StopTunnel =>
       /\ pc = "stop-tunnel"
       /\ pc' = IF mode = "first-install" THEN "disable-tunnel" ELSE "unlink-tunnel"
       /\ UNCHANGED <<rel, receipt, dropin, guard, tunnelUnit, tunnelDropin, active, auth, boot,
                      override, run, enabled>>
  BY ProfileBasics DEF StopTunnel, Goto, links, marks, prior
<1>8. DisableTunnel =>
       /\ pc = "disable-tunnel" /\ pc' = "unlink-tunnel" /\ enabled' = enabled \ {"tunnel"}
       /\ UNCHANGED <<rel, receipt, dropin, guard, tunnelUnit, tunnelDropin, active, auth, boot,
                      override, run>>
  BY ProfileBasics DEF DisableTunnel, Goto, links, marks, prior
<1>9. UnlinkTunnel =>
       /\ pc = "unlink-tunnel"
       /\ \/ pc' = "unlink-tunnel" /\ tunnelDropin' = None /\ tunnelUnit' = tunnelUnit
          \/ /\ pc' = "unlink-guards" /\ tunnelUnit' = None
             /\ tunnelDropin' = tunnelDropin /\ tunnelDropin = None
       /\ UNCHANGED <<rel, receipt, dropin, guard, active, auth, boot, override, run, enabled>>
  BY ProfileBasics DEF UnlinkTunnel, Goto, marks, prior, services
<1>10. UnlinkGuards =>
       /\ pc = "unlink-guards"
       /\ \/ pc' = "unlink-guards" /\ \E u \in Unit : guard' = [guard EXCEPT ![u] = None]
          \/ pc' = "unpublish" /\ guard' = guard /\ \A u \in Unit : guard[u] = None
       /\ UNCHANGED <<rel, receipt, dropin, tunnelUnit, tunnelDropin, active, auth, boot,
                      override, run, enabled>>
  BY ProfileBasics DEF UnlinkGuards, Goto, FirstOf, Unit, marks, prior, services
<1>11. Unpublish =>
       /\ pc = "unpublish" /\ pc' = "code" /\ active' = None
       /\ UNCHANGED <<rel, receipt, dropin, guard, tunnelUnit, tunnelDropin, auth, boot,
                      override, run, enabled>>
  BY ProfileBasics DEF Unpublish, Goto, marks, prior, services
<1>12. Undone =>
       /\ pc = "undone" /\ pc' = "idle" /\ rel' = None
       /\ Journal(rel, FALSE, "undone", "complete")
       /\ UNCHANGED <<dropin, guard, tunnelUnit, tunnelDropin, active, auth, boot, override, run,
                      enabled>>
  BY ProfileBasics DEF Journal, Staged, SecureTypeOK, Receipt, Undone, Finish, links, marks,
     prior, services
<1> USE ProfileBasics
        DEF ProfileInv, KindInv, StagedInv, StageInv, CutoverInv, RelinkInv, RollbackInv, OpenInv,
            CleanInv, AuthInv, BootInv, AlwaysAService, PerformedInv, UntriedInv,
            OwnOrNone, UnitsDisabled, Journal, Replaceable, Staged, Cutting, Linked, Proven,
            AfterGuards, AfterTunnel, AfterService, AfterUnlink, AfterRevoke,
            StageStep, CutoverTry, CutoverEnd, RollbackStep, SecureTypeOK
<1>13. RestoreOverride => ProfileInv'
  BY <1>1
<1>14. Revoke => ProfileInv'
  BY <1>2
<1>15. RevokeBoot => ProfileInv'
  BY <1>3
<1>16. UnlinkWorkers => ProfileInv'
  BY <1>4
<1>17. RestoreLegacy => ProfileInv'
  BY <1>5
<1>18. RestoreService => ProfileInv'
  BY <1>6
<1>19. StopTunnel => ProfileInv'
  BY <1>7
<1>20. DisableTunnel => ProfileInv'
  BY <1>8
<1>21. UnlinkTunnel => ProfileInv'
  BY <1>9
<1>22. UnlinkGuards => ProfileInv'
  BY <1>10
<1>23. Unpublish => ProfileInv'
  BY <1>11
<1>24. Undone => ProfileInv'
  BY <1>12
<1> QED
  BY <1>13, <1>14, <1>15, <1>16, <1>17, <1>18, <1>19, <1>20, <1>21, <1>22, <1>23, <1>24 DEF
     RollbackWrite

\* and those of a retirement.
LEMMA RelinkKeepsProfile ==
  ASSUME SecureTypeOK, ProfileInv, UNCHANGED mode, Relink \/ Unstage
  PROVE  ProfileInv'
<1>1. Relink =>
       /\ pc = "relink"
       /\ \/ pc' = "relink" /\ tunnelDropin' = rel /\ UNCHANGED <<tunnelUnit, guard>>
          \/ pc' = "relink" /\ tunnelUnit' = rel /\ UNCHANGED <<tunnelDropin, guard>>
          \/ /\ pc' = "relink" /\ UNCHANGED <<tunnelUnit, tunnelDropin>>
             /\ \E u \in Unit : guard[u] # None /\ guard' = [guard EXCEPT ![u] = rel]
          \/ /\ pc' = "unstage" /\ tunnelDropin = rel /\ tunnelUnit = rel /\ guard[Main] \in {rel, None}
             /\ UNCHANGED <<tunnelUnit, tunnelDropin, guard>>
       /\ UNCHANGED <<rel, receipt, dropin, active, auth, boot, override, run, enabled>>
  BY ProfileBasics DEF Relink, Goto, FirstOf, Unit, marks, prior, services
<1>2. Unstage =>
       /\ pc = "unstage" /\ pc' = "restore-override" /\ Staged(rel)
       /\ active = rel /\ OwnOrNone(rel)
       /\ Journal(rel, receipt[rel].performed, receipt[rel].cutover, "open")
       /\ UNCHANGED <<rel, dropin, guard, tunnelUnit, tunnelDropin, active, auth, boot, override,
                      run, enabled>>
  BY ProfileBasics DEF ProfileInv, StagedInv, RelinkInv, Journal, Staged, SecureTypeOK, Receipt,
     Unstage, Goto, marks, prior, services
<1>4. ASSUME Unstage PROVE ProfileInv'
  <2>1. (KindInv /\ StagedInv /\ StageInv)'
    BY <1>2, <1>4, ProfileBasics
       DEF ProfileInv, KindInv, StagedInv, StageInv, CleanInv, Staged, StageStep, Journal,
           SecureTypeOK, Link
  <2>2. (CutoverInv /\ RelinkInv /\ RollbackInv)'
    BY <1>2, <1>4, ProfileBasics
       DEF CutoverInv, RelinkInv, RollbackInv, UnitsDisabled, OwnOrNone, Journal, Cutting, Linked,
           Proven, AfterGuards, AfterTunnel, AfterService, AfterUnlink, AfterRevoke,
           CutoverTry, CutoverEnd, RollbackStep
  <2>3. (OpenInv /\ CleanInv)'
    BY <1>2, <1>4, ProfileBasics DEF ProfileInv, OpenInv, CleanInv, OwnOrNone, Journal, Replaceable
  <2>4. (AuthInv /\ BootInv /\ AlwaysAService)'
    BY <1>2, <1>4, ProfileBasics
       DEF ProfileInv, AuthInv, BootInv, AlwaysAService, UnitsDisabled, Journal, Replaceable,
           SecureTypeOK, Link
  <2>5. (PerformedInv /\ UntriedInv)'
    BY <1>2, <1>4, ProfileBasics
       DEF ProfileInv, PerformedInv, UntriedInv, Journal, Replaceable
  <2> QED
    BY <2>1, <2>2, <2>3, <2>4, <2>5 DEF ProfileInv
<1> USE ProfileBasics
        DEF ProfileInv, KindInv, StagedInv, StageInv, CutoverInv, RelinkInv, RollbackInv, OpenInv,
            CleanInv, AuthInv, BootInv, AlwaysAService, PerformedInv, UntriedInv,
            OwnOrNone, UnitsDisabled, Journal, Replaceable, Staged, Cutting, Linked, Proven,
            AfterGuards, AfterTunnel, AfterService, AfterUnlink, AfterRevoke,
            StageStep, CutoverTry, CutoverEnd, RollbackStep, SecureTypeOK
<1>3. Relink => ProfileInv'
  BY <1>1
<1> QED
  BY <1>3, <1>4

\* Steps that leave the files of the profile alone: what runs may change, and the
\* lock may be let go, or taken by an operation that only reads them.
QuietStep ==
  /\ UNCHANGED <<mode, receipt, dropin, guard, tunnelUnit, tunnelDropin, active, auth, boot,
                 override, enabled>>
  /\ \/ UNCHANGED <<pc, rel>>
     \/ pc' = "idle" /\ rel' = None
     \/ pc = "code" /\ pc' = "undone" /\ rel' = rel
     \/ pc' = "activate" /\ rel' \in Release /\ receipt[rel'].state = "staged"
  /\ \A u \in Unit :
       /\ run'[u] \in {run[u], dropin[u], "base", "stopped"}
       /\ run[u] = "stopped" /\ pc' # "idle" => run'[u] = "stopped"

\* What leaves the files alone keeps the invariant too.
LEMMA QuietKeepsProfile ==
  ASSUME SecureTypeOK, ProfileInv, QuietStep
  PROVE  ProfileInv'
<1> USE ProfileBasics
        DEF ProfileInv, KindInv, StagedInv, StageInv, CutoverInv, RelinkInv, RollbackInv, OpenInv,
            CleanInv, AuthInv, BootInv, AlwaysAService, PerformedInv, UntriedInv,
            OwnOrNone, UnitsDisabled, Staged, Cutting, Linked, Proven,
            AfterGuards, AfterTunnel, AfterService, AfterUnlink, AfterRevoke,
            StageStep, CutoverTry, CutoverEnd, RollbackStep, SecureTypeOK, QuietStep
<1>1. CASE UNCHANGED <<pc, rel>>
  BY <1>1
<1>2. CASE pc' = "idle" /\ rel' = None
  BY <1>2
<1>3. CASE pc = "code" /\ pc' = "undone" /\ rel' = rel
  BY <1>3
<1>4. CASE pc' = "activate" /\ rel' \in Release /\ receipt[rel'].state = "staged"
  BY <1>4
<1> QED
  BY <1>1, <1>2, <1>3, <1>4

\* The machine's steps are quiet, or requests and writes of the profile,
LEMMA CodeStepsAreQuiet ==
  ASSUME SecureTypeOK, StagedInv, HostNext
  PROVE  \/ QuietStep
         \/ UNCHANGED mode /\ ((\E r \in Release : Request(r)) \/ Write(Works))
<1> USE DEF QuietStep, links, marks, prior, services
<1>1. CASE HostRequest
  <2>1. ASSUME NEW r \in Release, ProfileRequest(r) PROVE UNCHANGED mode /\ Request(r)
    BY <2>1 DEF ProfileRequest, Request
  <2>2. ASSUME NEW r \in Release, Provision(r) PROVE QuietStep
    BY <2>2 DEF Provision, secureVars
  <2>3. ASSUME NEW r \in Release, Activate(r) PROVE QuietStep
    <3>1. receipt[r].state = "staged"
      BY <2>3, ProfileAssumption DEF Activate, InForce, StagedInv, Staged
    <3> QED
      BY <2>3, <3>1 DEF Activate, Begin
  <2>4. ASSUME NEW c, Install(c) \/ RollbackCode(c) \/ Reconcile(c) PROVE QuietStep
    BY <2>4 DEF Install, RollbackCode, Reconcile, secureVars
  <2> QED
    BY <1>1, <2>1, <2>2, <2>3, <2>4 DEF HostRequest
<1>2. CASE HostStep
  <2>1. ASSUME ProfileStep PROVE UNCHANGED mode /\ Write(Works)
    BY <2>1 DEF ProfileStep
  <2>2. ASSUME CodePointerStep \/ CodePointerRefused PROVE QuietStep
    BY <2>2 DEF CodePointerStep, CodePointerRefused, CodePointer, Goto, Finish
  <2>3. ASSUME Promote PROVE QuietStep
    BY <2>3 DEF Promote, Goto, Finish
  <2>4. ASSUME InstallStep PROVE QuietStep
    BY <2>4 DEF InstallStep, secureVars
  <2>5. ASSUME RetargetUnits PROVE QuietStep
    BY <2>5 DEF RetargetUnits, Restarted
  <2> QED
    BY <1>2, <2>1, <2>2, <2>3, <2>4, <2>5 DEF HostStep
<1>3. CASE HostFault
  <2>1. ASSUME NEW c, Drift(c) PROVE QuietStep
    BY <2>1 DEF Drift
  <2>2. ASSUME HostInterrupted PROVE QuietStep
    BY <2>2 DEF HostInterrupted, Interrupted, Finish
  <2>3. ASSUME ScriptInterrupted PROVE QuietStep
    BY <2>3 DEF ScriptInterrupted
  <2>4. ASSUME HostPowerLoss PROVE QuietStep
    BY <2>4 DEF HostPowerLoss, PowerLoss, Finish, BootConfig
  <2> QED
    BY <1>3, <2>1, <2>2, <2>3, <2>4 DEF HostFault
<1> QED
  BY <1>1, <1>2, <1>3 DEF HostNext

\* and so are those of a deployment.
LEMMA StepOfProfile ==
  ASSUME TypeInv, ProfileInv, [DeploymentNext]_deploymentVars
  PROVE  \/ QuietStep
         \/ UNCHANGED mode /\ ((\E r \in Release : Request(r)) \/ Write(Works))
<1>1. SecureTypeOK /\ StagedInv
  BY DEF TypeInv, DeploymentTypeOK, HostTypeOK, ProfileInv
<1>2. ASSUME HostNext
      PROVE  \/ QuietStep
             \/ UNCHANGED mode /\ ((\E r \in Release : Request(r)) \/ Write(Works))
  BY <1>1, <1>2, CodeStepsAreQuiet
<1>3. ASSUME Taken PROVE QuietStep
  BY <1>3 DEF Taken, Finish, QuietStep, links, marks, prior
<1>4. ASSUME FaultElsewhere PROVE QuietStep
  <2>1. UNCHANGED AllOtherHostVars
    BY <1>4 DEF FaultElsewhere, NoFault, WithFault, hostVars, secureVars, AllOtherHostVars
  <2> QED
    BY <2>1 DEF AllOtherHostVars, QuietStep, links, marks, prior, services
<1> QED
  BY <1>2, <1>3, <1>4, StepOfMachine

\* Every step keeps the invariant of the profile.
LEMMA StepKeepsProfile ==
  ASSUME TypeInv, ProfileInv, [DeploymentNext]_deploymentVars
  PROVE  ProfileInv'
<1>1. SecureTypeOK
  BY DEF TypeInv, DeploymentTypeOK, HostTypeOK
<1>2. CASE QuietStep
  BY <1>1, <1>2, QuietKeepsProfile
<1>3. CASE UNCHANGED mode /\ \E r \in Release : Request(r)
  BY <1>1, <1>3, RequestKeepsProfile
<1>4. CASE UNCHANGED mode /\ Write(Works)
  BY <1>1, <1>4, StagingKeepsProfile, CutoverKeepsProfile, RollbackKeepsProfile, RelinkKeepsProfile
     DEF Write
<1> QED
  BY <1>2, <1>3, <1>4, StepOfProfile

\* Every machine found satisfies it.
LEMMA MachineHasProfile ==
  ASSUME Machine
  PROVE  ProfileInv
<1> USE ProfileAssumption
        DEF KindInv, StagedInv, StageInv, CutoverInv, RelinkInv, RollbackInv, OpenInv,
            CleanInv, AuthInv, BootInv, AlwaysAService, PerformedInv, UntriedInv,
            OwnOrNone, UnitsDisabled, Staged, Cutting, StageStep, CutoverTry, CutoverEnd, RollbackStep,
            Unit
<1>1. mode \in {"migration", "first-install"} /\ pc = "idle" /\ rel = None
  BY DEF Machine
<1>2. CASE CleanMachine
  BY <1>1, <1>2 DEF CleanMachine, ProfileInv, NoReceipt
<1>3. ASSUME NEW r \in Release, NEW f \in Release, NEW displaced, DisplacedBy(r, f, displaced)
      PROVE  ProfileInv
  <2>1. /\ \A u \in Unit : dropin[u] = r /\ run[u] \in {r, "stopped"}
        /\ active = r /\ auth = {r} /\ boot = (IF mode = "migration" THEN {} ELSE {r})
        /\ ~override /\ Unit \subseteq enabled
        /\ receipt[r].state = "staged" /\ receipt[r].performed
        /\ receipt[r].cutover = "complete" /\ receipt[r].rollback = "none"
        /\ \A x \in Release \ {r} : /\ ~receipt[x].performed /\ receipt[x].rollback = "none"
                                    /\ receipt[x] = NoReceipt \/ receipt[x].state = "staged"
        /\ mode = "migration" => \A u \in Unit : guard[u] = None
        /\ mode = "first-install" => guard[Main] # None
    BY <1>3 DEF DisplacedBy, BootConfig, FreshReceipt, NoReceipt
  <2> QED
    BY <1>1, <2>1 DEF ProfileInv
<1> QED
  BY <1>2, <1>3 DEF Machine, DisplacedMachine

-----------------------------------------------------------------------------
(* What the profile's invariant says of the machine                        *)

ProfileFacts == TypeInv /\ ProfileInv

\* It holds throughout.
LEMMA ProfileAlways == DeploymentSpec => []ProfileFacts
<1>1. DeploymentInit => ProfileFacts
  BY InitTypes, MachineHasProfile DEF ProfileFacts, DeploymentInit, HostMachine
<1>2. ProfileFacts /\ [DeploymentNext]_deploymentVars => ProfileFacts'
  BY StepTypes, StepKeepsProfile DEF ProfileFacts
<1> QED
  BY <1>1, <1>2, PTL DEF DeploymentSpec

\* A migrated machine always has a worker configuration: the public override goes
\* only after worker 0's link is there, and comes back before that link goes.
THEOREM ServiceNeverLapses == DeploymentSpec => []AlwaysAService
<1>1. ProfileFacts => AlwaysAService
  BY DEF ProfileFacts, ProfileInv
<1> QED
  BY <1>1, ProfileAlways, PTL

\* A rollback that is recorded as complete has left no marker, link, guard or
\* pointer of its release, whatever interrupted it and however often it was resumed.
THEOREM RollbackLeavesNothing == DeploymentSpec => []UndoneIsClean
<1>1. ProfileFacts => UndoneIsClean
  BY DEF ProfileFacts, ProfileInv, CleanInv, UndoneIsClean
<1> QED
  BY <1>1, ProfileAlways, PTL

\* On a first install, what systemd would start at any moment a power loss may
\* find is a release proven end to end, but for a sibling that has no guard.
THEOREM OnlyProvenBoots == DeploymentSpec => []BootIsProven
<1>1. ASSUME ProfileFacts PROVE BootIsProven
  <2>1. SUFFICES ASSUME mode = "first-install", NEW u \in Unit, Starts(u)
                 PROVE  \/ guard[u] \in boot /\ dropin[u] = guard[u]
                        \/ u \in Sibling /\ guard[u] = None
    BY DEF BootIsProven
  <2>2. CASE guard[u] = None
    BY <1>1, <2>1, <2>2 DEF ProfileFacts, ProfileInv, BootInv, Starts, Unit
  <2>3. CASE guard[u] # None
    <3>1. guard[u] \in auth /\ dropin[Main] = guard[u]
      BY <1>1, <2>1, <2>3 DEF ProfileFacts, ProfileInv, AuthInv, Starts
    <3>2. u \in enabled /\ ~UnitsDisabled /\ dropin[u] = dropin[Main]
      BY <1>1, <2>1, <2>3, <3>1 DEF ProfileFacts, ProfileInv, BootInv, Starts, UnitsDisabled
    <3> QED
      BY <1>1, <2>1, <2>3, <3>1, <3>2 DEF ProfileFacts, ProfileInv, BootInv
  <2> QED
    BY <2>2, <2>3
<1> QED
  BY <1>1, ProfileAlways, PTL

\* Whatever was asked of the machine meanwhile, a rollback that was begun passes
\* every check of rollback_secure_profile when it is run again.
THEOREM RollbackCanResume == DeploymentSpec => []RollbackRetryable
<1>1. ASSUME ProfileFacts PROVE RollbackRetryable
  <2>1. SUFFICES ASSUME NEW r \in Release, receipt[r].rollback = "open", r \in {active, dropin[Main]}
                 PROVE  RollbackAccepted(r)
    BY DEF RollbackRetryable
  <2>2. Staged(r)
    BY <1>1, <2>1 DEF ProfileFacts, ProfileInv, StagedInv, NoReceipt
  <2>3. OwnOrNone(r)
    BY <1>1, <2>1 DEF ProfileFacts, ProfileInv, OpenInv
  <2>4. \A i \in 1 .. 4 : <<dropin[Main], tunnelDropin, tunnelUnit, active>>[i] \in {r, None}
    BY <2>3 DEF OwnOrNone
  <2>5. mode = "first-install" \/ mode = "migration"
    BY <1>1 DEF ProfileFacts, TypeInv, DeploymentTypeOK, HostTypeOK, SecureTypeOK
  <2>6. IF mode = "first-install" THEN guard[Main] \in {r, None} /\ ~override ELSE guard[Main] = None
    BY <1>1, <2>3, <2>5, ProfileBasics DEF ProfileFacts, ProfileInv, KindInv, OwnOrNone
  <2> QED
    BY <2>1, <2>2, <2>4, <2>6 DEF RollbackAccepted
<1> QED
  BY <1>1, ProfileAlways, PTL

-----------------------------------------------------------------------------
(* The code releases                                                       *)

\* TreesInUseStay, and what the holder of the code lock relies on: an installer
\* that will clear a release away has nobody in its way, and a promotion moves to
\* the code of a profile that is in force.
CodeInv ==
  /\ TreesInUseStay
  /\ script.step \in {"remove", "extract", "ready"} => current # script.code
  /\ script.step = "remove" =>
       ~Ready(script.code) /\ \A r \in Release : ~Pins(r, script.code)
  /\ pc = "activate" =>
       /\ script.step \in {"save", "promote"} /\ script.code = codeOf[rel]
       /\ rel \in Release /\ InForce(rel) /\ Ready(codeOf[rel])

\* What the operations on the profile do that the code releases depend on.
LEMMA WritesAndCode ==
  ASSUME SecureTypeOK, Write(Works)
  PROVE  /\ pc # "activate" /\ pc' # "activate"
         /\ \A r \in Release : Staged(r)' => Staged(r)
         /\ \A u \in Unit : run'[u] \in {run[u], "base", "stopped"} \cup Works
<1>0. receipt \in [Release -> Receipt] /\ run \in [Unit -> Release \cup {"base", "stopped"}]
  BY DEF SecureTypeOK
<1> USE <1>0 DEF Staged
<1>1. ASSUME StageWrite \/ PrepareTunnel \/ PrepareReceipt
      PROVE  /\ pc # "activate" /\ pc' # "activate" /\ run' = run
             /\ \A r \in Release : Staged(r)' => Staged(r)
  <2>1. CASE StageWrite
    BY <2>1 DEF StageWrite, StageUnit, StageProfile, StageGuards, StagePointer, Goto, Finish, services
  <2>2. CASE PrepareTunnel
    BY <2>2 DEF PrepareTunnel, Goto
  <2>3. CASE PrepareReceipt
    BY <2>3 DEF PrepareReceipt, Finish, services, Receipt
  <2> QED
    BY <1>1, <2>1, <2>2, <2>3
<1>2. ASSUME CutoverWrite(Works)
      PROVE  /\ pc # "activate" /\ pc' # "activate"
             /\ \A r \in Release : Staged(r)' => Staged(r)
             /\ \A u \in Unit : run'[u] \in {run[u]} \cup Works
  <2>1. ASSUME RestartWorkers(Works)
        PROVE  /\ pc # "activate" /\ pc' # "activate" /\ receipt' = receipt
               /\ \A u \in Unit : run'[u] \in {run[u]} \cup Works
    BY <2>1 DEF RestartWorkers, ComesUp, Goto
  <2>2. ASSUME DisableLegacy \/ LinkWorkers \/ Authorize \/ Unmask \/ Probe \/ AuthorizeBoot
                 \/ EnableUnits \/ Publish \/ CutoverFails(Works) \/ FailPointer
        PROVE  /\ pc # "activate" /\ pc' # "activate" /\ receipt' = receipt /\ run' = run
    BY <2>2 DEF DisableLegacy, LinkWorkers, Authorize, Unmask, Probe, AuthorizeBoot, EnableUnits,
                Publish, CutoverFails, FailPointer, CutoverTry, Goto, services
  <2>3. ASSUME Commit \/ FailReceipt
        PROVE  /\ pc # "activate" /\ pc' # "activate" /\ run' = run
               /\ \A r \in Release : Staged(r)' => Staged(r)
    <3>1. CASE Commit
      BY <3>1 DEF Commit, Finish, services, Receipt
    <3>2. CASE FailReceipt
      BY <3>2 DEF FailReceipt, Goto, services, Receipt
    <3> QED
      BY <2>3, <3>1, <3>2
  <2> QED
    BY <1>2, <2>1, <2>2, <2>3 DEF CutoverWrite
<1>3. ASSUME RollbackWrite
      PROVE  /\ pc # "activate" /\ pc' # "activate"
             /\ \A r \in Release : Staged(r)' => Staged(r)
             /\ \A u \in Unit : run'[u] \in {run[u], "base", "stopped"}
  <2>1. ASSUME RestoreOverride \/ Revoke \/ RevokeBoot \/ UnlinkWorkers \/ RestoreLegacy
                 \/ StopTunnel \/ DisableTunnel \/ UnlinkTunnel \/ UnlinkGuards \/ Unpublish
        PROVE  /\ pc # "activate" /\ pc' # "activate" /\ receipt' = receipt /\ run' = run
    BY <2>1 DEF RestoreOverride, Revoke, RevokeBoot, UnlinkWorkers, RestoreLegacy, StopTunnel,
                DisableTunnel, UnlinkTunnel, UnlinkGuards, Unpublish, Goto, services
  <2>2. ASSUME RestoreService
        PROVE  /\ pc # "activate" /\ pc' # "activate" /\ receipt' = receipt
               /\ \A u \in Unit : run'[u] \in {run[u], "base", "stopped"}
    BY <2>2 DEF RestoreService, Goto
  <2>3. ASSUME Undone
        PROVE  /\ pc # "activate" /\ pc' # "activate" /\ run' = run
               /\ \A r \in Release : Staged(r)' => Staged(r)
    BY <2>3 DEF Undone, Finish, services
  <2> QED
    BY <1>3, <2>1, <2>2, <2>3 DEF RollbackWrite
<1>4. ASSUME Relink \/ Unstage
      PROVE  /\ pc # "activate" /\ pc' # "activate" /\ run' = run
             /\ \A r \in Release : Staged(r)' => Staged(r)
  <2>1. CASE Relink
    BY <2>1 DEF Relink, Goto, services
  <2>2. CASE Unstage
    BY <2>2 DEF Unstage, Goto, services, Receipt
  <2> QED
    BY <1>4, <2>1, <2>2
<1> QED
  BY <1>1, <1>2, <1>3, <1>4 DEF Write

\* A request for a profile promotes nothing, moves no process and stages only what
\* has its tree,
LEMMA RequestsAndCode ==
  ASSUME SecureTypeOK, NEW r \in Release, ProfileRequest(r)
  PROVE  /\ pc = "idle" /\ pc' # "activate" /\ run' = run
         /\ \A x \in Release : Staged(x)' => Staged(x) \/ Ready(codeOf[x])
<1>0. receipt \in [Release -> Receipt]
  BY DEF SecureTypeOK
<1> USE <1>0 DEF Staged, services
<1>1. ASSUME Rollback(r)
      PROVE  /\ pc = "idle" /\ pc' # "activate" /\ run' = run
             /\ \A x \in Release : Staged(x)' => Staged(x)
  BY <1>1 DEF Rollback, Begin, Receipt
<1>2. CASE Ready(codeOf[r]) /\ Stage(r)
  BY <1>2 DEF Stage, Begin
<1>3. CASE Prepare(r) \/ CutoverAbandoned(r)
  BY <1>3 DEF Prepare, CutoverAbandoned, Begin
<1>5. CASE Cutover(r)
  BY <1>5 DEF Cutover, Begin, Receipt
<1>4. CASE Retire(r)
  <2>1. CASE ~Rollback(r)
    BY <1>4, <2>1 DEF Retire, Begin
  <2> QED
    BY <1>1, <2>1
<1> QED
  BY <1>1, <1>2, <1>3, <1>4, <1>5 DEF ProfileRequest

\* so the steps of the profile keep the invariant of the code.
LEMMA ProfileStepsKeepCode ==
  ASSUME TypeInv, ProfileInv, CodeInv, ProfileStep \/ \E r \in Release : ProfileRequest(r)
  PROVE  CodeInv'
<1>1. SecureTypeOK /\ UNCHANGED codeVars
  BY DEF TypeInv, DeploymentTypeOK, HostTypeOK, ProfileStep, ProfileRequest
<1>2. /\ pc' # "activate"
      /\ \A x \in Release : Staged(x)' => Staged(x) \/ Ready(codeOf[x])
      /\ \A u \in Unit : run'[u] \in {run[u], "base", "stopped"} \cup Works
  BY <1>1, WritesAndCode, RequestsAndCode DEF ProfileStep
<1>3. UNCHANGED <<codeOf, tree, current, script>> /\ Works' = Works
  BY <1>1 DEF codeVars, trees, pointers, Works
<1>4. TreesInUseStay'
  BY <1>2, <1>3, ProfileAssumption DEF CodeInv, TreesInUseStay, HasMarker
<1>5. script.step = "remove" => \A r \in Release : ~Pins(r, script.code)'
  BY <1>2, <1>3 DEF CodeInv, Pins, Ready, Staged
<1> QED
  BY <1>2, <1>3, <1>4, <1>5 DEF CodeInv, Ready

\* What the proofs below need of the types.
CodeBasics ==
  /\ codeOf \in [Release -> Code] /\ tree \in [Code -> {"absent", "partial", "ready", "drifted"}]
  /\ current \in Code \cup {None} /\ previous \in Code \cup {None} /\ None \notin Code
  /\ run \in [Unit -> Release \cup {"base", "stopped"}]
  /\ "base" \notin Release /\ "stopped" \notin Release
  /\ script # Unlocked => script.code \in Code

\* What is known of names, and of the holder of the code lock.
LEMMA CodeBasic ==
  ASSUME TypeInv
  PROVE  CodeBasics
BY ProfileAssumption, CodeAssumption, ScriptTypes
   DEF CodeBasics, TypeInv, DeploymentTypeOK, HostTypeOK, SecureTypeOK

\* What installer, promotion and pointer rollback test before they begin is what
\* their steps need,
LEMMA CodeRequestsKeepCode ==
  ASSUME TypeInv, ProfileInv, CodeInv, HostRequest
  PROVE  CodeInv'
<1>0. CodeBasics
  BY CodeBasic
<1>1. ASSUME NEW r \in Release, ProfileRequest(r) PROVE CodeInv'
  BY <1>1, ProfileStepsKeepCode
<1>2. ASSUME NEW r \in Release, Provision(r) PROVE CodeInv'
  BY <1>2 DEF Provision, CodeInv, TreesInUseStay, HasMarker, Works, Ready, Pins, Staged, InForce,
              secureVars, links, marks, prior, services, trees, pointers
<1>3. ASSUME NEW r \in Release, Activate(r) PROVE CodeInv'
  <2>1. /\ pc' = "activate" /\ rel' = r /\ InForce(r) /\ Ready(codeOf[r])
        /\ script'.step \in {"save", "promote"} /\ script'.code = codeOf[r]
        /\ UNCHANGED <<mode, receipt, dropin, tunnelUnit, tunnelDropin, active, auth, boot, override,
                       run, tunnel, codeOf, tree, current>>
    BY <1>3 DEF Activate, Begin, Hold, links, marks, prior, services, trees, pointers
  <2>2. TreesInUseStay'
    BY <2>1 DEF CodeInv, TreesInUseStay, HasMarker, Works
  <2>3. InForce(rel)' /\ Ready(codeOf[rel])'
    BY <2>1 DEF InForce, Ready
  <2> QED
    BY <2>1, <2>2, <2>3 DEF CodeInv
<1>4. ASSUME NEW c \in Code, Install(c) PROVE CodeInv'
  <2>1. /\ pc # "activate" /\ pc' = pc
        /\ UNCHANGED <<receipt, run, codeOf, tree, current>>
        /\ script'.code = c /\ script'.step \in {"extract", "remove"}
        /\ current # c
        /\ script'.step = "remove" => ~Ready(c) /\ \A r \in Release : ~Pins(r, c)
    BY <1>4, <1>0 DEF Install, Hold, CodeLockFree, Unlocked, Clearable, Incomplete, Referenced, Ready,
                CodeInv, TreesInUseStay, HasMarker, CodeBasics,
                secureVars, services, trees, pointers
  <2> QED
    BY <2>1 DEF CodeInv, TreesInUseStay, HasMarker, Works, Ready, Pins, Staged
<1>5. ASSUME NEW c \in Code, RollbackCode(c) PROVE CodeInv'
  <2>1. /\ pc # "activate" /\ pc' = pc /\ script'.step = "retarget"
        /\ UNCHANGED <<run, codeOf, tree>>
        /\ current' = current \/ HasMarker(current')
    BY <1>5, <1>0 DEF RollbackCode, PointerCanGo, Hold, CodeLockFree, Unlocked, CodeInv, HasMarker,
                      secureVars, services, trees
  <2> QED
    BY <2>1 DEF CodeInv, TreesInUseStay, HasMarker, Works
<1>6. ASSUME NEW c \in Code, Reconcile(c) PROVE CodeInv'
  <2>1. /\ pc # "activate" /\ pc' = pc /\ script' = Unlocked
        /\ UNCHANGED <<run, codeOf, current>>
        /\ current # c /\ ~RunsFrom(c)
        /\ tree' = [tree EXCEPT ![c] = "absent"]
    BY <1>6 DEF Reconcile, RemoveTree, CodeLockFree, secureVars, services, pointers
  <2> QED
    BY <2>1, <1>0 DEF CodeInv, TreesInUseStay, HasMarker, Works, RunsFrom, CodeBasics, Unlocked
<1> QED
  BY <1>0, <1>1, <1>2, <1>3, <1>4, <1>5, <1>6 DEF HostRequest, CodeBasics

\* and the two locks keep it so while they run;
LEMMA CodeStepsKeepCode ==
  ASSUME TypeInv, ProfileInv, CodeInv, HostStep
  PROVE  CodeInv'
<1>0. CodeBasics
  BY CodeBasic
<1>1. CASE ProfileStep
  BY <1>1, ProfileStepsKeepCode
<1>2. CASE CodePointerStep
  <2>1. /\ pc' = "undone" /\ script' = script /\ script = Unlocked
        /\ UNCHANGED <<run, codeOf, tree>>
        /\ current' \in {current, None} \/ Ready(current')
    BY <1>2 DEF CodePointerStep, CodePointer, Goto, CodeLockFree, PreviousUsable, Ready, services, trees
  <2> QED
    BY <2>1, <1>0 DEF CodeInv, TreesInUseStay, HasMarker, Works, Ready, CodeBasics, Unlocked
<1>3. CASE CodePointerRefused
  BY <1>3 DEF CodePointerRefused, Finish, CodeLockFree, Unlocked, CodeInv, TreesInUseStay, HasMarker,
              Works, services, codeVars, trees, pointers
<1>4. CASE Promote
  <2>1. /\ pc = "activate" /\ UNCHANGED <<mode, receipt, dropin, tunnelUnit, tunnelDropin, active,
                       auth, boot, override, run, tunnel, codeOf, tree>>
        /\ \/ /\ script'.step = "promote" /\ script'.code = script.code
              /\ UNCHANGED <<current, pc, rel>>
           \/ /\ current' = script.code /\ pc' = "idle" /\ script' = Unlocked
    BY <1>4 DEF Promote, Hold, Goto, Finish, FreeCodeLock, links, marks, prior, services, trees
  <2>2. HasMarker(codeOf[rel]) /\ script.code = codeOf[rel]
    BY <2>1 DEF CodeInv, HasMarker, Ready
  <2>3. TreesInUseStay'
    BY <2>1, <2>2 DEF CodeInv, TreesInUseStay, HasMarker, Works
  <2>4. pc' = "activate" => InForce(rel)' /\ Ready(codeOf[rel])'
    BY <2>1 DEF CodeInv, InForce, Ready
  <2> QED
    BY <2>1, <2>3, <2>4 DEF CodeInv, Unlocked
<1>5. CASE InstallStep
  <2>1. script # Unlocked /\ pc # "activate"
    BY <1>5 DEF InstallStep, Unlocked, CodeInv
  <2>2. /\ pc' = pc /\ UNCHANGED <<receipt, run, codeOf, current>>
    BY <1>5 DEF InstallStep, secureVars, services, pointers
  <2>3. current # script.code /\ script.code \in Code
    BY <1>0, <1>5, <2>1, InstallSteps DEF CodeInv, CodeBasics
  <2>4. CASE script.step = "remove"
    <3>1. tree' = [tree EXCEPT ![script.code] = "absent"] /\ script'.step = "extract"
            /\ script'.code = script.code
      BY <1>5, <2>4, InstallSteps DEF Hold
    <3>2. ASSUME NEW u \in Unit, run[u] \in Release PROVE codeOf[run[u]] # script.code
      BY <2>4, <3>2 DEF CodeInv, Pins, ProfileInv, StagedInv
    <3> QED
      BY <1>0, <2>1, <2>2, <2>3, <3>1, <3>2 DEF CodeInv, TreesInUseStay, HasMarker, Works, CodeBasics
  <2>5. CASE script.step # "remove"
    <3>1. /\ tree' \in {[tree EXCEPT ![script.code] = "partial"], [tree EXCEPT ![script.code] = "ready"]}
          /\ (script'.step = "ready" /\ script'.code = script.code) \/ script' = Unlocked
      BY <1>5, <2>5, InstallSteps DEF Hold, FreeCodeLock
    <3> QED
      BY <1>0, <2>1, <2>2, <2>3, <3>1
         DEF CodeInv, TreesInUseStay, HasMarker, Works, CodeBasics, Unlocked
  <2> QED
    BY <2>4, <2>5
<1>6. CASE RetargetUnits
  <2>1. /\ pc # "activate" /\ pc' = pc /\ script' = Unlocked
        /\ UNCHANGED <<codeOf, tree, current>>
        /\ \A u \in Unit : run'[u] \in {run[u], "base", "stopped"} \cup Works
    BY <1>6 DEF RetargetUnits, Restarted, FreeCodeLock, CodeInv, trees, pointers
  <2> QED
    BY <1>0, <2>1 DEF CodeInv, TreesInUseStay, HasMarker, Works, CodeBasics, Unlocked
<1> QED
  BY <1>1, <1>2, <1>3, <1>4, <1>5, <1>6 DEF HostStep

\* a death or a power loss leaves trees and pointers as they are.
LEMMA FaultsKeepCode ==
  ASSUME TypeInv, ProfileInv, CodeInv, HostFault \/ Taken \/ FaultElsewhere
  PROVE  CodeInv'
<1>0. CodeBasics
  BY CodeBasic
<1>1. ASSUME NEW c \in Code, Drift(c) PROVE CodeInv'
  <2>1. /\ pc # "activate" /\ pc' = pc /\ script' = Unlocked
        /\ UNCHANGED <<run, codeOf, current>>
        /\ tree' = [tree EXCEPT ![c] = "drifted"]
    BY <1>1 DEF Drift, CodeLockFree, services, pointers
  <2> QED
    BY <1>0, <2>1 DEF CodeInv, TreesInUseStay, HasMarker, Works, CodeBasics, Unlocked
<1>2. CASE HostInterrupted
  BY <1>2 DEF HostInterrupted, Interrupted, Finish, FreeCodeLock, Unlocked, CodeInv, TreesInUseStay,
              HasMarker, Works, Ready, Pins, Staged, services, trees, pointers
<1>3. CASE ScriptInterrupted
  <2>1. /\ pc # "activate" /\ pc' = pc /\ script' = Unlocked
        /\ UNCHANGED <<run, codeOf, current>>
        /\ tree' = tree \/ tree' = [tree EXCEPT ![script.code] = "drifted"]
    BY <1>3 DEF ScriptInterrupted, FreeCodeLock, services, pointers
  <2> QED
    BY <1>0, <2>1 DEF CodeInv, TreesInUseStay, HasMarker, Works, CodeBasics, Unlocked
<1>4. CASE HostPowerLoss
  <2>1. /\ pc' = "idle" /\ script' = Unlocked /\ UNCHANGED <<codeOf, tree, current>>
        /\ \A u \in Unit : run'[u] \in {"base", "stopped"} \cup Works
    BY <1>4 DEF HostPowerLoss, PowerLoss, Finish, FreeCodeLock, trees, pointers
  <2> QED
    BY <1>0, <2>1 DEF CodeInv, TreesInUseStay, HasMarker, Works, CodeBasics, Unlocked
<1>5. CASE Taken
  <2>1. /\ pc' = "idle" /\ script' = Unlocked /\ UNCHANGED <<codeOf, tree, current>>
        /\ \A u \in Unit : run'[u] = "stopped"
    BY <1>5 DEF Taken, Finish, FreeCodeLock, trees, pointers
  <2> QED
    BY <1>0, <2>1 DEF CodeInv, TreesInUseStay, HasMarker, Works, CodeBasics, Unlocked
<1>6. CASE FaultElsewhere
  <2>1. UNCHANGED AllOtherHostVars
    BY <1>6 DEF FaultElsewhere, NoFault, WithFault, hostVars, secureVars, AllOtherHostVars
  <2> QED
    BY <2>1 DEF AllOtherHostVars, CodeInv, TreesInUseStay, HasMarker, Works, Ready, Pins, Staged,
                InForce, links, marks, prior, services, codeVars, trees, pointers
<1> QED
  BY <1>1, <1>2, <1>3, <1>4, <1>5, <1>6 DEF HostFault

\* CodeInv holds throughout.
MachineInv == ProfileFacts /\ CodeInv

\* The machine's invariant holds throughout.
LEMMA MachineAlways == DeploymentSpec => []MachineInv
<1>1. ASSUME DeploymentInit PROVE CodeInv
  <2>1. Machine /\ HostMachine
    BY <1>1 DEF DeploymentInit, HostMachine
  <2>2. TypeInv /\ ProfileInv
    BY <1>1, <2>1, InitTypes, MachineHasProfile
  <2>3. CodeBasics
    BY <2>2, CodeBasic
  <2>4. /\ current # None => HasMarker(current)
        /\ \A r \in Release : receipt[r].performed => codeOf[r] \in Code /\ HasMarker(codeOf[r])
    BY <2>1, <2>3 DEF HostMachine, HasMarker, CodeBasics
  <2>5. ASSUME NEW u \in Unit, run[u] \in Release PROVE receipt[run[u]].performed
    <3>1. ~CleanMachine
      BY <2>5, ProfileAssumption DEF CleanMachine
    <3>2. PICK r \in Release, f \in Release,
               displaced \in {{}, {"unit"}, {"unit", "profile"}, {"unit", "profile", "guard"}} :
            DisplacedBy(r, f, displaced)
      BY <2>1, <3>1 DEF Machine, DisplacedMachine
    <3>3. run[u] \in {"stopped", r} /\ receipt[r].performed
      BY <3>2, ProfileAssumption DEF DisplacedBy, BootConfig, FreshReceipt, NoReceipt
    <3> QED
      BY <2>5, <3>3, ProfileAssumption
  <2> QED
    BY <2>1, <2>3, <2>4, <2>5 DEF Machine, HostMachine, CodeInv, TreesInUseStay, Works, HasMarker, Unlocked
<1>2. ASSUME MachineInv, [DeploymentNext]_deploymentVars PROVE CodeInv'
  <2>1. TypeInv /\ ProfileInv /\ CodeInv
    BY <1>2 DEF MachineInv, ProfileFacts
  <2> QED
    BY <1>2, <2>1, StepOfMachine, CodeRequestsKeepCode, CodeStepsKeepCode, FaultsKeepCode DEF HostNext
<1>3. DeploymentInit => ProfileFacts
  BY InitTypes, MachineHasProfile DEF ProfileFacts, DeploymentInit, HostMachine
<1>4. ProfileFacts /\ [DeploymentNext]_deploymentVars => ProfileFacts'
  BY StepTypes, StepKeepsProfile DEF ProfileFacts
<1> QED
  BY <1>1, <1>2, <1>3, <1>4, PTL DEF DeploymentSpec, MachineInv

\* Neither the installer nor the removal of a stale candidate ever takes away the
\* code that is current or that a worker runs, though one of them tests that
\* without the profile lock.
THEOREM UsedTreesStay == DeploymentSpec => []TreesInUseStay
<1>1. MachineInv => TreesInUseStay
  BY DEF MachineInv, CodeInv
<1> QED
  BY <1>1, MachineAlways, PTL

\* The current pointer moves forward only to the code of a profile in force.
THEOREM OnlyProvenIsCurrent == DeploymentSpec => PromotedInForce
<1>1. ASSUME MachineInv, [DeploymentNext]_deploymentVars,
             current' # current, current' \notin {None, previous}
      PROVE  \E r \in Release : codeOf[r] = current' /\ InForce(r)
  <2>1. HostNext
    BY <1>1, StepOfMachine
       DEF MachineInv, ProfileFacts, Taken, FaultElsewhere, NoFault, WithFault, AllOtherHostVars,
           hostVars, codeVars, pointers
  <2>2. ~HostFault
    BY <1>1 DEF HostFault, Drift, HostInterrupted, ScriptInterrupted, HostPowerLoss, pointers
  <2>3. ~HostRequest
    BY <1>1 DEF HostRequest, ProfileRequest, Provision, Activate, Install, RollbackCode, Reconcile,
                codeVars, pointers
  <2>4. Promote
    BY <1>1, <2>1, <2>2, <2>3
       DEF HostNext, HostStep, ProfileStep, CodePointerStep, CodePointerRefused, InstallStep,
           RetargetUnits, codeVars, pointers
  <2> QED
    BY <1>1, <2>4 DEF Promote, MachineInv, CodeInv
<1>2. MachineInv /\ [DeploymentNext]_deploymentVars
        => [(current' # current /\ current' \notin {None, previous}) =>
              \E r \in Release : codeOf[r] = current' /\ InForce(r)]_hostVars
  BY <1>1
<1> QED
  BY <1>2, MachineAlways, PTL DEF DeploymentSpec, PromotedInForce

-----------------------------------------------------------------------------
(* The abstract switch                                                     *)

switch == <<dropin[Main], auth, Installed>>

\* What a write of one journal does to the set of installed releases.
LEMMA JournalAndInstalled ==
  ASSUME NEW r \in Release, NEW performed, NEW cutover, NEW rollback,
         Journal(r, performed, cutover, rollback)
  PROVE  Installed' = IF cutover = "complete" /\ rollback = "none"
                        THEN Installed \cup {r} ELSE Installed \ {r}
BY DEF Journal, Installed

\* A write of the receipt, with the links and the authority as they were, is a
\* claim withdrawn or nothing at all.
LEMMA Disclaims ==
  ASSUME NEW r \in Release, UNCHANGED <<dropin, auth>>,
         Installed' = Installed \ {r} \/ Installed' = Installed
  PROVE  [Switch!SwitchNext]_switch
BY DEF switch, Switch!SwitchNext, Switch!Disclaim

\* A quiet step is a stutter of the switch,
LEMMA QuietOnSwitch ==
  ASSUME UNCHANGED <<dropin, auth, receipt>>
  PROVE  [Switch!SwitchNext]_switch
BY DEF switch, Installed

\* a request is one too, or disclaims its release,
LEMMA RequestOnSwitch ==
  ASSUME SecureTypeOK, NEW r \in Release, Request(r)
  PROVE  [Switch!SwitchNext]_switch
<1>0. receipt \in [Release -> Receipt]
  BY DEF SecureTypeOK
<1>1. ASSUME Rollback(r) PROVE [Switch!SwitchNext]_switch
  <2>1. Journal(r, receipt[r].performed, receipt[r].cutover, "open") /\ UNCHANGED <<dropin, auth>>
    BY <1>0, <1>1 DEF Rollback, Journal, Receipt, links, marks
  <2> QED
    BY <2>1, JournalAndInstalled, Disclaims
<1>2. CASE Stage(r)
  <2>1. /\ UNCHANGED <<dropin, auth>> /\ \A x \in Release \ {r} : receipt'[x] = receipt[x]
        /\ receipt'[r] = receipt[r] \/ receipt'[r].cutover = "none"
    BY <1>0, <1>2 DEF Stage, StagedReceipt, FreshReceipt, NoReceipt, links, marks
  <2>2. Installed' = Installed \ {r} \/ Installed' = Installed
    BY <2>1 DEF Installed
  <2> QED
    BY <2>1, <2>2, Disclaims
<1>3. CASE Cutover(r)
  <2>1. Journal(r, receipt[r].performed, "open", receipt[r].rollback) /\ UNCHANGED <<dropin, auth>>
    BY <1>0, <1>3 DEF Cutover, Journal, Receipt, links, marks
  <2> QED
    BY <2>1, JournalAndInstalled, Disclaims
<1>4. CASE Prepare(r) \/ CutoverAbandoned(r)
  BY <1>4, QuietOnSwitch DEF Prepare, CutoverAbandoned, links, marks
<1>5. CASE Retire(r)
  <2>1. CASE ~Rollback(r)
    BY <1>5, <2>1, QuietOnSwitch DEF Retire, links, marks
  <2> QED
    BY <1>1, <2>1
<1> QED
  BY <1>1, <1>2, <1>3, <1>4, <1>5 DEF Request

\* and each write is a step of it or a stutter.
LEMMA WriteOnSwitch ==
  ASSUME SecureTypeOK, ProfileInv, Write(Works)
  PROVE  [Switch!SwitchNext]_switch
<1>0. /\ receipt \in [Release -> Receipt] /\ dropin \in [Unit -> Link] /\ auth \subseteq Release
      /\ pc # "idle" => rel \in Release
  BY ProfileBasics DEF SecureTypeOK
<1>1. CASE StageWrite \/ PrepareTunnel
  BY <1>1, QuietOnSwitch DEF StageWrite, StageUnit, StageProfile, StageGuards, StagePointer,
                             PrepareTunnel, marks, links
<1>2. CASE PrepareReceipt
  <2>1. /\ Journal(rel, receipt[rel].performed, receipt[rel].cutover, receipt[rel].rollback)
        /\ UNCHANGED <<dropin, auth>> /\ rel \in Release
    BY <1>0, <1>2 DEF PrepareReceipt, Journal, Receipt, links, marks
  <2>2. Installed' = Installed
    BY <2>1 DEF Journal, Installed
  <2> QED
    BY <2>1, <2>2, Disclaims
<1>3. CASE CutoverWrite(Works)
  <2>1. CASE LinkWorkers
    <3>1. rel \in Release /\ dropin'[Main] = rel /\ UNCHANGED <<auth, receipt>>
      BY <1>0, <2>1, ProfileBasics DEF LinkWorkers, FirstOf, Unit, marks
    <3>2. dropin[Main] \in {rel, None}
      BY <2>1 DEF LinkWorkers, ProfileInv, CutoverInv, Cutting, CutoverTry
    <3>3. Installed' = Installed
      BY <3>1 DEF Installed
    <3> QED
      BY <3>1, <3>2, <3>3 DEF switch, Switch!SwitchNext, Switch!LinkTo
  <2>2. CASE Authorize
    <3>1. rel \in Release /\ auth' = auth \cup {rel} /\ UNCHANGED <<dropin, receipt>>
      BY <1>0, <2>2 DEF Authorize, links
    <3>2. dropin[Main] = rel
      BY <2>2, ProfileBasics DEF Authorize, ProfileInv, CutoverInv, Cutting, CutoverTry, Linked
    <3>3. Installed' = Installed
      BY <3>1 DEF Installed
    <3> QED
      BY <3>1, <3>2, <3>3 DEF Switch!SwitchNext, Switch!Empower
  <2>3. CASE Commit
    <3>1. /\ rel \in Release /\ UNCHANGED <<dropin, auth>>
          /\ Journal(rel, TRUE, "complete", receipt[rel].rollback)
      BY <1>0, <2>3 DEF Commit, Journal, Receipt, links, marks
    <3>2. dropin[Main] = rel /\ rel \in auth /\ receipt[rel].rollback = "none"
      BY <2>3, ProfileBasics DEF Commit, ProfileInv, CutoverInv, Cutting, CutoverEnd, Linked
    <3>3. Installed' = Installed \cup {rel}
      BY <3>1, <3>2, JournalAndInstalled
    <3> QED
      BY <3>1, <3>2, <3>3 DEF Switch!SwitchNext, Switch!Complete
  <2>4. CASE FailReceipt
    <3>1. /\ rel \in Release /\ UNCHANGED <<dropin, auth>>
          /\ Journal(rel, TRUE, receipt[rel].cutover, "open")
      BY <1>0, <2>4 DEF FailReceipt, Journal, Receipt, links, marks
    <3> QED
      BY <3>1, JournalAndInstalled, Disclaims
  <2>5. CASE \/ DisableLegacy \/ Unmask \/ RestartWorkers(Works) \/ Probe \/ AuthorizeBoot
             \/ EnableUnits \/ Publish \/ CutoverFails(Works) \/ FailPointer
    BY <2>5, QuietOnSwitch DEF DisableLegacy, Unmask, RestartWorkers, Probe, AuthorizeBoot,
       EnableUnits, Publish, CutoverFails, FailPointer, links, marks
  <2> QED
    BY <1>3, <2>1, <2>2, <2>3, <2>4, <2>5 DEF CutoverWrite
<1>4. CASE RollbackWrite
  <2>1. CASE Revoke
    <3>1. rel \in Release /\ auth' = auth \ {rel} /\ UNCHANGED <<dropin, receipt>>
      BY <1>0, <2>1 DEF Revoke, links
    <3>2. rel \notin Installed
      BY <2>1 DEF Revoke, ProfileInv, RollbackInv, RollbackStep, Installed
    <3>3. Installed' = Installed
      BY <3>1 DEF Installed
    <3> QED
      BY <3>1, <3>2, <3>3 DEF Switch!SwitchNext, Switch!Withdraw
  <2>2. CASE UnlinkWorkers
    <3>1. dropin'[Main] = None /\ UNCHANGED <<auth, receipt>>
      BY <1>0, <2>2, ProfileBasics DEF UnlinkWorkers, FirstOf, Unit, marks
    <3>2. dropin[Main] \notin auth
      BY <1>0, <2>2, ProfileBasics
         DEF UnlinkWorkers, ProfileInv, RollbackInv, RollbackStep, OwnOrNone, AfterRevoke
    <3>3. Installed' = Installed
      BY <3>1 DEF Installed
    <3> QED
      BY <3>1, <3>2, <3>3 DEF Switch!SwitchNext, Switch!Unlink
  <2>3. CASE Undone
    <3>1. rel \in Release /\ UNCHANGED <<dropin, auth>> /\ Journal(rel, FALSE, "undone", "complete")
      BY <1>0, <2>3 DEF Undone, Journal, Receipt, links, marks
    <3> QED
      BY <3>1, JournalAndInstalled, Disclaims
  <2>4. CASE \/ RestoreOverride \/ RevokeBoot \/ RestoreLegacy \/ RestoreService \/ StopTunnel
             \/ DisableTunnel \/ UnlinkTunnel \/ UnlinkGuards \/ Unpublish
    BY <2>4, QuietOnSwitch DEF RestoreOverride, RevokeBoot, RestoreLegacy, RestoreService, StopTunnel,
       DisableTunnel, UnlinkTunnel, UnlinkGuards, Unpublish, links, marks
  <2> QED
    BY <1>4, <2>1, <2>2, <2>3, <2>4 DEF RollbackWrite
<1>5. CASE Relink
  BY <1>5, QuietOnSwitch DEF Relink, marks
<1>6. CASE Unstage
  <2>1. /\ rel \in Release /\ UNCHANGED <<dropin, auth>>
        /\ Journal(rel, receipt[rel].performed, receipt[rel].cutover, "open")
    BY <1>0, <1>6 DEF Unstage, Journal, Receipt, marks
  <2> QED
    BY <2>1, JournalAndInstalled, Disclaims
<1> QED
  BY <1>1, <1>2, <1>3, <1>4, <1>5, <1>6 DEF Write

\* The links, marks and journals of the profile, in every operation, interleaving
\* and fault, are an implementation of ProfileSwitch: one release linked at a time,
\* authorized only while linked, installed only while authorized.
THEOREM ProfileIsASwitch == DeploymentSpec => ImplementsSwitch
<1>1. DeploymentInit => Switch!SwitchInit
  <2>1. SUFFICES ASSUME Machine PROVE Switch!SwitchInit
    BY DEF DeploymentInit, HostMachine
  <2>2. CASE CleanMachine
    <3>1. dropin[Main] = None /\ auth = {} /\ Installed = {}
      BY <2>2, ProfileBasics DEF CleanMachine, Installed, NoReceipt
    <3> QED
      BY <3>1 DEF Switch!SwitchInit
  <2>3. CASE DisplacedMachine
    <3>1. PICK r \in Release, f \in Release,
               displaced \in {{}, {"unit"}, {"unit", "profile"}, {"unit", "profile", "guard"}} :
            DisplacedBy(r, f, displaced)
      BY <2>3 DEF DisplacedMachine
    <3>2. dropin[Main] = r /\ auth = {r} /\ Installed = {r}
      BY <3>1, ProfileBasics DEF DisplacedBy, Installed, NoReceipt, FreshReceipt
    <3> QED
      BY <3>2, ProfileBasics DEF Switch!SwitchInit
  <2> QED
    BY <2>1, <2>2, <2>3 DEF Machine
<1>2. ProfileFacts /\ [DeploymentNext]_deploymentVars => [Switch!SwitchNext]_switch
  <2>1. SUFFICES ASSUME ProfileFacts, [DeploymentNext]_deploymentVars
                 PROVE  [Switch!SwitchNext]_switch
    OBVIOUS
  <2>2. TypeInv /\ ProfileInv /\ SecureTypeOK
    BY <2>1 DEF ProfileFacts, TypeInv, DeploymentTypeOK, HostTypeOK
  <2>3. QuietStep => [Switch!SwitchNext]_switch
    BY QuietOnSwitch DEF QuietStep
  <2> QED
    BY <2>1, <2>2, <2>3, StepOfProfile, RequestOnSwitch, WriteOnSwitch
<1>3. switch = Switch!switchVars
  BY DEF switch, Switch!switchVars
<1> QED
  BY <1>1, <1>2, <1>3, ProfileAlways, PTL
     DEF DeploymentSpec, ImplementsSwitch, Switch!SwitchSpec, switch, Switch!switchVars

AtMostTheLink == auth \subseteq {dropin[Main]} \ {None} /\ Installed \subseteq auth

\* And so, on the machine, neither the authority to start workers nor the claim to be
\* installed outlives the link.
THEOREM AuthorityFollowsLink == DeploymentSpec => []Switch!SwitchSafe
<1>1. Switch!SwitchInit => AtMostTheLink
  BY DEF Switch!SwitchInit, AtMostTheLink
<1>2. AtMostTheLink /\ [Switch!SwitchNext]_(Switch!switchVars) => AtMostTheLink'
  <2>1. SUFFICES ASSUME AtMostTheLink, Switch!SwitchNext PROVE AtMostTheLink'
    BY DEF Switch!switchVars, AtMostTheLink
  <2> QED
    BY <2>1, ProfileAssumption
       DEF ProfileAssumption, Switch!SwitchNext, Switch!LinkTo, Switch!Empower, Switch!Complete,
           Switch!Disclaim, Switch!Withdraw, Switch!Unlink, AtMostTheLink
<1>3. AtMostTheLink => Switch!SwitchSafe
  BY DEF AtMostTheLink, Switch!SwitchSafe
<1> QED
  BY <1>1, <1>2, <1>3, ProfileIsASwitch, PTL DEF ImplementsSwitch, Switch!SwitchSpec

-----------------------------------------------------------------------------
(* The saga                                                                *)

\* Its steps before the profile is prepared, and those that need it prepared.
BeforePrepared == {"sync", "create-vm", "install", "delete-dns", "create-dns", "recreate-dns",
                   "retire", "stage", "prepare"}
OncePrepared == {"tls", "provision", "tls-again", "cutover", "ready", "activate", "enable",
                 "finalize", "done", "undo-activation", "undo-code", "undo-profile"}

\* Its way forward, here and on the machine; what comes after the profile is undone.
OnwardHere == {"sync", "create-vm", "delete-dns", "create-dns", "recreate-dns", "tls", "tls-again",
               "ready", "enable", "finalize", "done"}
OnwardThere == {"install", "retire", "stage", "prepare", "provision", "cutover", "activate"}
AfterUndo == {"undo-dns", "restore-dns", "undo-dispatch", "failed"}

\* The hostname's record, while the saga moves it and after it has moved it back.
HostnameInv ==
  /\ at \in {"sync", "create-vm", "install", "delete-dns", "create-dns", "recreate-dns"} =>
       mutation = "none"
  /\ at \in {"sync", "create-vm", "install", "delete-dns"} => dns = previousDns
  /\ at = "create-dns" => dns = {}
  /\ at \in (OncePrepared \cup {"retire", "stage", "prepare"})
              \ {"undo-activation", "undo-code", "undo-profile"} =>
       mutation = "unchanged" \/ OnlyOurs
  /\ mutation = "unchanged" => dns = previousDns
  /\ at \in {"undo-dispatch", "failed"} => mutation = "none" \/ dns = previousDns \/ "dns" \in warned

\* The backend's dispatch, and the flags of the saga.
DispatchInv ==
  /\ at = "sync" => ~synced
  /\ preserve => ~dispatch /\ ~synced /\ at # "enable"
  /\ at \in {"finalize", "done"} => (dispatch <=> ~preserve)
  /\ at = "failed" /\ synced => ~dispatch \/ "dispatch" \in warned

StagedFlagInv ==
  /\ at \in BeforePrepared => ~profileStaged
  /\ at \in OncePrepared => profileStaged
  /\ envFile => at = "done"

PathInv == HostnameInv /\ DispatchInv /\ StagedFlagInv

\* The saga has nothing under way on the machine.
Quiet == asked = {} /\ doing = "none" /\ pc = "idle" /\ script = Unlocked

\* On its way forward the saga has one command at most under way, the one it waits
\* for; those it gave up on may still be.
CommandInv ==
  /\ at \in OnwardHere => Quiet
  /\ at \in OnwardThere =>
       \/ Quiet
       \/ reply = "none" /\ asked = {at} /\ doing = "none" /\ pc = "idle" /\ script = Unlocked
       \/ reply = "none" /\ asked = {} /\ doing = at /\ (script = Unlocked \/ pc = "activate")
       \/ reply = "none" /\ asked = {} /\ doing = "none" /\ pc = "idle" /\ at = "install"
  /\ ~profileStaged => asked \cup {doing} \subseteq {"install", "retire", "stage", "prepare", "none"}
  /\ profileStaged => (asked \cup {doing}) \cap {"retire", "stage", "prepare"} = {}
  /\ "undo-profile" \in asked \cup {doing} =>
       \/ at = "undo-profile" /\ reply # "ok" /\ ("undo-profile" \notin asked \/ doing # "undo-profile")
       \/ at = "killed" \/ "profile" \in warned

\* What the machine does for the saga.
DutyInv ==
  /\ mode = "first-install"
  /\ doing = "none" <=> pc = "idle"
  /\ doing \notin {"install", "provision", "undo-code"}
  /\ doing \in {"stage", "prepare", "cutover", "activate"} \cup Undo => rel = profile
  /\ doing = "stage" => pc \in StageStep
  /\ doing = "prepare" => pc \in PrepareStep
  /\ doing = "retire" => rel # profile /\ pc \in RollbackStep \cup {"relink", "unstage"}
  /\ doing = "cutover" => pc \in Cutting \cup RollbackStep
  /\ doing = "activate" => pc = "activate" /\ guard[Main] = profile
  /\ doing \in Undo => pc \in RollbackStep

\* The journal of its profile.
UndoneInv ==
  /\ ~profileStaged => receipt[profile].cutover = "none"
  /\ profileStaged /\ (at \in AfterUndo \/ (at = "undo-profile" /\ reply = "ok")) =>
       receipt[profile].rollback = "complete" \/ "profile" \in warned

\* Its profile is in force, its code current, and it will be so after a power loss.
PromotedInv ==
  vm = "up" /\ (at \in {"enable", "finalize", "done"} \/ (at = "activate" /\ reply = "ok")) =>
    /\ InForce(profile) /\ current = codeOf[profile]
    /\ guard[Main] = profile /\ profile \in Works

SagaInv ==
  /\ PathInv
  /\ at # "by-hand" => CommandInv /\ DutyInv /\ UndoneInv /\ PromotedInv

\* What the machine does leaves the saga's own record alone.
LEMMA MachineKeepsPath ==
  ASSUME PathInv, Obey \/ Unreachable \/ Work \/ Breakdown \/ Preempted \/ ByHand \/ UNCHANGED deploymentVars
  PROVE  PathInv'
<1>1. UNCHANGED <<at, dns, previousDns, mutation, dispatch, sagaFlags>>
  BY DEF Obey, Unreachable, Work, Breakdown, Preempted, ByHand, deploymentVars, sagaVars, outside, sagaFlags
<1> QED
  BY <1>1 DEF PathInv, HostnameInv, DispatchInv, StagedFlagInv, OnlyOurs, sagaFlags

\* The saga's steps keep what is known of the hostname,
LEMMA StepsKeepHostname ==
  ASSUME SagaTypes, PathInv, SagaStep
  PROVE  HostnameInv'
<1> USE DEF PathInv, HostnameInv, OncePrepared, OnlyOurs, Move, outside, sagaFlags
<1>t. /\ dns \subseteq {"old", "new"} /\ previousDns \subseteq {"old"}
      /\ mutation \in {"none", "unchanged", "changed"}
  BY DEF SagaTypes
<1>1. CASE SyncSecrets \/ VerifyContract
  BY <1>1 DEF SyncSecrets, VerifyContract
<1>2. CASE CreateVm
  BY <1>2 DEF CreateVm, Compensation, StagedFlagInv, BeforePrepared
<1>3. CASE DeleteDns
  BY <1>3, <1>t DEF DeleteDns, Compensation, StagedFlagInv, BeforePrepared
<1>4. CASE CreateDns
  BY <1>4, <1>t DEF CreateDns, Created, MayBeCreated, Compensation, StagedFlagInv, BeforePrepared
<1>5. CASE RecreateDns
  BY <1>5, <1>t DEF RecreateDns, Created, MayBeCreated, Compensation, StagedFlagInv, BeforePrepared
<1>6. CASE WaitTls \/ WaitReady \/ Enable \/ Finalize
  BY <1>6, <1>t DEF WaitTls, WaitReady, Enable, Finalize, Compensation
<1>7. CASE Answered
  BY <1>7, <1>t DEF Answered, Onward
<1>8. CASE TurnBack \/ GiveUp
  BY <1>8, <1>t DEF TurnBack, GiveUp, Refused, Compensate, Compensation, AfterProfile, RemoteStep
<1>9. CASE UndoDns
  BY <1>9, <1>t DEF UndoDns, AfterDns
<1>10. CASE UndoDispatch \/ Killed
  BY <1>10, <1>t DEF UndoDispatch, Killed
<1> QED
  BY <1>1, <1>2, <1>3, <1>4, <1>5, <1>6, <1>7, <1>8, <1>9, <1>10 DEF SagaStep

\* of the backend's dispatch,
LEMMA StepsKeepDispatch ==
  ASSUME SagaTypes, PathInv, SagaStep
  PROVE  DispatchInv'
<1> USE DEF PathInv, DispatchInv, Move, outside, sagaFlags
<1>0. CASE SyncSecrets
  <2>1. /\ ~preserve /\ ~synced /\ UNCHANGED preserve
        /\ at' = "create-vm" \/ (at' = "failed" /\ UNCHANGED synced)
    BY <1>0 DEF SyncSecrets
  <2> QED
    BY <2>1
<1>1. CASE VerifyContract
  BY <1>1 DEF VerifyContract
<1>2. CASE CreateVm
  BY <1>2 DEF CreateVm, Compensation
<1>3. CASE DeleteDns \/ CreateDns \/ RecreateDns
  BY <1>3 DEF DeleteDns, CreateDns, RecreateDns, Compensation
<1>6. CASE WaitTls \/ WaitReady \/ Enable \/ Finalize
  BY <1>6 DEF WaitTls, WaitReady, Enable, Finalize, Compensation
<1>7. CASE Answered
  BY <1>7 DEF Answered, Onward
<1>8. CASE TurnBack \/ GiveUp
  BY <1>8 DEF TurnBack, GiveUp, Refused, Compensate, Compensation, AfterProfile, RemoteStep
<1>9. CASE UndoDns
  BY <1>9 DEF UndoDns, AfterDns
<1>10. CASE UndoDispatch
  <2>1. at' = "failed" /\ UNCHANGED <<preserve, synced>>
    BY <1>10 DEF UndoDispatch
  <2>2. ~dispatch' \/ "dispatch" \in warned'
    BY <1>10 DEF UndoDispatch
  <2>3. ~dispatch => ~dispatch'
    BY <1>10 DEF UndoDispatch
  <2> QED
    BY <2>1, <2>2, <2>3
<1>11. CASE Killed
  BY <1>11 DEF Killed
<1> QED
  BY <1>0, <1>1, <1>2, <1>3, <1>6, <1>7, <1>8, <1>9, <1>10, <1>11 DEF SagaStep

\* and of its flags.
LEMMA StepsKeepStagedFlag ==
  ASSUME SagaTypes, PathInv, SagaStep
  PROVE  StagedFlagInv'
<1> USE DEF PathInv, StagedFlagInv, BeforePrepared, OncePrepared, Move, outside, sagaFlags
<1>0. CASE SyncSecrets
  <2>1. /\ at = "sync" /\ at' \in {"create-vm", "failed"}
        /\ UNCHANGED <<profileStaged, envFile>>
    BY <1>0 DEF SyncSecrets
  <2> QED
    BY <2>1
<1>1. CASE VerifyContract
  BY <1>1 DEF VerifyContract
<1>2. CASE CreateVm
  BY <1>2 DEF CreateVm, Compensation
<1>3. CASE DeleteDns \/ CreateDns \/ RecreateDns
  BY <1>3 DEF DeleteDns, CreateDns, RecreateDns, Compensation
<1>6. CASE WaitTls \/ WaitReady \/ Enable \/ Finalize
  BY <1>6 DEF WaitTls, WaitReady, Enable, Finalize, Compensation
<1>7. CASE Answered
  <2>1. profileStaged' <=> (profileStaged \/ at = "prepare")
    BY <1>7 DEF Answered
  <2>2. /\ at \in DOMAIN Onward \cup {"activate"} /\ UNCHANGED envFile
        /\ at' = IF at # "activate" THEN Onward[at]
                 ELSE IF preserve THEN "finalize" ELSE "enable"
    BY <1>7 DEF Answered
  <2> QED
    BY <2>1, <2>2 DEF Onward
<1>8. CASE TurnBack \/ GiveUp
  BY <1>8 DEF TurnBack, GiveUp, Refused, Compensate, Compensation, AfterProfile, RemoteStep
<1>9. CASE UndoDns
  BY <1>9 DEF UndoDns, AfterDns
<1>10. CASE UndoDispatch
  <2>1. at = "undo-dispatch" /\ at' = "failed" /\ UNCHANGED <<profileStaged, envFile>>
    BY <1>10 DEF UndoDispatch
  <2> QED
    BY <2>1
<1>11. CASE Killed
  BY <1>11 DEF Killed, Ended
<1> QED
  BY <1>0, <1>1, <1>2, <1>3, <1>6, <1>7, <1>8, <1>9, <1>10, <1>11 DEF SagaStep

\* Every write of a profile's operation has a step of its own.
LEMMA WritesHaveSteps ==
  ASSUME ProfileStep
  PROVE  pc \notin {"idle", "activate"}
BY DEF ProfileStep, Write, StageWrite, StageUnit, StageProfile, StageGuards, StagePointer,
         PrepareTunnel, PrepareReceipt, CutoverWrite, DisableLegacy, LinkWorkers, Authorize,
         Unmask, RestartWorkers, Probe, AuthorizeBoot, EnableUnits, Publish, Commit,
         CutoverFails, CutoverTry, FailPointer, FailReceipt, RollbackWrite, RestoreOverride,
         Revoke, RevokeBoot, UnlinkWorkers, RestoreLegacy, RestoreService, StopTunnel,
         DisableTunnel, UnlinkTunnel, UnlinkGuards, Unpublish, Undone, Relink, Unstage

\* Nothing else goes on under the two locks while a candidate is promoted.
LEMMA PromotionAlone ==
  ASSUME CodeInv, HostStep, pc = "activate"
  PROVE  Promote
<1>1. script.step \in {"save", "promote"}
  BY DEF CodeInv
<1>2. ~InstallStep
  BY <1>1, InstallSteps
<1> QED
  BY <1>1, <1>2, WritesHaveSteps
     DEF HostStep, CodePointerStep, CodePointer, CodePointerRefused, RetargetUnits

\* A step of the machine stays within its operation, or ends it.
LEMMA StepsStayInOperation ==
  ASSUME HostStep
  PROVE  /\ mode' = mode
         /\ pc = "idle" => pc' = "idle"
         /\ pc' # "idle" => rel' = rel
         /\ pc \in StageStep => pc' \in StageStep \cup {"idle"}
         /\ pc \in PrepareStep => pc' \in PrepareStep \cup {"idle"}
         /\ pc \in Cutting => pc' \in Cutting \cup RollbackStep \cup {"idle"}
         /\ pc \in RollbackStep => pc' \in RollbackStep \cup {"idle"}
         /\ pc \in {"relink", "unstage"} => pc' \in RollbackStep \cup {"relink", "unstage"}
         /\ pc = "activate" => pc' \in {"activate", "idle"}
<1> USE DEF StageStep, PrepareStep, Cutting, CutoverTry, CutoverEnd, RollbackStep, Goto, Finish
<1>1. CASE ProfileStep
  <2>1. mode' = mode /\ Write(Works)
    BY <1>1 DEF ProfileStep
  <2>2. CASE StageWrite \/ PrepareTunnel \/ PrepareReceipt
    BY <2>1, <2>2 DEF StageWrite, StageUnit, StageProfile, StageGuards, StagePointer,
                      PrepareTunnel, PrepareReceipt
  <2>3. CASE CutoverWrite(Works)
    BY <2>1, <2>3 DEF CutoverWrite, DisableLegacy, LinkWorkers, Authorize, Unmask, RestartWorkers,
                      Probe, AuthorizeBoot, EnableUnits, Publish, Commit, CutoverFails,
                      FailPointer, FailReceipt
  <2>4. CASE RollbackWrite
    BY <2>1, <2>4 DEF RollbackWrite, RestoreOverride, Revoke, RevokeBoot, UnlinkWorkers,
                      RestoreLegacy, RestoreService, StopTunnel, DisableTunnel, UnlinkTunnel,
                      UnlinkGuards, Unpublish, Undone
  <2>5. CASE Relink \/ Unstage
    BY <2>1, <2>5 DEF Relink, Unstage
  <2> QED
    BY <2>1, <2>2, <2>3, <2>4, <2>5 DEF Write
<1>2. CASE CodePointerStep \/ CodePointerRefused
  BY <1>2 DEF CodePointerStep, CodePointer, CodePointerRefused
<1>3. CASE Promote
  BY <1>3 DEF Promote
<1>4. CASE InstallStep \/ RetargetUnits
  BY <1>4 DEF InstallStep, RetargetUnits, secureVars
<1> QED
  BY <1>1, <1>2, <1>3, <1>4 DEF HostStep

\* The machine's own steps, and what befalls it, keep to what it was asked,
LEMMA MachineKeepsDuty ==
  ASSUME MachineInv, at # "by-hand", DutyInv, Work \/ Breakdown \/ Preempted
  PROVE  DutyInv'
<1> USE DEF DutyInv, Undo
<1>1. CASE Work
  <2>1. HostStep /\ profile' = profile
    BY <1>1 DEF Work
  <2>2. pc = "activate" => guard' = guard
    BY <2>1, PromotionAlone DEF MachineInv, Promote, links
  <2>3. doing' = IF pc # "idle" /\ pc' = "idle" THEN "none" ELSE doing
    BY <1>1 DEF Work
  <2> QED
    BY <2>1, <2>2, <2>3, StepsStayInOperation
<1>2. CASE Breakdown
  <2>0. profile' = profile
    BY <1>2 DEF Breakdown
  <2>1. ASSUME NEW c, Drift(c), UNCHANGED calls PROVE DutyInv'
    BY <2>0, <2>1 DEF Drift, calls, links
  <2>2. ASSUME HostInterrupted \/ HostPowerLoss, doing' = "none" PROVE DutyInv'
    BY <2>0, <2>2 DEF HostInterrupted, Interrupted, HostPowerLoss, PowerLoss, Finish
  <2>3. ASSUME ScriptInterrupted, UNCHANGED doing PROVE DutyInv'
    BY <2>0, <2>3 DEF ScriptInterrupted, links
  <2> QED
    BY <1>2, <2>1, <2>2, <2>3 DEF Breakdown
<1>3. CASE Preempted
  BY <1>3 DEF Preempted, Finish
<1> QED
  BY <1>1, <1>2, <1>3

\* The saga's own steps leave the machine alone.
LEMMA StepsLeaveMachine ==
  ASSUME SagaStep \/ Unreachable
  PROVE  UNCHANGED <<doing, profile, mode, receipt, dropin, guard, tunnelUnit, tunnelDropin, active,
                     auth, boot, override, run, tunnel, enabled, pc, rel, codeOf, tree, current, script>>
<1> USE DEF Move, calls
<1>1. UNCHANGED <<doing, profile>> /\ (UNCHANGED hostVars \/ UNCHANGED AllOtherHostVars)
  <2>1. CASE SyncSecrets \/ VerifyContract \/ CreateVm \/ DeleteDns \/ CreateDns \/ RecreateDns
    BY <2>1 DEF SyncSecrets, VerifyContract, CreateVm, DeleteDns, CreateDns, RecreateDns, NoFault, WithFault
  <2>2. CASE WaitTls \/ WaitReady \/ Enable \/ Finalize
    BY <2>2 DEF WaitTls, WaitReady, Enable, Finalize, NoFault, WithFault
  <2>3. CASE Answered \/ TurnBack \/ GiveUp \/ UndoDns \/ UndoDispatch \/ Killed
    BY <2>3 DEF Answered, TurnBack, GiveUp, UndoDns, UndoDispatch, Killed, NoFault, WithFault
  <2>4. CASE Unreachable
    BY <2>4 DEF Unreachable
  <2> QED
    BY <2>1, <2>2, <2>3, <2>4 DEF SagaStep
<1> QED
  BY <1>1 DEF hostVars, secureVars, AllOtherHostVars, links, marks, prior, services, codeVars, trees,
              pointers

\* Only the profile of the saga is worked on, but for what is retired before it.
LEMMA OthersAreRetired ==
  ASSUME MachineInv, at # "by-hand", CommandInv, UndoneInv, "retire" \in asked
  PROVE  active # profile
<1>1. receipt[profile].cutover = "none" /\ profile \in Release
  BY DEF CommandInv, UndoneInv, MachineInv, ProfileFacts, TypeInv, SagaHasProfile
<1> QED
  BY <1>1 DEF MachineInv, ProfileFacts, ProfileInv, UntriedInv

\* and so does every step of a deployment.
LEMMA StepKeepsDuty ==
  ASSUME MachineInv, at # "by-hand", CommandInv, UndoneInv, DutyInv, [DeploymentNext]_deploymentVars
  PROVE  DutyInv'
<1>1. CASE SagaStep \/ Unreachable
  BY <1>1, StepsLeaveMachine DEF DutyInv, Undo
<1>2. CASE Obey
  <2>1. PICK op \in asked : BeginProfile(op) \/ Settle(op) \/ BeginCode(op)
    BY <1>2 DEF Obey
  <2>2. profile' = profile
    BY <1>2 DEF Obey
  <2>3. CASE BeginProfile(op)
    <3>1. pc = "idle" /\ doing' = op /\ mode' = mode
      BY <2>3 DEF BeginProfile, Onto
    <3>2. \/ op = "retire" /\ Retire(active)
          \/ op = "stage" /\ Stage(profile)
          \/ op = "prepare" /\ Prepare(profile)
          \/ op = "cutover" /\ Cutover(profile)
          \/ op \in Undo /\ Rollback(profile)
      BY <2>3 DEF BeginProfile
    <3>3. ASSUME op = "retire", Retire(active)
          PROVE  rel' # profile /\ pc' \in {"restore-override", "relink"}
      BY <3>3, OthersAreRetired DEF Retire, Rollback, Begin
    <3>4. ASSUME op # "retire"
          PROVE  /\ op \in {"stage", "prepare", "cutover"} \cup Undo /\ rel' = profile
                 /\ op = "stage" => pc' = "stage-unit"
                 /\ op = "prepare" => pc' = "prepare-tunnel"
                 /\ op = "cutover" => pc' = "legacy"
                 /\ op \in Undo => pc' = "restore-override"
      BY <3>2, <3>4 DEF Stage, Prepare, Cutover, Rollback, Begin, Undo
    <3> QED
      BY <2>2, <3>1, <3>2, <3>3, <3>4
         DEF DutyInv, Undo, StageStep, PrepareStep, Cutting, CutoverTry, RollbackStep
  <2>4. CASE Settle(op)
    BY <2>2, <2>4 DEF Settle, AtOnce, DutyInv, Undo, hostVars, secureVars, links
  <2>5. CASE BeginCode(op)
    <3>1. ASSUME op = "activate", GatePassed(profile), Activate(profile), Onto(op)
          PROVE  DutyInv'
      BY <2>2, <3>1 DEF GatePassed, Activate, Begin, Onto, DutyInv, Undo, links
    <3>2. ASSUME UNCHANGED secureVars, UNCHANGED doing PROVE DutyInv'
      BY <2>2, <3>2 DEF secureVars, links, DutyInv, Undo
    <3> QED
      BY <2>5, <3>1, <3>2 DEF BeginCode, Provision, Install, RollbackCode, AtOnce, hostVars
  <2> QED
    BY <2>1, <2>3, <2>4, <2>5
<1>3. CASE Work \/ Breakdown \/ Preempted
  BY <1>3, MachineKeepsDuty
<1>4. CASE UNCHANGED deploymentVars
  BY <1>4 DEF deploymentVars, hostVars, secureVars, links, sagaVars, calls, DutyInv, Undo
<1> QED
  BY <1>1, <1>2, <1>3, <1>4 DEF DeploymentNext, ByHand

\* The saga sends one command at a time, and none before the last has answered,
\* unless it turns back.
LEMMA StepsKeepCommands ==
  ASSUME MachineInv, PathInv, PathInv', at # "by-hand", CommandInv, SagaStep
  PROVE  CommandInv'
<1>0. /\ UNCHANGED <<doing, pc, script>>
      /\ asked \subseteq RemoteStep /\ reply \in {"none", "ok", "failed"}
  BY StepsLeaveMachine DEF MachineInv, ProfileFacts, TypeInv, DeploymentTypeOK
<1>p. StagedFlagInv /\ StagedFlagInv'
  BY DEF PathInv
<1> USE <1>0, <1>p DEF CommandInv, Quiet, StagedFlagInv, Move, sagaFlags
<1>1. CASE SyncSecrets \/ VerifyContract \/ CreateVm \/ DeleteDns \/ CreateDns \/ RecreateDns
             \/ WaitTls \/ WaitReady \/ Enable \/ Finalize
  <2>1. /\ at \in OnwardHere \ {"done"}
        /\ \E step \in OnwardHere \cup {"install", "retire", "provision", "cutover", "activate",
                                       "undo-profile", "undo-dns", "undo-dispatch", "failed"} : Move(step)
        /\ UNCHANGED <<profileStaged, warned>>
    <3>1. CASE SyncSecrets \/ VerifyContract
      BY <3>1 DEF SyncSecrets, VerifyContract, OnwardHere
    <3>2. CASE CreateVm \/ DeleteDns
      BY <3>2 DEF CreateVm, DeleteDns, Compensation, OnwardHere
    <3>3. CASE CreateDns \/ RecreateDns
      BY <3>3 DEF CreateDns, RecreateDns, Compensation, OnwardHere
    <3>4. CASE WaitTls \/ WaitReady
      BY <3>4 DEF WaitTls, WaitReady, Compensation, OnwardHere
    <3>5. CASE Enable \/ Finalize
      BY <3>5 DEF Enable, Finalize, Compensation, OnwardHere
    <3> QED
      BY <1>1, <3>1, <3>2, <3>3, <3>4, <3>5
  <2>2. /\ Quiet
        /\ asked' = {at'} \cap RemoteStep /\ reply' = "none"
    BY <2>1
  <2>3. CASE at' \in OnwardHere
    <3>1. asked' = {}
      BY <2>2, <2>3 DEF OnwardHere, RemoteStep
    <3> QED
      BY <2>2, <2>3, <3>1 DEF OnwardHere, OnwardThere
  <2>4. CASE at' \in {"install", "retire", "provision", "cutover", "activate"}
    <3>1. asked' = {at'} /\ at' \in OnwardThere /\ at' \notin OnwardHere
      BY <2>2, <2>4 DEF OnwardHere, OnwardThere, RemoteStep
    <3> QED
      BY <2>2, <2>4, <3>1 DEF BeforePrepared, OncePrepared
  <2>5. CASE at' \in {"undo-profile", "undo-dns", "undo-dispatch", "failed"}
    <3>1. asked' \subseteq {at'} \cap {"undo-profile"} /\ at' \notin OnwardHere \cup OnwardThere
      BY <2>2, <2>5 DEF OnwardHere, OnwardThere, RemoteStep
    <3> QED
      BY <2>2, <2>5, <3>1
  <2> QED
    BY <2>1, <2>3, <2>4, <2>5
<1>2. CASE Answered
  <2>1. at \in OnwardThere /\ Quiet
    BY <1>2 DEF Answered, Onward, OnwardThere
  <2>2. /\ at' \in {"delete-dns", "stage", "prepare", "tls", "tls-again", "ready", "finalize", "enable"}
        /\ asked' = {at'} \cap RemoteStep /\ reply' = "none"
    BY <1>2, <2>1 DEF Answered, Onward
  <2>3. CASE at' \in {"stage", "prepare"}
    <3>1. asked' = {at'} /\ at' \in OnwardThere /\ at' \notin OnwardHere /\ ~profileStaged'
      BY <1>p, <2>2, <2>3 DEF OnwardHere, OnwardThere, RemoteStep, BeforePrepared
    <3> QED
      BY <2>1, <2>2, <2>3, <3>1
  <2>4. CASE at' \in {"delete-dns", "tls", "tls-again", "ready", "finalize", "enable"}
    <3>1. asked' = {} /\ at' \in OnwardHere /\ at' \notin OnwardThere
      BY <2>2, <2>4 DEF OnwardHere, OnwardThere, RemoteStep
    <3> QED
      BY <2>1, <2>2, <3>1
  <2> QED
    BY <2>2, <2>3, <2>4
<1>3. CASE TurnBack \/ GiveUp
  <2>1. /\ at' \in {"undo-activation", "undo-code", "undo-profile", "undo-dns", "undo-dispatch", "failed"}
        /\ at' = "undo-profile" => at # "undo-profile"
    BY <1>3 DEF TurnBack, GiveUp, Refused, Compensation, AfterProfile
  <2>2. /\ asked' \subseteq asked \cup ({at'} \cap RemoteStep) /\ reply' = "none"
        /\ at # "killed" /\ profileStaged' = profileStaged
        /\ warned \subseteq warned'
        /\ at = "undo-profile" /\ reply # "ok" => "profile" \in warned'
    BY <1>3 DEF TurnBack, GiveUp, Compensate, RemoteStep
  <2> QED
    BY <2>1, <2>2 DEF OnwardHere, OnwardThere, RemoteStep, BeforePrepared, OncePrepared
<1>4. CASE UndoDns \/ UndoDispatch
  <2>1. /\ at \in {"undo-dns", "restore-dns", "undo-dispatch"}
        /\ at' \in {"restore-dns", "undo-dispatch", "failed"}
        /\ asked' = asked /\ warned \subseteq warned' /\ profileStaged' = profileStaged
    BY <1>4 DEF UndoDns, UndoDispatch, AfterDns, RemoteStep
  <2> QED
    BY <2>1 DEF OnwardHere, OnwardThere
<1>5. CASE Killed
  BY <1>5 DEF Killed, calls, OnwardHere, OnwardThere
<1> QED
  BY <1>1, <1>2, <1>3, <1>4, <1>5 DEF SagaStep

\* A command is begun under the profile lock, answered on the spot, or run as a
\* script under the code lock.
Begun(op) == doing' = op /\ reply' = reply /\ pc = "idle" /\ (script' = script \/ pc' = "activate")

OnTheSpot(op) ==
  /\ UNCHANGED <<doing, pc, script>>
  /\ IF at = op THEN reply' \in {"ok", "failed"} ELSE reply' = reply
  /\ op = "undo-profile" /\ at = op => reply' = "failed"

InScript(op) == op \in {"install", "undo-code"} /\ UNCHANGED <<doing, reply, pc>>

\* What becomes of a command when the machine takes it up.
LEMMA CommandBegins ==
  ASSUME Obey
  PROVE  \E op \in asked :
           /\ asked' = asked \ {op} /\ UNCHANGED <<at, profile, profileStaged, warned, vm>>
           /\ Begun(op) \/ OnTheSpot(op) \/ InScript(op)
<1>1. PICK op \in asked : Take(op) /\ (BeginProfile(op) \/ Settle(op) \/ BeginCode(op))
  BY DEF Obey
<1>2. asked' = asked \ {op} /\ UNCHANGED <<at, profile, profileStaged, warned, vm>>
  BY <1>1 DEF Obey, Take, outside, sagaFlags
<1>3. CASE BeginProfile(op)
  <2>1. doing' = op /\ reply' = reply /\ pc = "idle" /\ script' = script
    BY <1>3 DEF BeginProfile, Onto, codeVars
  <2> QED
    BY <1>2, <2>1 DEF Begun
<1>4. CASE Settle(op)
  <2>1. UNCHANGED <<doing, pc, script>> /\ \E ok \in BOOLEAN : Answer(op, ok)
    BY <1>4 DEF Settle, AtOnce, hostVars, secureVars, codeVars
  <2>2. op = "undo-profile" => Answer(op, FALSE)
    BY <1>4 DEF Settle, AtOnce, UndoneAlready
  <2> QED
    BY <1>2, <2>1, <2>2 DEF Answer, OnTheSpot
<1>5. CASE BeginCode(op)
  <2>1. CASE op = "activate" /\ Activate(profile) /\ Onto(op)
    BY <1>2, <2>1 DEF Activate, Begin, Onto, Begun
  <2>2. CASE op = "provision" /\ Provision(profile) /\ AtOnce(op, TRUE)
    BY <1>2, <2>2 DEF Provision, AtOnce, Answer, secureVars, OnTheSpot
  <2>3. CASE op \in {"install", "undo-code"} /\ UNCHANGED <<doing, reply, secureVars>>
    BY <1>2, <2>3 DEF secureVars, InScript
  <2>4. CASE op \in {"install", "undo-code"} /\ UNCHANGED hostVars /\ \E ok \in BOOLEAN : AtOnce(op, ok)
    BY <1>2, <2>4 DEF AtOnce, Answer, hostVars, secureVars, codeVars, OnTheSpot
  <2> QED
    BY <1>5, <2>1, <2>2, <2>3, <2>4 DEF BeginCode, Install, RollbackCode, Ready
<1> QED
  BY <1>1, <1>3, <1>4, <1>5

\* A command taken up is the one the saga waits for, or one it gave up on.
LEMMA ObeyKeepsCommands ==
  ASSUME MachineInv, PathInv, at # "by-hand", CommandInv, Obey
  PROVE  CommandInv'
<1>1. PICK op \in asked :
           /\ asked' = asked \ {op} /\ UNCHANGED <<at, profile, profileStaged, warned, vm>>
           /\ Begun(op) \/ OnTheSpot(op) \/ InScript(op)
  BY CommandBegins
<1>2. at \notin OnwardHere
  BY <1>1 DEF CommandInv, Quiet
<1> USE DEF CommandInv, Quiet
<1>3. CASE Begun(op)
  BY <1>1, <1>2, <1>3 DEF OnwardThere, Begun
<1>4. CASE OnTheSpot(op)
  BY <1>1, <1>2, <1>4 DEF OnwardThere, OnTheSpot
<1>5. CASE InScript(op)
  BY <1>1, <1>2, <1>5 DEF OnwardThere, InScript
<1> QED
  BY <1>1, <1>3, <1>4, <1>5

\* A lock that nobody holds is not let go, and a profile's operation holds only the
\* lock of the code it promotes.
LEMMA NobodyWorks ==
  ASSUME pc = "idle", script = Unlocked
  PROVE  ~HostStep /\ ~HostInterrupted /\ ~ScriptInterrupted
<1>1. ~ProfileStep
  BY WritesHaveSteps
<1>2. ~InstallStep /\ ~RetargetUnits
  BY InstallSteps DEF RetargetUnits, Unlocked
<1> QED
  BY <1>1, <1>2 DEF HostStep, CodePointerStep, CodePointer, CodePointerRefused, Promote,
                    HostInterrupted, Interrupted, ScriptInterrupted, CodeLockFree

\* An operation of the profile that ends leaves the code lock free.
LEMMA OneLockAtATime ==
  ASSUME HostStep, pc # "idle", script = Unlocked
  PROVE  script' = Unlocked
BY InstallSteps
   DEF HostStep, ProfileStep, codeVars, CodePointerStep, CodePointerRefused, Promote, RetargetUnits,
       Unlocked

\* A command that ends answers the saga only if it still waits for it.
LEMMA WorkKeepsCommands ==
  ASSUME MachineInv, PathInv, at # "by-hand", DutyInv, CommandInv, Work
  PROVE  CommandInv'
<1> USE DEF CommandInv, Quiet
<1>1. HostStep /\ UNCHANGED <<at, asked, profileStaged, warned>>
  BY DEF Work, sagaFlags
<1>2. at \notin OnwardHere /\ ~Quiet
  BY <1>1, NobodyWorks
<1>3. CASE pc # "idle" /\ pc' = "idle"
  <2>1. doing' = "none" /\ reply' = (IF at = doing THEN reply' ELSE reply)
    BY <1>3 DEF Work, Answer
  <2>2. doing # "none"
    BY <1>3 DEF DutyInv
  <2>3. at \in OnwardThere => asked = {} /\ script' = Unlocked
    <3>1. CASE script = Unlocked
      BY <1>1, <1>2, <1>3, <2>2, <3>1, OneLockAtATime
    <3>2. CASE script # Unlocked
      <4>1. SUFFICES ASSUME at \in OnwardThere PROVE asked = {} /\ script' = Unlocked
        OBVIOUS
      <4>2. pc = "activate" /\ asked = {}
        BY <1>3, <2>2, <3>2, <4>1
      <4>3. Promote
        BY <1>1, <4>2, PromotionAlone DEF MachineInv
      <4> QED
        BY <1>3, <4>2, <4>3 DEF Promote, Goto, FreeCodeLock
    <3> QED
      BY <3>1, <3>2
  <2> QED
    BY <1>1, <1>2, <1>3, <2>1, <2>2, <2>3
<1>4. CASE ~(pc # "idle" /\ pc' = "idle")
  <2>1. /\ doing' = doing /\ reply' \in {reply, "ok"} /\ (at = "undo-profile" => reply' = reply)
        /\ pc = "activate" \/ script = Unlocked => reply' = reply
    BY <1>4 DEF Work, Answer
  <2>2. pc # "idle" /\ script = Unlocked => script' = Unlocked
    BY <1>1, OneLockAtATime
  <2>3. at \in OnwardThere => reply = "none" /\ asked = {}
    BY <1>1, <1>2, NobodyWorks
  <2>4. pc = "idle" => pc' = "idle"
    BY <1>1, StepsStayInOperation
  <2>5. at = "install" /\ pc = "idle" /\ reply' = "ok" => script' = Unlocked
    BY <1>4, <2>3 DEF Work, OnwardThere
  <2>6. pc = "activate" => pc' = "activate"
    BY <1>1, <1>4, StepsStayInOperation
  <2> QED
    BY <1>1, <1>2, <2>1, <2>2, <2>3, <2>4, <2>5, <2>6 DEF DutyInv, OnwardThere
<1> QED
  BY <1>3, <1>4

\* A command that dies answers that it failed, or not at all.
LEMMA FaultsKeepCommands ==
  ASSUME MachineInv, at # "by-hand", DutyInv, CommandInv, Breakdown \/ Preempted \/ Unreachable
  PROVE  CommandInv'
<1> USE DEF CommandInv, Quiet, FreeCodeLock, Finish
<1>1. CASE Breakdown
  <2>0. UNCHANGED <<at, profileStaged, warned>>
    BY <1>1 DEF Breakdown, sagaFlags
  <2>1. ASSUME NEW c, Drift(c), UNCHANGED calls PROVE CommandInv'
    BY <2>0, <2>1 DEF Drift, calls
  <2>2. ASSUME HostInterrupted, doing' = "none", Answer(doing, FALSE), UNCHANGED asked PROVE CommandInv'
    <3>1. /\ pc # "idle" /\ pc' = "idle" /\ doing # "none"
          /\ script' = IF pc = "activate" THEN Unlocked ELSE script
          /\ reply' = IF at = doing THEN "failed" ELSE reply
      BY <2>2 DEF HostInterrupted, Interrupted, Answer, DutyInv
    <3> QED
      BY <2>0, <2>2, <3>1
  <2>3. ASSUME ScriptInterrupted, UNCHANGED <<asked, doing>>, \E op : Answer(op, FALSE) PROVE CommandInv'
    <3>1. pc' = pc /\ script # Unlocked /\ pc # "activate" /\ script' = Unlocked
      BY <2>3 DEF ScriptInterrupted, CodeLockFree
    <3>2. reply' \in {reply, "failed"}
      BY <2>3 DEF Answer
    <3> QED
      BY <2>0, <2>3, <3>1, <3>2 DEF OnwardThere, DutyInv
  <2>4. ASSUME HostPowerLoss, asked' = {}, doing' = "none",
               reply' = IF at \in RemoteStep /\ reply = "none" THEN "failed" ELSE reply
        PROVE  CommandInv'
    BY <2>0, <2>4 DEF HostPowerLoss, PowerLoss
  <2> QED
    BY <1>1, <2>1, <2>2, <2>3, <2>4 DEF Breakdown
<1>2. CASE Preempted
  BY <1>2 DEF Preempted, sagaFlags
<1>3. CASE Unreachable
  <2>1. UNCHANGED <<doing, pc, script, at, profileStaged, warned>> /\ asked # {} /\ asked' = {}
    BY <1>3, StepsLeaveMachine DEF Unreachable, sagaFlags
  <2> QED
    BY <1>3, <2>1 DEF Unreachable
<1> QED
  BY <1>1, <1>2, <1>3

\* Every step keeps what is known of the commands under way.
LEMMA StepKeepsCommands ==
  ASSUME MachineInv, PathInv, PathInv', at # "by-hand", DutyInv, CommandInv,
         [DeploymentNext]_deploymentVars
  PROVE  CommandInv'
<1>1. UNCHANGED deploymentVars => CommandInv'
  BY DEF deploymentVars, hostVars, secureVars, codeVars, sagaVars, sagaFlags, calls, CommandInv, Quiet
<1> QED
  BY <1>1, StepsKeepCommands, ObeyKeepsCommands, WorkKeepsCommands, FaultsKeepCommands
     DEF DeploymentNext, ByHand

\* Which journals the machine writes at its steps.
LEMMA WorkAndJournals ==
  ASSUME SecureTypeOK, HostStep
  PROVE  /\ \A r \in Release \ {rel} : receipt'[r] = receipt[r]
         /\ pc \notin {"prepare-receipt"} \cup Cutting \cup RollbackStep \cup {"unstage"}
              => receipt' = receipt
         /\ pc = "prepare-receipt" => Journal(rel, receipt[rel].performed, receipt[rel].cutover,
                                              receipt[rel].rollback)
         /\ pc = "undone" /\ pc' = "idle" => receipt'[rel].rollback = "complete"
<1>0. receipt \in [Release -> Receipt] /\ rel \in Link /\ (rel = None => pc = "idle")
  BY DEF SecureTypeOK
<1>1. CASE ProfileStep
  <2>0. pc # "idle" /\ rel \in Release
    BY <1>0, <1>1, WritesHaveSteps DEF Link
  <2>1. CASE StageWrite \/ PrepareTunnel \/ Relink
    BY <2>1 DEF StageWrite, StageUnit, StageProfile, StageGuards, StagePointer, PrepareTunnel, Relink
  <2>2. CASE DisableLegacy \/ LinkWorkers \/ Authorize \/ Unmask \/ RestartWorkers(Works) \/ Probe
               \/ AuthorizeBoot \/ EnableUnits \/ Publish \/ CutoverFails(Works) \/ FailPointer
    BY <2>2 DEF DisableLegacy, LinkWorkers, Authorize, Unmask, RestartWorkers, Probe, AuthorizeBoot,
                EnableUnits, Publish, CutoverFails, CutoverTry, FailPointer
  <2>3. CASE RestoreOverride \/ Revoke \/ RevokeBoot \/ UnlinkWorkers \/ RestoreLegacy
               \/ RestoreService \/ StopTunnel \/ DisableTunnel \/ UnlinkTunnel \/ UnlinkGuards
               \/ Unpublish
    BY <2>3 DEF RestoreOverride, Revoke, RevokeBoot, UnlinkWorkers, RestoreLegacy, RestoreService,
                StopTunnel, DisableTunnel, UnlinkTunnel, UnlinkGuards, Unpublish
  <2>4. CASE PrepareReceipt
    BY <1>0, <2>0, <2>4
       DEF PrepareReceipt, Journal, Receipt, Cutting, CutoverTry, CutoverEnd, RollbackStep
  <2>5. CASE Commit
    BY <1>0, <2>0, <2>5 DEF Commit, Cutting, CutoverEnd
  <2>6. CASE FailReceipt
    BY <1>0, <2>0, <2>6 DEF FailReceipt, Cutting, CutoverEnd
  <2>7. CASE Undone
    BY <1>0, <2>0, <2>7 DEF Undone, RollbackStep, Receipt
  <2>8. CASE Unstage
    BY <1>0, <2>0, <2>8 DEF Unstage
  <2> QED
    BY <1>1, <2>1, <2>2, <2>3, <2>4, <2>5, <2>6, <2>7, <2>8
       DEF ProfileStep, Write, CutoverWrite, RollbackWrite
<1>2. CASE CodePointerStep \/ CodePointerRefused
  BY <1>2 DEF CodePointerStep, CodePointer, CodePointerRefused, Goto
<1>3. CASE Promote
  BY <1>3 DEF Promote
<1>4. CASE InstallStep \/ RetargetUnits
  BY <1>4 DEF InstallStep, RetargetUnits, secureVars, Journal
<1> QED
  BY <1>1, <1>2, <1>3, <1>4 DEF HostStep

\* What a command that is taken up does to the journal of the saga's profile.
LEMMA CommandAndJournal ==
  ASSUME MachineInv, at # "by-hand", CommandInv, UndoneInv, DutyInv, Obey
  PROVE  \/ receipt'[profile] = receipt[profile]
         \/ "stage" \in asked /\ receipt'[profile].cutover \in {"none", receipt[profile].cutover}
         \/ profileStaged /\ receipt[profile].rollback # "complete"
         \/ profileStaged /\ "undo-profile" \in asked
<1>0. profile \in Release /\ receipt \in [Release -> Receipt]
  BY DEF MachineInv, ProfileFacts, TypeInv, SagaHasProfile, DeploymentTypeOK, HostTypeOK, SecureTypeOK
<1>1. PICK op \in asked : BeginProfile(op) \/ Settle(op) \/ BeginCode(op)
  BY DEF Obey
<1>2. CASE Settle(op)
  BY <1>2 DEF Settle, hostVars, secureVars
<1>3. CASE BeginCode(op)
  BY <1>3 DEF BeginCode, Provision, Activate, Install, RollbackCode, hostVars, secureVars
<1>4. CASE BeginProfile(op)
  <2>1. ASSUME op = "retire", Retire(active) PROVE receipt'[profile] = receipt[profile]
    <3>1. active # profile
      BY <2>1, OthersAreRetired
    <3> QED
      BY <1>0, <2>1, <3>1 DEF Retire, Rollback
  <2>2. ASSUME op = "stage", Stage(profile)
        PROVE  "stage" \in asked /\ receipt'[profile].cutover \in {"none", receipt[profile].cutover}
    <3>1. receipt'[profile] = StagedReceipt(profile)
      BY <1>0, <2>2 DEF Stage
    <3>2. StagedReceipt(profile).cutover \in {"none", receipt[profile].cutover}
      BY DEF StagedReceipt, FreshReceipt, NoReceipt
    <3> QED
      BY <2>2, <3>1, <3>2
  <2>3. ASSUME op = "prepare", Prepare(profile) PROVE receipt'[profile] = receipt[profile]
    BY <2>3 DEF Prepare
  <2>4. ASSUME op = "cutover", Cutover(profile) PROVE profileStaged /\ receipt[profile].rollback # "complete"
    <3>1. profileStaged
      BY <2>4 DEF CommandInv
    <3>2. tunnelUnit = profile
      BY <2>4 DEF Cutover, CutoverAccepted, LinksMatch
    <3> QED
      BY <1>0, <3>1, <3>2 DEF MachineInv, ProfileFacts, ProfileInv, CleanInv
  <2>5. ASSUME op = "undo-profile" PROVE profileStaged /\ "undo-profile" \in asked
    BY <2>5 DEF CommandInv
  <2>6. ASSUME op = "undo-activation", UndoAccepted(op)
        PROVE  profileStaged /\ receipt[profile].rollback # "complete"
    BY <2>6 DEF CommandInv, UndoAccepted
  <2> QED
    BY <1>4, <2>1, <2>2, <2>3, <2>4, <2>5, <2>6 DEF BeginProfile, Undo
<1> QED
  BY <1>1, <1>2, <1>3, <1>4

\* Every step keeps what is known of the journal of the saga's profile.
LEMMA StepKeepsUndone ==
  ASSUME MachineInv, PathInv, at # "by-hand", CommandInv, UndoneInv, DutyInv,
         [DeploymentNext]_deploymentVars
  PROVE  UndoneInv'
<1>0. /\ profile \in Release /\ receipt \in [Release -> Receipt] /\ SecureTypeOK
      /\ profileStaged \in BOOLEAN
  BY DEF MachineInv, ProfileFacts, TypeInv, SagaHasProfile, DeploymentTypeOK, HostTypeOK, SecureTypeOK
<1>1. CASE SagaStep
  <2>1. UNCHANGED <<profile, receipt>>
    BY <1>1, StepsLeaveMachine
  <2>2. /\ warned \subseteq warned'
        /\ profileStaged' = profileStaged \/ Answered
        /\ profileStaged => profileStaged'
    BY <1>1, <1>0 DEF SagaStep, SyncSecrets, VerifyContract, CreateVm, DeleteDns, CreateDns, RecreateDns,
       WaitTls, WaitReady, Enable, Finalize, Answered, TurnBack, GiveUp, Compensate, UndoDns, UndoDispatch,
       Killed, sagaFlags
  <2>3. at' \in AfterUndo \cup {"undo-profile"} /\ profileStaged' =>
          /\ profileStaged
          /\ at' \in AfterUndo =>
               at \in AfterUndo \/ (at = "undo-profile" /\ (reply = "ok" \/ "profile" \in warned'))
          /\ at' = "undo-profile" => reply' # "ok"
    <3>1. CASE SyncSecrets \/ VerifyContract \/ CreateVm \/ DeleteDns \/ CreateDns \/ RecreateDns
                 \/ WaitTls \/ WaitReady \/ Enable \/ Finalize
      <4>1. /\ at \in OnwardHere \ {"done"} /\ profileStaged' = profileStaged /\ reply' = "none"
            /\ at' \notin AfterUndo \/ at' = Compensation \/ at = "sync"
        BY <3>1 DEF SyncSecrets, VerifyContract, CreateVm, DeleteDns, CreateDns, RecreateDns,
           WaitTls, WaitReady, Enable, Finalize, OnwardHere, AfterUndo, Move, sagaFlags
      <4> QED
        BY <4>1 DEF Compensation, AfterUndo, PathInv, StagedFlagInv, BeforePrepared
    <3>2. CASE Answered
      BY <3>2 DEF Answered, Onward, Move, AfterUndo
    <3>3. CASE TurnBack \/ GiveUp
      BY <3>3 DEF TurnBack, GiveUp, Compensate, Refused, Compensation, AfterUndo, Move
    <3>4. CASE UndoDns \/ UndoDispatch
      BY <3>4 DEF UndoDns, UndoDispatch, AfterDns, AfterUndo, Move
    <3>5. CASE Killed
      BY <3>5 DEF Killed, AfterUndo
    <3> QED
      BY <1>1, <3>1, <3>2, <3>3, <3>4, <3>5 DEF SagaStep
  <2> QED
    BY <2>1, <2>2, <2>3 DEF UndoneInv
<1>2. CASE Unreachable
  BY <1>2, StepsLeaveMachine DEF Unreachable, UndoneInv, sagaFlags
<1>3. CASE Obey
  <2>1. PICK op \in asked :
           /\ UNCHANGED <<at, profile, profileStaged, warned>>
           /\ Begun(op) \/ OnTheSpot(op) \/ InScript(op)
    BY <1>3, CommandBegins
  <2>2. at = "undo-profile" /\ reply' = "ok" => reply = "ok"
    BY <2>1 DEF Begun, OnTheSpot, InScript
  <2>3. \/ receipt'[profile] = receipt[profile]
        \/ "stage" \in asked /\ receipt'[profile].cutover \in {"none", receipt[profile].cutover}
        \/ profileStaged /\ receipt[profile].rollback # "complete"
        \/ profileStaged /\ "undo-profile" \in asked
    BY <1>3, CommandAndJournal
  <2> QED
    BY <2>1, <2>2, <2>3 DEF UndoneInv, CommandInv, AfterUndo
<1>4. CASE Work
  <2>1. HostStep /\ UNCHANGED <<at, profile, profileStaged, warned>>
    BY <1>4 DEF Work, sagaFlags
  <2>2. at = "undo-profile" /\ reply' = "ok" =>
          reply = "ok" \/ (doing = "undo-profile" /\ pc = "undone" /\ pc' = "idle")
    BY <1>4 DEF Work, Answer, LastStep
  <2>3. \/ receipt'[profile] = receipt[profile]
        \/ doing = "prepare" /\ receipt'[profile].cutover = receipt[profile].cutover
        \/ profileStaged /\ receipt[profile].rollback # "complete"
    <3>0. /\ pc = "prepare-receipt" => doing = "prepare" /\ rel = profile
          /\ pc \in Cutting \cup RollbackStep /\ rel = profile => profileStaged
          /\ pc = "unstage" => rel # profile
      <4>1. doing \in {"none", "stage", "prepare", "retire", "cutover", "activate"} \cup Undo
        BY DEF MachineInv, ProfileFacts, TypeInv, DeploymentTypeOK, DutyInv, RemoteStep, Undo
      <4>2. ~profileStaged => doing \notin {"cutover", "activate"} \cup Undo
        BY DEF CommandInv, Undo
      <4> QED
        BY <4>1, <4>2
           DEF DutyInv, StageStep, PrepareStep, Cutting, CutoverTry, CutoverEnd, RollbackStep
    <3>1. CASE rel # profile
      BY <1>0, <2>1, <3>1, WorkAndJournals
    <3>2. CASE pc = "prepare-receipt"
      BY <1>0, <2>1, <3>0, <3>2, WorkAndJournals DEF Journal
    <3>3. CASE rel = profile /\ pc \in Cutting
      <4>1. receipt[rel].rollback = "none"
        BY <3>3 DEF MachineInv, ProfileFacts, ProfileInv, CutoverInv
      <4> QED
        BY <3>0, <3>3, <4>1
    <3>4. CASE rel = profile /\ pc \in RollbackStep
      <4>1. receipt[rel].rollback = "open"
        BY <3>4 DEF MachineInv, ProfileFacts, ProfileInv, RollbackInv
      <4> QED
        BY <3>0, <3>4, <4>1
    <3>5. CASE pc \notin {"prepare-receipt"} \cup Cutting \cup RollbackStep \cup {"unstage"}
      BY <1>0, <2>1, <3>5, WorkAndJournals
    <3> QED
      BY <3>0, <3>1, <3>2, <3>3, <3>4, <3>5
  <2>4. doing = "undo-profile" /\ pc = "undone" /\ pc' = "idle" => receipt'[profile].rollback = "complete"
    BY <1>0, <2>1, WorkAndJournals DEF DutyInv, Undo
  <2> QED
    BY <2>1, <2>2, <2>3, <2>4 DEF UndoneInv, CommandInv, AfterUndo
<1>5. CASE Breakdown \/ Preempted
  <2>1. UNCHANGED <<at, profile, profileStaged, warned, receipt>>
    BY <1>5 DEF Breakdown, Preempted, Drift, HostInterrupted, Interrupted, ScriptInterrupted,
                HostPowerLoss, PowerLoss, sagaFlags
  <2>2. reply' = "ok" => reply = "ok"
    BY <1>5 DEF Breakdown, Preempted, Answer, calls
  <2> QED
    BY <2>1, <2>2 DEF UndoneInv
<1>6. CASE UNCHANGED deploymentVars
  BY <1>6 DEF deploymentVars, hostVars, secureVars, sagaVars, sagaFlags, calls, UndoneInv
<1> QED
  BY <1>1, <1>2, <1>3, <1>4, <1>5, <1>6 DEF DeploymentNext, ByHand

\* A machine whose profile is in force comes back with it from a power loss.
LEMMA PowerComesBack ==
  ASSUME MachineInv, mode = "first-install", NEW r \in Release, InForce(r), guard[Main] = r, r \in Works,
         HostPowerLoss
  PROVE  (InForce(r) /\ guard[Main] = r /\ r \in Works)' /\ current' = current /\ codeOf' = codeOf
<1>1. /\ UNCHANGED <<mode, receipt, dropin, guard, tunnelUnit, tunnelDropin, active, auth, boot, override,
                     codeOf, tree, current>>
      /\ run' = [u \in Unit |-> IF BootConfig(u) \in Works \cup {"base"} THEN BootConfig(u) ELSE "stopped"]
      /\ tunnel' = BootTunnel
  BY DEF HostPowerLoss, PowerLoss, links, marks, prior, trees, pointers
<1>2. receipt[r].rollback = "none"
  <2>1. receipt[r].rollback # "complete"
    BY DEF MachineInv, ProfileFacts, ProfileInv, CleanInv, InForce
  <2>2. receipt[r].rollback \in {"none", "open", "complete"}
    BY DEF MachineInv, ProfileFacts, TypeInv, DeploymentTypeOK, HostTypeOK, SecureTypeOK, Receipt
  <2> QED
    BY <2>1, <2>2 DEF InForce
<1>3. Main \in enabled /\ Main \in Unit /\ r # None
  BY <1>2, ProfileBasics DEF MachineInv, ProfileFacts, ProfileInv, PerformedInv, InForce
<1>4. Starts(Main) /\ BootConfig(Main) = r
  BY <1>3 DEF Starts, BootConfig, InForce
<1>5. BootTunnel = r
  BY <1>3, <1>4 DEF BootTunnel, InForce
<1>6. run'[Main] = r /\ tunnel' # None
  BY <1>1, <1>3, <1>4, <1>5
<1> QED
  BY <1>1, <1>6 DEF InForce, Works

\* Once promoted, the profile stays in force, through power losses too.
LEMMA StepKeepsPromoted ==
  ASSUME MachineInv, at # "by-hand", CommandInv, DutyInv, PromotedInv, [DeploymentNext]_deploymentVars
  PROVE  PromotedInv'
<1>0. profile \in Release
  BY DEF MachineInv, ProfileFacts, TypeInv, SagaHasProfile
<1>q. at \in {"enable", "finalize", "done"} \/ (at = "activate" /\ reply = "ok") => Quiet
  BY DEF CommandInv, OnwardHere, OnwardThere
<1>1. CASE SagaStep \/ Unreachable
  <2>1. UNCHANGED <<profile, mode, receipt, dropin, guard, tunnelUnit, tunnelDropin, active,
                    auth, boot, override, run, tunnel, codeOf, tree, current>>
    BY <1>1, StepsLeaveMachine
  <2>2. vm' = "up" /\ (at' \in {"enable", "finalize", "done"} \/ (at' = "activate" /\ reply' = "ok")) =>
          vm = "up" /\ (at \in {"enable", "finalize", "done"} \/ (at = "activate" /\ reply = "ok"))
    <3>1. CASE SyncSecrets \/ VerifyContract \/ CreateVm \/ DeleteDns \/ CreateDns \/ RecreateDns
      BY <3>1 DEF SyncSecrets, VerifyContract, CreateVm, DeleteDns, CreateDns, RecreateDns,
                  Compensation, Move
    <3>2. CASE WaitTls \/ WaitReady \/ Enable \/ Finalize
      BY <3>2 DEF WaitTls, WaitReady, Enable, Finalize, Compensation, Move, outside
    <3>3. CASE Answered
      BY <3>3 DEF Answered, Onward, Move, outside
    <3>4. CASE TurnBack \/ GiveUp
      BY <3>4 DEF TurnBack, GiveUp, Compensate, Refused, Compensation, AfterProfile, Move
    <3>5. CASE UndoDns \/ UndoDispatch \/ Killed
      BY <3>5 DEF UndoDns, UndoDispatch, Killed, AfterDns, Move
    <3>6. CASE Unreachable
      BY <3>6 DEF Unreachable, outside
    <3> QED
      BY <1>1, <3>1, <3>2, <3>3, <3>4, <3>5, <3>6 DEF SagaStep
  <2> QED
    BY <2>1, <2>2 DEF PromotedInv, InForce, Works
<1>3. CASE Obey
  <2>1. PICK op \in asked : BeginProfile(op) \/ Settle(op) \/ BeginCode(op)
    BY <1>3 DEF Obey
  <2>2. SUFFICES ASSUME at = "activate", reply' = "ok", reply # "ok"
                 PROVE  PromotedInv'
    BY <1>3, <1>q, <2>1 DEF Obey, Quiet, PromotedInv
  <2>3. op = "activate" /\ Settle(op) /\ Promotable /\ current = codeOf[profile]
    BY <2>1, <2>2 DEF BeginProfile, Onto, Undo, Settle, BeginCode, AtOnce, Answer
  <2>4. UNCHANGED hostVars /\ profile' = profile
    BY <1>3, <2>3 DEF Settle, Obey
  <2>5. InForce(profile) /\ guard[Main] = profile /\ profile \in Works
    BY <1>0, <2>3 DEF Promotable, GatePassed, DutyInv, Works, Ready
  <2> QED
    BY <2>3, <2>4, <2>5
       DEF PromotedInv, InForce, Works, hostVars, secureVars, links, marks, prior, services, codeVars,
           trees, pointers
<1>4. CASE Work
  <2>1. HostStep /\ UNCHANGED <<at, profile, vm>>
    BY <1>4 DEF Work, outside
  <2>2. SUFFICES ASSUME at = "activate", reply' = "ok", reply # "ok"
                 PROVE  PromotedInv'
    BY <1>q, <2>1, NobodyWorks DEF Quiet, PromotedInv
  <2>3. doing = "activate" /\ pc = "activate" /\ pc' = "idle"
    BY <1>4, <2>2 DEF Work, Answer, LastStep
  <2>4. Promote
    BY <2>1, <2>3, PromotionAlone DEF MachineInv
  <2>5. /\ rel = profile /\ InForce(profile) /\ Ready(codeOf[profile]) /\ guard[Main] = profile
        /\ script.code = codeOf[profile]
    BY <2>3 DEF MachineInv, CodeInv, DutyInv
  <2>6. /\ current' = script.code
        /\ UNCHANGED <<mode, receipt, dropin, guard, tunnelUnit, tunnelDropin, active, auth, boot, override,
                       run, tunnel, codeOf, tree>>
    BY <2>3, <2>4 DEF Promote, Goto, links, marks, prior, services, trees
  <2> QED
    BY <1>0, <2>1, <2>5, <2>6 DEF PromotedInv, InForce, Works, Ready
<1>5. CASE Breakdown
  <2>1. UNCHANGED <<at, profile, vm>> /\ (reply' = "ok" => reply = "ok")
    BY <1>5 DEF Breakdown, Answer, calls, outside
  <2>2. SUFFICES ASSUME Quiet, vm = "up", InForce(profile), current = codeOf[profile],
                        guard[Main] = profile, profile \in Works
                 PROVE  (InForce(profile) /\ current = codeOf[profile]
                          /\ guard[Main] = profile /\ profile \in Works)'
    BY <1>q, <2>1 DEF PromotedInv
  <2>3. (\E c \in Code : Drift(c)) \/ HostPowerLoss
    BY <1>5, <2>2, NobodyWorks DEF Breakdown, Quiet
  <2>4. ASSUME NEW c \in Code, Drift(c) PROVE (InForce(profile) /\ current = codeOf[profile]
                          /\ guard[Main] = profile /\ profile \in Works)'
    BY <1>0, <2>1, <2>2, <2>4
       DEF Drift, InForce, Works, trees, pointers, links, marks, prior, services
  <2>5. CASE HostPowerLoss
    BY <1>0, <2>1, <2>2, <2>5, PowerComesBack DEF DutyInv
  <2> QED
    BY <2>3, <2>4, <2>5
<1>6. CASE Preempted
  BY <1>6 DEF Preempted, PromotedInv
<1>7. CASE UNCHANGED deploymentVars
  BY <1>7 DEF deploymentVars, hostVars, secureVars, links, marks, prior, services, codeVars, trees,
              pointers, sagaVars, outside, calls, PromotedInv, InForce, Works
<1> QED
  BY <1>1, <1>3, <1>4, <1>5, <1>6, <1>7 DEF DeploymentNext, ByHand

\* SagaInv holds throughout.
SagaFacts == MachineInv /\ SagaInv

\* Every step keeps the saga's invariant.
LEMMA StepKeepsSaga ==
  ASSUME SagaFacts, [DeploymentNext]_deploymentVars
  PROVE  SagaInv'
<1>1. SagaTypes
  BY DEF SagaFacts, MachineInv, ProfileFacts, TypeInv, DeploymentTypeOK, SagaTypes
<1>2. PathInv'
  <2>1. CASE SagaStep
    BY <1>1, <2>1, StepsKeepHostname, StepsKeepDispatch, StepsKeepStagedFlag
       DEF SagaFacts, SagaInv, PathInv
  <2>2. CASE ~SagaStep
    BY <2>2, MachineKeepsPath DEF SagaFacts, SagaInv, DeploymentNext
  <2> QED
    BY <2>1, <2>2
<1>3. at' # "by-hand" => at # "by-hand"
  BY DEF DeploymentNext, ByHand, sagaVars, deploymentVars, SagaStep, SyncSecrets, VerifyContract, CreateVm,
         DeleteDns, CreateDns, RecreateDns, WaitTls, WaitReady, Enable, Finalize, Answered, TurnBack,
         GiveUp, UndoDns, UndoDispatch, Killed, Obey, Unreachable, Work, Breakdown, Preempted,
         RemoteStep, Ended, Onward
<1>4. ASSUME at # "by-hand" PROVE (CommandInv /\ DutyInv /\ UndoneInv /\ PromotedInv)'
  BY <1>2, <1>4, StepKeepsCommands, StepKeepsDuty, StepKeepsUndone, StepKeepsPromoted
     DEF SagaFacts, SagaInv
<1> QED
  BY <1>2, <1>3, <1>4 DEF SagaInv

\* It holds throughout.
LEMMA SagaAlways == DeploymentSpec => []SagaFacts
<1>1. ASSUME DeploymentInit PROVE SagaInv
  <2>1. HostMachine /\ Machine
    BY <1>1 DEF DeploymentInit, HostMachine
  <2>2. PathInv
    BY <1>1 DEF DeploymentInit, PathInv, HostnameInv, DispatchInv, StagedFlagInv, OnlyOurs,
                BeforePrepared, OncePrepared
  <2>3. ASSUME at # "by-hand" PROVE CommandInv /\ DutyInv /\ UndoneInv /\ PromotedInv
    <3>1. /\ at = "sync" /\ vm = "none" /\ mode = "first-install" /\ profile \in Release
          /\ ~Staged(profile) /\ asked = {} /\ doing = "none" /\ profileStaged = FALSE
          /\ pc = "idle" /\ script = Unlocked
      BY <1>1, <2>1, <2>3 DEF DeploymentInit, HostMachine, Machine
    <3>2. receipt[profile] = NoReceipt
      BY <2>1, <3>1, MachineHasProfile DEF ProfileInv, StagedInv
    <3> QED
      BY <3>1, <3>2 DEF CommandInv, Quiet, DutyInv, UndoneInv, PromotedInv, NoReceipt, OnwardThere, Undo
  <2> QED
    BY <2>2, <2>3 DEF SagaInv
<1>2. SagaFacts /\ [DeploymentNext]_deploymentVars => SagaInv'
  BY StepKeepsSaga
<1> QED
  BY <1>1, <1>2, MachineAlways, PTL DEF DeploymentSpec, SagaFacts

\* A deployment that reports success is in force: its profile cut over, its code
\* current, its hostname naming this machine alone, dispatch as it was to be, and
\* none of its commands still under way - for any number of faults on the way.
THEOREM SuccessIsReal == DeploymentSpec => []DoneIsInForce
<1>1. ASSUME SagaFacts PROVE DoneIsInForce
  <2>1. SUFFICES ASSUME at = "done", vm = "up"
                 PROVE  /\ InForce(profile) /\ current = codeOf[profile]
                        /\ OnlyOurs \/ mutation = "unchanged"
                        /\ dispatch = ~preserve
                        /\ asked = {} /\ pc = "idle"
    BY DEF DoneIsInForce
  <2>2. InForce(profile) /\ current = codeOf[profile]
    BY <1>1, <2>1 DEF SagaFacts, SagaInv, PromotedInv
  <2>3. OnlyOurs \/ mutation = "unchanged"
    BY <1>1, <2>1 DEF SagaFacts, SagaInv, PathInv, HostnameInv, OncePrepared
  <2>4. dispatch = ~preserve
    <3>1. dispatch <=> ~preserve
      BY <1>1, <2>1 DEF SagaFacts, SagaInv, PathInv, DispatchInv
    <3>2. dispatch \in BOOLEAN /\ preserve \in BOOLEAN
      BY <1>1 DEF SagaFacts, MachineInv, ProfileFacts, TypeInv, DeploymentTypeOK
    <3> QED
      BY <3>1, <3>2, Zenon
  <2>5. asked = {} /\ pc = "idle"
    BY <1>1, <2>1 DEF SagaFacts, SagaInv, CommandInv, OnwardHere, Quiet
  <2> QED
    BY <2>2, <2>3, <2>4, <2>5
<1> QED
  BY <1>1, SagaAlways, PTL

\* A deployment that failed, and none of whose compensations did, has left nothing:
\* whatever commands it gave up on still run, or run late.
THEOREM FailureIsUndone == DeploymentSpec => []FailedIsUndone
<1>1. ASSUME SagaFacts PROVE FailedIsUndone
  <2>1. SUFFICES ASSUME at = "failed", warned = {}
                 PROVE  /\ synced => ~dispatch
                        /\ mutation # "none" => dns = previousDns
                        /\ \A u \in Unit : run[u] # profile
                        /\ profile \notin boot
                        /\ ~envFile
    BY DEF FailedIsUndone
  <2>2. synced => ~dispatch
    BY <1>1, <2>1 DEF SagaFacts, SagaInv, PathInv, DispatchInv
  <2>3. mutation # "none" => dns = previousDns
    BY <1>1, <2>1 DEF SagaFacts, SagaInv, PathInv, HostnameInv
  <2>4. profile \notin boot /\ \A u \in Unit : run[u] # profile
    <3>1. profile \in Release /\ mode = "first-install"
      BY <1>1, <2>1 DEF SagaFacts, SagaInv, DutyInv, MachineInv, ProfileFacts, TypeInv, SagaHasProfile
    <3>2. receipt[profile].cutover = "none" \/ receipt[profile].rollback = "complete"
      BY <1>1, <2>1 DEF SagaFacts, SagaInv, UndoneInv, AfterUndo
    <3> QED
      BY <1>1, <3>1, <3>2 DEF SagaFacts, MachineInv, ProfileFacts, ProfileInv, UntriedInv, CleanInv
  <2>5. ~envFile
    BY <1>1, <2>1 DEF SagaFacts, SagaInv, PathInv, StagedFlagInv
  <2> QED
    BY <2>2, <2>3, <2>4, <2>5
<1> QED
  BY <1>1, SagaAlways, PTL

\* The backend is never told to dispatch to a machine whose profile is not in force
\* or whose code is not the current release.
THEOREM DispatchComesLast == DeploymentSpec => DispatchAfterPromotion
<1>1. ASSUME SagaFacts, [DeploymentNext]_deploymentVars, dispatch', ~dispatch, vm = "up"
      PROVE  InForce(profile) /\ current = codeOf[profile]
  <2>1. at = "enable"
    BY <1>1 DEF DeploymentNext, ByHand, sagaVars, outside, deploymentVars, SagaStep, SyncSecrets,
           VerifyContract, CreateVm, DeleteDns, CreateDns, RecreateDns, WaitTls, WaitReady, Enable, Finalize,
           Answered, TurnBack, GiveUp, Compensate, UndoDns, UndoDispatch, Killed, Obey, Unreachable, Work,
           Breakdown, Preempted
  <2> QED
    BY <1>1, <2>1 DEF SagaFacts, SagaInv, PromotedInv
<1>2. SagaFacts /\ [DeploymentNext]_deploymentVars
        => [dispatch' /\ ~dispatch /\ vm = "up" =>
              InForce(profile) /\ current = codeOf[profile]]_deploymentVars
  BY <1>1
<1> QED
  BY <1>2, SagaAlways, PTL DEF DeploymentSpec, DispatchAfterPromotion
===============================================================================
