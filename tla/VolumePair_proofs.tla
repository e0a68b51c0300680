--------------------------- MODULE VolumePair_proofs ---------------------------
(***************************************************************************)
(* What VolumePair does for any plans, machines, files and number of       *)
(* losses and attempts.  Two invariants carry the theorems: one relates    *)
(* the installation under way to the trees and files of the two volumes,   *)
(* the other relates the units to what runs and to the plan.               *)
(***************************************************************************)
EXTENDS VolumePair, TLAPS

TypeInv ==
  /\ PairTypeOK
  /\ step = "detached" => attempt < MaxAttempts

\* Steps of a pass that come after step x.
AfterReconcile ==
  {"residents", "bind", "wheels", "units", "kits", "vision", "audio", "staged"}
AfterResidents == AfterReconcile \ {"residents"}
AfterUnits == {"kits", "vision", "audio", "staged"}

\* The marker is not there while an installation is under way, and an installed
\* tree is what later steps find.  Nothing is mounted over a directory that is
\* not there, which holds no files, and nothing of a volume that is not formatted.
InstallInv ==
  /\ marker = "current" => comfyTree = "whole" /\ step \notin {"clone", "packages", "seed"}
  /\ step = "seed" => comfyTree = "whole"
  /\ step \in {"reconcile"} \cup (AfterReconcile \ {"staged"}) => comfyTree \in {"packages", "whole"}
  /\ comfyTree = "none" => onOs = {} /\ ~bound
  /\ cards = 0 => ~bound
  /\ bound \/ step \in {"clone", "packages", "seed"} => dataFs = "ext4"
  /\ dataFs = "blank" => \A f \in Asset : onData[f] = "absent"

\* A pass needs a machine, on which services run, or try to, that are enabled;
\* others do where systemctl took the link away and failed to stop them.
ServicesInv ==
  /\ step \in Remote \cup {"staged"} => cards > 0
  /\ cards > 0 => /\ \A c \in Card : comfyUnit[c] # "off" => comfyRuns[c] # "off"
                  /\ \A r \in Resident : pinned[r] # NoCard => residentRuns[r] # "off"
  /\ workersRun \subseteq workerUnit
  /\ cards = 0 => workersRun = {}

\* A server that is enabled or runs.
HasResident(r) == pinned[r] # NoCard \/ residentRuns[r] # "off"

\* What is enabled or runs follows the plan, as far as the pass has come, but for
\* what it could not put away.
PlanInv ==
  /\ step \in AfterReconcile =>
       /\ \A c \in Card : HasComfy(c) => RunsComfy(c) \/ c \in missed.comfy
       /\ \A c \in workerUnit : HasWorker(c) \/ c \in missed.worker
  /\ step \in AfterResidents =>
       \A r \in Resident : HasResident(r) => Wanted(r) \/ r \in missed.resident
  /\ step \in AfterUnits =>
       \A c \in Card : RunsComfy(c) => comfyUnit[c] = RootOf[Dept(c)]

PairInv == TypeInv /\ InstallInv /\ ServicesInv /\ PlanInv

USE PairAssumption DEF PairAssumption

-----------------------------------------------------------------------------
(* Types                                                                   *)

\* A department that runs ComfyUI has a root.
LEMMA RootOfComfy ==
  ASSUME NEW c, RunsComfy(c)
  PROVE  RootOf[Dept(c)] \in Root
BY DEF RunsComfy, RootOf, Root

\* The card of a department with a resident server is a card.
LEMMA OwnCardIsCard ==
  ASSUME NEW r, OwnCard(r) # {}
  PROVE  /\ (CHOOSE c \in Card : c \in OwnCard(r)) \in OwnCard(r)
         /\ OwnCard(r) \subseteq Card
         /\ NoCard \notin Card
BY DEF OwnCard, Card, NoCard

\* What a boot leaves is of the right types.
LEMMA BootsTypes ==
  ASSUME TypeInv, NEW n \in 0 .. MaxCards, NEW k \in Cuda, Boots(n, k), workerUnit' \subseteq Card
  PROVE  /\ cards' \in 0 .. MaxCards /\ cuda' \in Cuda /\ bound' \in BOOLEAN
         /\ comfyRuns' \in [Card -> Root \cup {"off", "looping"}]
         /\ residentRuns' \in [Resident -> {"off", "up", "looping"}]
         /\ workersRun' \subseteq Card
<1>1. cards' \in 0 .. MaxCards /\ cuda' \in Cuda /\ bound' \in BOOLEAN
  BY DEF Boots
<1>2. comfyRuns' \in [Card -> Root \cup {"off", "looping"}]
  BY DEF Boots
<1>3. residentRuns' \in [Resident -> {"off", "up", "looping"}] /\ workersRun' \subseteq Card
  BY DEF Boots
<1> QED
  BY <1>1, <1>2, <1>3

\* So is what remains when the machine is gone.
LEMMA GoneTypes ==
  ASSUME TypeInv, Gone
  PROVE  /\ cards' \in 0 .. MaxCards /\ cuda' \in Cuda /\ bound' \in BOOLEAN
         /\ comfyRuns' \in [Card -> Root \cup {"off", "looping"}]
         /\ residentRuns' \in [Resident -> {"off", "up", "looping"}]
         /\ workersRun' \subseteq Card
         /\ missed' = NoneMissed /\ UNCHANGED <<plan, caps, attempt>>
<1>1. cards' \in 0 .. MaxCards
  BY DEF Gone
<1> QED
  BY <1>1 DEF Gone, TypeInv, PairTypeOK, deployment

\* The steps of a deploy keep the types.
LEMMA DeployTypes ==
  ASSUME TypeInv, Deploy
  PROVE  TypeInv'
<1> USE DEF TypeInv, PairTypeOK, dataVolume, osVolume, machine, deployment, Over, Detached, NoneMissed
<1>1. ASSUME NEW p \in Plan, NEW w \in Broadcast, NEW n \in 1 .. MaxCards, NEW k \in Cuda,
             Boot(p, w, n, k) \/ FreshBoot(p, w, n, k)
      PROVE  TypeInv'
  <2>1. Boots(n, k) /\ UNCHANGED <<dataVolume, osVolume>> /\ n \in 0 .. MaxCards
    BY <1>1 DEF Boot, FreshBoot
  <2>2. 1 \in 1 .. MaxAttempts
    OBVIOUS
  <2> QED
    BY <1>1, <2>1, <2>2, BootsTypes DEF Boot, FreshBoot, Remote
<1>2. ASSUME NEW p \in Plan, NEW w \in Broadcast, Resume(p, w) \/ FreshResume(p, w)
      PROVE  TypeInv'
  BY <1>2 DEF Resume, FreshResume, Remote
<1>3. CASE ProbePair
  BY <1>3 DEF ProbePair, Remote
<1>4. ASSUME NEW n \in 1 .. MaxCards, NEW k \in Cuda, Retry(n, k)
      PROVE  TypeInv'
  <2>1. Boots(n, k) /\ UNCHANGED <<dataVolume, osVolume>> /\ n \in 0 .. MaxCards
    BY <1>4 DEF Retry
  <2>2. attempt + 1 \in 1 .. MaxAttempts
    BY <1>4 DEF Retry
  <2> QED
    BY <1>4, <2>1, <2>2, BootsTypes DEF Retry, Remote
<1>5. CASE RetryGivesUp
  BY <1>5 DEF RetryGivesUp
<1> QED
  BY <1>1, <1>2, <1>3, <1>4, <1>5 DEF Deploy

\* The steps of the installer keep the types.
LEMMA BootstrapTypes ==
  ASSUME TypeInv, Bootstrap
  PROVE  TypeInv'
<1> USE DEF TypeInv, PairTypeOK, dataVolume, osVolume, machine, deployment, Remote
<1>1. CASE PrepareVolume
  BY <1>1 DEF PrepareVolume
<1>2. CASE CloneComfy
  BY <1>2 DEF CloneComfy
<1>3. ASSUME NEW k \in Cuda, InstallPackages(k)
      PROVE  TypeInv'
  BY <1>3 DEF InstallPackages
<1>4. ASSUME NEW f \in Asset, CopyFile(f)
      PROVE  TypeInv'
  BY <1>4 DEF CopyFile
<1>5. CASE SeedVolume
  <2>1. onData' \in [Asset -> {"absent", "cut", "whole"}] /\ onOs' \subseteq Asset
    BY <1>5 DEF SeedVolume
  <2> QED
    BY <1>5, <2>1 DEF SeedVolume
<1> QED
  BY <1>1, <1>2, <1>3, <1>4, <1>5 DEF Bootstrap

\* What a server that is rewritten is left with.
LEMMA ServeTypes ==
  ASSUME TypeInv, NEW set \in SUBSET Resident, Serve(set),
         \A r \in set : OwnCard(r) # {}
  PROVE  /\ pinned' \in [Resident -> Card \cup {NoCard}]
         /\ residentRuns' \in [Resident -> {"off", "up", "looping"}]
         /\ \A r \in set : pinned'[r] \in OwnCard(r) /\ pinned'[r] # NoCard
                           /\ residentRuns'[r] # "off"
         /\ \A r \in Resident \ set : /\ pinned'[r] = pinned[r]
                                      /\ residentRuns'[r] = residentRuns[r]
<1> USE DEF TypeInv, PairTypeOK
<1>1. pinned' = [r \in Resident |->
                   IF r \in set THEN CHOOSE c \in Card : c \in OwnCard(r) ELSE pinned[r]]
  BY DEF Serve
<1>2. \A r \in set : /\ (CHOOSE c \in Card : c \in OwnCard(r)) \in OwnCard(r)
                     /\ OwnCard(r) \subseteq Card /\ NoCard \notin Card
  BY OwnCardIsCard
<1>3. PICK how \in [set -> {"up", "looping"}] :
        residentRuns' = [r \in Resident |-> IF r \in set THEN how[r] ELSE residentRuns[r]]
  BY DEF Serve
<1> HIDE DEF OwnCard, Card, NoCard
<1>4. \A r \in set : pinned'[r] \in OwnCard(r) /\ pinned'[r] \in Card /\ pinned'[r] # NoCard
  BY <1>1, <1>2
<1>5. pinned' \in [Resident -> Card \cup {NoCard}]
  BY <1>1, <1>2
<1> QED
  BY <1>1, <1>3, <1>4, <1>5

\* Vision and audio serve a set of residents with a card of their department.
LEMMA Served ==
  ASSUME StartVision \/ SetUpAudio
  PROVE  \E set \in SUBSET Resident : Serve(set) /\ \A r \in set : OwnCard(r) # {}
<1>1. CASE StartVision
  BY <1>1 DEF StartVision
<1>2. CASE SetUpAudio
  <2>1. OwnCard("parler") = OwnCard("sa3")
    BY DEF OwnCard, Home
  <2>2. PICK set \in {{}, {"parler"} \cap Resident, {"parler", "sa3"} \cap Resident} :
          (set # {} => OwnCard("parler") # {}) /\ Serve(set)
    BY <1>2 DEF SetUpAudio
  <2> QED
    BY <2>1, <2>2
<1> QED
  BY <1>1, <1>2

Units == [comfy : SUBSET Card, worker : SUBSET Card, resident : SUBSET Resident]

\* A unit of a card that is left behind is one more of its kind.
LEMMA OneMore ==
  ASSUME missed \in Units, NEW c \in Card
  PROVE  /\ [missed EXCEPT !.comfy = @ \cup {c}] \in Units
         /\ [missed EXCEPT !.worker = @ \cup {c}] \in Units
BY DEF Units

\* systemctl fails to disable a card's ComfyUI.
LEMMA DisableComfyFailsTypes ==
  ASSUME TypeInv, NEW c \in Card, DisableComfyFails(c)
  PROVE  TypeInv'
<1>1. comfyUnit' \in [Card -> Root \cup {"off"}]
  BY DEF DisableComfyFails, TypeInv, PairTypeOK
<1>2. missed' \in Units
  BY OneMore DEF DisableComfyFails, TypeInv, PairTypeOK, Units
<1>3. UNCHANGED <<dataVolume, comfyTree, wheels, onOs, workerUnit, pinned, machine,
                  step, deployment, attempt, losses>>
  BY DEF DisableComfyFails
<1> QED
  BY <1>1, <1>2, <1>3
     DEF TypeInv, PairTypeOK, Units, dataVolume, machine, deployment

\* systemctl fails to disable a card's worker.
LEMMA DisableWorkerFailsTypes ==
  ASSUME TypeInv, NEW c \in Card, DisableWorkerFails(c)
  PROVE  TypeInv'
<1>1. missed' \in Units
  BY OneMore DEF DisableWorkerFails, TypeInv, PairTypeOK, Units
<1>2. UNCHANGED <<dataVolume, osVolume, machine, step, deployment, attempt, losses>>
  BY DEF DisableWorkerFails
<1> QED
  BY <1>1, <1>2 DEF TypeInv, PairTypeOK, Units, dataVolume, osVolume, machine, deployment

\* The steps of the rehydration keep the types.
LEMMA RehydrateTypes ==
  ASSUME TypeInv, Rehydrate
  PROVE  TypeInv'
<1> USE DEF TypeInv, PairTypeOK, dataVolume, osVolume, machine, deployment, Remote, Over
<1>1. ASSUME NEW c \in Card, \/ DisableComfy(c) \/ DisableComfyFails(c)
                             \/ DisableWorker(c) \/ DisableWorkerFails(c)
      PROVE  TypeInv'
  <2>1. CASE DisableComfy(c)
    BY <2>1 DEF DisableComfy
  <2>2. CASE DisableWorker(c)
    BY <2>2 DEF DisableWorker
  <2> QED
    BY <1>1, <2>1, <2>2, DisableComfyFailsTypes, DisableWorkerFailsTypes
<1>2. ASSUME NEW c \in Card, EnableComfy(c)
      PROVE  TypeInv'
  <2>1. RootOf[Dept(c)] \in Root
    BY <1>2, RootOfComfy DEF EnableComfy
  <2>2. /\ comfyUnit' \in [Card -> Root \cup {"off"}]
        /\ comfyRuns' \in [Card -> Root \cup {"off", "looping"}]
    BY <1>2, <2>1 DEF EnableComfy
  <2> QED
    BY <1>2, <2>2 DEF EnableComfy
<1>3. CASE Reconciled \/ UnitsEnabled \/ SkipKits
  <2>1. /\ UNCHANGED <<dataVolume, osVolume, machine, missed, deployment, attempt, losses>>
        /\ step' \in {"residents", "kits", "vision"}
    BY <1>3 DEF Reconciled, UnitsEnabled, SkipKits
  <2> QED
    BY <2>1
<1>4. CASE StopResidents
  BY <1>4 DEF StopResidents
<1>5. CASE BindAssets \/ RepairWheels
  <2>1. CASE BindAssets
    BY <2>1 DEF BindAssets
  <2>2. CASE RepairWheels
    BY <2>2 DEF RepairWheels
  <2> QED
    BY <1>5, <2>1, <2>2
<1>6. CASE ProvisionKits
  <2>1. comfyRuns' \in [Card -> Root \cup {"off", "looping"}]
    BY <1>6 DEF ProvisionKits
  <2> QED
    BY <1>6, <2>1 DEF ProvisionKits
<1>7. CASE StartVision \/ SetUpAudio
  <2>1. PICK set \in SUBSET Resident : Serve(set) /\ \A r \in set : OwnCard(r) # {}
    BY <1>7, Served
  <2>2. /\ pinned' \in [Resident -> Card \cup {NoCard}]
        /\ residentRuns' \in [Resident -> {"off", "up", "looping"}]
    BY <2>1, ServeTypes
  <2>3. step' \in {"audio", "staged"}
    BY <1>7 DEF StartVision, SetUpAudio
  <2> QED
    BY <2>1, <2>2, <2>3 DEF Serve
<1> QED
  BY <1>1, <1>2, <1>3, <1>4, <1>5, <1>6, <1>7 DEF Rehydrate

\* What else happens on the machine keeps the types.
LEMMA SurroundingsTypes ==
  ASSUME TypeInv, Surroundings
  PROVE  TypeInv'
<1> USE DEF TypeInv, PairTypeOK, dataVolume, osVolume, machine, deployment, Over
<1>1. ASSUME NEW c \in Card, ComfyRecovers(c) \/ RetireWorker(c)
      PROVE  TypeInv'
  <2>1. CASE ComfyRecovers(c)
    BY <2>1 DEF ComfyRecovers
  <2>2. CASE RetireWorker(c)
    BY <2>2 DEF RetireWorker
  <2> QED
    BY <1>1, <2>1, <2>2
<1>2. ASSUME NEW r \in Resident, ResidentRecovers(r)
      PROVE  TypeInv'
  BY <1>2 DEF ResidentRecovers
<1>3. ASSUME NEW f \in Asset, WorkerWrites(f)
      PROVE  TypeInv'
  BY <1>3 DEF WorkerWrites
<1>4. CASE CutOver
  BY <1>4 DEF CutOver
<1> QED
  BY <1>1, <1>2, <1>3, <1>4 DEF Surroundings

\* A step that is cut short keeps the types of the volumes and the links of
\* units.
LEMMA TornTypes ==
  ASSUME TypeInv, Torn \/ TornClone
  PROVE  /\ dataFs' = dataFs /\ marker' = marker
         /\ onData' \in [Asset -> {"absent", "cut", "whole"}]
         /\ comfyTree' \in {"none", "partial", "source", "packages", "whole"}
         /\ wheels' \in Cuda \cup {0} /\ onOs' \subseteq Asset
         /\ comfyUnit' = comfyUnit /\ workerUnit' = workerUnit /\ pinned' = pinned
BY DEF TypeInv, PairTypeOK, Torn, TornClone, dataVolume, osVolume

\* Faults keep the types.
LEMMA FaultTypes ==
  ASSUME TypeInv, Faults
  PROVE  TypeInv'
<1> USE DEF TypeInv, PairTypeOK
<1>1. CASE PassFails
  BY <1>1, TornTypes DEF PassFails, machine, deployment, NoneMissed, Over
<1>2. CASE Preempt
  <2>1. losses' \in 0 .. MaxLosses
    BY <1>2 DEF Preempt, Loss
  <2>2. Gone /\ (Torn \/ TornClone)
    BY <1>2 DEF Preempt
  <2>3. step' \in {"detached", "idle"} /\ (step' = "detached" => attempt < MaxAttempts)
    BY <1>2 DEF Preempt
  <2>4. step' \in Remote \cup Over \cup {"detached"}
    BY <2>3 DEF Over
  <2>5. step' = "detached" => attempt' < MaxAttempts
    BY <2>2, <2>3, GoneTypes
  <2>6. PairTypeOK'
    <3>1. /\ dataFs' \in {"blank", "unknown", "ext4"} /\ marker' \in {"none", "current", "stale"}
          /\ onData' \in [Asset -> {"absent", "cut", "whole"}]
          /\ comfyTree' \in {"none", "partial", "source", "packages", "whole"}
          /\ wheels' \in Cuda \cup {0} /\ onOs' \subseteq Asset
      BY <2>2, TornTypes
    <3>2. UNCHANGED <<comfyUnit, workerUnit, pinned>>
      BY <2>2, TornTypes
    <3>3. /\ cards' \in 0 .. MaxCards /\ cuda' \in Cuda /\ bound' \in BOOLEAN
          /\ comfyRuns' \in [Card -> Root \cup {"off", "looping"}]
          /\ residentRuns' \in [Resident -> {"off", "up", "looping"}]
          /\ workersRun' \subseteq Card
          /\ missed' = NoneMissed /\ UNCHANGED <<plan, caps, attempt>>
      BY <2>2, GoneTypes
    <3> QED
      BY <2>1, <2>4, <3>1, <3>2, <3>3 DEF NoneMissed
  <2> QED
    BY <2>5, <2>6
<1>3. CASE Reboot
  <2>1. losses' \in 0 .. MaxLosses
    BY <1>3 DEF Reboot, Loss
  <2>2. Boots(cards, cuda) /\ (Torn \/ TornClone)
    BY <1>3 DEF Reboot
  <2> QED
    BY <1>3, <2>1, <2>2, TornTypes, BootsTypes DEF Reboot, deployment, NoneMissed, Over
<1>4. CASE DeleteVm
  BY <1>4, GoneTypes DEF DeleteVm, Over, dataVolume, osVolume, NoneMissed
<1>5. CASE SwapOs
  BY <1>5 DEF SwapOs, Loss, Over, machine, deployment, NoCard
<1>6. CASE SwapData
  BY <1>6 DEF SwapData, Loss, Over, machine, deployment, osVolume
<1> QED
  BY <1>1, <1>2, <1>3, <1>4, <1>5, <1>6 DEF Faults

\* No step breaks the types.
LEMMA TypesAreKept ==
  ASSUME TypeInv, [PairNext]_pairVars
  PROVE  TypeInv'
<1>1. CASE UNCHANGED pairVars
  BY <1>1 DEF TypeInv, PairTypeOK, pairVars, dataVolume, osVolume, machine, deployment
<1> QED
  BY <1>1, DeployTypes, BootstrapTypes, RehydrateTypes, SurroundingsTypes, FaultTypes
     DEF PairNext

-----------------------------------------------------------------------------
(* The installation                                                        *)

\* The steps of a deploy begin with the volumes as they are.
LEMMA DeployKeepsInstall ==
  ASSUME TypeInv, InstallInv, Deploy
  PROVE  InstallInv'
<1> USE DEF InstallInv, AfterReconcile, dataVolume, osVolume, machine, deployment
<1>1. ASSUME NEW p \in Plan, NEW w \in Broadcast, NEW n \in 1 .. MaxCards, NEW k \in Cuda,
             Boot(p, w, n, k) \/ FreshBoot(p, w, n, k)
      PROVE  InstallInv'
  BY <1>1 DEF Boot, FreshBoot, Boots
<1>2. ASSUME NEW p \in Plan, NEW w \in Broadcast, Resume(p, w) \/ FreshResume(p, w)
      PROVE  InstallInv'
  BY <1>2 DEF Resume, FreshResume
<1>3. CASE ProbePair
  BY <1>3 DEF ProbePair, NeedsBootstrap, ComfyReady
<1>4. ASSUME NEW n \in 1 .. MaxCards, NEW k \in Cuda, Retry(n, k)
      PROVE  InstallInv'
  BY <1>4 DEF Retry, Boots
<1>5. CASE RetryGivesUp
  BY <1>5 DEF RetryGivesUp
<1> QED
  BY <1>1, <1>2, <1>3, <1>4, <1>5 DEF Deploy

\* The installer removes the marker first and writes it last.
LEMMA BootstrapKeepsInstall ==
  ASSUME TypeInv, InstallInv, ServicesInv, Bootstrap
  PROVE  InstallInv'
<1> USE DEF InstallInv, AfterReconcile, dataVolume, osVolume, machine, deployment
<1>1. CASE PrepareVolume
  BY <1>1 DEF PrepareVolume
<1>2. CASE CloneComfy
  BY <1>2 DEF CloneComfy, TypeInv, PairTypeOK
<1>3. ASSUME NEW k \in Cuda, InstallPackages(k)
      PROVE  InstallInv'
  BY <1>3 DEF InstallPackages
<1>4. ASSUME NEW f \in Asset, CopyFile(f)
      PROVE  InstallInv'
  BY <1>4 DEF CopyFile
<1>5. CASE SeedVolume
  <2>1. cards > 0
    BY <1>5 DEF SeedVolume, ServicesInv, Remote
  <2>2. dataFs = "blank" => \A f \in Asset : onData'[f] = "absent"
    BY <1>5 DEF SeedVolume, Copied, TypeInv, PairTypeOK
  <2> QED
    BY <1>5, <2>1, <2>2 DEF SeedVolume
<1> QED
  BY <1>1, <1>2, <1>3, <1>4, <1>5 DEF Bootstrap

\* The rehydration leaves the trees alone and mounts over directories that are
\* there.
LEMMA RehydrateKeepsInstall ==
  ASSUME TypeInv, InstallInv, ServicesInv, Rehydrate
  PROVE  InstallInv'
<1> USE DEF InstallInv, AfterReconcile, dataVolume, osVolume, machine, deployment
<1>1. CASE BindAssets
  <2>1. cards > 0
    BY <1>1 DEF BindAssets, ServicesInv, Remote
  <2> QED
    BY <1>1, <2>1 DEF BindAssets
<1>2. CASE RepairWheels
  BY <1>2 DEF RepairWheels
<1>3. ASSUME UNCHANGED <<dataFs, marker, onData, comfyTree, onOs, cards, bound>>,
             \/ step' = step
             \/ step \in {"reconcile"} \cup (AfterReconcile \ {"staged"}) /\ step' \in AfterReconcile
      PROVE  InstallInv'
  BY <1>3
<1>4. ASSUME NEW c \in Card, \/ DisableComfy(c) \/ DisableComfyFails(c) \/ DisableWorker(c)
                             \/ DisableWorkerFails(c) \/ EnableComfy(c)
      PROVE  InstallInv'
  BY <1>3, <1>4
     DEF DisableComfy, DisableComfyFails, DisableWorker, DisableWorkerFails, EnableComfy
<1>5. CASE Reconciled \/ StopResidents \/ UnitsEnabled \/ SkipKits \/ ProvisionKits
  BY <1>3, <1>5 DEF Reconciled, StopResidents, UnitsEnabled, SkipKits, ProvisionKits
<1>6. CASE StartVision \/ SetUpAudio
  BY <1>3, <1>6 DEF StartVision, SetUpAudio, Serve
<1> QED
  BY <1>1, <1>2, <1>4, <1>5, <1>6 DEF Rehydrate

\* Workers write to a tree that is there.
LEMMA SurroundingsKeepInstall ==
  ASSUME TypeInv, InstallInv, ServicesInv, Surroundings
  PROVE  InstallInv'
<1> USE DEF InstallInv, AfterReconcile, dataVolume, osVolume, machine, deployment
<1>1. ASSUME NEW c \in Card, ComfyRecovers(c) \/ RetireWorker(c)
      PROVE  InstallInv'
  BY <1>1 DEF ComfyRecovers, RetireWorker
<1>2. ASSUME NEW r \in Resident, ResidentRecovers(r)
      PROVE  InstallInv'
  BY <1>2 DEF ResidentRecovers
<1>3. ASSUME NEW f \in Asset, WorkerWrites(f)
      PROVE  InstallInv'
  BY <1>3 DEF WorkerWrites
<1>4. CASE CutOver
  BY <1>4 DEF CutOver
<1> QED
  BY <1>1, <1>2, <1>3, <1>4 DEF Surroundings

\* Wherever a pass ends, what is left does not pass for an installation of this
\* pass that got through.
LEMMA TornKeepsInstall ==
  ASSUME TypeInv, InstallInv, Torn \/ TornClone
  PROVE  /\ marker' = "current" => comfyTree' = "whole" /\ step \notin {"clone", "packages", "seed"}
         /\ comfyTree' = "none" => onOs' = {} /\ ~bound
         /\ dataFs' = dataFs
         /\ dataFs' = "blank" => \A f \in Asset : onData'[f] = "absent"
<1> USE DEF InstallInv
<1>1. CASE TornClone
  BY <1>1 DEF TornClone, dataVolume
<1>2. CASE Torn
  BY <1>2 DEF Torn, dataVolume, osVolume
<1> QED
  BY <1>1, <1>2

\* So faults keep it.
LEMMA FaultsKeepInstall ==
  ASSUME TypeInv, InstallInv, Faults
  PROVE  InstallInv'
<1> USE DEF InstallInv, AfterReconcile
<1>1. CASE PassFails
  BY <1>1, TornKeepsInstall DEF PassFails, machine
<1>2. CASE Preempt
  BY <1>2, TornKeepsInstall DEF Preempt, Gone
<1>3. CASE Reboot
  BY <1>3, TornKeepsInstall DEF Reboot, Boots
<1>4. CASE DeleteVm
  BY <1>4 DEF DeleteVm, Gone, dataVolume, osVolume
<1>5. CASE SwapOs
  BY <1>5 DEF SwapOs, Detached, machine
<1>6. CASE SwapData
  BY <1>6 DEF SwapData, Detached, osVolume, machine
<1> QED
  BY <1>1, <1>2, <1>3, <1>4, <1>5, <1>6 DEF Faults

\* No step breaks the invariant of the installation.
LEMMA InstallIsKept ==
  ASSUME TypeInv, InstallInv, ServicesInv, [PairNext]_pairVars
  PROVE  InstallInv'
<1>1. CASE UNCHANGED pairVars
  BY <1>1 DEF InstallInv, pairVars, dataVolume, osVolume, machine, deployment
<1> QED
  BY <1>1, DeployKeepsInstall, BootstrapKeepsInstall, RehydrateKeepsInstall,
     SurroundingsKeepInstall, FaultsKeepInstall
     DEF PairNext

-----------------------------------------------------------------------------
(* Services and the plan                                                   *)

\* A machine that boots runs, or tries to, what is enabled.
LEMMA BootsServices ==
  ASSUME NEW n, NEW k, Boots(n, k)
  PROVE  /\ cards' = n
         /\ \A c \in Card : comfyRuns'[c] = "off" <=> comfyUnit'[c] = "off"
         /\ \A r \in Resident : residentRuns'[r] = "off" <=> pinned'[r] = NoCard
         /\ workersRun' \subseteq workerUnit'
BY DEF Boots

\* A step that changes neither the machine nor its units, and lets a pass go on
\* only where there is a machine, keeps their relation.
LEMMA SameServices ==
  ASSUME ServicesInv, step' \in Remote \cup {"staged"} => cards > 0,
         UNCHANGED <<comfyUnit, workerUnit, pinned, cards, comfyRuns, workersRun, residentRuns>>
  PROVE  ServicesInv'
BY DEF ServicesInv

\* The steps of a deploy keep the relation of units and services.
LEMMA DeployKeepsServices ==
  ASSUME TypeInv, ServicesInv, Deploy
  PROVE  ServicesInv'
<1> USE DEF dataVolume, osVolume, machine, deployment
<1>1. ASSUME NEW p \in Plan, NEW w \in Broadcast, NEW n \in 1 .. MaxCards, NEW k \in Cuda,
             Boot(p, w, n, k) \/ FreshBoot(p, w, n, k)
      PROVE  ServicesInv'
  BY <1>1, BootsServices DEF Boot, FreshBoot, ServicesInv
<1>2. ASSUME NEW p \in Plan, NEW w \in Broadcast, Resume(p, w) \/ FreshResume(p, w)
      PROVE  ServicesInv'
  BY <1>2, SameServices DEF Resume, FreshResume, Detached, TypeInv, PairTypeOK
<1>3. CASE ProbePair
  BY <1>3, SameServices DEF ProbePair, ServicesInv, Remote
<1>4. ASSUME NEW n \in 1 .. MaxCards, NEW k \in Cuda, Retry(n, k)
      PROVE  ServicesInv'
  BY <1>4, BootsServices DEF Retry, ServicesInv
<1>5. CASE RetryGivesUp
  BY <1>5, SameServices DEF RetryGivesUp, Remote
<1> QED
  BY <1>1, <1>2, <1>3, <1>4, <1>5 DEF Deploy

\* The installer touches no service.
LEMMA BootstrapKeepsServices ==
  ASSUME ServicesInv, Bootstrap
  PROVE  ServicesInv'
<1>1. step \in Remote
  BY DEF Bootstrap, PrepareVolume, CloneComfy, InstallPackages, CopyFile, SeedVolume, Remote
<1>2. UNCHANGED <<comfyUnit, workerUnit, pinned, cards, comfyRuns, workersRun, residentRuns>>
  BY DEF Bootstrap, PrepareVolume, CloneComfy, InstallPackages, CopyFile, SeedVolume,
         dataVolume, osVolume, machine, deployment
<1> QED
  BY <1>1, <1>2, SameServices DEF ServicesInv

\* What the rehydration enables it starts, and what it disables it stops.
LEMMA RehydrateKeepsServices ==
  ASSUME TypeInv, ServicesInv, PlanInv, Rehydrate
  PROVE  ServicesInv'
<1> USE DEF dataVolume, osVolume, machine, deployment
<1>1. ASSUME NEW c \in Card, DisableComfy(c) \/ DisableComfyFails(c)
      PROVE  ServicesInv'
  <2>1. /\ UNCHANGED <<cards, pinned, residentRuns, workerUnit, workersRun, step>>
        /\ \A d \in Card : \/ comfyUnit'[d] = "off"
                           \/ comfyUnit'[d] = comfyUnit[d] /\ comfyRuns'[d] = comfyRuns[d]
    BY <1>1 DEF DisableComfy, DisableComfyFails, TypeInv, PairTypeOK
  <2> QED
    BY <2>1 DEF ServicesInv
<1>2. ASSUME NEW c \in Card, DisableWorker(c) \/ DisableWorkerFails(c)
      PROVE  ServicesInv'
  BY <1>2 DEF DisableWorker, DisableWorkerFails, ServicesInv
<1>3. ASSUME NEW c \in Card, EnableComfy(c)
      PROVE  ServicesInv'
  <2>1. RootOf[Dept(c)] \in Root
    BY <1>3, RootOfComfy DEF EnableComfy
  <2>2. /\ comfyUnit'[c] # "off" /\ comfyRuns'[c] # "off"
        /\ \A d \in Card \ {c} : comfyUnit'[d] = comfyUnit[d] /\ comfyRuns'[d] = comfyRuns[d]
    BY <1>3, <2>1 DEF EnableComfy, TypeInv, PairTypeOK, Root
  <2> QED
    BY <1>3, <2>2 DEF EnableComfy, ServicesInv
<1>4. CASE Reconciled \/ BindAssets \/ RepairWheels \/ UnitsEnabled \/ SkipKits
  BY <1>4, SameServices
     DEF Reconciled, BindAssets, RepairWheels, UnitsEnabled, SkipKits, ServicesInv, Remote
<1>5. CASE StopResidents
  <2>1. /\ UNCHANGED <<cards, comfyUnit, comfyRuns, workerUnit, workersRun>>
        /\ step = "residents" /\ step' = "bind"
    BY <1>5 DEF StopResidents
  <2>2. ASSUME NEW r \in Resident, pinned'[r] # NoCard
        PROVE  residentRuns'[r] # "off"
    <3>1. pinned[r] # NoCard /\ residentRuns'[r] = residentRuns[r]
      BY <1>5, <2>2 DEF StopResidents
    <3> QED
      BY <2>1, <3>1 DEF ServicesInv, Remote
  <2> QED
    BY <2>1, <2>2 DEF ServicesInv, Remote
<1>6. CASE ProvisionKits
  <2>1. \A c \in Card : RunsComfy(c) => comfyUnit[c] # "off"
    BY <1>6, RootOfComfy DEF ProvisionKits, PlanInv, AfterUnits, Root
  <2> QED
    BY <1>6, <2>1 DEF ProvisionKits, ServicesInv, Remote
<1>7. CASE StartVision \/ SetUpAudio
  <2>1. PICK set \in SUBSET Resident : Serve(set) /\ \A r \in set : OwnCard(r) # {}
    BY <1>7, Served
  <2>2. /\ \A r \in set : pinned'[r] # NoCard /\ residentRuns'[r] # "off"
        /\ \A r \in Resident \ set : pinned'[r] = pinned[r] /\ residentRuns'[r] = residentRuns[r]
    BY <2>1, ServeTypes
  <2>3. UNCHANGED <<cards, comfyUnit, comfyRuns, workerUnit, workersRun>>
    BY <2>1 DEF Serve
  <2>4. cards > 0
    BY <1>7 DEF StartVision, SetUpAudio, ServicesInv, Remote
  <2> QED
    BY <2>2, <2>3, <2>4 DEF ServicesInv
<1> QED
  BY <1>1, <1>2, <1>3, <1>4, <1>5, <1>6, <1>7 DEF Rehydrate

\* A service that recovers runs as its unit says; workers stop before their
\* units are disabled.
LEMMA SurroundingsKeepServices ==
  ASSUME TypeInv, ServicesInv, Surroundings
  PROVE  ServicesInv'
<1> USE DEF dataVolume, osVolume, machine, deployment
<1>1. ASSUME NEW c \in Card, ComfyRecovers(c)
      PROVE  ServicesInv'
  BY <1>1 DEF ComfyRecovers, ServicesInv, TypeInv, PairTypeOK, Card
<1>2. ASSUME NEW c \in Card, RetireWorker(c)
      PROVE  ServicesInv'
  BY <1>2 DEF RetireWorker, ServicesInv
<1>3. ASSUME NEW r \in Resident, ResidentRecovers(r)
      PROVE  ServicesInv'
  BY <1>3 DEF ResidentRecovers, ServicesInv, TypeInv, PairTypeOK
<1>4. ASSUME NEW f \in Asset, WorkerWrites(f)
      PROVE  ServicesInv'
  BY <1>4 DEF WorkerWrites, ServicesInv
<1>5. CASE CutOver
  BY <1>5 DEF CutOver, ServicesInv
<1> QED
  BY <1>1, <1>2, <1>3, <1>4, <1>5 DEF Surroundings

\* Faults start a machine as a whole or end it as a whole.
LEMMA FaultsKeepServices ==
  ASSUME TypeInv, ServicesInv, Faults
  PROVE  ServicesInv'
<1>1. CASE PassFails
  BY <1>1, SameServices, TornTypes DEF PassFails, machine, Remote
<1>2. CASE Preempt \/ DeleteVm
  BY <1>2 DEF Preempt, DeleteVm, Gone, ServicesInv, Remote
<1>3. CASE Reboot
  BY <1>3, BootsServices DEF Reboot, ServicesInv, TypeInv, PairTypeOK
<1>4. CASE SwapOs
  BY <1>4 DEF SwapOs, Detached, machine, ServicesInv, Remote
<1>5. CASE SwapData
  BY <1>5, SameServices DEF SwapData, machine, osVolume, Remote
<1> QED
  BY <1>1, <1>2, <1>3, <1>4, <1>5 DEF Faults

\* No step breaks the relation of units and services.
LEMMA ServicesAreKept ==
  ASSUME TypeInv, ServicesInv, PlanInv, [PairNext]_pairVars
  PROVE  ServicesInv'
<1>1. CASE UNCHANGED pairVars
  BY <1>1 DEF ServicesInv, pairVars, dataVolume, osVolume, machine, deployment
<1> QED
  BY <1>1, DeployKeepsServices, BootstrapKeepsServices, RehydrateKeepsServices,
     SurroundingsKeepServices, FaultsKeepServices
     DEF PairNext

\* A card keeps its department while machine and plan stay.
LEMMA SameDepartments ==
  ASSUME UNCHANGED <<cards, plan, caps>>
  PROVE  /\ \A c : Dept(c)' = Dept(c)
         /\ \A c : RunsComfy(c)' <=> RunsComfy(c)
         /\ \A c : HasWorker(c)' <=> HasWorker(c)
         /\ \A r : Wanted(r)' <=> Wanted(r)
BY DEF Dept, RunsComfy, HasWorker, Wanted, Home

\* A step that leaves the units, starts none that is not enabled and does not go
\* on past a stage, keeps them after the plan.
LEMMA SameUnits ==
  ASSUME PlanInv, UNCHANGED <<cards, plan, caps, comfyUnit, workerUnit, pinned, missed>>,
         \A c \in Card : comfyRuns'[c] # "off" => HasComfy(c),
         \A r \in Resident : residentRuns'[r] # "off" => HasResident(r),
         step' \in AfterReconcile => step \in AfterReconcile,
         step' \in AfterResidents => step \in AfterResidents,
         step' \in AfterUnits => step \in AfterUnits
  PROVE  PlanInv'
<1>1. /\ \A c \in Card : HasComfy(c)' => HasComfy(c)
      /\ \A r \in Resident : HasResident(r)' => HasResident(r)
  BY DEF HasComfy, HasResident
<1> QED
  BY <1>1, SameDepartments DEF PlanInv

\* Before the plan is applied nothing is claimed.
LEMMA BeforeThePlan ==
  ASSUME step' \notin AfterReconcile
  PROVE  PlanInv'
BY DEF PlanInv, AfterReconcile, AfterResidents, AfterUnits

\* A resident that is served is on a card of its department, which the plan
\* therefore spells.
LEMMA ServedIsWanted ==
  ASSUME TypeInv, NEW r, OwnCard(r) # {}
  PROVE  Wanted(r)
<1>1. PICK c \in Card : Dept(c) = Home(r)
  BY DEF OwnCard
<1>2. Home(r) # "none"
  BY DEF Home
<1>3. c < Len(plan) /\ plan[c + 1] = Home(r)
  BY <1>1, <1>2 DEF Dept
<1>4. Len(plan) \in Nat
  BY DEF TypeInv, PairTypeOK
<1>5. c \in Nat
  BY DEF Card
<1>6. c + 1 \in 1 .. Len(plan)
  BY <1>3, <1>4, <1>5
<1> QED
  BY <1>3, <1>6 DEF Wanted

\* Each step of the rehydration keeps what the earlier ones have brought about.
LEMMA RehydrateKeepsPlan ==
  ASSUME TypeInv, ServicesInv, PlanInv, Rehydrate
  PROVE  PlanInv'
<1> USE DEF dataVolume, osVolume, machine, deployment, AfterReconcile, AfterResidents, AfterUnits
<1>1. ASSUME NEW c \in Card, \/ DisableComfy(c) \/ DisableComfyFails(c)
                             \/ DisableWorker(c) \/ DisableWorkerFails(c)
      PROVE  PlanInv'
  BY <1>1, BeforeThePlan DEF DisableComfy, DisableComfyFails, DisableWorker, DisableWorkerFails
<1>2. ASSUME NEW c \in Card, EnableComfy(c)
      PROVE  PlanInv'
  <2>1. /\ UNCHANGED <<cards, plan, caps, workerUnit, pinned, residentRuns, missed, step>>
        /\ step = "units" /\ RunsComfy(c)
        /\ \A d \in Card \ {c} : comfyUnit'[d] = comfyUnit[d] /\ comfyRuns'[d] = comfyRuns[d]
    BY <1>2 DEF EnableComfy, TypeInv, PairTypeOK
  <2> QED
    BY <2>1, SameDepartments DEF PlanInv, HasComfy, HasResident
<1>3. CASE Reconciled
  BY <1>3, SameDepartments DEF Reconciled, PlanInv, HasComfy
<1>4. CASE StopResidents
  <2>1. /\ UNCHANGED <<cards, plan, caps, comfyUnit, comfyRuns, workerUnit>>
        /\ step = "residents" /\ step' = "bind"
        /\ missed'.comfy = missed.comfy /\ missed'.worker = missed.worker
    BY <1>4 DEF StopResidents, TypeInv, PairTypeOK
  <2>2. ASSUME NEW r \in Resident, HasResident(r)', ~Wanted(r)
        PROVE  r \in missed'.resident
    <3>1. PICK failed \in SUBSET {q \in Resident : Stale(q)} : \E linked \in SUBSET failed :
            /\ pinned' = [q \in Resident |->
                            IF Stale(q) /\ q \notin linked THEN NoCard ELSE pinned[q]]
            /\ residentRuns' = [q \in Resident |->
                                  IF Stale(q) /\ q \notin failed THEN "off" ELSE residentRuns[q]]
            /\ missed' = [missed EXCEPT !.resident =
                 failed \cup {q \in Resident : ~Wanted(q) /\ residentRuns[q] = "looping"}]
      BY <1>4 DEF StopResidents
    <3>2. missed'.resident = failed \cup {q \in Resident : ~Wanted(q) /\ residentRuns[q] = "looping"}
      BY <3>1 DEF TypeInv, PairTypeOK
    <3>3. CASE Stale(r)
      BY <2>2, <3>1, <3>2, <3>3 DEF HasResident
    <3>4. CASE ~Stale(r)
      <4>1. HasResident(r)
        BY <2>2, <3>1, <3>4 DEF HasResident
      <4>2. residentRuns[r] # "off"
        BY <2>1, <4>1 DEF HasResident, ServicesInv, Remote
      <4>3. residentRuns[r] = "looping"
        BY <2>2, <3>4, <4>2 DEF Stale, TypeInv, PairTypeOK
      <4> QED
        BY <2>2, <3>2, <4>3
    <3> QED
      BY <3>3, <3>4
  <2> QED
    BY <2>1, <2>2, SameDepartments DEF PlanInv, HasComfy
<1>5. CASE BindAssets \/ RepairWheels
  BY <1>5, SameUnits DEF BindAssets, RepairWheels, HasComfy, HasResident
<1>6. CASE UnitsEnabled
  BY <1>6, SameDepartments DEF UnitsEnabled, PlanInv, HasComfy, HasResident
<1>7. CASE SkipKits \/ ProvisionKits
  <2>1. /\ UNCHANGED <<cards, plan, caps, comfyUnit, workerUnit, pinned, residentRuns, missed>>
        /\ step = "kits" /\ step' = "vision"
    BY <1>7 DEF SkipKits, ProvisionKits
  <2>2. \A c \in Card : comfyRuns'[c] # "off" => HasComfy(c)
    BY <1>7 DEF SkipKits, ProvisionKits, HasComfy
  <2> QED
    BY <2>1, <2>2, SameUnits DEF HasResident
<1>8. CASE StartVision \/ SetUpAudio
  <2>1. PICK set \in SUBSET Resident : Serve(set) /\ \A r \in set : OwnCard(r) # {}
    BY <1>8, Served
  <2>2. \A r \in Resident \ set : pinned'[r] = pinned[r] /\ residentRuns'[r] = residentRuns[r]
    BY <2>1, ServeTypes
  <2>3. \A r \in set : Wanted(r)
    BY <2>1, ServedIsWanted
  <2>4. UNCHANGED <<cards, plan, caps, comfyUnit, comfyRuns, workerUnit, missed>>
    BY <1>8, <2>1 DEF Serve
  <2>5. step \in {"vision", "audio"} /\ step' \in {"audio", "staged"}
    BY <1>8 DEF StartVision, SetUpAudio
  <2> QED
    BY <2>2, <2>3, <2>4, <2>5, SameDepartments DEF PlanInv, HasComfy, HasResident
<1> QED
  BY <1>1, <1>2, <1>3, <1>4, <1>5, <1>6, <1>7, <1>8 DEF Rehydrate

\* The rest of the steps begin a pass, end it, or leave its plan alone; the
\* cutover and the rollback of the profile stay within it.
LEMMA OthersKeepPlan ==
  ASSUME TypeInv, ServicesInv, PlanInv, Deploy \/ Bootstrap \/ Surroundings \/ Faults
  PROVE  PlanInv'
<1> USE DEF dataVolume, osVolume, machine, deployment, AfterReconcile, AfterResidents, AfterUnits
<1>1. CASE Deploy
  BY <1>1, BeforeThePlan
     DEF Deploy, Boot, FreshBoot, Resume, FreshResume, ProbePair, Retry, RetryGivesUp
<1>2. CASE Bootstrap
  <2>1. ASSUME NEW f \in Asset, CopyFile(f)
        PROVE  PlanInv'
    BY <2>1, SameUnits DEF CopyFile, HasComfy, HasResident
  <2> QED
    BY <1>2, <2>1, BeforeThePlan
       DEF Bootstrap, PrepareVolume, CloneComfy, InstallPackages, SeedVolume
<1>3. CASE Surroundings
  <2>1. ASSUME NEW c \in Card, RetireWorker(c)
        PROVE  PlanInv'
    BY <2>1, SameDepartments DEF RetireWorker, PlanInv, HasComfy, HasResident
  <2>2. CASE CutOver
    BY <2>2, SameDepartments DEF CutOver, PlanInv, HasComfy, HasResident, TypeInv, PairTypeOK
  <2>3. ASSUME NEW c \in Card, ComfyRecovers(c)
        PROVE  PlanInv'
    BY <2>3, SameUnits DEF ComfyRecovers, HasComfy, HasResident
  <2>4. ASSUME NEW r \in Resident, ResidentRecovers(r)
        PROVE  PlanInv'
    BY <2>4, SameUnits DEF ResidentRecovers, HasComfy, HasResident
  <2>5. ASSUME NEW f \in Asset, WorkerWrites(f)
        PROVE  PlanInv'
    BY <2>5, SameUnits DEF WorkerWrites, HasComfy, HasResident
  <2> QED
    BY <1>3, <2>1, <2>2, <2>3, <2>4, <2>5 DEF Surroundings
<1>4. CASE PassFails \/ Preempt \/ DeleteVm \/ SwapOs \/ SwapData
  BY <1>4, BeforeThePlan DEF PassFails, Preempt, DeleteVm, SwapOs, SwapData
<1>5. CASE Reboot
  <2>1. /\ UNCHANGED <<cards, plan, caps, comfyUnit, workerUnit, pinned>>
        /\ Boots(cards, cuda)
    BY <1>5, TornTypes DEF Reboot, Boots
  <2>2. CASE step = "staged"
    <3>1. UNCHANGED <<step, missed>>
      BY <1>5, <2>2 DEF Reboot
    <3> QED
      BY <2>1, <3>1, BootsServices, SameUnits DEF HasComfy, HasResident
  <2>3. CASE step # "staged"
    BY <1>5, <2>3, BeforeThePlan DEF Reboot
  <2> QED
    BY <2>2, <2>3
<1> QED
  BY <1>1, <1>2, <1>3, <1>4, <1>5 DEF Faults

\* No step breaks the invariant of the plan.
LEMMA PlanIsKept ==
  ASSUME TypeInv, ServicesInv, PlanInv, [PairNext]_pairVars
  PROVE  PlanInv'
<1>1. CASE UNCHANGED pairVars
  BY <1>1, SameUnits DEF pairVars, dataVolume, osVolume, machine, deployment, HasComfy, HasResident
<1> QED
  BY <1>1, RehydrateKeepsPlan, OthersKeepPlan DEF PairNext

-----------------------------------------------------------------------------
(* Theorems                                                                *)

\* A new pair is consistent.
LEMMA InitPairInv == PairInit => PairInv
<1> SUFFICES ASSUME PairInit PROVE PairInv
  OBVIOUS
<1>1. TypeInv
  <2>1. attempt \in 1 .. MaxAttempts /\ losses \in 0 .. MaxLosses /\ cards \in 0 .. MaxCards
    BY DEF PairInit
  <2>2. step \in Over /\ step # "detached"
    BY DEF PairInit, Over
  <2> QED
    BY <2>1, <2>2 DEF TypeInv, PairTypeOK, PairInit, NoneMissed
<1>2. InstallInv
  BY DEF InstallInv, PairInit, AfterReconcile
<1>3. ServicesInv
  BY DEF ServicesInv, PairInit, Remote
<1>4. PlanInv
  BY DEF PlanInv, PairInit, AfterReconcile, AfterResidents, AfterUnits
<1> QED
  BY <1>1, <1>2, <1>3, <1>4 DEF PairInv

\* No step breaks the invariant.
LEMMA NextPairInv == PairInv /\ [PairNext]_pairVars => PairInv'
BY TypesAreKept, InstallIsKept, ServicesAreKept, PlanIsKept DEF PairInv

\* The invariant holds throughout.
THEOREM PairIsConsistent == PairSpec => []PairInv
BY InitPairInv, NextPairInv, PTL DEF PairSpec

\* The variables keep their types.
THEOREM PairTypeCorrect == PairSpec => []PairTypeOK
<1>1. PairInv => PairTypeOK
  BY DEF PairInv, TypeInv
<1> QED
  BY <1>1, PairIsConsistent, PTL

\* A pair that skips the installer by the marker of its installation has all of
\* ComfyUI, whatever was interrupted where (verda_fresh_install_script removes
\* the marker before it touches the tree and writes it last).
THEOREM MarkedPairsAreWhole == PairSpec => []MarkedIsWhole
<1>1. PairInv => MarkedIsWhole
  BY DEF PairInv, InstallInv, MarkedIsWhole
<1> QED
  BY <1>1, PairIsConsistent, PTL

\* What a pass has staged runs by its plan, whatever earlier plans have left on
\* the volume (verda_rehydrate_script's reconciliation), but for the units that
\* systemctl failed to disable, the residents that were down when it looked, and
\* those that the capabilities spare.
THEOREM StagedPairsArePlanned == PairSpec => []StagedIsPlanned
<1>1. ASSUME PairInv, step = "staged"
      PROVE  StagedIsPlanned
  <2>1. /\ cards > 0
        /\ step \in AfterReconcile /\ step \in AfterResidents /\ step \in AfterUnits
    BY <1>1 DEF PairInv, ServicesInv, AfterReconcile, AfterResidents, AfterUnits
  <2>2. /\ \A c \in Card : HasComfy(c) => RunsComfy(c) \/ c \in missed.comfy
        /\ \A c \in Card : RunsComfy(c) => comfyUnit[c] = RootOf[Dept(c)]
        /\ \A c \in workerUnit : HasWorker(c) \/ c \in missed.worker
        /\ \A r \in Resident : HasResident(r) => Wanted(r) \/ r \in missed.resident
    BY <1>1, <2>1 DEF PairInv, PlanInv
  <2>3. workersRun \subseteq workerUnit
    BY <1>1 DEF PairInv, ServicesInv
  <2>4. \A r \in Resident : residentRuns[r] = "up" => HasResident(r)
    BY DEF HasResident
  <2> QED
    BY <2>2, <2>3, <2>4 DEF StagedIsPlanned
<1>2. PairInv => StagedIsPlanned
  BY <1>1 DEF StagedIsPlanned
<1> QED
  BY <1>2, PairIsConsistent, PTL

\* A step that is cut short gives up no whole copy.
LEMMA TornKeepsFiles ==
  ASSUME PairInv, Torn \/ TornClone, NEW f \in Asset, Kept(f)
  PROVE  Kept(f)'
<1>1. CASE TornClone
  BY <1>1 DEF TornClone, dataVolume, Kept, PairInv, InstallInv
<1>2. CASE Torn
  BY <1>2 DEF Torn, Kept, dataVolume, osVolume, PairInv, TypeInv, PairTypeOK
<1> QED
  BY <1>1, <1>2

\* A step of a pass gives up none either, but for a copy that was cut short.
LEMMA PassKeepsFiles ==
  ASSUME PairInv, Bootstrap \/ BindAssets, NEW f \in Asset, Kept(f)
  PROVE  Kept(f)' \/ onData[f] = "cut"
<1> USE DEF Kept, dataVolume, osVolume, PairInv, TypeInv, PairTypeOK, InstallInv
<1>1. CASE PrepareVolume
  BY <1>1 DEF PrepareVolume
<1>2. CASE CloneComfy
  BY <1>2 DEF CloneComfy
<1>3. ASSUME NEW k \in Cuda, InstallPackages(k)
      PROVE  Kept(f)'
  BY <1>3 DEF InstallPackages
<1>4. ASSUME NEW g \in Asset, CopyFile(g)
      PROVE  Kept(f)'
  BY <1>4 DEF CopyFile
<1>5. CASE SeedVolume
  BY <1>5 DEF SeedVolume
<1>6. CASE BindAssets
  BY <1>6 DEF BindAssets, Copied
<1> QED
  BY <1>1, <1>2, <1>3, <1>4, <1>5, <1>6 DEF Bootstrap

\* No step gives up the last whole copy of a file, but for a copy that was cut
\* short, which the next pass takes for the file (the cp -an, rm -rf and mount
\* of bind_comfy_dir and its twin in the installer).
THEOREM FilesAreKept == PairSpec => FilesKept
<1>1. ASSUME PairInv, [PairNext]_pairVars, NEW f \in Asset, Kept(f)
      PROVE  Kept(f)' \/ onData[f] = "cut" \/ SwapOs \/ SwapData
  <2>1. ASSUME UNCHANGED <<onData, onOs>>
        PROVE  Kept(f)'
    BY <1>1, <2>1 DEF Kept
  <2>2. CASE Deploy \/ UNCHANGED pairVars
    BY <2>1, <2>2 DEF Deploy, Boot, FreshBoot, Resume, FreshResume, ProbePair, Retry,
       RetryGivesUp, pairVars, dataVolume, osVolume
  <2>3. CASE Bootstrap \/ BindAssets
    BY <1>1, <2>3, PassKeepsFiles
  <2>4. CASE Rehydrate
    BY <1>1, <2>1, <2>3, <2>4 DEF Rehydrate, DisableComfy, DisableComfyFails, DisableWorker,
       DisableWorkerFails, EnableComfy,
       Reconciled, StopResidents, RepairWheels, UnitsEnabled, SkipKits, ProvisionKits,
       StartVision, SetUpAudio, Serve, dataVolume, osVolume
  <2>5. ASSUME NEW g \in Asset, WorkerWrites(g)
        PROVE  Kept(f)'
    BY <1>1, <2>5 DEF WorkerWrites, Kept, PairInv, TypeInv, PairTypeOK
  <2>6. CASE Surroundings
    BY <2>1, <2>5, <2>6 DEF Surroundings, ComfyRecovers, RetireWorker, ResidentRecovers,
       CutOver, dataVolume, osVolume
  <2>7. CASE PassFails \/ Preempt \/ Reboot
    BY <1>1, <2>7, TornKeepsFiles DEF PassFails, Preempt, Reboot
  <2>8. CASE DeleteVm
    BY <2>1, <2>8 DEF DeleteVm, dataVolume, osVolume
  <2> QED
    BY <1>1, <2>2, <2>3, <2>4, <2>6, <2>7, <2>8 DEF PairNext, Faults
<1>2. PairInv /\ [PairNext]_pairVars =>
        [\A f \in Asset : Kept(f) => Kept(f)' \/ onData[f] = "cut" \/ SwapOs \/ SwapData]_pairVars
  BY <1>1
<1> QED
  BY <1>2, PairIsConsistent, PTL DEF FilesKept, PairSpec
================================================================================
