------------------------------ MODULE VolumePair ------------------------------
(***************************************************************************)
(* The machine under the workers (src/deploy_gpu.py): an OS volume and a   *)
(* data volume that outlive the machines they are attached to, and the     *)
(* passes that make a worker machine of them.  verda_deploy boots the      *)
(* pair, looks at what is on it, installs ComfyUI on a pair that has none  *)
(* (verda_fresh_install_script) and then fits the machine to the worker    *)
(* plan (verda_rehydrate_script): one department per card.                 *)
(*                                                                         *)
(* The scripts leave services enabled on the OS volume, so a machine runs  *)
(* what an earlier pass left before the next pass begins; a spot machine   *)
(* may be taken away at any point of one.  ComfyUI's asset directories     *)
(* are bind mounts of the data volume that no boot restores: without them  *)
(* the same paths are directories of the OS volume.                        *)
(***************************************************************************)
EXTENDS Naturals, Sequences

CONSTANTS
  Asset,        \* files of ComfyUI's models, input, output and temp
  MaxCards,     \* GPUs of the largest machine
  Resident,     \* servers that keep a card: of vLLM, Parler and SA3
  Plan,         \* the worker plans that are deployed
  Broadcast,    \* departments with resident servers that WORKER_CAPABILITIES names
  MaxAttempts,  \* VERDA_SPOT_DEPLOY_ATTEMPTS
  MaxLosses     \* bound on machines that go away or start again

Department == {"generation", "identity", "vision", "audio", "none"}

\* parse_worker_plan: one department per card; the resident servers are
\* singletons.
WellFormed(p) ==
  /\ Len(p) > 0
  /\ \A i \in 1 .. Len(p) : p[i] \in Department
  /\ \A i, j \in 1 .. Len(p) : p[i] = p[j] /\ p[i] \in {"vision", "audio"} => i = j

ASSUME PairAssumption ==
  /\ Resident \subseteq {"vllm", "parler", "sa3"}
  /\ MaxCards \in Nat \ {0} /\ MaxAttempts \in Nat \ {0} /\ MaxLosses \in Nat
  /\ \A p \in Plan : p \in Seq(Department) /\ WellFormed(p)
  /\ Broadcast \subseteq SUBSET {"vision", "audio"}

VARIABLES
  dataFs,     \* what blkid and the samples of /dev/vdb tell
  marker,     \* .filmforge-bootstrap-complete on the data volume; the file does
              \* not say of which installation: of the last begun on this OS
              \* volume ("current"), or of an earlier or another one ("stale")
  onData,     \* the files on the data volume, some of them cut short
  comfyTree,  \* /workspace/ComfyUI on the OS volume
  wheels,     \* the CUDA major its PyTorch is built for; 0 if it is broken
  onOs,       \* files in the asset directories of the OS volume
  comfyUnit,  \* the root of each enabled comfyui-gpu<i>, or "off"
  workerUnit, \* the cards whose filmforge-worker-gpu<i> is enabled
  pinned,     \* the card of each enabled resident server, or NoCard
  cards,      \* the machine's GPUs; 0 when the pair is detached
  cuda,       \* the CUDA major these need
  bound,      \* the asset directories are bind mounts of the data volume
  comfyRuns,  \* the root each comfyui-gpu<i> runs from
  workersRun,
  residentRuns,
  missed,     \* units that the pass under way or staged did not want and did not
              \* put away: systemctl failed, or a resident was not found active
  step,       \* of the pass under way
  plan,
  caps,       \* what its WORKER_CAPABILITIES names
  attempt,
  losses

dataVolume == <<dataFs, marker, onData>>
osVolume == <<comfyTree, wheels, onOs, comfyUnit, workerUnit, pinned>>
machine == <<cards, cuda, bound, comfyRuns, workersRun, residentRuns>>
deployment == <<plan, caps>>
pairVars == <<dataVolume, osVolume, machine, missed, step, deployment, attempt, losses>>

Card == 0 .. MaxCards - 1
NoCard == MaxCards
Root == {"production", "identity"}
Cuda == {12, 13}

\* Steps of the two scripts.
Remote == {"probe", "volume", "clone", "packages", "seed",
           "reconcile", "residents", "bind", "wheels", "units", "kits", "vision", "audio"}
Over == {"idle", "staged"}

PairTypeOK ==
  /\ dataFs \in {"blank", "unknown", "ext4"}
  /\ marker \in {"none", "current", "stale"}
  /\ onData \in [Asset -> {"absent", "cut", "whole"}]
  /\ comfyTree \in {"none", "partial", "source", "packages", "whole"}
  /\ wheels \in Cuda \cup {0} /\ onOs \subseteq Asset
  /\ comfyUnit \in [Card -> Root \cup {"off"}]
  /\ comfyRuns \in [Card -> Root \cup {"off", "looping"}]
  /\ workerUnit \subseteq Card /\ workersRun \subseteq Card
  /\ pinned \in [Resident -> Card \cup {NoCard}]
  /\ residentRuns \in [Resident -> {"off", "up", "looping"}]
  /\ cards \in 0 .. MaxCards /\ cuda \in Cuda /\ bound \in BOOLEAN
  /\ missed \in [comfy : SUBSET Card, worker : SUBSET Card, resident : SUBSET Resident]
  /\ step \in Remote \cup Over \cup {"detached"}
  /\ plan \in Plan /\ caps \in Broadcast /\ attempt \in 1 .. MaxAttempts /\ losses \in 0 .. MaxLosses

-----------------------------------------------------------------------------
(* The worker plan on a machine                                            *)

\* GPU_COUNT: the plan is cut to the cards there are.  A card beyond it is
\* nobody's, as one of department none is.
Dept(c) == IF c < cards /\ c < Len(plan) THEN plan[c + 1] ELSE "none"

RootOf == [generation |-> "production", identity |-> "identity"]
RunsComfy(c) == Dept(c) \in DOMAIN RootOf
HasWorker(c) == Dept(c) # "none"

\* The card of a department with a resident server: VISION_GPU_IDX, AUDIO_GPU_IDX.
Home(r) == IF r = "vllm" THEN "vision" ELSE "audio"
OwnCard(r) == {c \in Card : Dept(c) = Home(r)}

\* _wants_vision, _wants_audio: the plan as it was asked for, not as it was cut,
\* and the capabilities, which give nobody a card.
Wanted(r) == (\E i \in 1 .. Len(plan) : plan[i] = Home(r)) \/ Home(r) \in caps

\* A ComfyUI that gets through its imports.  The identity root has a venv of
\* its own.
Loads(root) == root = "identity" \/ (comfyTree = "whole" /\ wheels = cuda)

-----------------------------------------------------------------------------
(* The machine                                                             *)

\* systemd starts what is enabled, workers unless the guards of a profile that
\* was never cut over hold them back; a service that cannot run is restarted
\* for ever.  /mnt/data comes from fstab, the bind mounts do not come back.
Boots(n, k) ==
  /\ cards' = n /\ cuda' = k /\ bound' = FALSE
  /\ workersRun' \in {{}, workerUnit'}
  /\ comfyRuns' \in [Card -> Root \cup {"off", "looping"}]
  /\ \A c \in Card :
       /\ comfyRuns'[c] = "off" <=> comfyUnit'[c] = "off"
       /\ comfyRuns'[c] \in Root =>
            /\ comfyRuns'[c] = comfyUnit'[c] /\ c < n
            /\ comfyUnit'[c] = "identity" \/ (comfyTree' = "whole" /\ wheels' = k)
  /\ residentRuns' \in [Resident -> {"off", "up", "looping"}]
  /\ \A r \in Resident :
       /\ residentRuns'[r] = "off" <=> pinned'[r] = NoCard
       /\ residentRuns'[r] = "up" => pinned'[r] < n

\* A service that was being restarted comes up with the unit as it is by now,
\* which may be there without being enabled.
ComfyRecovers(c) ==
  /\ comfyRuns[c] = "looping" /\ c < cards
  /\ \E root \in Root :
       /\ comfyUnit[c] \in {root, "off"} /\ Loads(root)
       /\ comfyRuns' = [comfyRuns EXCEPT ![c] = root]
  /\ UNCHANGED <<dataVolume, osVolume, cards, cuda, bound, workersRun, residentRuns,
                 missed, step, deployment, attempt, losses>>

ResidentRecovers(r) ==
  /\ residentRuns[r] = "looping" /\ pinned[r] < cards
  /\ residentRuns' = [residentRuns EXCEPT ![r] = "up"]
  /\ UNCHANGED <<dataVolume, osVolume, cards, cuda, bound, comfyRuns, workersRun,
                 missed, step, deployment, attempt, losses>>

\* A worker downloads a model: to the data volume, or to what is under the
\* mount point when nothing is mounted.
WorkerWrites(f) ==
  /\ workersRun # {} /\ comfyTree = "whole"
  /\ IF bound
       THEN onData' = [onData EXCEPT ![f] = "whole"] /\ UNCHANGED onOs
       ELSE onOs' = onOs \cup {f} /\ UNCHANGED onData
  /\ UNCHANGED <<dataFs, marker, comfyTree, wheels, comfyUnit, workerUnit, pinned,
                 machine, missed, step, deployment, attempt, losses>>

\* The cutover enables the planned workers; the rollback of their profile stops
\* and then disables one after the other, if nothing intervenes (SecureProfile).
CutOver ==
  /\ step = "staged" /\ cards > 0 /\ workersRun = {}
  /\ workersRun' = {c \in Card : HasWorker(c)} /\ workerUnit' = workerUnit \cup workersRun'
  /\ UNCHANGED <<dataVolume, comfyTree, wheels, onOs, comfyUnit, pinned, cards, cuda, bound,
                 comfyRuns, residentRuns, missed, step, deployment, attempt, losses>>

RetireWorker(c) ==
  /\ step \in Over /\ c \in workersRun
  /\ workersRun' = workersRun \ {c} /\ workerUnit' \in {workerUnit, workerUnit \ {c}}
  /\ UNCHANGED <<dataVolume, comfyTree, wheels, onOs, comfyUnit, pinned, cards, cuda, bound,
                 comfyRuns, residentRuns, missed, step, deployment, attempt, losses>>

-----------------------------------------------------------------------------
(* verda_deploy                                                            *)

NoneMissed == [comfy |-> {}, worker |-> {}, resident |-> {}]

\* _verda_preflight: both volumes are detached.
Detached == cards = 0

Boot(p, w, n, k) ==
  /\ step \in Over /\ Detached
  /\ UNCHANGED osVolume /\ Boots(n, k)
  /\ plan' = p /\ caps' = w /\ attempt' = 1 /\ step' = "probe" /\ missed' = NoneMissed
  /\ UNCHANGED <<dataVolume, losses>>

\* verda_fresh_deploy: new volumes, and the installer without a probe, also on a
\* machine that is there already.
FreshBoot(p, w, n, k) ==
  /\ step \in Over /\ Detached
  /\ dataFs = "blank" /\ comfyTree = "none"
  /\ UNCHANGED osVolume /\ Boots(n, k)
  /\ plan' = p /\ caps' = w /\ attempt' = 1 /\ step' = "volume" /\ missed' = NoneMissed
  /\ UNCHANGED <<dataVolume, losses>>

\* _resume_verda_instance: the machine is there already.
Resume(p, w) ==
  /\ step \in Over /\ ~Detached
  /\ plan' = p /\ caps' = w /\ attempt' = 1 /\ step' = "probe" /\ missed' = NoneMissed
  /\ UNCHANGED <<dataVolume, osVolume, machine, losses>>

FreshResume(p, w) ==
  /\ step \in Over /\ ~Detached
  /\ plan' = p /\ caps' = w /\ attempt' = 1 /\ step' = "volume" /\ missed' = NoneMissed
  /\ UNCHANGED <<dataVolume, osVolume, machine, losses>>

\* _VERDA_REHYDRATE_STATE_PROBE and _verda_pair_needs_bootstrap.  A venv with
\* an interpreter passes for ComfyUI, a marker for an installation.
ComfyReady == comfyTree \in {"packages", "whole"}
NeedsBootstrap == dataFs = "blank" \/ marker = "none" \/ ~ComfyReady

\* The gate at the head of either script refuses a machine with live workers.
ProbePair ==
  /\ step = "probe" /\ workersRun = {} /\ dataFs # "unknown"
  /\ step' = IF NeedsBootstrap THEN "volume" ELSE "reconcile"
  /\ UNCHANGED <<dataVolume, osVolume, machine, missed, deployment, attempt, losses>>

\* verda_deploy_with_spot_retries: after a disconnection, and once both volumes
\* are detached (_wait_for_interrupted_verda_pair), the same plan again.
Retry(n, k) ==
  /\ step = "detached" /\ Detached
  /\ UNCHANGED osVolume /\ Boots(n, k)
  /\ attempt' = attempt + 1 /\ step' = "probe" /\ missed' = NoneMissed
  /\ UNCHANGED <<dataVolume, deployment, losses>>

\* The volumes do not detach in time, or no machine can be had.
RetryGivesUp ==
  /\ step = "detached" /\ step' = "idle"
  /\ UNCHANGED <<dataVolume, osVolume, machine, missed, deployment, attempt, losses>>

-----------------------------------------------------------------------------
(* verda_fresh_install_script                                              *)

\* A blank volume is formatted, anything unknown refused; the bind mounts of an
\* earlier pass come down, unless they are busy.
PrepareVolume ==
  /\ step = "volume" /\ workersRun = {} /\ dataFs # "unknown"
  /\ dataFs' = "ext4"
  /\ onData' = IF dataFs = "blank" THEN [f \in Asset |-> "absent"] ELSE onData
  /\ \/ bound' = FALSE
     \/ comfyRuns # [c \in Card |-> "off"] /\ UNCHANGED bound
  /\ marker' = IF marker = "none" THEN "none" ELSE "stale"
  /\ step' = "clone"
  /\ UNCHANGED <<osVolume, cards, cuda, comfyRuns, workersRun, residentRuns,
                 missed, deployment, attempt, losses>>

\* A directory without .git is removed, with all that is in it or mounted on
\* it, and cloned; one with .git is pulled, which a partial clone refuses.
CloneComfy ==
  /\ step = "clone" /\ comfyTree # "partial"
  /\ IF comfyTree = "none"
       THEN /\ comfyTree' = "source" /\ onOs' = {}
            /\ onData' = IF bound THEN [f \in Asset |-> "absent"] ELSE onData
       ELSE UNCHANGED <<comfyTree, onOs, onData>>
  /\ step' = "packages"
  /\ UNCHANGED <<dataFs, marker, wheels, comfyUnit, workerUnit, pinned, machine,
                 missed, deployment, attempt, losses>>

\* Mutant: the marker is set once the source is there.
InstallPackagesMarked(k) ==
  /\ step = "packages"
  /\ marker' = "current" /\ step' = "seed"
  /\ \/ comfyTree' = "whole" /\ wheels' = k
     \/ comfyTree' = "packages" /\ wheels' = 0
  /\ UNCHANGED <<dataFs, onData, onOs, comfyUnit, workerUnit, pinned, machine,
                 missed, deployment, attempt, losses>>

\* The venv, the packages and PyTorch from the index the deployment names.
InstallPackages(k) ==
  /\ step = "packages"
  /\ comfyTree' = "whole" /\ wheels' = k
  /\ step' = "seed"
  /\ UNCHANGED <<dataVolume, onOs, comfyUnit, workerUnit, pinned, machine,
                 missed, deployment, attempt, losses>>

\* cp copies one file after the other; what is there of a file already is
\* overwritten by the installer and left alone by the other script.
CopyFile(f) ==
  /\ step \in {"seed", "bind"} /\ dataFs = "ext4" /\ ~bound
  /\ f \in onOs /\ onData[f] = "absent"
  /\ onData' = [onData EXCEPT ![f] = "whole"]
  /\ UNCHANGED <<dataFs, marker, osVolume, machine, missed, step, deployment, attempt, losses>>

Copied == \A f \in onOs : onData[f] # "absent"

\* What the OS volume has is copied over the data volume's, removed and mounted
\* over; the marker comes last.
SeedVolume ==
  /\ step = "seed" /\ (bound \/ Copied)
  /\ IF bound
       THEN UNCHANGED <<onData, onOs>>
       ELSE /\ onData' = [f \in Asset |-> IF f \in onOs THEN "whole" ELSE onData[f]]
            /\ onOs' = {}
  /\ bound' = TRUE /\ marker' = "current" /\ step' = "reconcile"
  /\ UNCHANGED <<dataFs, comfyTree, wheels, comfyUnit, workerUnit, pinned, cards, cuda,
                 comfyRuns, workersRun, residentRuns, missed, deployment, attempt, losses>>

-----------------------------------------------------------------------------
(* verda_rehydrate_script                                                  *)

\* A unit that is enabled or runs.
HasComfy(c) == comfyUnit[c] # "off" \/ comfyRuns[c] # "off"

\* _disable_stale_gpu_unit, for what an earlier plan left on the OS volume.
DisableComfy(c) ==
  /\ step = "reconcile" /\ HasComfy(c) /\ ~RunsComfy(c) /\ c \notin missed.comfy
  /\ comfyUnit' = [comfyUnit EXCEPT ![c] = "off"]
  /\ comfyRuns' = [comfyRuns EXCEPT ![c] = "off"]
  /\ UNCHANGED <<dataVolume, comfyTree, wheels, onOs, workerUnit, pinned, cards, cuda, bound,
                 workersRun, residentRuns, missed, step, deployment, attempt, losses>>

\* "|| true": systemctl fails, before or after it has removed the link, and the
\* pass goes on.
DisableComfyFails(c) ==
  /\ step = "reconcile" /\ HasComfy(c) /\ ~RunsComfy(c) /\ c \notin missed.comfy
  /\ comfyUnit' \in {comfyUnit, [comfyUnit EXCEPT ![c] = "off"]}
  /\ missed' = [missed EXCEPT !.comfy = @ \cup {c}]
  /\ UNCHANGED <<dataVolume, comfyTree, wheels, onOs, workerUnit, pinned, machine,
                 step, deployment, attempt, losses>>

\* The gate has seen to it that no worker runs.
DisableWorker(c) ==
  /\ step = "reconcile" /\ c \in workerUnit /\ ~HasWorker(c) /\ c \notin missed.worker
  /\ workerUnit' = workerUnit \ {c} /\ workersRun' = workersRun \ {c}
  /\ UNCHANGED <<dataVolume, comfyTree, wheels, onOs, comfyUnit, pinned, cards, cuda, bound,
                 comfyRuns, residentRuns, missed, step, deployment, attempt, losses>>

DisableWorkerFails(c) ==
  /\ step = "reconcile" /\ c \in workerUnit /\ ~HasWorker(c) /\ c \notin missed.worker
  /\ missed' = [missed EXCEPT !.worker = @ \cup {c}]
  /\ UNCHANGED <<dataVolume, osVolume, machine, step, deployment, attempt, losses>>

\* Mutant: the loop ends at the machine's cards.
ReconciledToCount ==
  /\ step = "reconcile"
  /\ \A c \in Card \ missed.comfy : c < cards /\ HasComfy(c) => RunsComfy(c)
  /\ \A c \in workerUnit \ missed.worker : c < cards => HasWorker(c)
  /\ step' = "residents"
  /\ UNCHANGED <<dataVolume, osVolume, machine, missed, deployment, attempt, losses>>

Reconciled ==
  /\ step = "reconcile"
  /\ \A c \in Card \ missed.comfy : HasComfy(c) => RunsComfy(c)
  /\ \A c \in workerUnit \ missed.worker : HasWorker(c)
  /\ step' = "residents"
  /\ UNCHANGED <<dataVolume, osVolume, machine, missed, deployment, attempt, losses>>

\* _stop_stale_resident: those systemctl calls active, not those that are
\* between two attempts to start.
Stale(r) == ~Wanted(r) /\ residentRuns[r] = "up"

\* Where systemctl fails, the server runs on, with or without its link.
StopResidents ==
  /\ step = "residents"
  /\ \E failed \in SUBSET {r \in Resident : Stale(r)} : \E linked \in SUBSET failed :
       /\ pinned' = [r \in Resident |-> IF Stale(r) /\ r \notin linked THEN NoCard ELSE pinned[r]]
       /\ residentRuns' = [r \in Resident |->
                             IF Stale(r) /\ r \notin failed THEN "off" ELSE residentRuns[r]]
       /\ missed' = [missed EXCEPT !.resident =
                       failed \cup {r \in Resident : ~Wanted(r) /\ residentRuns[r] = "looping"}]
  /\ step' = "bind"
  /\ UNCHANGED <<dataVolume, comfyTree, wheels, onOs, comfyUnit, workerUnit, cards, cuda, bound,
                 comfyRuns, workersRun, deployment, attempt, losses>>

\* Mutant: visible files are removed before they are all copied.
BindAssetsFirst ==
  /\ step = "bind" /\ dataFs = "ext4"
  /\ onOs' = {} /\ bound' = TRUE /\ step' = "wheels"
  /\ UNCHANGED <<dataVolume, comfyTree, wheels, comfyUnit, workerUnit, pinned, cards, cuda,
                 comfyRuns, workersRun, residentRuns, missed, deployment, attempt, losses>>

\* bind_comfy_dir: files under a live mount are dropped if the data volume has
\* files of these names; visible ones are copied, removed and mounted over.
BindAssets ==
  /\ step = "bind" /\ dataFs = "ext4"
  /\ bound \/ Copied
  /\ onOs' = IF Copied THEN {} ELSE onOs
  /\ bound' = TRUE /\ step' = "wheels"
  /\ UNCHANGED <<dataVolume, comfyTree, wheels, comfyUnit, workerUnit, pinned, cards, cuda,
                 comfyRuns, workersRun, residentRuns, missed, deployment, attempt, losses>>

\* PyTorch is reinstalled if it is not the one these cards need.
RepairWheels ==
  /\ step = "wheels" /\ ComfyReady
  /\ wheels' = cuda /\ step' = "units"
  /\ UNCHANGED <<dataVolume, comfyTree, onOs, comfyUnit, workerUnit, pinned, machine,
                 missed, deployment, attempt, losses>>

\* The unit is written and enabled; one that runs already is left running.
EnableComfy(c) ==
  /\ step = "units" /\ RunsComfy(c)
  /\ LET root == RootOf[Dept(c)] IN
       /\ comfyUnit[c] # root \/ comfyRuns[c] = "off"
       /\ comfyUnit' = [comfyUnit EXCEPT ![c] = root]
       /\ comfyRuns' = [comfyRuns EXCEPT ![c] =
            IF @ \in Root THEN @ ELSE IF Loads(root) THEN root ELSE "looping"]
  /\ UNCHANGED <<dataVolume, comfyTree, wheels, onOs, workerUnit, pinned, cards, cuda, bound,
                 workersRun, residentRuns, missed, step, deployment, attempt, losses>>

\* wait_comfy_healthy asks whatever answers on the card's port.
Healthy == \A c \in Card : RunsComfy(c) => comfyRuns[c] \in Root

UnitsEnabled ==
  /\ step = "units"
  /\ \A c \in Card : RunsComfy(c) => comfyUnit[c] = RootOf[Dept(c)]
  /\ Healthy
  /\ step' = "kits"
  /\ UNCHANGED <<dataVolume, osVolume, machine, missed, deployment, attempt, losses>>

\* No capability asks for custom nodes.
SkipKits ==
  /\ step = "kits" /\ \A c \in Card : Dept(c) # "identity"
  /\ step' = "vision"
  /\ UNCHANGED <<dataVolume, osVolume, machine, missed, deployment, attempt, losses>>

\* Provisioned nodes load with a restart, after which every ComfyUI has to
\* answer and to have the nodes of its root.
ProvisionKits ==
  /\ step = "kits"
  /\ \A c \in Card : RunsComfy(c) => Loads(comfyUnit[c])
  /\ comfyRuns' = [c \in Card |-> IF RunsComfy(c) THEN comfyUnit[c] ELSE comfyRuns[c]]
  /\ step' = "vision"
  /\ UNCHANGED <<dataVolume, osVolume, cards, cuda, bound, workersRun, residentRuns,
                 missed, deployment, attempt, losses>>

\* A unit of the set is rewritten, pinned to the card of its department and
\* restarted; what fails here is only warned about.
Serve(set) ==
  /\ \E how \in [set -> {"up", "looping"}] :
       residentRuns' = [r \in Resident |-> IF r \in set THEN how[r] ELSE residentRuns[r]]
  /\ pinned' = [r \in Resident |->
                  IF r \in set THEN CHOOSE c \in Card : c \in OwnCard(r) ELSE pinned[r]]
  /\ UNCHANGED <<dataVolume, comfyTree, wheels, onOs, comfyUnit, workerUnit, cards, cuda, bound,
                 comfyRuns, workersRun, missed, deployment, attempt, losses>>

StartVision ==
  /\ step = "vision" /\ step' = "audio"
  /\ \E set \in SUBSET ({"vllm"} \cap Resident) :
       (set # {} => OwnCard("vllm") # {}) /\ Serve(set)

\* setup_audio_services.sh: Parler first, and SA3 if there is a venv for it.
SetUpAudio ==
  /\ step = "audio" /\ step' = "staged"
  /\ \E set \in {{}, {"parler"} \cap Resident, {"parler", "sa3"} \cap Resident} :
       (set # {} => OwnCard("parler") # {}) /\ Serve(set)

-----------------------------------------------------------------------------
(* Faults                                                                  *)

\* A pass that ends inside a step: a file is copied in part, packages or
\* PyTorch are half installed.
Torn ==
  \/ UNCHANGED <<dataVolume, osVolume>>
  \/ /\ step \in {"seed", "bind"} /\ dataFs = "ext4" /\ ~bound
     /\ \E f \in onOs :
          /\ step = "seed" \/ onData[f] = "absent"
          /\ onData' = [onData EXCEPT ![f] = "cut"]
     /\ UNCHANGED <<dataFs, marker, osVolume>>
  \/ /\ step = "packages" /\ comfyTree' = "packages" /\ wheels' = 0
     /\ UNCHANGED <<dataVolume, onOs, comfyUnit, workerUnit, pinned>>
  \/ /\ step = "wheels" /\ ComfyReady /\ wheels' = 0
     /\ UNCHANGED <<dataVolume, comfyTree, onOs, comfyUnit, workerUnit, pinned>>

\* git removes what a failed clone has fetched, unless the machine is gone.
TornClone ==
  /\ step = "clone" /\ comfyTree = "none" /\ ~bound
  /\ comfyTree' = "partial" /\ onOs' = {}
  /\ UNCHANGED <<dataVolume, wheels, comfyUnit, workerUnit, pinned>>

\* A script exits with an error, or its gate refuses.
PassFails ==
  /\ step \in Remote /\ Torn
  /\ step' = "idle" /\ missed' = NoneMissed
  /\ UNCHANGED <<machine, deployment, attempt, losses>>

Gone ==
  /\ cards' = 0 /\ bound' = FALSE /\ workersRun' = {}
  /\ comfyRuns' = [c \in Card |-> "off"] /\ residentRuns' = [r \in Resident |-> "off"]
  /\ missed' = NoneMissed
  /\ UNCHANGED <<cuda, deployment, attempt>>

Loss == losses < MaxLosses /\ losses' = losses + 1

\* The provider takes a spot machine away.
Preempt ==
  /\ cards > 0 /\ Loss
  /\ Torn \/ TornClone
  /\ Gone
  /\ step' = IF step \in Remote /\ attempt < MaxAttempts THEN "detached" ELSE "idle"

Reboot ==
  /\ cards > 0 /\ Loss
  /\ Torn \/ TornClone
  /\ Boots(cards, cuda)
  /\ IF step = "staged" THEN UNCHANGED <<step, missed>>
                        ELSE step' = "idle" /\ missed' = NoneMissed
  /\ UNCHANGED <<deployment, attempt>>

\* The operator deletes the machine, or goes on with another volume.
DeleteVm ==
  /\ step \in Over /\ cards > 0
  /\ Gone /\ step' = "idle"
  /\ UNCHANGED <<dataVolume, osVolume, losses>>

SwapOs ==
  /\ step \in Over /\ Detached /\ Loss
  /\ comfyTree' = "none" /\ wheels' = 0 /\ onOs' = {}
  /\ comfyUnit' = [c \in Card |-> "off"] /\ workerUnit' = {}
  /\ pinned' = [r \in Resident |-> NoCard]
  /\ marker' = IF marker = "none" THEN "none" ELSE "stale"
  /\ step' = "idle"
  /\ UNCHANGED <<dataFs, onData, machine, missed, deployment, attempt>>

SwapData ==
  /\ step \in Over /\ Detached /\ Loss
  /\ dataFs' \in {"blank", "unknown"} /\ marker' = "none"
  /\ onData' = [f \in Asset |-> "absent"]
  /\ step' = "idle"
  /\ UNCHANGED <<osVolume, machine, missed, deployment, attempt>>

-----------------------------------------------------------------------------
(* Specification                                                           *)

\* A new pair.
PairInit ==
  /\ dataFs = "blank" /\ marker = "none" /\ onData = [f \in Asset |-> "absent"]
  /\ comfyTree = "none" /\ wheels = 0 /\ onOs = {}
  /\ comfyUnit = [c \in Card |-> "off"] /\ workerUnit = {}
  /\ pinned = [r \in Resident |-> NoCard]
  /\ cards = 0 /\ cuda \in Cuda /\ bound = FALSE
  /\ comfyRuns = [c \in Card |-> "off"] /\ workersRun = {}
  /\ residentRuns = [r \in Resident |-> "off"]
  /\ missed = NoneMissed /\ step = "idle" /\ plan \in Plan /\ caps \in Broadcast /\ attempt = 1 /\ losses = 0

Deploy ==
  \/ \E p \in Plan, w \in Broadcast, n \in 1 .. MaxCards, k \in Cuda :
       Boot(p, w, n, k) \/ FreshBoot(p, w, n, k)
  \/ \E p \in Plan, w \in Broadcast : Resume(p, w) \/ FreshResume(p, w)
  \/ ProbePair
  \/ \E n \in 1 .. MaxCards, k \in Cuda : Retry(n, k)
  \/ RetryGivesUp

Bootstrap ==
  \/ PrepareVolume \/ CloneComfy
  \/ \E k \in Cuda : InstallPackages(k)
  \/ \E f \in Asset : CopyFile(f)
  \/ SeedVolume

Rehydrate ==
  \/ \E c \in Card : \/ DisableComfy(c) \/ DisableComfyFails(c)
                     \/ DisableWorker(c) \/ DisableWorkerFails(c) \/ EnableComfy(c)
  \/ Reconciled \/ StopResidents \/ BindAssets \/ RepairWheels
  \/ UnitsEnabled \/ SkipKits \/ ProvisionKits \/ StartVision \/ SetUpAudio

Surroundings ==
  \/ \E c \in Card : ComfyRecovers(c) \/ RetireWorker(c)
  \/ \E r \in Resident : ResidentRecovers(r)
  \/ \E f \in Asset : WorkerWrites(f)
  \/ CutOver

Faults == PassFails \/ Preempt \/ Reboot \/ DeleteVm \/ SwapOs \/ SwapData

PairNext == Deploy \/ Bootstrap \/ Rehydrate \/ Surroundings \/ Faults

PairSpec == PairInit /\ [][PairNext]_pairVars

-----------------------------------------------------------------------------
(* Properties                                                              *)

\* No step gives up the last whole copy of a model or an output: not the moves
\* between the two directories that share a path, not the rm -rf of an install,
\* whose reach depends on what is mounted.  The exception: a copy that was cut
\* short is taken for the file by the next pass, which removes the original.
\* Volumes that are put aside keep their files.
Kept(f) == f \in onOs \/ onData[f] = "whole"

FilesKept ==
  [][\A f \in Asset : Kept(f) => Kept(f)' \/ onData[f] = "cut" \/ SwapOs \/ SwapData]_pairVars

\* What a pass has staged runs by its plan, whatever plans and machines the
\* volume has seen, through reboots and cutovers: no unit is left on a card
\* beyond the plan or of a department that does not run it, and no resident
\* server renders a card useless but one that the plan or the capabilities name
\* (if only for a card this machine lacks, or for no card at all) - except the
\* very units that systemctl failed to disable in this pass and the residents
\* that were down when it looked.
StagedIsPlanned ==
  step = "staged" =>
    /\ \A c \in Card : RunsComfy(c) => comfyUnit[c] = RootOf[Dept(c)]
    /\ \A c \in Card : HasComfy(c) => RunsComfy(c) \/ c \in missed.comfy
    /\ \A c \in workerUnit \cup workersRun : HasWorker(c) \/ c \in missed.worker
    /\ \A r \in Resident : residentRuns[r] = "up" => Wanted(r) \/ r \in missed.resident

\* A pair that skips the installer has all of ComfyUI: whatever interrupts a
\* pass, the marker of an installation is on the data volume only if that
\* installation got through, and no rehydration leaves less of it.  (The probe
\* cannot tell it from the marker of an earlier installation, or of another OS
\* volume: those are the stale ones.)
MarkedIsWhole == marker = "current" => comfyTree = "whole"

\* A production card never runs the identity department's ComfyUI.
IsolationKept ==
  step = "staged" => \A c \in Card : comfyRuns[c] = "identity" => Dept(c) = "identity"
=============================================================================
