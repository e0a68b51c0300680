----------------------------- MODULE CodeRelease -----------------------------
(***************************************************************************)
(* The immutable code releases of a worker machine, beside its secure      *)
(* profiles: the installer, the script that promotes a candidate, the one  *)
(* that rolls the pointer back, and the removal of a candidate that was    *)
(* never finished (src/worker_release.py, and the SSH half of it in        *)
(* src/deploy_gpu.py).                                                     *)
(*                                                                         *)
(* Two kernel locks: the profile lock of SecureProfile (held when pc is    *)
(* not "idle") and the code lock.  The installer and the rollback script   *)
(* take the code lock alone; promotion, the last step but one of a profile *)
(* rollback, and the removal take it under the profile lock.               *)
(***************************************************************************)
EXTENDS SecureProfile

CONSTANT Code  \* code releases: their ids are digests of their content

ASSUME CodeAssumption == None \notin Code

VARIABLES
  codeOf,             \* the code release each secure profile pins
  tree,               \* what stands under releases/<id>
  current, previous,  \* the two pointers
  unitExec, unitDir,  \* what ExecStart and WorkingDirectory of the base units name
  script              \* the holder of the code lock: its next step, and its release

trees == <<codeOf, tree>>
pointers == <<current, previous>>
unitText == <<unitExec, unitDir>>
codeVars == <<trees, pointers, unitText, script>>
hostVars == <<secureVars, codeVars>>

ScriptStep == {"remove", "extract", "ready", "save", "promote", "retarget"}
Unlocked == [step |-> "none", code |-> None]

HostTypeOK ==
  /\ SecureTypeOK
  /\ codeOf \in [Release -> Code]
  /\ tree \in [Code -> {"absent", "partial", "ready", "drifted"}]
  /\ current \in Code \cup {None} /\ previous \in Code \cup {None}
  /\ unitExec \in Code \cup {"current", None} /\ unitDir \in Code \cup {None}
  /\ script \in [step : ScriptStep, code : Code] \cup {Unlocked}

\* A machine is found with one finished code release, or none; a profile in
\* force has been finalized, or not yet.
HostMachine ==
  /\ Machine
  /\ codeOf \in [Release -> Code]
  /\ current \in Code \cup {None}
  /\ \E extra \in SUBSET {codeOf[r] : r \in {x \in Release : Staged(x)}} :
       /\ \A r \in Release : receipt[r].performed => codeOf[r] \in extra
       /\ tree = [c \in Code |-> IF c = current \/ c \in extra THEN "ready" ELSE "absent"]
  /\ previous = None
  /\ unitExec = None /\ unitDir = None
  /\ script = Unlocked

HostInit == HostMachine /\ faults = 0

-----------------------------------------------------------------------------
(* Readings                                                                *)

Ready(c) == tree[c] = "ready"
HasMarker(c) == tree[c] \in {"ready", "drifted"}
Incomplete(c) == tree[c] \in {"partial", "drifted"}

\* A profile starts only where its code is.
Works == {r \in Release : tree[codeOf[r]] # "absent"}

\* The worker processes of a secure profile have the tree in their command line.
RunsFrom(c) == \E u \in Unit : run[u] \in Release /\ codeOf[run[u]] = c

Pins(r, c) == Staged(r) /\ codeOf[r] = c

UnitsName(c) == unitExec = c \/ unitDir = c

\* Everything under worker-security counts: a staged profile names its code for
\* ever.
Referenced(c) == UnitsName(c) \/ \E r \in Release : Pins(r, c)

\* A pointer, the receipt or a linked drop-in makes a profile live.
Live(r) == active = r \/ receipt[r].performed \/ \E u \in Unit : dropin[u] = r

\* What `systemctl restart` makes of a unit.
Restarted(u) ==
  IF guard[u] # None /\ guard[u] \notin auth THEN "stopped"
  ELSE IF dropin[u] = None THEN "base"
  ELSE IF dropin[u] \in Works THEN dropin[u] ELSE "stopped"

CodeLockFree == script = Unlocked
Hold(step, c) == script' = [step |-> step, code |-> c]
FreeCodeLock == script' = Unlocked

-----------------------------------------------------------------------------
(* worker_release_install_script                                           *)

\* A finished release is kept.  An incomplete one is cleared away unless it is
\* current, or anything names it or runs from it; nothing holds the profile
\* lock between those tests and the removal.
\* Mutant: the current release is no obstacle.
ClearableCurrent(c) ==
  \/ tree[c] = "absent"
  \/ Incomplete(c) /\ ~Referenced(c) /\ ~RunsFrom(c)

Clearable(c) ==
  \/ tree[c] = "absent"
  \/ Incomplete(c) /\ current # c /\ ~Referenced(c) /\ ~RunsFrom(c)

Install(c) ==
  /\ CodeLockFree
  /\ Clearable(c)
  /\ Hold(IF tree[c] = "absent" THEN "extract" ELSE "remove", c)
  /\ UNCHANGED <<trees, pointers, unitText, secureVars>>

\* rm -rf; the archive, unpacked beside it, moved into place; the environment,
\* the marker .ready, and last the tree made read-only.
InstallStep ==
  /\ \E s \in {<<"remove", "absent", "extract">>, <<"extract", "partial", "ready">>,
               <<"ready", "ready", "none">>} :
       /\ script.step = s[1]
       /\ tree' = [tree EXCEPT ![script.code] = s[2]]
       /\ IF s[3] = "none" THEN FreeCodeLock ELSE Hold(s[3], script.code)
  /\ UNCHANGED <<codeOf, pointers, unitText, secureVars>>

-----------------------------------------------------------------------------
(* The deployment scripts that hold the profile lock                       *)

\* worker_security_stage_gate_script: a prepared profile whose links, override and
\* marks are those its receipt speaks of, and the code it pins.
GatePassed(r) ==
  /\ Staged(r) /\ receipt[r].prepared
  /\ Ready(codeOf[r])
  /\ tunnelUnit = r /\ tunnelDropin = r
  /\ mode = "first-install" => guard[Main] = r
  /\ IF receipt[r].performed
       THEN /\ dropin[Main] = r /\ active = r /\ ~override
            /\ r \in auth /\ (mode = "first-install" => r \in boot)
       ELSE /\ dropin[Main] = None /\ r \notin auth
            /\ override = (mode = "migration")

\* The gate of "provision-only": such a first install, with nothing running.
\* The base units are written to start the candidate, and stay stopped.
ProvisionAccepted(r) ==
  /\ GatePassed(r)
  /\ mode = "first-install" /\ ~receipt[r].performed
  /\ \A u \in Unit : Inactive(u)

Provision(r) ==
  /\ pc = "idle"
  /\ ProvisionAccepted(r)
  /\ unitExec' = codeOf[r] /\ unitDir' = codeOf[r]
  /\ UNCHANGED <<trees, pointers, script, secureVars>>

\* What finalization demands of the profile before it moves the pointer.
InForce(r) ==
  /\ receipt[r].performed /\ receipt[r].rollback # "open"
  /\ active = r /\ dropin[Main] = r /\ tunnelDropin = r /\ tunnelUnit = r
  /\ r \in auth /\ (mode = "first-install" => r \in boot)
  /\ ~override
  /\ run[Main] = r /\ tunnel # None

\* Mutant: the candidate is promoted whatever its profile has come to.
ActivateUnproven(r) ==
  /\ Begin(r, "activate")
  /\ Staged(r) /\ Ready(codeOf[r])
  /\ CodeLockFree
  /\ current # codeOf[r]
  /\ Hold(IF current = None THEN "promote" ELSE "save", codeOf[r])
  /\ UNCHANGED <<trees, pointers, unitText>>
  /\ UNCHANGED <<mode, receipt, links, marks, prior, services, faults>>

\* worker_release_activate_script, under both locks.
Activate(r) ==
  /\ Begin(r, "activate")
  /\ InForce(r) /\ Ready(codeOf[r])
  /\ CodeLockFree
  /\ current # codeOf[r]
  /\ Hold(IF current = None THEN "promote" ELSE "save", codeOf[r])
  /\ UNCHANGED <<trees, pointers, unitText>>
  /\ UNCHANGED <<mode, receipt, links, marks, prior, services, faults>>

Promote ==
  /\ pc = "activate"
  /\ \/ /\ script.step = "save"
        /\ previous' = current
        /\ Hold("promote", script.code) /\ Goto("activate")
        /\ UNCHANGED current
     \/ /\ script.step = "promote"
        /\ current' = script.code
        /\ FreeCodeLock /\ Finish
        /\ UNCHANGED previous
  /\ UNCHANGED <<trees, unitText, mode, receipt, links, marks, prior, services, faults>>

-----------------------------------------------------------------------------
(* The pointer's way back                                                  *)

\* _rollback_code_pointer_for_profile: only a pointer that names the profile's
\* own code moves.
PreviousUsable(c) == previous # c /\ Ready(previous)

CodePointerStep ==
  /\ CodePointer
  /\ CodeLockFree
  /\ \/ current # codeOf[rel] /\ UNCHANGED current
     \/ current = codeOf[rel] /\ previous = None /\ current' = None
     \/ /\ current = codeOf[rel] /\ previous # None
        /\ PreviousUsable(codeOf[rel])
        /\ current' = previous
  /\ UNCHANGED <<mode, faults, trees, previous, unitText, script>>

\* It raises: the rollback stays open.
CodePointerRefused ==
  /\ pc = "code"
  /\ CodeLockFree
  /\ current = codeOf[rel] /\ previous # None /\ ~PreviousUsable(codeOf[rel])
  /\ Finish
  /\ UNCHANGED <<mode, receipt, links, marks, prior, services, faults, codeVars>>

\* worker_release_rollback_script: the previous release needs only its marker.
PointerCanGo(c) == current = c => previous # None /\ HasMarker(previous)

RollbackCode(c) ==
  /\ CodeLockFree
  /\ PointerCanGo(c)
  /\ current' = IF current = c THEN previous ELSE current
  /\ Hold("retarget", c)
  /\ UNCHANGED <<trees, previous, unitText, secureVars>>

\* Base units that name the failed release start through the pointer instead;
\* with no pointer they are stopped.  WorkingDirectory keeps its name: only the
\* text "<release>/gpu_worker" is replaced.
RetargetUnits ==
  /\ script.step = "retarget"
  /\ FreeCodeLock
  /\ IF ~UnitsName(script.code) THEN UNCHANGED <<unitExec, run>>
     ELSE IF current = None
       THEN run' = [u \in Unit |-> "stopped"] /\ UNCHANGED unitExec
       ELSE /\ unitExec' = IF unitExec = script.code THEN "current" ELSE unitExec
            /\ run' = [u \in Unit |-> IF run[u] = "stopped" THEN "stopped" ELSE Restarted(u)]
  /\ UNCHANGED <<trees, pointers, unitDir>>
  /\ UNCHANGED <<mode, receipt, links, marks, prior, tunnel, enabled, pc, rel, faults>>

-----------------------------------------------------------------------------
(* reconcile_stale_candidate                                               *)

RemoveTree(c) == tree' = [tree EXCEPT ![c] = "absent"]

\* Under both locks.  Receipts that are not live, and stopped base units, are no
\* obstacle.
Reconcile(c) ==
  /\ pc = "idle" /\ CodeLockFree
  /\ Incomplete(c)
  /\ current # c /\ ~RunsFrom(c)
  /\ \A r \in Release : Pins(r, c) => ~Live(r)
  /\ UnitsName(c) => \A u \in Unit : Inactive(u)
  /\ RemoveTree(c)
  /\ UNCHANGED <<codeOf, pointers, unitText, script, secureVars>>

-----------------------------------------------------------------------------
(* Faults                                                                  *)

\* Something writes into a finished release, a __pycache__ say.  An operation
\* tests a tree when it begins; what happens to it meanwhile is seen by the next.
Drift(c) ==
  /\ Ready(c)
  /\ pc = "idle" /\ CodeLockFree
  /\ faults < MaxFaults
  /\ faults' = faults + 1
  /\ tree' = [tree EXCEPT ![c] = "drifted"]
  /\ UNCHANGED <<codeOf, pointers, unitText, script>>
  /\ UNCHANGED <<mode, receipt, links, marks, prior, services, pc, rel>>

\* The holder of the profile lock dies, and with it a promotion.
HostInterrupted ==
  /\ Interrupted
  /\ IF pc = "activate" THEN FreeCodeLock ELSE UNCHANGED script
  /\ UNCHANGED <<mode, trees, pointers, unitText>>

\* The holder of the code lock alone dies.  The marker is written before the tree
\* is made read-only, and a tree that can be written to counts as drifted.
ScriptInterrupted ==
  /\ ~CodeLockFree /\ pc # "activate"
  /\ faults < MaxFaults
  /\ faults' = faults + 1
  /\ FreeCodeLock
  /\ \/ UNCHANGED tree
     \/ script.step = "ready" /\ tree' = [tree EXCEPT ![script.code] = "drifted"]
  /\ UNCHANGED <<codeOf, pointers, unitText>>
  /\ UNCHANGED <<mode, receipt, links, marks, prior, services, pc, rel>>

HostPowerLoss ==
  /\ PowerLoss(Works)
  /\ FreeCodeLock
  /\ UNCHANGED <<mode, trees, pointers, unitText>>

HostFault == (\E c \in Code : Drift(c)) \/ HostInterrupted \/ ScriptInterrupted \/ HostPowerLoss

-----------------------------------------------------------------------------
(* The machine                                                             *)

\* Staging validates the candidate's tree and its digests.
ProfileRequest(r) ==
  /\ \/ Ready(codeOf[r]) /\ Stage(r)
     \/ Prepare(r) \/ Cutover(r) \/ CutoverAbandoned(r) \/ Rollback(r) \/ Retire(r)
  /\ UNCHANGED <<mode, codeVars>>

ProfileStep == Write(Works) /\ UNCHANGED <<mode, codeVars>>

\* Steps of whatever holds a lock.
HostStep ==
  \/ ProfileStep \/ CodePointerStep \/ CodePointerRefused
  \/ Promote \/ InstallStep \/ RetargetUnits

\* A code release comes to a machine only with the profiles that pin it.
HostRequest ==
  \/ \E r \in Release : ProfileRequest(r) \/ Provision(r) \/ Activate(r)
  \/ \E c \in {codeOf[r] : r \in Release} : Install(c) \/ RollbackCode(c) \/ Reconcile(c)

HostNext == HostRequest \/ HostStep \/ HostFault

HostSpec == HostInit /\ [][HostNext]_hostVars

-----------------------------------------------------------------------------
(* Properties                                                              *)

\* The installer's clearing of an incomplete release and the removal of a stale
\* candidate never take the tree the current pointer names, nor one a worker
\* runs from - though the installer tests all that without the profile lock.
TreesInUseStay ==
  /\ current # None => HasMarker(current)
  /\ \A u \in Unit : run[u] \in Release => run[u] \in Works

\* The current pointer only ever moves forward to a candidate whose profile is
\* in force at that moment: cut over, linked, authorized and running.  Moves to
\* the previous release, or to none, are the way back.
PromotedInForce ==
  [][ (current' # current /\ current' \notin {None, previous}) =>
        \E r \in Release : codeOf[r] = current' /\ InForce(r) ]_hostVars

\* A rollback that was begun can be run again, whatever it was interrupted by and
\* whatever else was asked of the machine since: no stage, install, promotion or
\* removal puts a link in its way.  (One begun for a release that has lost its
\* pointer and its link is left to the next staging.)
RollbackRetryable ==
  \A r \in Release :
    (pc = "idle" /\ receipt[r].rollback = "open" /\ r \in {active, dropin[Main]})
      => RollbackAccepted(r)
=============================================================================
