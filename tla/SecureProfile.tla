---------------------------- MODULE SecureProfile ----------------------------
(***************************************************************************)
(* The secure profile of a worker machine (src/worker_release.py): staged, *)
(* prepared, cut over and rolled back as a series of durable writes and    *)
(* systemd commands, each operation under one kernel lock.  The process    *)
(* may die, or the machine lose power, between any two of them.            *)
(*                                                                         *)
(* A release is a directory of artifacts that never change; what changes   *)
(* is its receipt and its two markers, and which release each managed link *)
(* names.  A "migration" machine runs a public worker behind an override   *)
(* that is taken away last; a "first-install" machine runs nothing until   *)
(* the cutover, and a guard drop-in keeps it so.                           *)
(***************************************************************************)
EXTENDS Naturals, FiniteSets

CONSTANTS
  Release,   \* secure-profile releases
  Main,      \* the unit of worker 0
  Sibling,   \* the units of the workers beside it
  None,      \* no release
  MaxFaults  \* bound on failures, deaths of the process and power losses

ASSUME ProfileAssumption ==
  /\ None \notin Release
  /\ Main \notin Sibling
  /\ {"tunnel"} \cap (Sibling \cup {Main}) = {}
  /\ {"base", "stopped"} \cap (Release \cup {None}) = {}
  /\ MaxFaults \in Nat

Unit == Sibling \cup {Main}
Link == Release \cup {None}

VARIABLES
  mode,          \* what the machine is: "migration" or "first-install"
  receipt,       \* stage-receipt.json of each release
  dropin,        \* 20-filmforge-secure-profile.conf of each worker unit
  guard,         \* the staged guard drop-in of each worker unit
  tunnelUnit,    \* the tunnel's unit file
  tunnelDropin,  \* its drop-in
  active,        \* active/<worker unit>
  staged,        \* staged/<worker unit>
  auth,          \* releases with a file cutover-authorized
  boot,          \* releases with a file boot-authorized
  override,      \* 99-public-url-override.conf is installed
  legacy,        \* which files of the earlier 10-* profile are installed
  moved,         \* which of them each release keeps as .disabled
  run,           \* what each worker unit is running
  tunnel,        \* the release whose configuration the tunnel process has
  enabled,       \* units enabled at boot
  pc, rel,       \* where the operation that holds the lock is, and its release
  faults         \* faults so far

links == <<dropin, guard, tunnelUnit, tunnelDropin, active, staged>>
marks == <<auth, boot>>
prior == <<override, legacy, moved>>
services == <<run, tunnel, enabled>>
secureVars == <<mode, receipt, links, marks, prior, services, pc, rel, faults>>

LegacyFile == {"dropin", "env"}

NoReceipt == [state |-> "none", legacy |-> FALSE, prepared |-> FALSE,
              performed |-> FALSE, cutover |-> "none", rollback |-> "none"]
FreshReceipt(hasLegacy) == [NoReceipt EXCEPT !.state = "staged", !.legacy = hasLegacy]

Receipt == [state : {"none", "staged"}, legacy : BOOLEAN, prepared : BOOLEAN,
            performed : BOOLEAN, cutover : {"none", "open", "complete", "undone"},
            rollback : {"none", "open", "complete"}]

StageStep == {"stage-unit", "stage-profile", "stage-guards", "stage-pointer"}
PrepareStep == {"prepare-tunnel", "prepare-receipt"}
CutoverTry == {"legacy", "link", "authorize", "unmask", "restart", "probe", "boot", "enable"}
CutoverEnd == {"publish", "commit", "fail-pointer", "fail-receipt"}
RollbackStep == {"restore-override", "revoke", "revoke-boot", "unlink", "restore-legacy",
                 "service", "stop-tunnel", "disable-tunnel", "unlink-tunnel",
                 "unlink-guards", "unpublish", "code", "undone"}
Step == StageStep \cup PrepareStep \cup CutoverTry \cup CutoverEnd \cup RollbackStep
          \cup {"relink", "unstage", "activate", "idle"}

SecureTypeOK ==
  /\ mode \in {"migration", "first-install"}
  /\ receipt \in [Release -> Receipt]
  /\ dropin \in [Unit -> Link] /\ guard \in [Unit -> Link]
  /\ tunnelUnit \in Link /\ tunnelDropin \in Link /\ active \in Link /\ staged \in Link
  /\ auth \subseteq Release /\ boot \subseteq Release
  /\ override \in BOOLEAN
  /\ legacy \subseteq LegacyFile /\ moved \in [Release -> SUBSET LegacyFile]
  /\ run \in [Unit -> Release \cup {"base", "stopped"}]
  /\ tunnel \in Link
  /\ enabled \subseteq Unit \cup {"tunnel"}
  /\ pc \in Step /\ rel \in Link /\ (rel = None => pc = "idle")
  /\ faults \in 0 .. MaxFaults

-----------------------------------------------------------------------------
(* Readings of the machine                                                 *)

Staged(r) == receipt[r].state = "staged"

\* The earlier loopback profile is both its files or none, and only on a machine
\* to migrate (_inspect_legacy_loopback_profile).
LegacySound == "dropin" \in legacy => mode = "migration" /\ "env" \in legacy

Inactive(u) == run[u] = "stopped"
Disabled(u) == u \notin enabled

\* A worker comes up, and stays up, only from a release that works.
ComesUp(r, works) == r \in works

\* Every loop over the units begins with worker 0.
FirstOf(units) == IF Main \in units THEN {Main} ELSE units

\* _validate_profile_dropins: what may stand in the drop-in directories.
DropinsValid(as, allowLegacy) ==
  /\ "dropin" \in legacy => allowLegacy
  /\ IF as = "migration"
       THEN override /\ \A u \in Unit : guard[u] = None
       ELSE ~override

\* _assert_active_profile_links
LinksMatch(r, switched) ==
  /\ tunnelUnit = r /\ tunnelDropin = r
  /\ \A u \in Unit : dropin[u] = IF switched THEN r ELSE None
  /\ mode = "first-install" => guard[Main] = r

\* What systemd starts when the machine boots, or Requires= pulls in.
Starts(u) ==
  /\ u \in enabled
  /\ guard[u] # None => guard[u] \in auth
  /\ dropin[u] # None => tunnelUnit # None

BootConfig(u) == IF ~Starts(u) THEN "stopped" ELSE IF dropin[u] = None THEN "base" ELSE dropin[u]

BootTunnel ==
  IF /\ tunnelUnit # None
     /\ "tunnel" \in enabled \/ \E u \in Unit : Starts(u) /\ dropin[u] # None
    THEN tunnelDropin ELSE None

-----------------------------------------------------------------------------
(* The machines a deployment finds                                         *)

\* One that has never had a secure profile.
CleanMachine ==
  /\ receipt = [r \in Release |-> NoReceipt]
  /\ dropin = [u \in Unit |-> None] /\ guard = [u \in Unit |-> None]
  /\ tunnelUnit = None /\ tunnelDropin = None /\ active = None /\ staged = None
  /\ auth = {} /\ boot = {}
  /\ override = (mode = "migration")
  /\ legacy \in IF mode = "migration" THEN {{}, LegacyFile} ELSE {{}}
  /\ tunnel = None
  /\ IF mode = "migration"
       THEN run = [u \in Unit |-> "base"] /\ enabled = Unit
       ELSE run = [u \in Unit |-> "stopped"] /\ enabled = {}

\* A reused OS volume whose profile r is in force; a staging of f, by a version
\* of the code that still allowed it, may have been cut short after some of its
\* links (docstring of retire_rehydrated_secure_profile).
DisplacedBy(r, f, displaced) ==
  /\ r = f <=> displaced = {}
  /\ mode = "migration" => "guard" \notin displaced
  /\ receipt = [x \in Release |->
       IF x = r THEN [FreshReceipt(FALSE) EXCEPT !.prepared = TRUE, !.performed = TRUE,
                                                 !.cutover = "complete"]
       ELSE IF x = f THEN FreshReceipt(FALSE) ELSE NoReceipt]
  /\ dropin = [u \in Unit |-> r]
  /\ guard = [u \in Unit |-> IF mode = "migration" THEN None
                             ELSE IF u = Main /\ "guard" \in displaced THEN f ELSE r]
  /\ tunnelUnit = f
  /\ tunnelDropin = IF "profile" \in displaced THEN f ELSE r
  /\ active = r /\ staged = r
  /\ auth = {r} /\ boot = IF mode = "migration" THEN {} ELSE {r}
  /\ override = FALSE /\ legacy = {}
  /\ enabled = Unit \cup IF mode = "migration" THEN {} ELSE {"tunnel"}
  /\ run = [u \in Unit |-> BootConfig(u)]
  /\ tunnel = BootTunnel

DisplacedMachine ==
  \E r, f \in Release, displaced \in {{}, {"unit"}, {"unit", "profile"}, {"unit", "profile", "guard"}} :
    DisplacedBy(r, f, displaced)

Machine ==
  /\ mode \in {"migration", "first-install"}
  /\ CleanMachine \/ DisplacedMachine
  /\ moved = [r \in Release |-> {}]
  /\ pc = "idle" /\ rel = None

SecureInit == Machine /\ faults = 0

Begin(r, step) == pc = "idle" /\ pc' = step /\ rel' = r
Goto(step) == pc' = step /\ UNCHANGED rel

\* Mutant: the lock outlives the operation that held it.
FinishLocked == pc' = pc /\ rel' = None

Finish == pc' = "idle" /\ rel' = None

-----------------------------------------------------------------------------
(* stage_secure_profile                                                    *)

\* A receipt whose rollback is complete is reset, if no drop-in is installed.
StagedReceipt(r) ==
  IF ~Staged(r) THEN FreshReceipt("dropin" \in legacy)
  ELSE IF receipt[r].rollback = "complete" /\ dropin[Main] = None
    THEN FreshReceipt(receipt[r].legacy)
    ELSE receipt[r]

\* The directory, receipt included, appears by one rename.  A live profile may
\* only be staged again, never replaced.
\* Mutant: a live profile may be replaced.
StageOverLive(r) ==
  /\ LegacySound
  /\ "dropin" \in legacy /\ Staged(r) => receipt[r].legacy
  /\ DropinsValid(mode, "dropin" \in legacy)

StageAccepted(r) ==
  /\ (dropin[Main] = None /\ active = None) \/ (dropin[Main] = r /\ active = r)
  /\ LegacySound
  /\ "dropin" \in legacy /\ Staged(r) => receipt[r].legacy
  /\ DropinsValid(mode, "dropin" \in legacy)

Stage(r) ==
  /\ Begin(r, "stage-unit")
  /\ StageAccepted(r)
  /\ receipt' = [receipt EXCEPT ![r] = StagedReceipt(r)]
  /\ UNCHANGED <<links, marks, prior, services, faults>>

StageUnit ==
  /\ pc = "stage-unit"
  /\ tunnelUnit' = rel
  /\ Goto("stage-profile")
  /\ UNCHANGED <<receipt, dropin, guard, tunnelDropin, active, staged>>

StageProfile ==
  /\ pc = "stage-profile"
  /\ tunnelDropin' = rel
  /\ Goto(IF mode = "first-install" THEN "stage-guards" ELSE "stage-pointer")
  /\ UNCHANGED <<receipt, dropin, guard, tunnelUnit, active, staged>>

StageGuards ==
  /\ pc = "stage-guards"
  /\ LET missing == {u \in Unit : guard[u] # rel} IN
       \/ /\ \E u \in FirstOf(missing) : guard' = [guard EXCEPT ![u] = rel]
          /\ Goto("stage-guards")
       \/ /\ missing = {}
          /\ Goto("stage-pointer")
          /\ UNCHANGED guard
  /\ UNCHANGED <<receipt, dropin, tunnelUnit, tunnelDropin, active, staged>>

StagePointer ==
  /\ pc = "stage-pointer"
  /\ staged' = rel
  /\ Finish
  /\ UNCHANGED <<receipt, dropin, guard, tunnelUnit, tunnelDropin, active>>

StageWrite ==
  /\ StageUnit \/ StageProfile \/ StageGuards \/ StagePointer
  /\ UNCHANGED <<marks, prior, services, faults>>

-----------------------------------------------------------------------------
(* prepare_secure_profile                                                  *)

PrepareAccepted(r) ==
  /\ Staged(r)
  /\ LinksMatch(r, FALSE)
  /\ DropinsValid(mode, receipt[r].legacy)
  /\ mode = "first-install" =>
       Inactive(Main) /\ Disabled(Main) /\ Disabled("tunnel")

Prepare(r) ==
  /\ Begin(r, "prepare-tunnel")
  /\ PrepareAccepted(r)
  /\ UNCHANGED <<receipt, links, marks, prior, services, faults>>

PrepareTunnel ==
  /\ pc = "prepare-tunnel"
  /\ tunnel' = rel
  /\ Goto("prepare-receipt")
  /\ UNCHANGED <<receipt, links, marks, prior, run, enabled, faults>>

PrepareReceipt ==
  /\ pc = "prepare-receipt"
  /\ receipt' = [receipt EXCEPT ![rel].prepared = TRUE]
  /\ Finish
  /\ UNCHANGED <<links, marks, prior, services, faults>>

-----------------------------------------------------------------------------
(* cutover_secure_profile                                                  *)

\* An interrupted cutover, and a first install that is proven, need no new
\* readiness receipt; any other needs one, and a prepared tunnel.
Authorized(r) ==
  \/ mode = "first-install" /\ r \in boot
  \/ receipt[r].cutover = "open"
  \/ receipt[r].prepared

\* Everything checked before the first write.  A cutover asked for while the
\* release's rollback is open only runs that rollback, and raises.
CutoverAccepted(r) ==
  LET switched == dropin[Main] = r
      unmasked == switched /\ ~override /\ "dropin" \notin legacy
  IN /\ Staged(r)
     /\ receipt[r].rollback # "open"
     /\ Authorized(r)
     /\ LinksMatch(r, switched)
     /\ DropinsValid(IF unmasked THEN "first-install" ELSE mode, receipt[r].legacy)

Cutover(r) ==
  /\ Begin(r, "legacy")
  /\ CutoverAccepted(r)
  /\ tunnel # None
  /\ receipt' = [receipt EXCEPT ![r].cutover = "open"]
  /\ UNCHANGED <<links, marks, prior, services, faults>>

\* The rerun of an interrupted cutover finds the tunnel down: it is undone.
CutoverAbandoned(r) ==
  /\ Begin(r, "fail-pointer")
  /\ CutoverAccepted(r)
  /\ receipt[r].cutover = "open"
  /\ tunnel = None
  /\ UNCHANGED <<receipt, links, marks, prior, services, faults>>

\* _disable_legacy_profile: each file is either installed or kept, or it raises.
LegacyConsistent ==
  receipt[rel].legacy => legacy \cap moved[rel] = {} /\ legacy \cup moved[rel] = LegacyFile

DisableLegacy ==
  /\ pc = "legacy"
  /\ LegacyConsistent
  /\ IF receipt[rel].legacy /\ legacy # {}
       THEN LET f == IF "dropin" \in legacy THEN "dropin" ELSE "env" IN
              /\ legacy' = legacy \ {f}
              /\ moved' = [moved EXCEPT ![rel] = @ \cup {f}]
              /\ Goto("legacy")
       ELSE Goto("link") /\ UNCHANGED <<legacy, moved>>
  /\ UNCHANGED <<receipt, links, marks, override, services, faults>>

LinkWorkers ==
  /\ pc = "link"
  /\ LET missing == {u \in Unit : dropin[u] # rel} IN
       \/ /\ \E u \in FirstOf(missing) : dropin' = [dropin EXCEPT ![u] = rel]
          /\ Goto("link")
       \/ /\ missing = {}
          /\ Goto("authorize")
          /\ UNCHANGED dropin
  /\ UNCHANGED <<receipt, guard, tunnelUnit, tunnelDropin, active, staged>>
  /\ UNCHANGED <<marks, prior, services, faults>>

Authorize ==
  /\ pc = "authorize"
  /\ auth' = auth \cup {rel}
  /\ Goto("unmask")
  /\ UNCHANGED <<receipt, links, boot, prior, services, faults>>

\* The public override goes, and the drop-ins are checked once more.
Unmask ==
  /\ pc = "unmask"
  /\ override' = FALSE
  /\ Goto("restart")
  /\ UNCHANGED <<receipt, links, marks, legacy, moved, services, faults>>

\* A unit comes up only if its release is one of those that work.
RestartWorkers(works) ==
  /\ pc = "restart"
  /\ LET old == {u \in Unit : run[u] # rel} IN
       \/ /\ ComesUp(rel, works)
          /\ \E u \in FirstOf(old) : run' = [run EXCEPT ![u] = rel]
          /\ Goto("restart")
       \/ /\ old = {}
          /\ Goto("probe")
          /\ UNCHANGED run
  /\ UNCHANGED <<receipt, links, marks, prior, tunnel, enabled, faults>>

\* Mutant: the units are enabled before the boot authorization.
ProbeThenEnable ==
  /\ pc = "probe"
  /\ Goto(IF mode = "first-install" THEN "enable" ELSE "publish")
  /\ UNCHANGED <<receipt, links, marks, prior, services, faults>>

\* The backend's authenticated route to the worker.
Probe ==
  /\ pc = "probe"
  /\ Goto(IF mode = "first-install" THEN "boot" ELSE "publish")
  /\ UNCHANGED <<receipt, links, marks, prior, services, faults>>

AuthorizeBoot ==
  /\ pc = "boot"
  /\ boot' = boot \cup {rel}
  /\ Goto("enable")
  /\ UNCHANGED <<receipt, links, auth, prior, services, faults>>

EnableUnits ==
  /\ pc = "enable"
  /\ LET missing == (Unit \cup {"tunnel"}) \ enabled IN
       \/ /\ \E u \in IF "tunnel" \in missing THEN {"tunnel"} ELSE FirstOf(missing) :
               enabled' = enabled \cup {u}
          /\ Goto("enable")
       \/ /\ missing = {}
          /\ Goto("publish")
          /\ UNCHANGED enabled
  /\ UNCHANGED <<receipt, links, marks, prior, run, tunnel, faults>>

Publish ==
  /\ pc = "publish"
  /\ active' = rel
  /\ Goto("commit")
  /\ UNCHANGED <<receipt, dropin, guard, tunnelUnit, tunnelDropin, staged>>
  /\ UNCHANGED <<marks, prior, services, faults>>

Commit ==
  /\ pc = "commit"
  /\ receipt' = [receipt EXCEPT ![rel].performed = TRUE, ![rel].cutover = "complete"]
  /\ Finish
  /\ UNCHANGED <<links, marks, prior, services, faults>>

\* A write, a command or a check raises: the except branch rolls back.
CutoverFails(works) ==
  /\ pc \in CutoverTry
  /\ LET bound == \/ pc = "legacy" /\ ~LegacyConsistent
                  \/ pc = "restart" /\ ~ComesUp(rel, works) /\ \E u \in Unit : run[u] # rel
     IN faults' = IF bound THEN faults ELSE faults + 1
  /\ faults' <= MaxFaults
  /\ Goto("fail-pointer")
  /\ UNCHANGED <<receipt, links, marks, prior, services>>

FailPointer ==
  /\ pc = "fail-pointer"
  /\ active' = rel
  /\ Goto("fail-receipt")
  /\ UNCHANGED <<receipt, dropin, guard, tunnelUnit, tunnelDropin, staged>>
  /\ UNCHANGED <<marks, prior, services, faults>>

FailReceipt ==
  /\ pc = "fail-receipt"
  /\ receipt' = [receipt EXCEPT ![rel].performed = TRUE, ![rel].rollback = "open"]
  /\ Goto("restore-override")
  /\ UNCHANGED <<links, marks, prior, services, faults>>

CutoverWrite(works) ==
  \/ DisableLegacy \/ LinkWorkers \/ Authorize \/ Unmask \/ RestartWorkers(works) \/ Probe
  \/ AuthorizeBoot \/ EnableUnits \/ Publish \/ Commit
  \/ CutoverFails(works) \/ FailPointer \/ FailReceipt

-----------------------------------------------------------------------------
(* rollback_secure_profile                                                 *)

\* Everything checked before the journal: a started rollback only asks that no
\* link names another release; the first one that all of it is in place.
RollbackAccepted(r) ==
  LET mine == <<dropin[Main], tunnelDropin, tunnelUnit, active>>
      resumed == \/ receipt[r].rollback = "open"
                 \/ receipt[r].rollback = "complete" /\ ~receipt[r].performed
  IN /\ Staged(r)
     /\ \A i \in 1 .. 4 : mine[i] \in {r, None}
     /\ IF mode = "first-install" THEN guard[Main] \in {r, None} /\ ~override
                                  ELSE guard[Main] = None
     /\ ~resumed =>
          /\ \A i \in 1 .. 4 : mine[i] = r
          /\ r \in auth
          /\ mode = "first-install" =>
               guard[Main] = r /\ (receipt[r].performed => r \in boot)

Rollback(r) ==
  /\ Begin(r, "restore-override")
  /\ RollbackAccepted(r)
  /\ receipt' = [receipt EXCEPT ![r].rollback = "open"]
  /\ UNCHANGED <<links, marks, prior, services, faults>>

\* Mutant: the override is not put back.
NoOverride ==
  /\ pc = "restore-override"
  /\ Goto("revoke")
  /\ UNCHANGED <<receipt, links, marks, prior, services>>

\* Mutant: the authority to start workers is not withdrawn.
OverrideThenUnlink ==
  /\ pc = "restore-override"
  /\ override' = (override \/ mode = "migration")
  /\ Goto("unlink")
  /\ UNCHANGED <<receipt, links, marks, legacy, moved, services>>

RestoreOverride ==
  /\ pc = "restore-override"
  /\ override' = (override \/ mode = "migration")
  /\ Goto("revoke")
  /\ UNCHANGED <<receipt, links, marks, legacy, moved, services>>

Revoke ==
  /\ pc = "revoke"
  /\ auth' = auth \ {rel}
  /\ Goto("revoke-boot")
  /\ UNCHANGED <<receipt, links, boot, prior, services>>

RevokeBoot ==
  /\ pc = "revoke-boot"
  /\ boot' = boot \ {rel}
  /\ Goto("unlink")
  /\ UNCHANGED <<receipt, links, auth, prior, services>>

\* Mutant: only worker 0 is unlinked.
UnlinkMain ==
  /\ pc = "unlink"
  /\ dropin' = [dropin EXCEPT ![Main] = None]
  /\ Goto("restore-legacy")
  /\ UNCHANGED <<receipt, guard, tunnelUnit, tunnelDropin, active, staged>>
  /\ UNCHANGED <<marks, prior, services>>

\* The siblings' links go whatever release they name.
UnlinkWorkers ==
  /\ pc = "unlink"
  /\ LET left == {u \in Unit : dropin[u] # None} IN
       \/ /\ \E u \in FirstOf(left) : dropin' = [dropin EXCEPT ![u] = None]
          /\ Goto("unlink")
       \/ /\ left = {}
          /\ Goto("restore-legacy")
          /\ UNCHANGED dropin
  /\ UNCHANGED <<receipt, guard, tunnelUnit, tunnelDropin, active, staged>>
  /\ UNCHANGED <<marks, prior, services>>

\* _restore_legacy_profile: copies first, then the .disabled files go.
RestoreLegacy ==
  /\ pc = "restore-legacy"
  /\ IF ~receipt[rel].legacy \/ (legacy = LegacyFile /\ moved[rel] = {})
       THEN Goto("service") /\ UNCHANGED <<legacy, moved>>
       ELSE /\ Goto("restore-legacy")
            /\ IF legacy = LegacyFile
                 THEN moved' = [moved EXCEPT ![rel] = {}] /\ UNCHANGED legacy
                 ELSE /\ legacy' = legacy \cup {IF "dropin" \in legacy THEN "env" ELSE "dropin"}
                      /\ UNCHANGED moved
  /\ UNCHANGED <<receipt, links, marks, override, services>>

\* A migrated machine gets its public worker back, worker 0 only; a first
\* install is stopped and disabled, unit by unit.
RestoreService ==
  /\ pc = "service"
  /\ IF mode = "migration"
       THEN /\ run' = [run EXCEPT ![Main] = "base"]
            /\ Goto("stop-tunnel")
            /\ UNCHANGED enabled
       ELSE LET left == {u \in Unit : ~Inactive(u) \/ ~Disabled(u)} IN
              \/ /\ \E u \in FirstOf(left) :
                      IF ~Inactive(u)
                        THEN run' = [run EXCEPT ![u] = "stopped"] /\ UNCHANGED enabled
                        ELSE enabled' = enabled \ {u} /\ UNCHANGED run
                 /\ Goto("service")
              \/ /\ left = {}
                 /\ Goto("stop-tunnel")
                 /\ UNCHANGED <<run, enabled>>
  /\ UNCHANGED <<receipt, links, marks, prior, tunnel>>

StopTunnel ==
  /\ pc = "stop-tunnel"
  /\ tunnel' = None
  /\ Goto(IF mode = "first-install" THEN "disable-tunnel" ELSE "unlink-tunnel")
  /\ UNCHANGED <<receipt, links, marks, prior, run, enabled>>

DisableTunnel ==
  /\ pc = "disable-tunnel"
  /\ enabled' = enabled \ {"tunnel"}
  /\ Goto("unlink-tunnel")
  /\ UNCHANGED <<receipt, links, marks, prior, run, tunnel>>

UnlinkTunnel ==
  /\ pc = "unlink-tunnel"
  /\ IF tunnelDropin # None
       THEN tunnelDropin' = None /\ Goto("unlink-tunnel") /\ UNCHANGED tunnelUnit
       ELSE tunnelUnit' = None /\ Goto("unlink-guards") /\ UNCHANGED tunnelDropin
  /\ UNCHANGED <<receipt, dropin, guard, active, staged, marks, prior, services>>

UnlinkGuards ==
  /\ pc = "unlink-guards"
  /\ LET left == {u \in Unit : guard[u] # None} IN
       \/ /\ \E u \in FirstOf(left) : guard' = [guard EXCEPT ![u] = None]
          /\ Goto("unlink-guards")
       \/ /\ left = {}
          /\ Goto("unpublish")
          /\ UNCHANGED guard
  /\ UNCHANGED <<receipt, dropin, tunnelUnit, tunnelDropin, active, staged>>
  /\ UNCHANGED <<marks, prior, services>>

Unpublish ==
  /\ pc = "unpublish"
  /\ active' = None
  /\ Goto("code")
  /\ UNCHANGED <<receipt, dropin, guard, tunnelUnit, tunnelDropin, staged>>
  /\ UNCHANGED <<marks, prior, services>>

\* _rollback_code_pointer_for_profile is a step of the code releases.
CodePointer ==
  /\ pc = "code"
  /\ Goto("undone")
  /\ UNCHANGED <<receipt, links, marks, prior, services>>

Undone ==
  /\ pc = "undone"
  /\ receipt' = [receipt EXCEPT ![rel].performed = FALSE, ![rel].cutover = "undone",
                                ![rel].rollback = "complete"]
  /\ Finish
  /\ UNCHANGED <<links, marks, prior, services>>

RollbackWrite ==
  /\ \/ RestoreOverride \/ Revoke \/ RevokeBoot \/ UnlinkWorkers \/ RestoreLegacy
     \/ RestoreService \/ StopTunnel \/ DisableTunnel \/ UnlinkTunnel \/ UnlinkGuards
     \/ Unpublish \/ Undone
  /\ UNCHANGED faults

-----------------------------------------------------------------------------
(* retire_rehydrated_secure_profile                                        *)

\* The links a staging shares with the profile in force.
SharedLinks ==
  {tunnelUnit, tunnelDropin} \cup IF mode = "first-install" THEN {guard[u] : u \in Unit} ELSE {}

\* A release that never came to its cutover.
NeverCutOver(f) ==
  /\ Staged(f) /\ ~receipt[f].performed
  /\ receipt[f].cutover = "none" /\ receipt[f].rollback = "none"
  /\ f \notin auth \cup boot

Displaced(r) ==
  \E f \in Release \ {r} : SharedLinks \subseteq {r, f} /\ f \in SharedLinks /\ NeverCutOver(f)

RetireAccepted(r) ==
  /\ active = r /\ dropin[Main] = r
  /\ None \notin SharedLinks
  /\ (SharedLinks = {r} /\ RollbackAccepted(r)) \/ Displaced(r)

\* Links displaced by one such release are taken back; then it is a rollback.
Retire(r) ==
  /\ RetireAccepted(r)
  /\ \/ SharedLinks = {r} /\ Rollback(r)
     \/ /\ SharedLinks # {r}
        /\ Begin(r, "relink")
        /\ UNCHANGED <<receipt, links, marks, prior, services, faults>>

Relink ==
  /\ pc = "relink"
  /\ IF tunnelDropin # rel
       THEN tunnelDropin' = rel /\ Goto("relink") /\ UNCHANGED <<tunnelUnit, guard>>
     ELSE IF tunnelUnit # rel
       THEN tunnelUnit' = rel /\ Goto("relink") /\ UNCHANGED <<tunnelDropin, guard>>
     ELSE LET left == {u \in Unit : guard[u] \notin {rel, None}} IN
       IF left = {}
         THEN Goto("unstage") /\ UNCHANGED <<tunnelUnit, tunnelDropin, guard>>
         ELSE /\ \E u \in FirstOf(left) : guard' = [guard EXCEPT ![u] = rel]
              /\ Goto("relink")
              /\ UNCHANGED <<tunnelUnit, tunnelDropin>>
  /\ UNCHANGED <<receipt, dropin, active, staged, marks, prior, services, faults>>

\* The pointer of the other staging goes too, and the rollback begins.
Unstage ==
  /\ pc = "unstage"
  /\ staged' = IF staged = rel THEN rel ELSE None
  /\ receipt' = [receipt EXCEPT ![rel].rollback = "open"]
  /\ Goto("restore-override")
  /\ UNCHANGED <<dropin, guard, tunnelUnit, tunnelDropin, active, marks, prior, services, faults>>

-----------------------------------------------------------------------------
(* Faults                                                                  *)

\* The process that runs the operation dies, or a command raises where nothing
\* handles it; the kernel frees the lock.
Interrupted ==
  /\ pc # "idle"
  /\ faults < MaxFaults
  /\ faults' = faults + 1
  /\ Finish
  /\ UNCHANGED <<receipt, links, marks, prior, services>>

PowerLoss(works) ==
  /\ faults < MaxFaults
  /\ faults' = faults + 1
  /\ run' = [u \in Unit |->
       IF BootConfig(u) \in works \cup {"base"} THEN BootConfig(u) ELSE "stopped"]
  /\ tunnel' = BootTunnel
  /\ Finish
  /\ UNCHANGED <<receipt, links, marks, prior, enabled>>

Request(r) ==
  Stage(r) \/ Prepare(r) \/ Cutover(r) \/ CutoverAbandoned(r) \/ Rollback(r) \/ Retire(r)

\* A step of the operation under way, but for the one on the code pointer.
Write(works) ==
  \/ StageWrite \/ PrepareTunnel \/ PrepareReceipt
  \/ CutoverWrite(works) \/ RollbackWrite \/ Relink \/ Unstage

SecureNext ==
  /\ \/ \E r \in Release : Request(r)
     \/ Write(Release)
     \/ CodePointer /\ UNCHANGED faults
     \/ Interrupted
     \/ PowerLoss(Release)
  /\ UNCHANGED mode

SecureSpec == SecureInit /\ [][SecureNext]_secureVars

-----------------------------------------------------------------------------
(* Properties                                                              *)

\* On a first-install machine, whatever systemd would start at boot belongs to a
\* profile that was proven end to end: its guard names a release marked
\* boot-authorized and its drop-in the same release, at every moment a power
\* loss may find it (cutover enables the units last, rollback and retire undo
\* that first).  A sibling whose guard a cut staging never wrote is the gap.
BootIsProven ==
  mode = "first-install" =>
    \A u \in Unit : Starts(u) =>
      \/ guard[u] \in boot /\ dropin[u] = guard[u]
      \/ u \in Sibling /\ guard[u] = None

\* A migrated machine is never left without a configuration for its worker:
\* either the public override stands or worker 0 is linked to a profile, in
\* cutover, in rollback and after a death between any two of their writes.
AlwaysAService ==
  mode = "migration" => override \/ dropin[Main] # None

\* A release counts as installed when its receipt says so.
Installed == {r \in Release : receipt[r].cutover = "complete" /\ receipt[r].rollback = "none"}

Switch == INSTANCE ProfileSwitch
            WITH linked <- dropin[Main], authorized <- auth, installed <- Installed

\* The links, marks and journals of stage, cutover, rollback and retire
\* implement ProfileSwitch: one release at a time, authorized only while linked,
\* installed only while authorized, and taken back in the reverse order.
ImplementsSwitch == Switch!SwitchSpec

\* What a completed rollback leaves, also one resumed after a death: no
\* authority, no link of any unit, no guard and no pointer names the release.
UndoneIsClean ==
  \A r \in Release : receipt[r].rollback = "complete" =>
    /\ r \notin auth \cup boot
    /\ \A u \in Unit : dropin[u] # r /\ guard[u] # r
    /\ active # r

\* "Indexed worker links install idempotently on every cutover pass - a crash
\* between link writes must not strand a rerun" (cutover_secure_profile): a
\* cutover that died after worker 0's link is accepted when it is run again.
CutoverRerunAccepted ==
  \A r \in Release :
    (/\ pc = "idle" /\ receipt[r].cutover = "open" /\ receipt[r].rollback = "none"
     /\ dropin[Main] = r) => CutoverAccepted(r)
===============================================================================
