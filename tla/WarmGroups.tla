------------------------------ MODULE WarmGroups ------------------------------
(***************************************************************************)
(* What the callers of ensure_asset_group do with its result (src/app.py): *)
(* they run the group's provisioner, add the group to _WARMED_GROUPS and   *)
(* restart their worker's ComfyUI, each in an order of its own; the        *)
(* heartbeats pass _WARMED_GROUPS on, and a worker that starts fills it    *)
(* again from the disk.                                                    *)
(*                                                                         *)
(* The workers of a machine share its model files, and each has a ComfyUI  *)
(* of its own (deploy_gpu.py starts one per GPU), which lists what it can  *)
(* load when it starts.  One asset group, as in AssetStore.                *)
(***************************************************************************)
EXTENDS AssetStore

CONSTANTS
  RoleOf,         \* what each caller is: "job", "preflight" or "ensure"
  HasProvisioner  \* whether the group has one, as infinitetalk has

ASSUME WarmAssumption ==
  /\ RoleOf \in [Caller -> {"job", "preflight", "ensure"}]
  /\ HasProvisioner \in BOOLEAN

VARIABLES
  tail,         \* where each caller is after ensure_asset_group
  changed,      \* its runtime_changed
  warmed,       \* the workers with the group in their _WARMED_GROUPS
  provisioned,  \* the workers with the group in their _PROVISIONED_GROUPS
  unloaded,     \* the workers whose ComfyUI runs without what they put in place
  told          \* whether a heartbeat has called the group warm

tailVars == <<tail, changed, warmed, provisioned, unloaded, told>>
warmVars == <<assetVars, tailVars>>

Ended == {"over", "skipped", "failed"}

WarmTypeOK ==
  /\ AssetTypeOK
  /\ tail \in [Caller -> Ended \cup {"none", "provisioning", "marking", "deciding",
                                     "restarting", "rendering"}]
  /\ changed \in [Caller -> BOOLEAN]
  /\ warmed \subseteq Worker
  /\ provisioned \subseteq Worker
  /\ unloaded \subseteq Worker
  /\ told \in BOOLEAN

\* is_asset_group_warm
OnDisk == \A f \in File : Ready(f)

WarmInit ==
  /\ AssetInit
  /\ tail = [c \in Caller |-> "none"]
  /\ changed = [c \in Caller |-> FALSE]
  /\ warmed = IF OnDisk THEN Worker ELSE {}
  /\ provisioned = {}
  /\ unloaded = {}
  /\ told = FALSE

Proceed(c, s) == tail' = [tail EXCEPT ![c] = s]

\* ensure_asset_group has returned to c.
Returned(c) == at[c] = "ok" /\ tail[c] = "none"

\* A job adds the group before it runs the provisioner, the others after.
MarksFirst(c) == RoleOf[c] = "job"

\* The jobs of worker w that _ACTIVE_JOBS counts.
Busy(w) ==
  \E c \in Caller : /\ RoleOf[c] = "job" /\ WorkerOf[c] = w
                    /\ at[c] \notin {"idle", "error"} /\ tail[c] \notin Ended

-----------------------------------------------------------------------------
\* A step of ensure_asset_group; a file it puts in place is one that this
\* worker's ComfyUI has not listed.
AssetStep(c) ==
  /\ CallerStep(c)
  /\ unloaded' = IF installs' # installs THEN unloaded \cup {WorkerOf[c]} ELSE unloaded
  /\ UNCHANGED <<tail, changed, warmed, provisioned, told>>

\* Mutant: the failure of ensure_asset_group is swallowed.
MarkWarmAnyway(c) ==
  /\ at[c] \in {"ok", "error"}
  /\ tail[c] = IF MarksFirst(c) THEN "none" ELSE "marking"
  /\ warmed' = warmed \cup {WorkerOf[c]}
  /\ Proceed(c, IF MarksFirst(c) THEN "provisioning" ELSE "deciding")
  /\ UNCHANGED <<assetVars, changed, provisioned, unloaded, told>>

\* _WARMED_GROUPS.add
MarkWarm(c) ==
  /\ IF MarksFirst(c) THEN Returned(c) ELSE tail[c] = "marking"
  /\ warmed' = warmed \cup {WorkerOf[c]}
  /\ Proceed(c, IF MarksFirst(c) THEN "provisioning" ELSE "deciding")
  /\ UNCHANGED <<assetVars, changed, provisioned, unloaded, told>>

\* ensure_asset_group_provisioned: once per worker process.  What it installs
\* needs a restart as well; what it raises ends the caller's turn.
Provision(c) ==
  /\ IF MarksFirst(c) THEN tail[c] = "provisioning" ELSE Returned(c)
  /\ LET due == HasProvisioner /\ WorkerOf[c] \notin provisioned
         next == IF MarksFirst(c) THEN "deciding" ELSE "marking"
     IN \/ /\ Proceed(c, next)
           /\ changed' = [changed EXCEPT ![c] = got[c] \/ due]
           /\ IF due THEN /\ provisioned' = provisioned \cup {WorkerOf[c]}
                          /\ unloaded' = unloaded \cup {WorkerOf[c]}
                     ELSE UNCHANGED <<provisioned, unloaded>>
        \/ /\ due
           /\ Proceed(c, "failed")
           /\ UNCHANGED <<changed, provisioned, unloaded>>
  /\ UNCHANGED <<assetVars, warmed, told>>

\* Mutant: every caller defers to the jobs that are active.
DecideDeferring(c) ==
  /\ tail[c] = "deciding"
  /\ IF ~changed[c] THEN Proceed(c, IF MarksFirst(c) THEN "rendering" ELSE "over")
     ELSE \/ ~Busy(WorkerOf[c]) /\ Proceed(c, "restarting")
          \/ Busy(WorkerOf[c]) /\ Proceed(c, IF MarksFirst(c) THEN "rendering" ELSE "over")
  /\ UNCHANGED <<assetVars, changed, warmed, provisioned, unloaded, told>>

\* A job and POST /assets/ensure restart ComfyUI whatever else is running.  The
\* preflight does not if another group failed or a job is active now, and it
\* does not come back to it.
Decide(c) ==
  /\ tail[c] = "deciding"
  /\ \/ ~changed[c] /\ Proceed(c, IF MarksFirst(c) THEN "rendering" ELSE "over")
     \/ /\ changed[c]
        /\ RoleOf[c] = "preflight" => ~Busy(WorkerOf[c])
        /\ Proceed(c, "restarting")
     \/ changed[c] /\ RoleOf[c] = "preflight" /\ Proceed(c, "skipped")
  /\ UNCHANGED <<assetVars, changed, warmed, provisioned, unloaded, told>>

\* restart_comfy returns, or raises.
Restart(c) ==
  /\ tail[c] = "restarting"
  /\ \/ /\ unloaded' = unloaded \ {WorkerOf[c]}
        /\ Proceed(c, IF MarksFirst(c) THEN "rendering" ELSE "over")
     \/ Proceed(c, "failed") /\ UNCHANGED unloaded
  /\ UNCHANGED <<assetVars, changed, warmed, provisioned, told>>

\* The rest of a job.
Render(c) ==
  /\ tail[c] = "rendering"
  /\ Proceed(c, "over")
  /\ UNCHANGED <<assetVars, changed, warmed, provisioned, unloaded, told>>

\* A heartbeat of worker w: whenever it arrives, this is what it says.
Tell(w) ==
  /\ w \in warmed
  /\ told' = TRUE
  /\ UNCHANGED <<assetVars, tail, changed, warmed, provisioned, unloaded>>

\* Worker w dies and starts again: _recover_warm_state_from_disk, and a
\* preflight of its own.  ComfyUI is not its child and runs on.
WorkerRestarts(w) ==
  /\ Crash(w)
  /\ tail' = [c \in Caller |-> IF WorkerOf[c] = w THEN "none" ELSE tail[c]]
  /\ changed' = [c \in Caller |-> changed[c] /\ WorkerOf[c] # w]
  /\ warmed' = IF OnDisk THEN warmed \cup {w} ELSE warmed \ {w}
  /\ provisioned' = provisioned \ {w}
  /\ UNCHANGED <<unloaded, told>>

WarmStep(c) ==
  \/ AssetStep(c) \/ MarkWarm(c) \/ Provision(c) \/ Decide(c) \/ Restart(c) \/ Render(c)

Quiet == \A c \in Caller : at[c] = "error" \/ tail[c] \in Ended

WarmNext ==
  \/ \E c \in Caller : WarmStep(c)
  \/ \E w \in Worker : Tell(w) \/ WorkerRestarts(w)
  \/ Quiet /\ UNCHANGED warmVars

WarmSpec == WarmInit /\ [][WarmNext]_warmVars

-----------------------------------------------------------------------------
(* Properties                                                              *)

\* What a worker advertises is there: from the moment a worker calls the group
\* warm, and whenever and in whatever order its heartbeats arrive, every file
\* of the group is complete on the disk, whoever downloaded it and whoever
\* died since.  (A flat file may be taken away again: FetchFromHub.)
WarmIsOnDisk ==
  told \/ warmed # {} => \A f \in File \ Flat : target[f] \in Bytes

\* Every new file is followed by a restart: when all callers are through, a
\* worker's ComfyUI runs without something that worker put in place only if
\* the worker died in between, its preflight skipped the restart, a restart or
\* the provisioner failed, or a call failed after the file was there.
UnloadedIsExcused ==
  Quiet => \A w \in unloaded :
    \/ crashes > 0
    \/ \E c \in Caller : /\ WorkerOf[c] = w
                         /\ tail[c] \in {"skipped", "failed"} \/ (at[c] = "error" /\ got[c])

===============================================================================
