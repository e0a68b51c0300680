----------------------------- MODULE MCAssetStore -----------------------------
(* AssetStore and WarmGroups: a group of two files with a provisioner; a   *)
(* job and the preflight in one worker process, POST /assets/ensure in     *)
(* another, and one crash.  VolumePair as in MCVolumePair.  The files of   *)
(* the one and the volumes of the other share no state, so a behaviour is  *)
(* about one of them; one about the volumes looks at the files on them or  *)
(* at the units of the machines.                                           *)
EXTENDS WarmGroups, MCVolumePair, TLC

CONSTANTS c1, c2, c3, w1, w2

MCWorkerOf == c1 :> w1 @@ c2 :> w1 @@ c3 :> w2

MCRoleOf == c1 :> "job" @@ c2 :> "preflight" @@ c3 :> "ensure"

VARIABLE about

NoFileYet == \A f \in File : target[f] = None /\ part[f] = None

NewPair == PairInit /\ cuda = 12 /\ plan = <<"generation", "identity">> /\ caps = {}

MCInit ==
  /\ WarmInit /\ NewPair
  /\ about = "store" \/ (about \in {"volumes", "units"} /\ NoFileYet)

\* Bounds: the files on the volumes with machines of one card; the units with one
\* installation, one kind of card and nothing downloaded.
VolumesBound == cards <= 1 /\ caps = {}

UnitsBound ==
  /\ cuda = 12 /\ marker # "stale"
  /\ \A f \in Asset : f \notin onOs /\ onData[f] = "absent"

MCNext ==
  /\ \/ about = "store" /\ WarmNext /\ UNCHANGED pairVars
     \/ about = "volumes" /\ PairNext /\ VolumesBound' /\ UNCHANGED warmVars
     \/ about = "units" /\ PairNext /\ UnitsBound' /\ UNCHANGED warmVars
  /\ UNCHANGED about

MCSpec == MCInit /\ [][MCNext]_<<warmVars, pairVars, about>>

\* The two type invariants.
StoresTypeOK == WarmTypeOK /\ PairTypeOK
===============================================================================
