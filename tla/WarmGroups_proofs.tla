-------------------------- MODULE WarmGroups_proofs --------------------------
(***************************************************************************)
(* What AssetStore and WarmGroups do for any number of callers, processes, *)
(* files and crashes.                                                      *)
(*                                                                         *)
(* On the disk everything rests on the lock: its holder alone takes a file *)
(* from missing to ready.  But the .part is not under the lock, because of *)
(* the clean-up, so each step of a download may rely on the .part only as  *)
(* far as it may have disappeared.                                         *)
(*                                                                         *)
(* The steps of WarmGroups are steps of AssetStore or leave the disk       *)
(* alone, so the theorems about the disk carry over; a caller that has     *)
(* gone through the files below some number has seen them ready, and they  *)
(* stay so.                                                                *)
(*                                                                         *)
(* The last section is about the specification of the run asset_store, in  *)
(* which the files or the volumes take all the steps.                      *)
(***************************************************************************)
EXTENDS MCAssetStore, VolumePair_proofs, TLAPS

\* Between these two steps of a download the target is missing.
DownloadSteps == {"fetching", "streaming", "verifying", "installing"}

\* A caller inside the `with` block holds the lock of its file.
LockIsHeld ==
  \A c \in Caller : at[c] \in LockedSteps => holder[file[c]] = c

\* What the holder of a lock relies on at each step.
HolderInv(c) ==
  /\ at[c] \in DownloadSteps => target[file[c]] = None
  /\ at[c] = "moving" =>
       /\ file[c] \in Flat
       /\ target[file[c]] \in Bytes
       /\ installs[file[c]] = 0
  /\ at[c] \in {"verifying", "installing"} => part[file[c]] # "partial"
  /\ at[c] = "installing" /\ file[c] \in Checked => part[file[c]] # "bad"

\* A file that was ever put in place is there; it was verified, and put there once.
FileInv(f) ==
  /\ installs[f] \in {0, 1}
  /\ target[f] = None => installs[f] = 0
  /\ target[f] # "partial"
  /\ f \in Checked \ Flat => target[f] # "bad"

AssetInv ==
  /\ AssetTypeOK
  /\ LockIsHeld
  /\ \A c \in Caller : HolderInv(c)
  /\ \A f \in File : FileInv(f)

USE AssetAssumption DEF AssetAssumption

-----------------------------------------------------------------------------
(* Single steps                                                            *)

\* The first file is one of the group's, and so is the next of any but the last.
LEMMA FileSteps ==
  /\ 1 \in File
  /\ \A f \in File : f < NumFiles => f + 1 \in File
BY DEF File

\* The next file is one of the group's, and taking it up touches nothing else.
LEMMA NextFileIsFile ==
  ASSUME AssetTypeOK, NEW c \in Caller, NextFile(c)
  PROVE  /\ at' \in [Caller -> Rest \cup {"precheck", "locking", "cleanup"} \cup LockedSteps]
         /\ at'[c] \in {"precheck", "ok"}
         /\ file' \in [Caller -> File]
         /\ \A d \in Caller : d # c => at'[d] = at[d] /\ file'[d] = file[d]
<1>1. file[c] \in File
  BY DEF AssetTypeOK
<1>2. CASE file[c] < NumFiles
  BY <1>1, <1>2, FileSteps DEF NextFile, Goto, AssetTypeOK
<1>3. CASE ~(file[c] < NumFiles)
  BY <1>3 DEF NextFile, Goto, AssetTypeOK, Rest
<1> QED
  BY <1>2, <1>3

\* A caller's step is its own, and of the files it touches only the one it is at.
LEMMA StepsAreOwn ==
  ASSUME AssetTypeOK, NEW c \in Caller, CallerStep(c)
  PROVE  /\ \A d \in Caller : d # c => at'[d] = at[d] /\ file'[d] = file[d]
         /\ \A f \in File : f # file[c] =>
              target'[f] = target[f] /\ part'[f] = part[f] /\ holder'[f] = holder[f]
                /\ installs'[f] = installs[f]
<1> USE DEF Goto, Fail, Unlock
<1>1. CASE Call(c) \/ Lock(c) \/ LockTimesOut(c) \/ Cleanup(c)
  BY <1>1 DEF AssetTypeOK, Call, Lock, LockTimesOut, Cleanup
<1>2. CASE Precheck(c) \/ Recheck(c)
  BY <1>2 DEF AssetTypeOK, Precheck, Recheck, NextFile
<1>3. CASE OpenPart(c) \/ FinishStream(c) \/ FetchFromHub(c)
  BY <1>3 DEF AssetTypeOK, OpenPart, FinishStream, FetchFromHub
<1>4. CASE MoveToPart(c) \/ DownloadFails(c) \/ Verify(c)
  BY <1>4 DEF AssetTypeOK, MoveToPart, DownloadFails, Verify
<1>5. CASE Install(c)
  BY <1>5 DEF AssetTypeOK, Install, NextFile
<1> QED
  BY <1>1, <1>2, <1>3, <1>4, <1>5 DEF CallerStep

\* A step keeps the types.
LEMMA StepTypes ==
  ASSUME AssetTypeOK, NEW c \in Caller, CallerStep(c)
  PROVE  AssetTypeOK'
<1> USE DEF AssetTypeOK, Goto, Fail, Unlock, Rest, LockedSteps, Bytes
<1>1. CASE Call(c)
  BY <1>1, FileSteps DEF Call
<1>7. CASE Lock(c) \/ LockTimesOut(c) \/ Cleanup(c)
  BY <1>7 DEF Lock, LockTimesOut, Cleanup
<1>2. CASE Precheck(c)
  BY <1>2, NextFileIsFile DEF Precheck
<1>3. CASE Recheck(c)
  BY <1>3, NextFileIsFile DEF Recheck
<1>4. CASE OpenPart(c) \/ FinishStream(c) \/ FetchFromHub(c)
  BY <1>4 DEF OpenPart, FinishStream, FetchFromHub
<1>5. CASE MoveToPart(c) \/ DownloadFails(c) \/ Verify(c)
  BY <1>5 DEF MoveToPart, DownloadFails, Verify
<1>6. CASE Install(c)
  <2>1. CASE part[file[c]] = None
    BY <1>6, <2>1 DEF Install
  <2>2. CASE part[file[c]] # None
    <3>1. /\ target' = [target EXCEPT ![file[c]] = part[file[c]]]
          /\ part' = [part EXCEPT ![file[c]] = None]
          /\ got' = [got EXCEPT ![c] = TRUE]
          /\ holder' = [holder EXCEPT ![file[c]] = None]
          /\ crashes' = crashes
          /\ NextFile(c)
      BY <1>6, <2>2 DEF Install
    <3>2. installs' \in [File -> Nat]
      BY <1>6, <2>2 DEF Install
    <3> QED
      BY <3>1, <3>2, NextFileIsFile
  <2> QED
    BY <2>1, <2>2
<1> QED
  BY <1>1, <1>2, <1>3, <1>4, <1>5, <1>6, <1>7 DEF CallerStep

\* What a step leaves the others: the files they hold, and all but their .part.
LEMMA OthersKeepTheirs ==
  ASSUME AssetInv, NEW c \in Caller, CallerStep(c), NEW d \in Caller, d # c
  PROVE  (at[d] \in LockedSteps => holder'[file[d]] = d) /\ HolderInv(d)'
<1> USE DEF AssetInv, AssetTypeOK
<1>1. at'[d] = at[d] /\ file'[d] = file[d] /\ file[d] \in File
  BY StepsAreOwn
<1>2. CASE at[d] \notin LockedSteps
  BY <1>1, <1>2 DEF HolderInv, LockedSteps, DownloadSteps
<1>3. CASE at[d] \in LockedSteps /\ file[c] # file[d]
  BY <1>1, <1>3, StepsAreOwn DEF HolderInv, LockIsHeld
<1>4. CASE at[d] \in LockedSteps /\ file[c] = file[d]
  <2>1. holder[file[c]] = d /\ holder[file[c]] # None /\ at[c] \notin LockedSteps
    BY <1>4 DEF LockIsHeld, None
  <2>2. /\ target' = target /\ holder' = holder /\ installs' = installs
        /\ part' \in {part, [part EXCEPT ![file[c]] = None]}
    BY <2>1 DEF CallerStep, Call, Precheck, Lock, LockTimesOut, Recheck, OpenPart,
       FinishStream, FetchFromHub, MoveToPart, DownloadFails, Verify, Install, Cleanup,
       LockedSteps
  <2> QED
    BY <1>1, <1>4, <2>1, <2>2 DEF HolderInv, None
<1> QED
  BY <1>2, <1>3, <1>4

\* What a step leaves the caller that takes it, and its file.
LEMMA OwnStep ==
  ASSUME AssetInv, NEW c \in Caller, CallerStep(c)
  PROVE  /\ at'[c] \in LockedSteps => holder'[file'[c]] = c
         /\ HolderInv(c)'
         /\ \A f \in File : f = file[c] => FileInv(f)'
<1> USE DEF AssetInv, AssetTypeOK, HolderInv, FileInv, Goto, LockedSteps, DownloadSteps, None
<1>1. CASE Call(c) \/ Lock(c) \/ LockTimesOut(c) \/ Cleanup(c)
  BY <1>1 DEF Call, Lock, LockTimesOut, Cleanup
<1>2. CASE Precheck(c)
  BY <1>2, NextFileIsFile DEF Precheck
<1>3. CASE Recheck(c)
  <2>1. CASE Ready(file[c])
    BY <1>3, <2>1, NextFileIsFile DEF Recheck
  <2>2. CASE ~Ready(file[c])
    BY <1>3, <2>2 DEF Recheck, Ready, LockIsHeld
  <2> QED
    BY <2>1, <2>2
<1>4. CASE OpenPart(c) \/ FinishStream(c) \/ FetchFromHub(c)
  BY <1>4 DEF OpenPart, FinishStream, FetchFromHub, Fail, Bytes, LockIsHeld
<1>5. CASE MoveToPart(c) \/ DownloadFails(c) \/ Verify(c)
  BY <1>5 DEF MoveToPart, DownloadFails, Verify, Fail, Bytes, LockIsHeld
<1>6. CASE Install(c)
  <2>1. CASE part[file[c]] = None
    BY <1>6, <2>1 DEF Install, Fail
  <2>2. CASE part[file[c]] # None
    <3>1. /\ target'[file[c]] = part[file[c]]
          /\ installs'[file[c]] = 1
          /\ NextFile(c)
      BY <1>6, <2>2 DEF Install
    <3>0. /\ part[file[c]] \notin {None, "partial"}
          /\ file[c] \in Checked => part[file[c]] # "bad"
      BY <1>6, <2>2 DEF Install
    <3>2. \A f \in File : f = file[c] => FileInv(f)'
      BY <3>0, <3>1 DEF FileInv
    <3>3. at'[c] \in {"precheck", "ok"}
      BY <3>1, NextFileIsFile
    <3> QED
      BY <3>2, <3>3
  <2> QED
    BY <2>1, <2>2
<1> QED
  BY <1>1, <1>2, <1>3, <1>4, <1>5, <1>6 DEF CallerStep

-----------------------------------------------------------------------------
(* The invariant                                                           *)

\* It holds of any disk the machine may start with.
LEMMA AssetInitInv == AssetInit => AssetInv
<1> SUFFICES ASSUME AssetInit
             PROVE  AssetInv
  OBVIOUS
<1>1. AssetTypeOK
  BY FileSteps DEF AssetInit, AssetTypeOK, Bytes, Rest, None
<1>2. LockIsHeld /\ \A c \in Caller : HolderInv(c)
  BY DEF AssetInit, LockIsHeld, HolderInv, LockedSteps, DownloadSteps
<1>3. \A f \in File : FileInv(f)
  BY DEF AssetInit, FileInv, None
<1> QED
  BY <1>1, <1>2, <1>3 DEF AssetInv

\* A crash frees the locks of the callers it sends back, and no others.
LEMMA CrashKeepsInv ==
  ASSUME AssetInv, NEW w \in Worker, Crash(w)
  PROVE  AssetInv'
<1> USE DEF AssetInv, AssetTypeOK
<1>1. AssetTypeOK'
  BY DEF Crash, Rest
<1>2. ASSUME NEW c \in Caller
      PROVE  (at'[c] \in LockedSteps => holder'[file'[c]] = c) /\ HolderInv(c)'
  <2>1. CASE WorkerOf[c] = w
    BY <2>1 DEF Crash, HolderInv, LockedSteps, DownloadSteps
  <2>2. CASE WorkerOf[c] # w
    <3>1. at'[c] = at[c] /\ file'[c] = file[c] /\ file[c] \in File
      BY <2>2 DEF Crash
    <3>2. at[c] \in LockedSteps => holder'[file[c]] = c
      BY <2>2, <3>1 DEF Crash, LockIsHeld
    <3> QED
      BY <3>1, <3>2 DEF Crash, HolderInv
  <2> QED
    BY <2>1, <2>2
<1>3. \A f \in File : FileInv(f)'
  BY DEF Crash, FileInv
<1> QED
  BY <1>1, <1>2, <1>3 DEF LockIsHeld

\* Every step keeps it.
LEMMA AssetStepInv == AssetInv /\ [AssetNext]_assetVars => AssetInv'
<1> SUFFICES ASSUME AssetInv, [AssetNext]_assetVars
             PROVE  AssetInv'
  OBVIOUS
<1>1. CASE UNCHANGED assetVars
  BY <1>1 DEF assetVars, AssetInv, AssetTypeOK, LockIsHeld, HolderInv, FileInv, Ready
<1>2. ASSUME NEW c \in Caller, CallerStep(c) PROVE AssetInv'
  <2>1. AssetTypeOK'
    BY <1>2, StepTypes DEF AssetInv
  <2>2. ASSUME NEW d \in Caller
        PROVE  (at'[d] \in LockedSteps => holder'[file'[d]] = d) /\ HolderInv(d)'
    <3>1. CASE d = c
      BY <1>2, <3>1, OwnStep
    <3>2. CASE d # c
      BY <1>2, <3>2, OthersKeepTheirs, StepsAreOwn DEF AssetInv
    <3> QED
      BY <3>1, <3>2
  <2>3. ASSUME NEW f \in File PROVE FileInv(f)'
    <3>1. CASE f = file[c]
      BY <1>2, <3>1, OwnStep
    <3>2. CASE f # file[c]
      BY <1>2, <3>2, StepsAreOwn DEF AssetInv, FileInv
    <3> QED
      BY <3>1, <3>2
  <2> QED
    BY <2>1, <2>2, <2>3 DEF AssetInv, LockIsHeld
<1> QED
  BY <1>1, <1>2, CrashKeepsInv DEF AssetNext

\* The inductive invariant of the disk and its callers.
THEOREM AssetInvariant == AssetSpec => []AssetInv
BY AssetInitInv, AssetStepInv, PTL DEF AssetSpec

\* Only verified, complete bytes have the name that ComfyUI loads.
THEOREM ReadyFilesAreVerified == AssetSpec => []ReadyIsVerified
<1>1. AssetInv => ReadyIsVerified
  BY DEF AssetInv, FileInv, ReadyIsVerified
<1> QED
  BY <1>1, AssetInvariant, PTL

\* A missing file is put in place once, however many find it missing.
THEOREM FilesAreInstalledOnce == AssetSpec => []InstalledOnce
<1>1. AssetInv => InstalledOnce
  BY DEF AssetInv, FileInv, InstalledOnce
<1> QED
  BY <1>1, AssetInvariant, PTL

\* No step takes a ready file away.
LEMMA StepsKeepReady ==
  ASSUME AssetInv, [AssetNext]_assetVars, NEW f \in File \ Flat, Ready(f)
  PROVE  target'[f] = target[f]
<1>1. CASE UNCHANGED assetVars \/ \E w \in Worker : Crash(w)
  BY <1>1 DEF assetVars, Crash
<1>2. ASSUME NEW c \in Caller, CallerStep(c) PROVE target'[f] = target[f]
  <2>1. CASE f # file[c]
    BY <1>2, <2>1, StepsAreOwn DEF AssetInv
  <2>2. CASE f = file[c]
    <3>1. at[c] \notin {"moving", "installing"}
      BY <2>2 DEF AssetInv, HolderInv, Ready, DownloadSteps
    <3> QED
      BY <1>2, <2>2, <3>1 DEF CallerStep, Call, Precheck, Lock, LockTimesOut, Recheck,
         OpenPart, FinishStream, FetchFromHub, MoveToPart, DownloadFails, Verify, Install,
         Cleanup
  <2> QED
    BY <2>1, <2>2
<1> QED
  BY <1>1, <1>2 DEF AssetNext

\* A ready file stays ready and stays the same.
THEOREM ReadyFilesStay == AssetSpec => ReadyStaysReady
<1>1. AssetInv /\ [AssetNext]_assetVars
        => [\A f \in File \ Flat : Ready(f) => target'[f] = target[f]]_assetVars
  BY StepsKeepReady
<1> QED
  BY <1>1, AssetInvariant, PTL DEF AssetSpec, ReadyStaysReady

-----------------------------------------------------------------------------
(* The report of a download                                                *)

\* The file is missing, or the hub's copy at its name is about to be taken away.
Pending(f) == ~Ready(f) \/ \E c \in Caller : at[c] = "moving" /\ file[c] = f

\* The call that completed the group has said so, or is past every reason not to.
ReportInv ==
  crashes = 0 /\ (\E f \in File : installs[f] > 0) =>
    \/ \E f \in File : Pending(f)
    \/ \E c \in Caller : got[c] /\ at[c] \in {"precheck", "ok"}

\* Only a renamed .part completes a group: a call that puts it in place has then
\* downloaded something, and goes on to the next file.
LEMMA Completion ==
  ASSUME AssetInv, NEW c \in Caller, CallerStep(c),
         NEW f \in File, Pending(f), ~Pending(f)'
  PROVE  got'[c] /\ at'[c] \in {"precheck", "ok"}
<1>1. AssetTypeOK
  BY DEF AssetInv
<1>2. f = file[c]
  BY <1>1, StepsAreOwn DEF Pending, Ready
<1>3. ASSUME ~Install(c) PROVE FALSE
  <2>1. CASE FetchFromHub(c)
    <3>1. CASE f \in Flat
      <4>1. at'[c] = "moving" /\ file'[c] = f
        BY <1>1, <1>2, <2>1, <3>1 DEF FetchFromHub, Goto, AssetTypeOK
      <4> QED
        BY <4>1 DEF Pending
    <3>2. CASE f \notin Flat
      BY <1>1, <1>2, <2>1, <3>2 DEF FetchFromHub, Goto, AssetTypeOK, Pending, Ready, AssetInv,
                                    HolderInv, DownloadSteps
    <3> QED
      BY <3>1, <3>2
  <2>2. CASE MoveToPart(c)
    <3>1. target'[f] = None
      BY <1>1, <1>2, <2>2 DEF MoveToPart, AssetTypeOK
    <3> QED
      BY <3>1 DEF Pending, Ready
  <2>3. CASE ~FetchFromHub(c) /\ ~MoveToPart(c)
    <3>1. target' = target /\ at[c] # "moving"
      BY <1>3, <2>3 DEF CallerStep, Call, Precheck, Lock, LockTimesOut, Recheck, OpenPart,
                        FinishStream, DownloadFails, Verify, Cleanup
    <3>2. \A d \in Caller : d # c => at'[d] = at[d] /\ file'[d] = file[d]
      BY <1>1, StepsAreOwn
    <3> QED
      BY <3>1, <3>2 DEF Pending, Ready
  <2> QED
    BY <2>1, <2>2, <2>3
<1>4. Install(c)
  BY <1>3
<1>5. part[file[c]] # None
  BY <1>1, <1>2, <1>4 DEF Install, Fail, Goto, Pending, Ready, AssetTypeOK, AssetInv, HolderInv,
                          DownloadSteps
<1>6. got'[c] = TRUE
  BY <1>1, <1>4, <1>5 DEF Install, AssetTypeOK
<1>7. at'[c] \in {"precheck", "ok"}
  BY <1>1, <1>4, <1>5, NextFileIsFile DEF Install
<1> QED
  BY <1>6, <1>7

\* Once every file is ready for good, nothing is downloaded any more, and a call
\* that has something to report gets to do it.
LEMMA CompleteStaysReported ==
  ASSUME AssetInv, NEW c \in Caller, CallerStep(c), \A f \in File : ~Pending(f)
  PROVE  /\ installs' = installs
         /\ \A d \in Caller : got[d] /\ at[d] \in {"precheck", "ok"} =>
              got'[d] /\ at'[d] \in {"precheck", "ok"}
<1>1. AssetTypeOK /\ file[c] \in File
  BY DEF AssetInv, AssetTypeOK
<1>2. at[c] \notin DownloadSteps \cup {"moving"}
  BY <1>1 DEF AssetInv, HolderInv, Pending, Ready
<1>3. ASSUME at[c] \in {"precheck", "ok"}, got[c] PROVE got'[c] /\ at'[c] \in {"precheck", "ok"}
  <2>1. Precheck(c)
    BY <1>3 DEF CallerStep, Call, Precheck, Lock, LockTimesOut, Recheck, OpenPart, FinishStream,
                FetchFromHub, MoveToPart, DownloadFails, Verify, Install, Cleanup
  <2>2. NextFile(c) /\ got' = got
    BY <1>1, <2>1 DEF Precheck, Pending
  <2> QED
    BY <1>1, <1>3, <2>2, NextFileIsFile
<1>4. installs' = installs
  BY <1>2 DEF DownloadSteps, CallerStep, Call, Precheck, Lock, LockTimesOut, Recheck, OpenPart,
              FinishStream, FetchFromHub, MoveToPart, DownloadFails, Verify, Install, Cleanup
<1>5. \A d \in Caller : d # c => at'[d] = at[d] /\ got'[d] = got[d]
  <2>1. got' = got \/ got' = [got EXCEPT ![c] = FALSE]
    BY <1>2 DEF DownloadSteps, CallerStep, Call, Precheck, Lock, LockTimesOut, Recheck, OpenPart,
                FinishStream, FetchFromHub, MoveToPart, DownloadFails, Verify, Install, Cleanup
  <2> QED
    BY <1>1, <2>1, StepsAreOwn DEF AssetTypeOK
<1> QED
  BY <1>3, <1>4, <1>5

\* Every step keeps the report.
LEMMA StepKeepsReport ==
  ASSUME AssetInv, ReportInv, [AssetNext]_assetVars
  PROVE  ReportInv'
<1>1. CASE UNCHANGED assetVars
  BY <1>1 DEF assetVars, ReportInv, Pending, Ready
<1>2. CASE \E w \in Worker : Crash(w)
  BY <1>2 DEF Crash, ReportInv, AssetInv, AssetTypeOK
<1>3. ASSUME NEW c \in Caller, CallerStep(c) PROVE ReportInv'
  <2>1. crashes' = crashes
    BY <1>3 DEF CallerStep, Call, Precheck, Lock, LockTimesOut, Recheck, OpenPart, FinishStream,
                FetchFromHub, MoveToPart, DownloadFails, Verify, Install, Cleanup
  <2>2. CASE \E f \in File : Pending(f)'
    BY <2>2 DEF ReportInv
  <2>3. CASE /\ \E f \in File : Pending(f)
             /\ \A f \in File : ~Pending(f)'
    BY <1>3, <2>3, Completion DEF ReportInv
  <2>4. CASE \A f \in File : ~Pending(f)
    BY <1>3, <2>1, <2>4, CompleteStaysReported DEF ReportInv
  <2> QED
    BY <2>2, <2>3, <2>4
<1> QED
  BY <1>1, <1>2, <1>3 DEF AssetNext

\* When all calls are over and have completed the group, one of them reports a
\* download, for any number of callers and files - unless a process died.
THEOREM DownloadsAreReported == AssetSpec => []DownloadIsReported
<1>1. AssetInit => ReportInv
  BY DEF AssetInit, ReportInv
<1>2. AssetInv /\ ReportInv /\ [AssetNext]_assetVars => ReportInv'
  BY StepKeepsReport
<1>3. AssetInv /\ ReportInv => DownloadIsReported
  BY DEF ReportInv, DownloadIsReported, Pending, Rest
<1> QED
  BY <1>1, <1>2, <1>3, AssetInvariant, PTL DEF AssetSpec

-----------------------------------------------------------------------------
(* What the callers do with the result                                     *)

\* The files of the group that a finished or advancing caller has seen are ready.
SeenIsReady ==
  \A c \in Caller : \A f \in File \ Flat :
    at[c] \notin {"idle", "error"} /\ (at[c] = "ok" \/ f < file[c]) => Ready(f)

\* Only a caller to whom ensure_asset_group has returned goes on.
TailFollowsReturn == \A c \in Caller : tail[c] # "none" => at[c] = "ok"

AdvertisedIsReady == told \/ warmed # {} => \A f \in File \ Flat : Ready(f)

\* c has put something in place and has still to restart its worker's ComfyUI,
\* or has not done so.
Owes(c) ==
  \/ got[c] /\ at[c] \notin {"idle", "ok"}
  \/ got[c] /\ at[c] = "ok" /\ tail[c] \in {"none", "provisioning"}
  \/ changed[c] /\ tail[c] \in {"marking", "deciding"}
  \/ tail[c] \in {"restarting", "skipped", "failed"}

UnloadedIsOwed ==
  crashes = 0 => \A w \in unloaded : \E c \in Caller : WorkerOf[c] = w /\ Owes(c)

WarmInv ==
  /\ WarmTypeOK
  /\ AssetInv
  /\ SeenIsReady
  /\ TailFollowsReturn
  /\ AdvertisedIsReady
  /\ UnloadedIsOwed

USE AssetAssumption, WarmAssumption DEF AssetAssumption, WarmAssumption

-----------------------------------------------------------------------------
(* Steps of the disk                                                       *)

\* A caller that has returned takes no step of ensure_asset_group; one that is
\* in it keeps what it has downloaded in mind.
LEMMA CallerSteps ==
  ASSUME AssetTypeOK, NEW c \in Caller, CallerStep(c)
  PROVE  /\ at[c] \notin {"ok", "error"} /\ at'[c] # "idle"
         /\ at[c] # "idle" /\ got[c] => got'[c]
         /\ installs' # installs => got'[c]
         /\ \A d \in Caller : d # c => got'[d] = got[d]
         /\ crashes' = crashes
<1> USE DEF AssetTypeOK, Goto, Fail
<1>1. CASE Call(c) \/ Lock(c) \/ LockTimesOut(c) \/ Cleanup(c)
  BY <1>1 DEF Call, Lock, LockTimesOut, Cleanup
<1>2. CASE Precheck(c) \/ Recheck(c)
  BY <1>2, NextFileIsFile DEF Precheck, Recheck
<1>3. CASE OpenPart(c) \/ FinishStream(c) \/ FetchFromHub(c)
  BY <1>3 DEF OpenPart, FinishStream, FetchFromHub
<1>4. CASE MoveToPart(c) \/ DownloadFails(c) \/ Verify(c)
  BY <1>4 DEF MoveToPart, DownloadFails, Verify
<1>5. CASE Install(c)
  <2>1. CASE part[file[c]] = None
    BY <1>5, <2>1 DEF Install
  <2>2. CASE part[file[c]] # None
    BY <1>5, <2>2, NextFileIsFile DEF Install
  <2> QED
    BY <2>1, <2>2
<1> QED
  BY <1>1, <1>2, <1>3, <1>4, <1>5 DEF CallerStep

\* Ready files stay ready.
LEMMA ReadyStays ==
  ASSUME AssetInv, [AssetNext]_assetVars, NEW f \in File \ Flat, Ready(f)
  PROVE  Ready(f)'
BY StepsKeepReady DEF Ready

\* A caller takes up the next file when its file is ready, and is through when
\* there is none.
LEMMA CallerAdvances ==
  ASSUME AssetTypeOK, NEW c \in Caller, CallerStep(c)
  PROVE  \/ at'[c] \in {"idle", "error"}
         \/ file'[c] = 1 /\ at'[c] = "precheck"
         \/ at[c] \notin {"idle", "error"} /\ file'[c] = file[c] /\ at'[c] # "ok"
         \/ /\ at[c] \notin {"idle", "error"}
            /\ target'[file[c]] # None
            /\ \/ file'[c] = file[c] + 1 /\ at'[c] = "precheck"
               \/ file'[c] = file[c] /\ file[c] = NumFiles /\ at'[c] = "ok"
<1> USE DEF AssetTypeOK, Goto, Fail
<1>1. CASE Call(c) \/ Lock(c) \/ LockTimesOut(c) \/ Cleanup(c)
  BY <1>1 DEF Call, Lock, LockTimesOut, Cleanup
<1>2. ASSUME NextFile(c)
      PROVE  \/ file'[c] = file[c] + 1 /\ at'[c] = "precheck"
             \/ file'[c] = file[c] /\ file[c] = NumFiles /\ at'[c] = "ok"
  <2>1. file[c] \in File
    OBVIOUS
  <2>2. file[c] \in Int /\ NumFiles \in Int /\ file[c] <= NumFiles
    BY <2>1 DEF File
  <2>3. CASE file[c] < NumFiles
    BY <1>2, <2>3 DEF NextFile
  <2>4. CASE ~(file[c] < NumFiles)
    BY <1>2, <2>2, <2>4 DEF NextFile
  <2> QED
    BY <2>3, <2>4
<1>3. CASE Precheck(c)
  BY <1>2, <1>3 DEF Precheck, Ready
<1>4. CASE Recheck(c)
  BY <1>2, <1>4 DEF Recheck, Ready
<1>5. CASE OpenPart(c) \/ FinishStream(c) \/ FetchFromHub(c)
  BY <1>5 DEF OpenPart, FinishStream, FetchFromHub
<1>6. CASE MoveToPart(c) \/ DownloadFails(c) \/ Verify(c)
  BY <1>6 DEF MoveToPart, DownloadFails, Verify
<1>7. CASE Install(c)
  <2>1. CASE part[file[c]] = None
    BY <1>7, <2>1 DEF Install
  <2>2. CASE part[file[c]] # None
    BY <1>2, <1>7, <2>2 DEF Install
  <2> QED
    BY <2>1, <2>2
<1> QED
  BY <1>1, <1>3, <1>4, <1>5, <1>6, <1>7 DEF CallerStep

\* What callers have seen ready is ready after any of their steps.
LEMMA SeenStaysReady ==
  ASSUME AssetInv, SeenIsReady, NEW c \in Caller, CallerStep(c)
  PROVE  SeenIsReady'
<1> SUFFICES ASSUME NEW d \in Caller, NEW f \in File \ Flat,
                    at'[d] \notin {"idle", "error"}, at'[d] = "ok" \/ f < file'[d]
             PROVE  Ready(f)'
  BY DEF SeenIsReady
<1>1. [AssetNext]_assetVars
  BY DEF AssetNext
<1>2. file[c] \in Int /\ f \in Int /\ f <= NumFiles /\ NumFiles \in Int /\ f >= 1
  <2>1. file[c] \in File
    BY DEF AssetInv, AssetTypeOK
  <2> QED
    BY <2>1 DEF File
<1>3. CASE d # c
  BY <1>1, <1>3, ReadyStays, StepsAreOwn DEF AssetInv, SeenIsReady
<1>4. CASE d = c
  <2>1. CASE at[c] \notin {"idle", "error"} /\ f < file[c]
    BY <1>1, <2>1, ReadyStays DEF SeenIsReady
  <2>2. CASE f = file[c] /\ target'[file[c]] # None
    BY <2>2 DEF Ready
  <2> QED
    BY <1>2, <1>4, <2>1, <2>2, CallerAdvances DEF AssetInv
<1> QED
  BY <1>3, <1>4

-----------------------------------------------------------------------------
(* The invariant, one action at a time                                     *)

\* It holds initially: a worker starts with what is on the disk.
LEMMA WarmInitInv == WarmInit => WarmInv
<1> SUFFICES ASSUME WarmInit
             PROVE  WarmInv
  OBVIOUS
<1>1. AssetInv /\ AssetTypeOK
  BY AssetInitInv DEF WarmInit, AssetInv
<1>2. WarmTypeOK
  BY <1>1 DEF WarmInit, WarmTypeOK
<1>3. SeenIsReady /\ TailFollowsReturn
  BY DEF WarmInit, AssetInit, SeenIsReady, TailFollowsReturn
<1>4. AdvertisedIsReady
  BY DEF WarmInit, AdvertisedIsReady, OnDisk
<1>5. UnloadedIsOwed
  BY DEF WarmInit, UnloadedIsOwed
<1> QED
  BY <1>1, <1>2, <1>3, <1>4, <1>5 DEF WarmInv

\* A step of ensure_asset_group.
LEMMA AssetStepKeepsInv ==
  ASSUME WarmInv, NEW c \in Caller, AssetStep(c)
  PROVE  WarmInv'
<1> USE DEF WarmInv
<1>1. AssetTypeOK /\ CallerStep(c) /\ [AssetNext]_assetVars
  BY DEF AssetStep, AssetNext, WarmTypeOK
<1>2. AssetInv' /\ AssetTypeOK'
  BY <1>1, AssetStepInv DEF AssetInv
<1>3. /\ tail' = tail /\ changed' = changed /\ warmed' = warmed /\ told' = told
      /\ provisioned' = provisioned
      /\ unloaded' = IF installs' # installs THEN unloaded \cup {WorkerOf[c]} ELSE unloaded
  BY DEF AssetStep
<1>4. WarmTypeOK'
  BY <1>2, <1>3 DEF WarmTypeOK
<1>5. SeenIsReady'
  BY <1>1, SeenStaysReady
<1>6. tail[c] = "none"
  BY <1>1, CallerSteps DEF TailFollowsReturn
<1>7. TailFollowsReturn'
  BY <1>1, <1>3, <1>6, StepsAreOwn DEF TailFollowsReturn
<1>8. AdvertisedIsReady'
  BY <1>1, <1>3, ReadyStays DEF AdvertisedIsReady
<1>9. ASSUME crashes' = 0, NEW w \in unloaded'
      PROVE  \E d \in Caller : WorkerOf[d] = w /\ Owes(d)'
  <2>1. CASE w \notin unloaded
    <3>1. WorkerOf[c] = w /\ got'[c] /\ at'[c] # "idle"
      BY <1>1, <1>3, <1>9, <2>1, CallerSteps
    <3> QED
      BY <1>3, <1>6, <3>1 DEF Owes
  <2>2. CASE w \in unloaded
    <3>1. PICK d \in Caller : WorkerOf[d] = w /\ Owes(d)
      BY <1>1, <1>9, <2>2, CallerSteps DEF UnloadedIsOwed
    <3>2. CASE d = c
      <4>1. got'[c] /\ at'[c] # "idle"
        BY <1>1, <1>6, <3>1, <3>2, CallerSteps DEF Owes
      <4> QED
        BY <1>3, <1>6, <3>1, <3>2, <4>1 DEF Owes
    <3>3. CASE d # c
      <4>1. at'[d] = at[d] /\ got'[d] = got[d]
        BY <1>1, <3>3, CallerSteps, StepsAreOwn
      <4> QED
        BY <1>3, <3>1, <4>1 DEF Owes
    <3> QED
      BY <3>2, <3>3
  <2> QED
    BY <2>1, <2>2
<1> QED
  BY <1>2, <1>4, <1>5, <1>7, <1>8, <1>9 DEF UnloadedIsOwed

\* The steps that leave the disk alone keep what concerns it.
LEMMA DiskUntouched ==
  ASSUME WarmInv, UNCHANGED assetVars
  PROVE  /\ AssetInv' /\ AssetTypeOK' /\ SeenIsReady'
         /\ at' = at /\ got' = got /\ crashes' = crashes
         /\ \A f \in File : Ready(f) => Ready(f)'
<1>1. AssetInv'
  BY AssetStepInv DEF WarmInv
<1> QED
  BY <1>1 DEF WarmInv, assetVars, AssetInv, SeenIsReady, Ready

\* A caller goes on: it owes a restart as before, or its worker has had one.
LEMMA TailKeepsInv ==
  ASSUME WarmInv, NEW c \in Caller, UNCHANGED assetVars, told' = told,
         NEW s \in Ended \cup {"provisioning", "marking", "deciding", "restarting", "rendering"},
         tail' = [tail EXCEPT ![c] = s], at[c] = "ok",
         NEW b \in BOOLEAN, changed' = [changed EXCEPT ![c] = b],
         provisioned' \subseteq Worker,
         warmed' \in {warmed, warmed \cup {WorkerOf[c]}},
         \/ unloaded' = unloaded \ {WorkerOf[c]}
         \/ unloaded' = unloaded /\ (Owes(c) => Owes(c)')
         \/ unloaded' = unloaded \cup {WorkerOf[c]} /\ Owes(c)'
  PROVE  WarmInv'
<1> USE DEF WarmInv
<1>1. /\ AssetInv' /\ AssetTypeOK' /\ SeenIsReady'
      /\ at' = at /\ got' = got /\ crashes' = crashes
      /\ \A f \in File : Ready(f) => Ready(f)'
  BY DiskUntouched
<1>2. WarmTypeOK'
  BY <1>1 DEF WarmTypeOK
<1>3. TailFollowsReturn'
  BY <1>1 DEF TailFollowsReturn, WarmTypeOK
<1>4. \A f \in File \ Flat : Ready(f)'
  BY <1>1 DEF SeenIsReady
<1>5. AdvertisedIsReady'
  BY <1>4 DEF AdvertisedIsReady
<1>6. ASSUME crashes' = 0, NEW w \in unloaded'
      PROVE  \E d \in Caller : WorkerOf[d] = w /\ Owes(d)'
  <2>1. CASE w = WorkerOf[c] /\ Owes(c)'
    BY <2>1
  <2>2. CASE ~(w = WorkerOf[c] /\ Owes(c)')
    <3>1. w \in unloaded
      BY <1>6, <2>2
    <3>2. PICK d \in Caller : WorkerOf[d] = w /\ Owes(d)
      BY <1>1, <1>6, <3>1 DEF UnloadedIsOwed
    <3>3. d # c
      BY <1>6, <2>2, <3>2
    <3>4. Owes(d)'
      BY <1>1, <3>2, <3>3 DEF Owes, WarmTypeOK
    <3> QED
      BY <3>2, <3>4
  <2> QED
    BY <2>1, <2>2
<1> QED
  BY <1>1, <1>2, <1>3, <1>5, <1>6 DEF UnloadedIsOwed

\* The actions of a caller to whom ensure_asset_group has returned.
LEMMA TailStepsKeepInv ==
  ASSUME WarmInv, NEW c \in Caller,
         MarkWarm(c) \/ Provision(c) \/ Decide(c) \/ Restart(c) \/ Render(c)
  PROVE  WarmInv'
<1> USE DEF Proceed
<1>0. /\ at[c] = "ok" /\ tail \in [Caller -> Ended \cup {"none", "provisioning", "marking",
                                                   "deciding", "restarting", "rendering"}]
      /\ changed \in [Caller -> BOOLEAN] /\ got[c] \in BOOLEAN /\ WorkerOf[c] \in Worker
      /\ provisioned \subseteq Worker
  BY DEF WarmInv, WarmTypeOK, AssetTypeOK, TailFollowsReturn, MarkWarm, Provision, Decide,
     Restart, Render, Returned
<1>1. UNCHANGED assetVars /\ told' = told /\ at' = at /\ got' = got
  BY DEF MarkWarm, Provision, Decide, Restart, Render, assetVars
<1>2. CASE MarkWarm(c)
  <2>1. /\ changed' = [changed EXCEPT ![c] = changed[c]]
        /\ provisioned' = provisioned /\ unloaded' = unloaded
        /\ warmed' = warmed \cup {WorkerOf[c]}
    BY <1>0, <1>2 DEF MarkWarm
  <2>2. CASE MarksFirst(c)
    <3>1. tail[c] = "none" /\ tail' = [tail EXCEPT ![c] = "provisioning"]
      BY <1>2, <2>2 DEF MarkWarm, Returned
    <3>2. Owes(c) => Owes(c)'
      BY <1>0, <1>1, <3>1 DEF Owes
    <3> QED
      BY <1>0, <1>1, <2>1, <3>1, <3>2, TailKeepsInv
  <2>3. CASE ~MarksFirst(c)
    <3>1. tail[c] = "marking" /\ tail' = [tail EXCEPT ![c] = "deciding"]
      BY <1>2, <2>3 DEF MarkWarm
    <3>2. Owes(c) => Owes(c)'
      BY <1>0, <1>1, <2>1, <3>1 DEF Owes
    <3> QED
      BY <1>0, <1>1, <2>1, <3>1, <3>2, TailKeepsInv
  <2> QED
    BY <2>2, <2>3
<1>3. CASE Provision(c)
  <2> DEFINE due == HasProvisioner /\ WorkerOf[c] \notin provisioned
             next == IF MarksFirst(c) THEN "deciding" ELSE "marking"
  <2>0. warmed' = warmed /\ tail[c] \in {"none", "provisioning"}
    BY <1>3 DEF Provision, Returned
  <2>1. CASE /\ tail' = [tail EXCEPT ![c] = next]
             /\ changed' = [changed EXCEPT ![c] = got[c] \/ due]
             /\ IF due THEN /\ provisioned' = provisioned \cup {WorkerOf[c]}
                            /\ unloaded' = unloaded \cup {WorkerOf[c]}
                       ELSE provisioned' = provisioned /\ unloaded' = unloaded
    <3>1. got[c] \/ due => Owes(c)'
      BY <1>0, <2>1 DEF Owes
    <3>2. Owes(c) => got[c]
      BY <1>0, <2>0 DEF Owes
    <3>3. next \in {"deciding", "marking"} /\ (got[c] \/ due) \in BOOLEAN
      BY <1>0
    <3>4. /\ provisioned' \subseteq Worker
          /\ \/ unloaded' = unloaded /\ (Owes(c) => Owes(c)')
             \/ unloaded' = unloaded \cup {WorkerOf[c]} /\ Owes(c)'
      BY <1>0, <2>1, <3>1, <3>2
    <3> HIDE DEF due, next
    <3> QED
      BY <1>0, <1>1, <2>0, <2>1, <3>3, <3>4, TailKeepsInv
  <2>2. CASE /\ due
             /\ tail' = [tail EXCEPT ![c] = "failed"]
             /\ UNCHANGED <<changed, provisioned, unloaded>>
    <3>1. Owes(c)' /\ changed' = [changed EXCEPT ![c] = changed[c]]
      BY <1>0, <2>2 DEF Owes
    <3> QED
      BY <1>0, <1>1, <2>0, <2>2, <3>1, TailKeepsInv DEF Ended
  <2> QED
    BY <1>3, <2>1, <2>2 DEF Provision
<1>4. CASE Decide(c)
  <2>1. /\ tail[c] = "deciding" /\ warmed' = warmed /\ provisioned' = provisioned
        /\ unloaded' = unloaded
        /\ changed' = changed /\ changed' = [changed EXCEPT ![c] = changed[c]]
    BY <1>0, <1>4 DEF Decide
  <2>2. PICK s \in {"rendering", "over", "restarting", "skipped"} :
          /\ tail' = [tail EXCEPT ![c] = s]
          /\ s \in {"rendering", "over"} => ~changed[c]
    BY <1>4 DEF Decide
  <2>3. Owes(c) => Owes(c)'
    BY <1>0, <1>1, <2>1, <2>2 DEF Owes
  <2> QED
    BY <1>0, <1>1, <2>1, <2>2, <2>3, TailKeepsInv DEF Ended
<1>5. CASE Restart(c)
  <2>1. /\ tail[c] = "restarting" /\ warmed' = warmed /\ provisioned' = provisioned
        /\ changed' = [changed EXCEPT ![c] = changed[c]]
    BY <1>0, <1>5 DEF Restart
  <2>2. \/ /\ unloaded' = unloaded \ {WorkerOf[c]}
           /\ \E s \in {"rendering", "over"} : tail' = [tail EXCEPT ![c] = s]
        \/ unloaded' = unloaded /\ tail' = [tail EXCEPT ![c] = "failed"] /\ Owes(c)'
    BY <1>0, <1>5 DEF Restart, Owes
  <2> QED
    BY <1>0, <1>1, <2>1, <2>2, TailKeepsInv DEF Ended
<1>6. CASE Render(c)
  <2>1. /\ tail[c] = "rendering" /\ warmed' = warmed /\ provisioned' = provisioned
        /\ unloaded' = unloaded
        /\ tail' = [tail EXCEPT ![c] = "over"]
        /\ changed' = [changed EXCEPT ![c] = changed[c]]
        /\ ~Owes(c)
    BY <1>0, <1>6 DEF Render, Owes
  <2> QED
    BY <1>0, <1>1, <2>1, TailKeepsInv DEF Ended
<1> QED
  BY <1>2, <1>3, <1>4, <1>5, <1>6

\* A heartbeat repeats what the worker believes.
LEMMA TellKeepsInv ==
  ASSUME WarmInv, NEW w \in Worker, Tell(w)
  PROVE  WarmInv'
<1> USE DEF WarmInv
<1>1. /\ UNCHANGED assetVars /\ UNCHANGED <<tail, changed, warmed, provisioned, unloaded>>
      /\ told' = TRUE /\ warmed # {}
  BY DEF Tell
<1>2. /\ AssetInv' /\ AssetTypeOK' /\ SeenIsReady'
      /\ at' = at /\ got' = got /\ crashes' = crashes
      /\ \A f \in File : Ready(f) => Ready(f)'
  BY <1>1, DiskUntouched
<1> QED
  BY <1>1, <1>2 DEF WarmTypeOK, TailFollowsReturn, AdvertisedIsReady, UnloadedIsOwed, Owes

\* A worker that starts again looks at the disk.
LEMMA RestartKeepsInv ==
  ASSUME WarmInv, NEW w \in Worker, WorkerRestarts(w)
  PROVE  WarmInv'
<1> USE DEF WarmInv
<1>1. Crash(w) /\ [AssetNext]_assetVars
  BY DEF WorkerRestarts, AssetNext
<1>2. AssetInv' /\ AssetTypeOK'
  BY <1>1, AssetStepInv DEF AssetInv
<1>3. /\ target' = target /\ file' = file /\ crashes' = crashes + 1
      /\ at' = [c \in Caller |-> IF WorkerOf[c] = w THEN "idle" ELSE at[c]]
  BY <1>1 DEF Crash
<1>4. WarmTypeOK'
  BY <1>2 DEF WorkerRestarts, WarmTypeOK
<1>5. SeenIsReady'
  BY <1>3 DEF SeenIsReady, Ready
<1>6. TailFollowsReturn'
  BY <1>3 DEF WorkerRestarts, TailFollowsReturn
<1>7. AdvertisedIsReady'
  BY <1>3 DEF WorkerRestarts, AdvertisedIsReady, OnDisk, Ready
<1>8. UnloadedIsOwed'
  <2>1. crashes \in Nat
    BY DEF WarmTypeOK, AssetTypeOK
  <2> QED
    BY <1>3, <2>1 DEF UnloadedIsOwed
<1> QED
  BY <1>2, <1>4, <1>5, <1>6, <1>7, <1>8

\* Every step keeps it.
LEMMA WarmStepInv == WarmInv /\ [WarmNext]_warmVars => WarmInv'
<1> SUFFICES ASSUME WarmInv, [WarmNext]_warmVars
             PROVE  WarmInv'
  OBVIOUS
<1>1. CASE UNCHANGED warmVars
  <2>1. UNCHANGED assetVars /\ UNCHANGED <<tail, changed, warmed, provisioned, unloaded, told>>
    BY <1>1 DEF warmVars, tailVars
  <2> QED
    BY <2>1, DiskUntouched
       DEF WarmInv, WarmTypeOK, TailFollowsReturn, AdvertisedIsReady, UnloadedIsOwed, Owes
<1>2. ASSUME NEW c \in Caller, WarmStep(c) PROVE WarmInv'
  BY <1>2, AssetStepKeepsInv, TailStepsKeepInv DEF WarmStep
<1>3. ASSUME NEW w \in Worker, Tell(w) \/ WorkerRestarts(w) PROVE WarmInv'
  BY <1>3, TellKeepsInv, RestartKeepsInv
<1> QED
  BY <1>1, <1>2, <1>3 DEF WarmNext

-----------------------------------------------------------------------------
(* The theorems                                                            *)

\* The inductive invariant of the workers, their callers and the disk.
THEOREM WarmInvariant == WarmSpec => []WarmInv
BY WarmInitInv, WarmStepInv, PTL DEF WarmSpec

\* The states are of the right types.
THEOREM WarmTypeCorrect == WarmSpec => []WarmTypeOK
<1>1. WarmInv => WarmTypeOK
  BY DEF WarmInv
<1> QED
  BY <1>1, WarmInvariant, PTL

\* What the callers do afterwards does not disturb the disk: WarmGroups
\* implements AssetStore.
THEOREM WarmImplementsAssets == WarmSpec => AssetSpec
<1>1. WarmInit => AssetInit
  BY DEF WarmInit
<1>2. [WarmNext]_warmVars => [AssetNext]_assetVars
  BY DEF WarmNext, warmVars, WarmStep, AssetStep, MarkWarm, Provision, Decide, Restart, Render,
     Tell, WorkerRestarts, AssetNext
<1> QED
  BY <1>1, <1>2, PTL DEF WarmSpec, AssetSpec

\* A group that any worker has called warm is complete on the disk.
THEOREM WarmGroupsAreOnDisk == WarmSpec => []WarmIsOnDisk
<1>1. WarmInv => WarmIsOnDisk
  BY DEF WarmInv, AdvertisedIsReady, WarmIsOnDisk, AssetInv, AssetTypeOK, FileInv, Ready
<1> QED
  BY <1>1, WarmInvariant, PTL

\* A ComfyUI is left without new files only for one of the named reasons.
THEOREM UnloadedAreExcused == WarmSpec => []UnloadedIsExcused
<1>1. WarmInv => UnloadedIsExcused
  <2> DEFINE Excuse(w) == \E c \in Caller :
                             /\ WorkerOf[c] = w
                             /\ tail[c] \in {"skipped", "failed"} \/ (at[c] = "error" /\ got[c])
  <2> SUFFICES ASSUME WarmInv, Quiet, NEW w \in unloaded
               PROVE  crashes > 0 \/ Excuse(w)
    BY DEF UnloadedIsExcused
  <2>1. crashes = 0 \/ crashes > 0
    BY DEF WarmInv, WarmTypeOK, AssetTypeOK
  <2>2. CASE crashes = 0
    <3>1. PICK c \in Caller : WorkerOf[c] = w /\ Owes(c)
      BY <2>2 DEF WarmInv, UnloadedIsOwed
    <3>2. CASE at[c] = "error"
      BY <3>1, <3>2 DEF Owes, WarmInv, TailFollowsReturn
    <3>3. CASE tail[c] \in Ended
      BY <3>1, <3>3 DEF Owes, Ended, WarmInv, TailFollowsReturn
    <3> QED
      BY <3>2, <3>3 DEF Quiet
  <2> QED
    BY <2>1, <2>2
<1> QED
  BY <1>1, WarmInvariant, PTL

-----------------------------------------------------------------------------
(* The run of both stores                                                  *)

\* The specification TLC runs behaves as WarmGroups or as VolumePair, and leaves
\* the other at rest.
LEMMA OneStoreAtATime == MCSpec => WarmSpec /\ PairSpec
<1>1. MCInit => WarmInit /\ PairInit
  BY DEF MCInit, NewPair
<1>2. [MCNext]_<<warmVars, pairVars, about>> => [WarmNext]_warmVars
  BY DEF MCNext
<1>3. [MCNext]_<<warmVars, pairVars, about>> => [PairNext]_pairVars
  BY DEF MCNext
<1> QED  BY <1>1, <1>2, <1>3, PTL DEF MCSpec, WarmSpec, PairSpec

\* Both stores stay within their types, for any files, callers, plans and cards.
THEOREM StoresTypeCorrect == MCSpec => []StoresTypeOK
BY OneStoreAtATime, WarmTypeCorrect, PairTypeCorrect, PTL DEF StoresTypeOK

=============================================================================
