------------------------------ MODULE AssetStore ------------------------------
(***************************************************************************)
(* The model files of one asset group on the machine's disk                *)
(* (src/asset_manager.py: ensure_asset_group, _ensure_single_asset and the *)
(* downloaders).  The callers are the threads of jobs, of the preflight    *)
(* and of POST /assets/ensure, in any number of worker processes that      *)
(* share the disk; only the file <path>.lock stands between them, and a    *)
(* process may die at any step.                                            *)
(*                                                                         *)
(* "good" bytes are those the registry means, "bad" ones are not: a server *)
(* may deliver either.  Only the holder of a file's lock writes its .part, *)
(* but the clean-up of a failed call removes it without the lock.          *)
(***************************************************************************)
EXTENDS Integers, FiniteSets

CONSTANTS
  Caller,      \* calls of ensure_asset_group
  Worker,      \* worker processes
  WorkerOf,    \* the process each caller is a thread of
  NumFiles,    \* the group's files, 1 .. NumFiles in the order of the registry
  Checked,     \* the files with a sha256 in the registry
  Flat,        \* those that Hugging Face keeps under the very name of the target
  MaxCrashes   \* bound

File == 1 .. NumFiles

ASSUME AssetAssumption ==
  /\ "none" \notin Caller
  /\ WorkerOf \in [Caller -> Worker]
  /\ NumFiles \in Nat \ {0}
  /\ Checked \subseteq File
  /\ Flat \subseteq File
  /\ MaxCrashes \in Nat

VARIABLES
  target,    \* the model file at its final path
  part,      \* <path>.part
  holder,    \* who holds <path>.lock
  at,        \* where each caller is
  file,      \* the file it is working on
  got,       \* whether its downloaded_assets is non-empty
  crashes,   \* crashes so far
  installs   \* (history variable) how often each file was put in place

assetVars == <<target, part, holder, at, file, got, crashes, installs>>

None == "none"
Bytes == {"good", "bad"}
LockedSteps == {"recheck", "fetching", "streaming", "moving", "verifying", "installing"}
Rest == {"idle", "ok", "error"}

Ready(f) == target[f] # None

AssetTypeOK ==
  /\ target \in [File -> Bytes \cup {None, "partial"}]
  /\ part \in [File -> Bytes \cup {None, "partial"}]
  /\ holder \in [File -> Caller \cup {None}]
  /\ at \in [Caller -> Rest \cup {"precheck", "locking", "cleanup"} \cup LockedSteps]
  /\ file \in [Caller -> File]
  /\ got \in [Caller -> BOOLEAN]
  /\ crashes \in 0 .. MaxCrashes
  /\ installs \in [File -> Nat]

\* Files may be there already, and a dead download may have left a .part.
AssetInit ==
  /\ target \in [File -> {"good", None}]
  /\ part \in [File -> {"partial", None}]
  /\ holder = [f \in File |-> None]
  /\ at = [c \in Caller |-> "idle"]
  /\ file = [c \in Caller |-> 1]
  /\ got = [c \in Caller |-> FALSE]
  /\ crashes = 0
  /\ installs = [f \in File |-> 0]

Goto(c, step) == at' = [at EXCEPT ![c] = step]

\* Mutant: off by one.
NextFileTooMany(c) ==
  IF file[c] <= NumFiles
    THEN Goto(c, "precheck") /\ file' = [file EXCEPT ![c] = @ + 1]
    ELSE Goto(c, "ok") /\ UNCHANGED file

\* The caller is done with its file: the next one, or the end of the loop.
NextFile(c) ==
  IF file[c] < NumFiles
    THEN Goto(c, "precheck") /\ file' = [file EXCEPT ![c] = @ + 1]
    ELSE Goto(c, "ok") /\ UNCHANGED file

Unlock(c) == holder' = [holder EXCEPT ![file[c]] = None]

\* An exception in the `with` block: the block ends, and with it the lock; the
\* handler with its safe_unlink(temp_path) comes after.
Fail(c) == Goto(c, "cleanup") /\ Unlock(c)

-----------------------------------------------------------------------------
Call(c) ==
  /\ at[c] = "idle"
  /\ Goto(c, "precheck")
  /\ file' = [file EXCEPT ![c] = 1]
  /\ got' = [got EXCEPT ![c] = FALSE]
  /\ UNCHANGED <<target, part, holder, crashes, installs>>

\* Mutant: downloaded_assets is what the last file gave.
PrecheckForgets(c) ==
  /\ at[c] = "precheck"
  /\ IF Ready(file[c]) THEN NextFile(c) ELSE Goto(c, "locking") /\ UNCHANGED file
  /\ got' = [got EXCEPT ![c] = FALSE]
  /\ UNCHANGED <<target, part, holder, crashes, installs>>

\* The test without the lock.
Precheck(c) ==
  /\ at[c] = "precheck"
  /\ IF Ready(file[c]) THEN NextFile(c) ELSE Goto(c, "locking") /\ UNCHANGED file
  /\ UNCHANGED <<target, part, holder, got, crashes, installs>>

Lock(c) ==
  /\ at[c] = "locking"
  /\ holder[file[c]] = None
  /\ holder' = [holder EXCEPT ![file[c]] = c]
  /\ Goto(c, "recheck")
  /\ UNCHANGED <<target, part, file, got, crashes, installs>>

\* LockException: this handler leaves the .part of the holder alone.
LockTimesOut(c) ==
  /\ at[c] = "locking"
  /\ holder[file[c]] # None
  /\ Goto(c, "error")
  /\ UNCHANGED <<target, part, holder, file, got, crashes, installs>>

\* Mutant: no second test.
RecheckSkipped(c) ==
  /\ at[c] = "recheck"
  /\ part' = [part EXCEPT ![file[c]] = None]
  /\ Goto(c, "fetching")
  /\ UNCHANGED <<target, holder, file, got, crashes, installs>>

\* The test with the lock; then the .part of an earlier attempt goes.
Recheck(c) ==
  /\ at[c] = "recheck"
  /\ IF Ready(file[c])
       THEN NextFile(c) /\ Unlock(c) /\ UNCHANGED part
       ELSE /\ part' = [part EXCEPT ![file[c]] = None]
            /\ Goto(c, "fetching")
            /\ UNCHANGED <<holder, file>>
  /\ UNCHANGED <<target, got, crashes, installs>>

-----------------------------------------------------------------------------
(* _download_to_path                                                       *)

\* requests and aria2c create the .part and write to it by file handle.
OpenPart(c) ==
  /\ at[c] = "fetching"
  /\ part' = [part EXCEPT ![file[c]] = "partial"]
  /\ Goto(c, "streaming")
  /\ UNCHANGED <<target, holder, file, got, crashes, installs>>

\* The stream ends; if the name has gone meanwhile, is_non_empty_file says so.
FinishStream(c) ==
  /\ at[c] = "streaming"
  /\ IF part[file[c]] = None
       THEN Fail(c) /\ UNCHANGED part
       ELSE /\ \E bytes \in Bytes : part' = [part EXCEPT ![file[c]] = bytes]
            /\ Goto(c, "verifying")
            /\ UNCHANGED holder
  /\ UNCHANGED <<target, file, got, crashes, installs>>

\* hf_hub_download(local_dir = the target's directory) puts the whole file at
\* local_dir/<filename>, and os.replace moves it on to the .part.  For a flat
\* file local_dir/<filename> is the target.
FetchFromHub(c) ==
  /\ at[c] = "fetching"
  /\ \E bytes \in Bytes :
       IF file[c] \in Flat
         THEN /\ target' = [target EXCEPT ![file[c]] = bytes]
              /\ Goto(c, "moving")
              /\ UNCHANGED part
         ELSE /\ part' = [part EXCEPT ![file[c]] = bytes]
              /\ Goto(c, "verifying")
              /\ UNCHANGED target
  /\ UNCHANGED <<holder, file, got, crashes, installs>>

MoveToPart(c) ==
  /\ at[c] = "moving"
  /\ part' = [part EXCEPT ![file[c]] = target[file[c]]]
  /\ target' = [target EXCEPT ![file[c]] = None]
  /\ Goto(c, "verifying")
  /\ UNCHANGED <<holder, file, got, crashes, installs>>

\* Mutant: the exit status of the downloader is ignored.
DownloadFailureIgnored(c) ==
  /\ at[c] = "streaming"
  /\ Goto(c, "verifying")
  /\ UNCHANGED <<target, part, holder, file, got, crashes, installs>>

\* Only aria2c's wrapper removes the .part before the lock is released.
DownloadFails(c) ==
  /\ at[c] \in {"fetching", "streaming"}
  /\ Fail(c)
  /\ part' \in {part, [part EXCEPT ![file[c]] = None]}
  /\ UNCHANGED <<target, file, got, crashes, installs>>

-----------------------------------------------------------------------------
\* _verify_sha256 removes a file that does not match.  A file that is gone
\* makes it, or else the rename, raise FileNotFoundError.
Verify(c) ==
  /\ at[c] = "verifying"
  /\ IF file[c] \in Checked /\ part[file[c]] # "good"
       THEN Fail(c) /\ part' = [part EXCEPT ![file[c]] = None]
       ELSE Goto(c, "installing") /\ UNCHANGED <<part, holder>>
  /\ UNCHANGED <<target, file, got, crashes, installs>>

\* os.replace(temp_path, target_path), and the end of the `with` block.
Install(c) ==
  /\ at[c] = "installing"
  /\ IF part[file[c]] = None
       THEN Fail(c) /\ UNCHANGED <<target, part, file, got, installs>>
       ELSE /\ target' = [target EXCEPT ![file[c]] = part[file[c]]]
            /\ part' = [part EXCEPT ![file[c]] = None]
            /\ got' = [got EXCEPT ![c] = TRUE]
            /\ installs' = [installs EXCEPT ![file[c]] = @ + 1]
            /\ Unlock(c)
            /\ NextFile(c)
  /\ UNCHANGED crashes

\* Mutant: the handler removes the file itself.
CleanupTarget(c) ==
  /\ at[c] = "cleanup"
  /\ target' = [target EXCEPT ![file[c]] = None]
  /\ Goto(c, "error")
  /\ UNCHANGED <<part, holder, file, got, crashes, installs>>

\* safe_unlink(temp_path) of the handler: by name, whoever's .part it is now.
Cleanup(c) ==
  /\ at[c] = "cleanup"
  /\ part' = [part EXCEPT ![file[c]] = None]
  /\ Goto(c, "error")
  /\ UNCHANGED <<target, holder, file, got, crashes, installs>>

\* A process dies.  Its locks are freed; its .part files stay, and so does
\* whatever is at a target's name.  Its threads start over with the process.
Crash(w) ==
  /\ crashes < MaxCrashes
  /\ crashes' = crashes + 1
  /\ at' = [c \in Caller |-> IF WorkerOf[c] = w THEN "idle" ELSE at[c]]
  /\ holder' = [f \in File |-> IF holder[f] # None /\ WorkerOf[holder[f]] = w
                               THEN None ELSE holder[f]]
  /\ UNCHANGED <<target, part, file, got, installs>>

CallerStep(c) ==
  \/ Call(c) \/ Precheck(c) \/ Lock(c) \/ LockTimesOut(c) \/ Recheck(c)
  \/ OpenPart(c) \/ FinishStream(c) \/ FetchFromHub(c) \/ MoveToPart(c)
  \/ DownloadFails(c) \/ Verify(c) \/ Install(c) \/ Cleanup(c)

AllReturned == \A c \in Caller : at[c] \in {"ok", "error"}

AssetNext ==
  \/ \E c \in Caller : CallerStep(c)
  \/ \E w \in Worker : Crash(w)
  \/ AllReturned /\ UNCHANGED assetVars

AssetSpec == AssetInit /\ [][AssetNext]_assetVars

-----------------------------------------------------------------------------
(* Properties                                                              *)

\* Nothing incomplete or unverified is ever at the name ComfyUI loads from,
\* although another call's clean-up may take the .part away, and a later one
\* put a new .part in its place, between any two steps of a download.  (The hub
\* gives a flat file its name before it is verified, and the code takes it back.)
ReadyIsVerified ==
  \A f \in File : target[f] # "partial" /\ (f \in Checked \ Flat => target[f] # "bad")

\* However many threads and processes find a file missing, it is put in place
\* once: the second test, under the lock, sees what the first could not.
InstalledOnce == \A f \in File : installs[f] <= 1

\* A file that was ready stays ready, and stays the same: no other caller's
\* download, clean-up or crash takes it away.  The tests without the lock,
\* is_asset_group_warm and ComfyUI itself rely on it.
ReadyStaysReady ==
  [][\A f \in File \ Flat : Ready(f) => target'[f] = target[f]]_assetVars

\* If calls downloaded what completes the group, one of them says so in its
\* result, whichever of them failed or timed out on the other files: on that
\* report hangs the restart that lets ComfyUI see the files.  (A crash after
\* the rename loses it.)
DownloadIsReported ==
  (/\ \A f \in File : Ready(f)
   /\ \E f \in File : installs[f] > 0
   /\ \A c \in Caller : at[c] \in Rest
   /\ crashes = 0) => \E c \in Caller : at[c] = "ok" /\ got[c]

=============================================================================
