----------------------------- MODULE InputStaging -----------------------------
(***************************************************************************)
(* How a job's input files get into ComfyUI's input directory and which    *)
(* bytes it renders from (src/comfy_client.py: apply_comfy_input_files,    *)
(* stage_comfy_input_file, _apply_image_fit, observe_staged_input_receipts;*)
(* src/app.py: _prepare_comfy_inputs and the retry loop).  The directory   *)
(* outlives the jobs and the worker and has no lock; ComfyUI opens a file  *)
(* when it gets to the prompt.                                             *)
(*                                                                         *)
(* One input file per job, all in one subfolder, which is none of those of *)
(* the WAVs.  A file's content stands for its digest, and an image for its *)
(* fit.  A file without an attestation goes by the name the caller gave    *)
(* it, which nothing keeps from being a name that is made from a digest.   *)
(* Jobs that run at once have different job ids.                           *)
(***************************************************************************)
EXTENDS Naturals

CONSTANTS
  Run,     \* the threads that execute jobs, one job after another
  Content, \* what an input file may hold
  FitKinds, \* (bound) the kinds of source that image_fit is tried with
  CallerName \* the filenames that callers choose

VARIABLES
  dir,      \* the input directory
  request,  \* the ComfyInputFile of each run's job
  at,       \* where its job is
  bound,    \* the file its graph names
  receipt,  \* the content_sha256 of its receipt
  read,     \* what ComfyUI read for it
  pass      \* 1 or 2: the pass of the retry loop

stagingVars == <<dir, request, at, bound, receipt, read, pass>>

None == "none"
Torn == "torn"   \* an invalid or half-written file

\* A filename that is made from no digest.
Generic == <<"generic", None>>

\* sha256_<digest>.<suffix>, fit_contain_<canvas>_<digest>.png and the WAV of
\* a job under its own directory.
Digest(c) == <<"sha256", c>>
Fitted(c) == <<"fit", c>>
Wav(c) == <<"wav", c>>

Name == {Generic} \cup {Digest(c) : c \in Content} \cup {Fitted(c) : c \in Content}

ASSUME StagingAssumption == CallerName \subseteq Name

\* attested inline data, an attested MPEG of infinitetalk, inline data or a
\* URL, a path on this machine, a path that is the destination itself, no
\* source at all.
Attested == {"attested", "talk"}

Request ==
  [kind : Attested, content : Content, name : {Generic}, fit : {FALSE}]
    \cup {q \in [kind : {"written", "copied"}, content : Content, name : CallerName,
                 fit : BOOLEAN]
               \cup [kind : {"itself", "found"}, content : {None}, name : CallerName,
                     fit : BOOLEAN] :
            q.fit => q.kind \in FitKinds}

NoRequest == [kind |-> None, content |-> None, name |-> Generic, fit |-> FALSE]
NoFile == << >>

StagingTypeOK ==
  /\ dir \in [Name -> Content \cup {None, Torn}]
  /\ request \in [Run -> Request \cup {NoRequest}]
  /\ at \in [Run -> {"idle", "looking", "unlinking", "writing", "copying", "checking",
                     "fitting", "refitting", "storing", "observing", "normalising",
                     "rendering", "rendered", "failed"}]
  /\ bound \in [Run -> Name \cup {Wav(c) : c \in Content} \cup {NoFile}]
  /\ receipt \in [Run -> Content \cup {None}]
  /\ read \in [Run -> Content \cup {None}]
  /\ pass \in [Run -> {1, 2}]

Goto(r, s) == at' = [at EXCEPT ![r] = s]

Valid(content) == content \notin {None, Torn}

IsAttested(r) == request[r].kind \in Attested

\* Mutant: an attested file goes by the caller's name too.
ByName(r) == request[r].name

StagedName(r) == IF IsAttested(r) THEN Digest(request[r].content) ELSE request[r].name

\* _is_valid_staged_input
ValidInput(r, name) ==
  /\ Valid(dir[name])
  /\ IsAttested(r) => dir[name] = request[r].content

\* What earlier jobs may have left under a name: what its digest says, or
\* anything where callers have put their files.
Left(n) ==
  IF n \in CallerName THEN Content \cup {None, Torn} ELSE {None, Torn, n[2]}

StagingInit ==
  /\ dir \in {d \in [Name -> Content \cup {None, Torn}] : \A n \in Name : d[n] \in Left(n)}
  /\ request = [r \in Run |-> NoRequest]
  /\ at = [r \in Run |-> "idle"]
  /\ bound = [r \in Run |-> NoFile]
  /\ receipt = [r \in Run |-> None]
  /\ read = [r \in Run |-> None]
  /\ pass = [r \in Run |-> 1]

\* The file is staged: the aspect fit, or the graph with its name.
Staged(r) ==
  IF request[r].fit
    THEN Goto(r, "fitting") /\ UNCHANGED bound
    ELSE Goto(r, "observing") /\ bound' = [bound EXCEPT ![r] = StagedName(r)]

-----------------------------------------------------------------------------
(* stage_comfy_input_file                                                  *)

TakeJob(r) ==
  /\ at[r] = "idle"
  /\ \E req \in Request : request' = [request EXCEPT ![r] = req]
  /\ Goto(r, "looking")
  /\ UNCHANGED <<dir, bound, receipt, read, pass>>

\* What is there is taken if it is valid and either attested or all there is.
Look(r) ==
  /\ at[r] = "looking"
  /\ IF ValidInput(r, StagedName(r)) /\ request[r].kind \in Attested \cup {"found"}
       THEN Staged(r)
       ELSE /\ Goto(r, IF dir[StagedName(r)] = None THEN "writing" ELSE "unlinking")
            /\ UNCHANGED bound
  /\ UNCHANGED <<dir, request, receipt, read, pass>>

\* "Replacing invalid staged Comfy input": by name, whatever it is by now.
Unlink(r) ==
  /\ at[r] = "unlinking"
  /\ dir' = [dir EXCEPT ![StagedName(r)] = None]
  /\ Goto(r, "writing")
  /\ UNCHANGED <<request, bound, receipt, read, pass>>

\* source_data and source_url: a private temporary file, renamed when it is
\* complete and valid.  A download may fail.
Write(r) ==
  /\ at[r] = "writing"
  /\ request[r].kind \in Attested \cup {"written"}
  /\ \/ dir' = [dir EXCEPT ![StagedName(r)] = request[r].content] /\ Goto(r, "checking")
     \/ ~IsAttested(r) /\ Goto(r, "failed") /\ UNCHANGED dir
  /\ UNCHANGED <<request, bound, receipt, read, pass>>

\* source_path, "Comfy input source not found": it is not there, or it was the
\* destination that has just been unlinked.
SourceMissing(r) ==
  /\ at[r] = "writing"
  /\ request[r].kind = "copied" \/ (request[r].kind = "itself" /\ dir[StagedName(r)] = None)
  /\ Goto(r, "failed")
  /\ UNCHANGED <<dir, request, bound, receipt, read, pass>>

\* Another job has put a file under the name meanwhile: there is nothing to copy.
SourceIsThere(r) ==
  /\ at[r] = "writing"
  /\ request[r].kind = "itself" /\ dir[StagedName(r)] # None
  /\ Goto(r, "checking")
  /\ UNCHANGED <<dir, request, bound, receipt, read, pass>>

\* shutil.copyfile writes to the name itself.
StartCopy(r) ==
  /\ at[r] = "writing"
  /\ request[r].kind = "copied"
  /\ dir' = [dir EXCEPT ![StagedName(r)] = Torn]
  /\ Goto(r, "copying")
  /\ UNCHANGED <<request, bound, receipt, read, pass>>

\* The bytes end up under the name unless it was unlinked or replaced; a copy
\* that fails leaves what it has.
EndCopy(r) ==
  /\ at[r] = "copying"
  /\ \/ /\ dir' = IF dir[StagedName(r)] = Torn
                    THEN [dir EXCEPT ![StagedName(r)] = request[r].content] ELSE dir
        /\ Goto(r, "checking")
     \/ Goto(r, "failed") /\ UNCHANGED dir
  /\ UNCHANGED <<request, bound, receipt, read, pass>>

\* "Comfy input file has no usable source"
NoSource(r) ==
  /\ at[r] = "writing"
  /\ request[r].kind = "found"
  /\ Goto(r, "failed")
  /\ UNCHANGED <<dir, request, bound, receipt, read, pass>>

\* _ensure_valid_staged_input on the name, after the write.
CheckStaged(r) ==
  /\ at[r] = "checking"
  /\ IF ValidInput(r, StagedName(r)) THEN Staged(r) ELSE Goto(r, "failed") /\ UNCHANGED bound
  /\ UNCHANGED <<dir, request, receipt, read, pass>>

-----------------------------------------------------------------------------
(* _apply_image_fit                                                        *)

\* It fits what is under the name when it opens it.
Fit(r) ==
  /\ at[r] = "fitting"
  /\ IF Valid(dir[StagedName(r)])
       THEN LET name == Fitted(dir[StagedName(r)])
            IN /\ bound' = [bound EXCEPT ![r] = name]
               /\ Goto(r, IF dir[name] = dir[StagedName(r)] THEN "observing"
                          ELSE IF dir[name] = None THEN "storing" ELSE "refitting")
       ELSE Goto(r, "failed") /\ UNCHANGED bound
  /\ UNCHANGED <<dir, request, receipt, read, pass>>

DiscardFit(r) ==
  /\ at[r] = "refitting"
  /\ dir' = [dir EXCEPT ![bound[r]] = None]
  /\ Goto(r, "storing")
  /\ UNCHANGED <<request, bound, receipt, read, pass>>

StoreFit(r) ==
  /\ at[r] = "storing"
  /\ dir' = [dir EXCEPT ![bound[r]] = bound[r][2]]
  /\ Goto(r, "observing")
  /\ UNCHANGED <<request, bound, receipt, read, pass>>

-----------------------------------------------------------------------------
(* The receipts, the prompt and its retry                                  *)

\* An exception in the loop: an error, or another pass after a restart of
\* ComfyUI.  The receipt of an infinitetalk job is not taken again.
PassFails(r) ==
  \/ Goto(r, "failed") /\ UNCHANGED pass
  \/ /\ pass[r] = 1
     /\ pass' = [pass EXCEPT ![r] = 2]
     /\ Goto(r, IF request[r].kind = "talk" THEN "rendering" ELSE "observing")

\* Mutant: the receipt repeats what the request says.
ObserveNothing(r) ==
  /\ at[r] = "observing"
  /\ receipt' = [receipt EXCEPT ![r] = request[r].content]
  /\ Goto(r, IF request[r].kind = "talk" THEN "normalising" ELSE "rendering")
  /\ UNCHANGED <<dir, request, bound, read, pass>>

\* observe_staged_input_receipts: the bytes now under the name in the graph; a
\* fitted image needs its original to be there too.  For infinitetalk it comes
\* before the loop.
Observe(r) ==
  /\ at[r] = "observing"
  /\ IF ValidInput(r, bound[r]) /\ (request[r].fit => Valid(dir[request[r].name]))
       THEN /\ receipt' = [receipt EXCEPT ![r] = dir[bound[r]]]
            /\ Goto(r, IF request[r].kind = "talk" THEN "normalising" ELSE "rendering")
            /\ UNCHANGED pass
       ELSE /\ IF request[r].kind = "talk" THEN Goto(r, "failed") /\ UNCHANGED pass
                                           ELSE PassFails(r)
            /\ UNCHANGED receipt
  /\ UNCHANGED <<dir, request, bound, read>>

\* normalize_approved_mpeg_to_wav opens the MPEG again.
Normalise(r) ==
  /\ at[r] = "normalising"
  /\ IF Valid(dir[bound[r]])
       THEN bound' = [bound EXCEPT ![r] = Wav(dir[bound[r]])] /\ Goto(r, "rendering")
       ELSE Goto(r, "failed") /\ UNCHANGED bound
  /\ UNCHANGED <<dir, request, receipt, read, pass>>

\* The prompt is submitted; ComfyUI gets to it and opens the file, or the pass
\* fails.
Render(r) ==
  /\ at[r] = "rendering"
  /\ LET found == IF bound[r] \in Name THEN dir[bound[r]] ELSE bound[r][2]
     IN \/ /\ Valid(found)
           /\ read' = [read EXCEPT ![r] = found]
           /\ Goto(r, "rendered")
           /\ UNCHANGED pass
        \/ PassFails(r) /\ UNCHANGED read
  /\ UNCHANGED <<dir, request, bound, receipt>>

\* The job ends; its files stay.
Leave(r) ==
  /\ at[r] \in {"rendered", "failed"}
  /\ Goto(r, "idle")
  /\ request' = [request EXCEPT ![r] = NoRequest]
  /\ bound' = [bound EXCEPT ![r] = NoFile]
  /\ receipt' = [receipt EXCEPT ![r] = None]
  /\ read' = [read EXCEPT ![r] = None]
  /\ pass' = [pass EXCEPT ![r] = 1]
  /\ UNCHANGED dir

StagingStep(r) ==
  \/ TakeJob(r) \/ Look(r) \/ Unlink(r) \/ Write(r) \/ SourceMissing(r) \/ SourceIsThere(r)
  \/ StartCopy(r) \/ EndCopy(r) \/ NoSource(r) \/ CheckStaged(r)
  \/ Fit(r) \/ DiscardFit(r) \/ StoreFit(r)
  \/ Observe(r) \/ Normalise(r) \/ Render(r) \/ Leave(r)

StagingNext == \E r \in Run : StagingStep(r)

StagingSpec == StagingInit /\ [][StagingNext]_stagingVars

-----------------------------------------------------------------------------
(* Properties                                                              *)

\* The name that the bytes of r's job depend on, if it is made from a digest.
Address(r) == IF IsAttested(r) THEN Digest(request[r].content) ELSE bound[r]

\* The receipt of an attested input states the attested bytes, whatever names
\* callers choose.  And if no caller chooses the name its input is addressed by,
\* a job with an attested or a fitted input renders from the bytes in its
\* receipt: whatever the others unlink, replace and half-write in the directory
\* between its staging, its receipt, ComfyUI's reading and the second pass.  (A
\* caller who names a file sha256_<digest>.png replaces another job's bytes.)
RendersWhatWasObserved ==
  \A r \in Run : at[r] = "rendered" =>
    /\ IsAttested(r) => receipt[r] = request[r].content
    /\ (IsAttested(r) \/ request[r].fit) /\ Address(r) \notin CallerName => read[r] = receipt[r]

===============================================================================
