------------------------ MODULE InputStaging_proofs ------------------------
(* Proofs about InputStaging, for any number of threads, any contents and  *)
(* any names that callers choose.                                          *)
EXTENDS InputStaging, TLAPS

\* A name that is made from a digest and that no caller chooses never holds
\* anything else that is valid.
NamesAreKept ==
  \A c \in Content :
    /\ Digest(c) \notin CallerName => dir[Digest(c)] \in {None, Torn, c}
    /\ Fitted(c) \notin CallerName => dir[Fitted(c)] \in {None, Torn, c}

\* The file that the graph of r's job names while its receipt is being taken.
BindsItsInput(r) ==
  /\ IsAttested(r) => bound[r] = Digest(request[r].content)
  /\ request[r].fit => \E c \in Content : bound[r] = Fitted(c)
  /\ ~IsAttested(r) /\ ~request[r].fit => bound[r] = request[r].name

\* What r's job is about to give to ComfyUI agrees with its receipt.
BindsItsReceipt(r) ==
  /\ receipt[r] \in Content
  /\ IsAttested(r) =>
       /\ receipt[r] = request[r].content
       /\ \/ bound[r] = Digest(request[r].content)
          \/ /\ request[r].kind = "talk"
             /\ \E c \in Content :
                  /\ bound[r] = Wav(c)
                  /\ Digest(request[r].content) \notin CallerName => c = receipt[r]
  /\ request[r].fit =>
       \E c \in Content : bound[r] = Fitted(c) /\ (Fitted(c) \notin CallerName => c = receipt[r])
  /\ ~IsAttested(r) /\ ~request[r].fit => bound[r] = request[r].name

RenderedIts(r) ==
  /\ IsAttested(r) => receipt[r] = request[r].content
  /\ (IsAttested(r) \/ request[r].fit) /\ Address(r) \notin CallerName => read[r] = receipt[r]

\* Where r's job is, and what it relies on there.
JobInv(r) ==
  /\ at[r] # "idle" => request[r] \in Request
  /\ at[r] = "copying" => request[r].kind = "copied"
  /\ at[r] \in {"fitting", "refitting", "storing"} => request[r].fit
  /\ at[r] \in {"refitting", "storing"} => \E c \in Content : bound[r] = Fitted(c)
  /\ at[r] = "observing" => BindsItsInput(r)
  /\ at[r] = "normalising" =>
       /\ request[r].kind = "talk"
       /\ bound[r] = Digest(request[r].content)
       /\ receipt[r] = request[r].content
  /\ at[r] = "rendering" => BindsItsReceipt(r)
  /\ at[r] = "rendered" => RenderedIts(r)

StagingInv == StagingTypeOK /\ NamesAreKept /\ \A r \in Run : JobInv(r)

-----------------------------------------------------------------------------
(* Names and requests                                                      *)

\* Names of different kinds differ, and a digest's name tells the digest.
LEMMA NamesDiffer ==
  \A c, d \in Content :
    /\ Digest(c) # Generic /\ Fitted(c) # Generic
    /\ Digest(c) # Fitted(d)
    /\ Digest(c) = Digest(d) => c = d
    /\ Fitted(c) = Fitted(d) => c = d
    /\ Wav(c) \notin Name
    /\ Fitted(c)[2] = c /\ Wav(c)[2] = c
BY DEF Digest, Fitted, Wav, Generic, Name

\* Every name that a job can meet is one of the directory's.
LEMMA NamesAreNames ==
  /\ Generic \in Name
  /\ \A c \in Content : Digest(c) \in Name /\ Fitted(c) \in Name
BY DEF Name

\* An attested input is never fitted, and it has a content; any other goes by a
\* name that callers choose.
LEMMA RequestKinds ==
  ASSUME NEW q \in Request
  PROVE  /\ q.kind \in Attested => q.content \in Content /\ q.fit = FALSE
         /\ q.kind \in {"written", "copied"} => q.content \in Content
         /\ q.kind \in {"attested", "talk", "written", "copied", "itself", "found"}
         /\ q.fit \in BOOLEAN
         /\ q.kind \notin Attested => q.name \in CallerName
         /\ q.name \in Name
BY StagingAssumption, NamesAreNames DEF Request, Attested

\* What is staged goes by a name of the directory.
LEMMA StagedNameIsName ==
  ASSUME NEW r \in Run, request[r] \in Request
  PROVE  StagedName(r) \in Name
BY NamesAreNames, RequestKinds DEF StagedName, IsAttested

\* What is valid under a digest's name is what the digest says, if no caller
\* chooses that name.
LEMMA ValidIsNamed ==
  ASSUME NamesAreKept, NEW c \in Content
  PROVE  /\ Valid(dir[Digest(c)]) /\ Digest(c) \notin CallerName => dir[Digest(c)] = c
         /\ Valid(dir[Fitted(c)]) /\ Fitted(c) \notin CallerName => dir[Fitted(c)] = c
BY DEF NamesAreKept, Valid

\* A job relies on nothing that a step of another job changes.
LEMMA OthersKeepTheirs ==
  ASSUME NEW r \in Run, JobInv(r),
         at'[r] = at[r], request'[r] = request[r], bound'[r] = bound[r],
         receipt'[r] = receipt[r], read'[r] = read[r]
  PROVE  JobInv(r)'
BY DEF JobInv, BindsItsInput, BindsItsReceipt, RenderedIts, IsAttested, Address

\* A step of a job is its own: it changes nothing of the others but files.
LEMMA StepsAreOwn ==
  ASSUME StagingTypeOK, NEW r \in Run, StagingStep(r), NEW q \in Run, q # r
  PROVE  /\ at'[q] = at[q] /\ request'[q] = request[q] /\ bound'[q] = bound[q]
         /\ receipt'[q] = receipt[q] /\ read'[q] = read[q]
<1> USE DEF StagingTypeOK, Goto
<1>1. CASE TakeJob(r)
  BY <1>1 DEF TakeJob
<1>2. CASE Look(r) \/ CheckStaged(r)
  BY <1>2 DEF Look, CheckStaged, Staged
<1>3. CASE \/ Unlink(r) \/ Write(r) \/ SourceMissing(r) \/ SourceIsThere(r)
           \/ StartCopy(r) \/ EndCopy(r) \/ NoSource(r)
  BY <1>3 DEF Unlink, Write, SourceMissing, SourceIsThere, StartCopy, EndCopy, NoSource
<1>4. CASE Fit(r) \/ DiscardFit(r) \/ StoreFit(r)
  BY <1>4 DEF Fit, DiscardFit, StoreFit
<1>5. CASE Observe(r) \/ Normalise(r)
  BY <1>5 DEF Observe, Normalise, PassFails
<1>6. CASE Render(r) \/ Leave(r)
  BY <1>6 DEF Render, Leave, PassFails
<1> QED
  BY <1>1, <1>2, <1>3, <1>4, <1>5, <1>6 DEF StagingStep

-----------------------------------------------------------------------------
(* The invariant, one action at a time                                     *)

\* After a validated staging the job goes on with what it staged.
LEMMA StagedBinds ==
  ASSUME StagingInv, NEW r \in Run, request[r] \in Request, Staged(r), request' = request,
         receipt' = receipt, read' = read
  PROVE  /\ at' \in [Run -> {"idle", "looking", "unlinking", "writing", "copying", "checking",
                            "fitting", "refitting", "storing", "observing", "normalising",
                            "rendering", "rendered", "failed"}]
         /\ bound' \in [Run -> Name \cup {Wav(c) : c \in Content} \cup {NoFile}]
         /\ JobInv(r)'
<1> USE DEF StagingInv, StagingTypeOK
<1>1. StagedName(r) \in Name
  BY StagedNameIsName
<1>2. CASE request[r].fit
  <2>1. at' = [at EXCEPT ![r] = "fitting"] /\ bound' = bound
    BY <1>2 DEF Staged, Goto
  <2> QED
    BY <2>1, <1>2 DEF JobInv
<1>3. CASE ~request[r].fit
  <2>1. at' = [at EXCEPT ![r] = "observing"] /\ bound' = [bound EXCEPT ![r] = StagedName(r)]
    BY <1>3 DEF Staged, Goto
  <2>2. BindsItsInput(r)'
    BY <2>1, <1>3 DEF BindsItsInput, StagedName, IsAttested
  <2> QED
    BY <2>1, <2>2, <1>1 DEF JobInv
<1> QED
  BY <1>2, <1>3

\* Up to the staged file.
LEMMA StagingKeepsInv ==
  ASSUME StagingInv, NEW r \in Run,
         \/ TakeJob(r) \/ Look(r) \/ Unlink(r) \/ Write(r) \/ SourceMissing(r)
         \/ SourceIsThere(r) \/ StartCopy(r) \/ EndCopy(r) \/ NoSource(r) \/ CheckStaged(r)
  PROVE  StagingTypeOK' /\ NamesAreKept' /\ JobInv(r)'
<1> USE DEF StagingInv
<1>1. CASE TakeJob(r)
  <2>1. StagingTypeOK' /\ NamesAreKept'
    BY <1>1 DEF TakeJob, Goto, StagingTypeOK, NamesAreKept
  <2>2. JobInv(r)'
    BY <1>1 DEF TakeJob, Goto, StagingTypeOK, JobInv
  <2> QED
    BY <2>1, <2>2
<1> SUFFICES ASSUME ~TakeJob(r)
             PROVE  StagingTypeOK' /\ NamesAreKept' /\ JobInv(r)'
  BY <1>1
<1>2. /\ request[r] \in Request
      /\ StagedName(r) \in Name
      /\ request' = request /\ receipt' = receipt /\ read' = read /\ pass' = pass
  <2>1. at[r] # "idle" /\ request' = request /\ receipt' = receipt /\ read' = read
          /\ pass' = pass
    BY DEF Look, Unlink, Write, SourceMissing, SourceIsThere, StartCopy, EndCopy, NoSource,
       CheckStaged
  <2> QED
    BY <2>1, StagedNameIsName DEF JobInv
<1>3. CASE Look(r) \/ CheckStaged(r)
  <2>1. dir' = dir
    BY <1>3 DEF Look, CheckStaged
  <2>2. CASE Staged(r)
    BY <2>1, <2>2, <1>2, StagedBinds DEF StagingTypeOK, NamesAreKept
  <2>3. CASE ~Staged(r)
    <3>1. /\ at' \in {[at EXCEPT ![r] = s] : s \in {"writing", "unlinking", "failed"}}
          /\ bound' = bound
      BY <1>3, <2>3 DEF Look, CheckStaged, Goto
    <3> QED
      BY <3>1, <2>1, <1>2 DEF StagingTypeOK, NamesAreKept, JobInv
  <2> QED
    BY <2>2, <2>3
<1>4. CASE \/ Unlink(r) \/ Write(r) \/ SourceMissing(r) \/ SourceIsThere(r)
           \/ StartCopy(r) \/ EndCopy(r) \/ NoSource(r)
  <2>1. /\ \/ at' \in {[at EXCEPT ![r] = s] : s \in {"writing", "checking", "failed"}}
           \/ at' = [at EXCEPT ![r] = "copying"] /\ request[r].kind = "copied"
        /\ bound' = bound
    BY <1>4 DEF Unlink, Write, SourceMissing, SourceIsThere, StartCopy, EndCopy, NoSource, Goto
  <2>2. JobInv(r)'
    BY <2>1, <1>2 DEF JobInv, StagingTypeOK
  <2>3. \/ dir' = dir
        \/ dir' = [dir EXCEPT ![StagedName(r)] = None]
        \/ /\ request[r].content \in Content
           /\ dir' = [dir EXCEPT ![StagedName(r)] = request[r].content]
        \/ /\ StagedName(r) \in CallerName
           /\ \E v \in Content \cup {Torn} : dir' = [dir EXCEPT ![StagedName(r)] = v]
    BY <1>4, <1>2, RequestKinds
       DEF Unlink, Write, SourceMissing, SourceIsThere, StartCopy, EndCopy, NoSource,
           Attested, JobInv, IsAttested, StagedName
  <2>4. dir' \in [Name -> Content \cup {None, Torn}]
    BY <2>3, <1>2, NamesAreNames DEF StagingTypeOK
  <2>5. NamesAreKept'
    <3>1. ASSUME NEW c \in Content, Digest(c) \notin CallerName
          PROVE  dir'[Digest(c)] \in {None, Torn, c}
      <4>1. StagedName(r) = Digest(c) => IsAttested(r) /\ request[r].content = c
        BY <1>2, <3>1, RequestKinds, NamesDiffer DEF StagedName, IsAttested
      <4>2. dir'[Digest(c)] \in {dir[Digest(c)], None} \/ dir'[Digest(c)] = c
        BY <2>3, <1>2, <3>1, <4>1, NamesAreNames DEF StagingTypeOK
      <4> QED
        BY <3>1, <4>2 DEF NamesAreKept
    <3>2. ASSUME NEW c \in Content, Fitted(c) \notin CallerName
          PROVE  dir'[Fitted(c)] \in {None, Torn, c}
      <4>1. StagedName(r) # Fitted(c)
        BY <1>2, <3>2, RequestKinds, NamesDiffer DEF StagedName, IsAttested
      <4>2. dir'[Fitted(c)] = dir[Fitted(c)]
        BY <2>3, <1>2, <4>1, NamesAreNames DEF StagingTypeOK
      <4> QED
        BY <3>2, <4>2 DEF NamesAreKept
    <3> QED
      BY <3>1, <3>2 DEF NamesAreKept
  <2> QED
    BY <2>1, <2>2, <2>4, <2>5, <1>2 DEF StagingTypeOK
<1> QED
  BY <1>3, <1>4

\* The aspect fit.
LEMMA FittingKeepsInv ==
  ASSUME StagingInv, NEW r \in Run, Fit(r) \/ DiscardFit(r) \/ StoreFit(r)
  PROVE  StagingTypeOK' /\ NamesAreKept' /\ JobInv(r)'
<1> USE DEF StagingInv
<1>1. /\ request[r] \in Request /\ request[r].fit /\ ~IsAttested(r)
      /\ request' = request /\ receipt' = receipt /\ read' = read /\ pass' = pass
  <2>1. at[r] \in {"fitting", "refitting", "storing"}
          /\ request' = request /\ receipt' = receipt /\ read' = read /\ pass' = pass
    BY DEF Fit, DiscardFit, StoreFit
  <2> QED
    BY <2>1, RequestKinds DEF JobInv, IsAttested
<1>2. CASE Fit(r) /\ Valid(dir[StagedName(r)])
  <2>1. PICK c \in Content :
          /\ bound' = [bound EXCEPT ![r] = Fitted(c)]
          /\ at' \in {[at EXCEPT ![r] = s] : s \in {"observing", "storing", "refitting"}}
          /\ dir' = dir
    BY <1>1, <1>2, StagedNameIsName DEF Fit, Goto, Valid, StagingTypeOK
  <2>2. bound'[r] = Fitted(c)
    BY <2>1 DEF StagingTypeOK
  <2>3. BindsItsInput(r)'
    BY <2>2, <1>1 DEF BindsItsInput, IsAttested
  <2> QED
    BY <2>1, <2>2, <2>3, <1>1, NamesAreNames DEF StagingTypeOK, NamesAreKept, JobInv
<1>3. CASE Fit(r) /\ ~Valid(dir[StagedName(r)])
  BY <1>1, <1>3 DEF Fit, Goto, StagingTypeOK, NamesAreKept, JobInv
<1>4. CASE DiscardFit(r) \/ StoreFit(r)
  <2>1. PICK c \in Content : bound[r] = Fitted(c)
    BY <1>4 DEF DiscardFit, StoreFit, JobInv
  <2>2. /\ at' \in {[at EXCEPT ![r] = s] : s \in {"storing", "observing"}}
        /\ bound' = bound
        /\ dir' \in {[dir EXCEPT ![Fitted(c)] = v] : v \in {None, c}}
    BY <1>4, <2>1, NamesDiffer DEF DiscardFit, StoreFit, Goto
  <2>3. dir' \in [Name -> Content \cup {None, Torn}] /\ NamesAreKept'
    BY <2>2, NamesAreNames, NamesDiffer DEF StagingTypeOK, NamesAreKept
  <2>4. BindsItsInput(r)' /\ JobInv(r)'
    BY <1>1, <2>1, <2>2 DEF BindsItsInput, JobInv, IsAttested, StagingTypeOK
  <2> QED
    BY <1>1, <2>2, <2>3, <2>4 DEF StagingTypeOK
<1> QED
  BY <1>2, <1>3, <1>4

\* The receipt states the bytes under the name that the graph has.
LEMMA ObserveKeepsInv ==
  ASSUME StagingInv, NEW r \in Run, Observe(r)
  PROVE  StagingTypeOK' /\ NamesAreKept' /\ JobInv(r)'
<1> USE DEF StagingInv
<1>1. /\ request[r] \in Request /\ BindsItsInput(r) /\ at[r] = "observing"
      /\ dir' = dir /\ request' = request /\ bound' = bound /\ read' = read
  BY DEF Observe, JobInv
<1>2. NamesAreKept'
  BY <1>1 DEF NamesAreKept
<1>3. CASE ValidInput(r, bound[r]) /\ (request[r].fit => Valid(dir[request[r].name]))
  <2>1. PICK s \in {"normalising", "rendering"} :
          /\ at' = [at EXCEPT ![r] = s]
          /\ s = "normalising" <=> request[r].kind = "talk"
          /\ receipt' = [receipt EXCEPT ![r] = dir[bound[r]]]
          /\ pass' = pass
    BY <1>3 DEF Observe, Goto
  <2>2. bound[r] \in Name /\ dir[bound[r]] \in Content
    <3>1. bound[r] \in Name
      BY <1>1, RequestKinds, NamesAreNames DEF BindsItsInput, IsAttested
    <3> QED
      BY <3>1, <1>3 DEF ValidInput, Valid, StagingTypeOK
  <2>3. /\ IsAttested(r) => dir[bound[r]] = request[r].content
        /\ request[r].fit =>
             \E c \in Content : bound[r] = Fitted(c) /\ (Fitted(c) \notin CallerName => c = dir[bound[r]])
    BY <1>1, <1>3, ValidIsNamed DEF BindsItsInput, ValidInput
  <2>4. BindsItsReceipt(r)'
    BY <1>1, <2>1, <2>2, <2>3
       DEF BindsItsInput, BindsItsReceipt, IsAttested, StagingTypeOK
  <2>5. JobInv(r)'
    BY <1>1, <2>1, <2>3, <2>4
       DEF JobInv, BindsItsInput, IsAttested, Attested, StagingTypeOK
  <2> QED
    BY <1>1, <1>2, <2>1, <2>2, <2>5 DEF StagingTypeOK
<1>4. CASE ~(ValidInput(r, bound[r]) /\ (request[r].fit => Valid(dir[request[r].name])))
  <2>1. /\ at' \in {[at EXCEPT ![r] = s] : s \in {"failed", "observing"}}
        /\ receipt' = receipt
        /\ pass' \in {pass, [pass EXCEPT ![r] = 2]}
    BY <1>4 DEF Observe, PassFails, Goto
  <2>2. JobInv(r)'
    BY <1>1, <2>1 DEF JobInv, BindsItsInput, IsAttested, StagingTypeOK
  <2> QED
    BY <1>1, <1>2, <2>1, <2>2 DEF StagingTypeOK
<1> QED
  BY <1>3, <1>4

\* The WAV of an infinitetalk job is made from the attested MPEG, if no caller
\* chooses the name of that.
LEMMA NormaliseKeepsInv ==
  ASSUME StagingInv, NEW r \in Run, Normalise(r)
  PROVE  StagingTypeOK' /\ NamesAreKept' /\ JobInv(r)'
<1> USE DEF StagingInv
<1>1. /\ request[r] \in Request /\ request[r].kind = "talk" /\ request[r].content \in Content
      /\ ~request[r].fit
      /\ bound[r] = Digest(request[r].content) /\ receipt[r] = request[r].content
      /\ dir' = dir /\ request' = request /\ receipt' = receipt /\ read' = read /\ pass' = pass
  BY RequestKinds DEF Normalise, JobInv, Attested
<1>2. NamesAreKept'
  BY <1>1 DEF NamesAreKept
<1>3. CASE Valid(dir[bound[r]])
  <2>1. PICK c \in Content :
          /\ at' = [at EXCEPT ![r] = "rendering"]
          /\ bound' = [bound EXCEPT ![r] = Wav(c)]
          /\ Digest(request[r].content) \notin CallerName => c = receipt[r]
    BY <1>1, <1>3, ValidIsNamed, NamesAreNames DEF Normalise, Goto, StagingTypeOK, Valid
  <2>2. BindsItsReceipt(r)'
    BY <1>1, <2>1 DEF BindsItsReceipt, IsAttested, Attested, StagingTypeOK
  <2> QED
    BY <1>1, <1>2, <2>1, <2>2 DEF StagingTypeOK, JobInv
<1>4. CASE ~Valid(dir[bound[r]])
  BY <1>1, <1>2, <1>4 DEF Normalise, Goto, StagingTypeOK, JobInv
<1> QED
  BY <1>3, <1>4

\* ComfyUI reads what the receipt says: the name it was given tells the bytes,
\* if no caller chooses that name.
LEMMA RenderKeepsInv ==
  ASSUME StagingInv, NEW r \in Run, Render(r)
  PROVE  StagingTypeOK' /\ NamesAreKept' /\ JobInv(r)'
<1> USE DEF StagingInv
<1> DEFINE found == IF bound[r] \in Name THEN dir[bound[r]] ELSE bound[r][2]
<1>1. /\ request[r] \in Request /\ BindsItsReceipt(r)
      /\ dir' = dir /\ request' = request /\ bound' = bound /\ receipt' = receipt
  BY DEF Render, JobInv
<1>2. NamesAreKept'
  BY <1>1 DEF NamesAreKept
<1>3. CASE /\ Valid(found)
           /\ read' = [read EXCEPT ![r] = found]
           /\ at' = [at EXCEPT ![r] = "rendered"]
           /\ pass' = pass
  <2>1. found \in Content
    <3>1. CASE bound[r] \in Name
      BY <1>3, <3>1 DEF StagingTypeOK, Valid
    <3>2. ASSUME NEW c \in Content, bound[r] = Wav(c)
          PROVE  found \in Content
      BY <3>2, NamesDiffer
    <3> QED
      BY <1>1, <3>1, <3>2, RequestKinds, NamesAreNames DEF BindsItsReceipt, IsAttested
  <2>2. ASSUME IsAttested(r) \/ request[r].fit, Address(r) \notin CallerName
        PROVE  found = receipt[r]
    <3>1. CASE bound[r] = Wav(receipt[r])
      BY <1>1, <3>1, NamesDiffer DEF BindsItsReceipt
    <3>2. CASE bound[r] \in {Digest(receipt[r]), Fitted(receipt[r])} /\ bound[r] \notin CallerName
      BY <1>1, <1>3, <3>2, NamesAreNames, ValidIsNamed DEF BindsItsReceipt
    <3> QED
      BY <1>1, <2>2, <3>1, <3>2, RequestKinds DEF BindsItsReceipt, Address, IsAttested
  <2>3. RenderedIts(r)'
    <3>1. request'[r] = request[r] /\ receipt'[r] = receipt[r] /\ bound'[r] = bound[r]
            /\ read'[r] = found
      BY <1>1, <1>3 DEF StagingTypeOK
    <3> QED
      BY <1>1, <2>2, <3>1 DEF RenderedIts, BindsItsReceipt, IsAttested, Address
  <2> QED
    BY <1>1, <1>2, <1>3, <2>1, <2>3 DEF StagingTypeOK, JobInv
<1>4. CASE PassFails(r) /\ read' = read
  <2>1. /\ \/ at' \in {[at EXCEPT ![r] = s] : s \in {"failed", "rendering"}}
           \/ at' = [at EXCEPT ![r] = "observing"] /\ request[r].kind # "talk"
        /\ pass' \in {pass, [pass EXCEPT ![r] = 2]}
    BY <1>4 DEF PassFails, Goto
  <2> QED
    BY <1>1, <1>2, <1>4, <2>1 DEF StagingTypeOK, JobInv, BindsItsReceipt, BindsItsInput,
       IsAttested
<1> QED
  BY <1>3, <1>4 DEF Render, Goto

\* The next job starts from nothing.
LEMMA LeaveKeepsInv ==
  ASSUME StagingInv, NEW r \in Run, Leave(r)
  PROVE  StagingTypeOK' /\ NamesAreKept' /\ JobInv(r)'
BY DEF StagingInv, Leave, Goto, StagingTypeOK, NamesAreKept, JobInv

-----------------------------------------------------------------------------
(* The theorems                                                            *)

\* The invariant holds initially.
LEMMA StagingInitInv == StagingInit => StagingInv
<1> SUFFICES ASSUME StagingInit
             PROVE  StagingInv
  OBVIOUS
<1>1. StagingTypeOK
  BY DEF StagingInit, StagingTypeOK
<1>2. NamesAreKept
  BY NamesAreNames, NamesDiffer DEF StagingInit, NamesAreKept, Left, Digest, Fitted
<1>3. \A r \in Run : JobInv(r)
  BY DEF StagingInit, JobInv
<1> QED
  BY <1>1, <1>2, <1>3 DEF StagingInv

\* A step of any job keeps it.
LEMMA StagingStepInv == StagingInv /\ [StagingNext]_stagingVars => StagingInv'
<1> SUFFICES ASSUME StagingInv, [StagingNext]_stagingVars
             PROVE  StagingInv'
  OBVIOUS
<1>1. CASE UNCHANGED stagingVars
  <2>1. StagingTypeOK' /\ NamesAreKept'
    BY <1>1 DEF stagingVars, StagingInv, StagingTypeOK, NamesAreKept
  <2>2. ASSUME NEW r \in Run PROVE JobInv(r)'
    BY <1>1, OthersKeepTheirs DEF stagingVars, StagingInv
  <2> QED
    BY <2>1, <2>2 DEF StagingInv
<1>2. ASSUME NEW r \in Run, StagingStep(r) PROVE StagingInv'
  <2>1. StagingTypeOK' /\ NamesAreKept' /\ JobInv(r)'
    BY <1>2, StagingKeepsInv, FittingKeepsInv, ObserveKeepsInv, NormaliseKeepsInv,
       RenderKeepsInv, LeaveKeepsInv DEF StagingStep
  <2>2. ASSUME NEW q \in Run, q # r PROVE JobInv(q)'
    BY <1>2, <2>2, StepsAreOwn, OthersKeepTheirs DEF StagingInv
  <2> QED
    BY <2>1, <2>2 DEF StagingInv
<1> QED
  BY <1>1, <1>2 DEF StagingNext

\* The inductive invariant of the input directory and the jobs that use it.
THEOREM StagingInvariant == StagingSpec => []StagingInv
BY StagingInitInv, StagingStepInv, PTL DEF StagingSpec

\* An attested job's receipt states the attested bytes, and a job renders from
\* the bytes in its receipt if no caller chooses the name of its input, however
\* many jobs share the directory and whatever they do to it.
THEOREM RendersAreObserved == StagingSpec => []RendersWhatWasObserved
<1>1. StagingInv => RendersWhatWasObserved
  BY DEF StagingInv, JobInv, RenderedIts, RendersWhatWasObserved
<1> QED
  BY <1>1, StagingInvariant, PTL

=============================================================================
