--------------------------- MODULE PromptRun_proofs ---------------------------
(***************************************************************************)
(* What PromptRun does for any number of jobs and restarters and any       *)
(* number of faults.  A second prompt of a job is submitted only after the *)
(* job's own restart has emptied the queue, and nobody else can put the    *)
(* first one back.                                                         *)
(*                                                                         *)
(* OpenSpec leaves room for callers of restart_comfy that are not jobs, so *)
(* that what is proved of it holds inside the worker.                      *)
(***************************************************************************)
EXTENDS PromptRun, SequenceTheorems, TLAPS

\* Which prompts of job j may be in the queue, by the pass it is in; once the
\* stop command of its retry has run, none of them.
QueueIsCurrent(j) ==
  /\ attempt[j] = 2 => ~InQueue(<<j, 1>>)
  /\ attempt[j] = 1 => ~InQueue(<<j, 2>>)
  /\ step[j] = "retrying" /\ restart[j] \in {"start", "await", "ready"} => ~InQueue(<<j, 1>>)

\* There is one retry.
RetriesOnce == \A j \in Job : step[j] = "retrying" => attempt[j] = 1

\* A history entry of success stands for a prompt that rendered, and a job that
\* collects has taken its own.
HistoryIsTrue == \A p \in Prompt : history[p] = "success" => p \in rendered

RunInv ==
  /\ RunTypeOK
  /\ HistoryIsTrue
  /\ OwnOutput
  /\ RetriesOnce
  /\ HasStopCmd => \A j \in Job : QueueIsCurrent(j)

USE ServerAssumption DEF ServerAssumption

\* In the worker, callers that are not jobs restart ComfyUI too, and bring in the
\* files of the group (the watchdog, the preflight, POST /assets/ensure).
OtherCaller ==
  /\ present' \in {present, TRUE}
  /\ \/ UNCHANGED restart
     \/ \E r \in Restarter \ Job, s \in {"none", "stop"} : restart' = [restart EXCEPT ![r] = s]
  /\ UNCHANGED <<alive, queue, history, loaded, faults, lost, rendered, runVars>>

OpenNext == PromptNext \/ OtherCaller

\* The bodies among such callers: what WorkerRuntime implements.
OpenSpec == PromptInit /\ [][OpenNext]_promptVars

-----------------------------------------------------------------------------
(* The queue                                                               *)

\* A prompt that is submitted goes into the queue, and no other does.
LEMMA AppendQueue ==
  ASSUME queue \in Seq(Prompt), NEW q \in Prompt, queue' = Append(queue, q)
  PROVE  /\ queue' \in Seq(Prompt)
         /\ \A p \in Prompt : InQueue(p)' => InQueue(p) \/ p = q
<1>1. /\ queue' \in Seq(Prompt) /\ Len(queue') = Len(queue) + 1
      /\ \A i \in 1 .. Len(queue) : queue'[i] = queue[i]
      /\ queue'[Len(queue) + 1] = q
      /\ Len(queue) \in Nat
  BY AppendProperties, LenProperties
<1>2. ASSUME NEW p \in Prompt, NEW i \in 1 .. Len(queue'), queue'[i] = p
      PROVE  InQueue(p) \/ p = q
  <2>1. CASE i = Len(queue) + 1
    BY <1>1, <1>2, <2>1
  <2>2. CASE i # Len(queue) + 1
    <3>1. i \in 1 .. Len(queue)
      BY <1>1, <2>2
    <3> QED
      BY <1>1, <1>2, <3>1 DEF InQueue
  <2> QED
    BY <2>1, <2>2
<1> QED
  BY <1>1, <1>2 DEF InQueue

\* The prompt that ends leaves the queue, and none comes in.
LEMMA TailQueue ==
  ASSUME queue \in Seq(Prompt), queue # << >>, queue' = Tail(queue)
  PROVE  /\ queue' \in Seq(Prompt)
         /\ Head(queue) \in Prompt
         /\ \A p \in Prompt : InQueue(p)' => InQueue(p)
<1>1. /\ queue' \in Seq(Prompt) /\ Head(queue) \in Prompt
      /\ Len(queue') = Len(queue) - 1
      /\ \A i \in 1 .. Len(queue') : queue'[i] = queue[i + 1]
      /\ Len(queue) \in Nat
  BY HeadTailProperties, LenProperties
<1>2. ASSUME NEW p \in Prompt, NEW i \in 1 .. Len(queue'), queue'[i] = p
      PROVE  InQueue(p)
  <2>1. i + 1 \in 1 .. Len(queue) /\ queue[i + 1] = p
    BY <1>1, <1>2
  <2> QED
    BY <2>1 DEF InQueue
<1> QED
  BY <1>1, <1>2 DEF InQueue

\* There is no prompt in an empty queue.
LEMMA EmptyIsEmpty == queue = << >> => \A p : ~InQueue(p)
BY EmptySeq DEF InQueue

\* A process that dies has an empty queue.
LEMMA EmptyQueue ==
  ASSUME queue' = << >>
  PROVE  queue' \in Seq(Prompt) /\ \A p \in Prompt : ~InQueue(p)'
BY EmptySeq DEF InQueue

\* The prompts of a job are prompts.
LEMMA PromptsOf ==
  ASSUME NEW j \in Job
  PROVE  /\ <<j, 1>> \in Prompt /\ <<j, 2>> \in Prompt
         /\ attempt \in [Job -> {1, 2}] => Current(j) \in Prompt
         /\ Current(j) = <<j, attempt[j]>>
BY DEF Prompt, Current

-----------------------------------------------------------------------------
(* Steps that are not a job's                                              *)

\* If no prompt comes into the queue and no job moves but in restart_comfy, the
\* queue stays as it should be: a stop command comes before any later step.
LEMMA RestartersKeepQueue ==
  ASSUME RunInv, HasStopCmd, step' = step, attempt' = attempt,
         \A p \in Prompt : InQueue(p)' => InQueue(p),
         \A r \in Restarter :
           \/ restart'[r] = restart[r]
           \/ restart'[r] \notin {"start", "await", "ready"}
           \/ restart[r] \in {"start", "await", "ready"}
           \/ \A p \in Prompt : ~InQueue(p)'
  PROVE  \A j \in Job : QueueIsCurrent(j)'
<1> SUFFICES ASSUME NEW j \in Job
             PROVE  QueueIsCurrent(j)'
  OBVIOUS
<1>1. QueueIsCurrent(j) /\ <<j, 1>> \in Prompt /\ <<j, 2>> \in Prompt /\ j \in Restarter
  BY PromptsOf DEF RunInv
<1>2. /\ InQueue(<<j, 1>>)' => InQueue(<<j, 1>>)
      /\ InQueue(<<j, 2>>)' => InQueue(<<j, 2>>)
  BY <1>1
<1>3. restart'[j] \in {"start", "await", "ready"} =>
        restart[j] \in {"start", "await", "ready"} \/ ~InQueue(<<j, 1>>)'
  BY <1>1
<1> QED
  BY <1>1, <1>2, <1>3 DEF QueueIsCurrent

\* ComfyUI on its own, and the commands of restart_comfy.
LEMMA ServerKeepsInv ==
  ASSUME RunInv, UNCHANGED runVars,
         ServerStep \/ \E r \in Restarter : RestartStep(r)
  PROVE  RunInv'
<1> USE DEF RunInv, RunTypeOK, ServerTypeOK, runVars
<1>1. CASE \E outcome \in Outcomes : Execute(outcome)
  <2>1. PICK outcome \in Outcomes : Execute(outcome)
    BY <1>1
  <2>2. /\ queue' \in Seq(Prompt) /\ Head(queue) \in Prompt
        /\ \A p \in Prompt : InQueue(p)' => InQueue(p)
    BY <2>1, TailQueue DEF Execute
  <2>3. RunTypeOK'
    BY <2>1, <2>2 DEF Execute
  <2>4. HistoryIsTrue'
    BY <2>1, <2>2 DEF Execute, HistoryIsTrue
  <2>5. OwnOutput' /\ RetriesOnce'
    BY <2>1 DEF Execute, OwnOutput, RetriesOnce, Current
  <2>6. HasStopCmd => \A j \in Job : QueueIsCurrent(j)'
    BY <2>1, <2>2, RestartersKeepQueue DEF Execute
  <2> QED
    BY <2>3, <2>4, <2>5, <2>6
<1>2. CASE Crash
  <2>1. queue' \in Seq(Prompt) /\ \A p \in Prompt : ~InQueue(p)'
    BY <1>2, EmptyQueue DEF Crash, ProcessDies
  <2>2. RunTypeOK'
    <3>1. faults' \in 0 .. MaxFaults
      BY <1>2 DEF Crash
    <3>2. lost' \subseteq Prompt /\ history' \in [Prompt -> Outcomes \cup {"none"}]
      BY <1>2 DEF Crash, ProcessDies
    <3> QED
      BY <1>2, <2>1, <3>1, <3>2 DEF Crash, ProcessDies
  <2>3. HistoryIsTrue' /\ OwnOutput' /\ RetriesOnce'
    BY <1>2 DEF Crash, ProcessDies, HistoryIsTrue, OwnOutput, RetriesOnce, Current
  <2>4. HasStopCmd => \A j \in Job : QueueIsCurrent(j)'
    BY <1>2, <2>1, RestartersKeepQueue DEF Crash
  <2> QED
    BY <2>2, <2>3, <2>4
<1>3. ASSUME NEW r \in Restarter, StopComfy(r) PROVE RunInv'
  <2>1. CASE UNCHANGED <<alive, queue, history, lost>>
    <3>1. /\ restart' \in {[restart EXCEPT ![r] = s] : s \in {"start", "failed"}}
          /\ HasStopCmd => restart' = [restart EXCEPT ![r] = "failed"]
             \/ \A p \in Prompt : ~InQueue(p)'
      BY <1>3, <2>1, EmptyQueue DEF StopComfy, ProcessDies
    <3>2. RunTypeOK' /\ HistoryIsTrue' /\ OwnOutput' /\ RetriesOnce'
      BY <1>3, <2>1, <3>1 DEF StopComfy, HistoryIsTrue, OwnOutput, RetriesOnce, Current
    <3>3. \A p \in Prompt : InQueue(p)' => InQueue(p)
      BY <2>1 DEF InQueue
    <3>4. HasStopCmd => \A j \in Job : QueueIsCurrent(j)'
      BY <3>1, <3>3, RestartersKeepQueue
    <3> QED
      BY <3>2, <3>4
  <2>2. CASE ProcessDies /\ restart' = [restart EXCEPT ![r] = "start"]
    <3>1. queue' \in Seq(Prompt) /\ \A p \in Prompt : ~InQueue(p)'
      BY <2>2, EmptyQueue DEF ProcessDies
    <3>2. RunTypeOK' /\ HistoryIsTrue' /\ OwnOutput' /\ RetriesOnce'
      BY <1>3, <2>2, <3>1 DEF StopComfy, ProcessDies, HistoryIsTrue, OwnOutput, RetriesOnce, Current
    <3>3. HasStopCmd => \A j \in Job : QueueIsCurrent(j)'
      BY <3>1, RestartersKeepQueue
    <3> QED
      BY <3>2, <3>3
  <2> QED
    BY <1>3, <2>1, <2>2 DEF StopComfy
<1>4. ASSUME NEW r \in Restarter, StartComfy(r) \/ AwaitComfy(r) PROVE RunInv'
  <2>1. /\ UNCHANGED <<queue, history, present, lost, rendered>>
        /\ restart[r] \in {"start", "await"}
        /\ restart' \in {[restart EXCEPT ![r] = s] : s \in {"await", "ready", "failed"}}
        /\ alive' \in BOOLEAN /\ loaded' \in BOOLEAN /\ faults' \in 0 .. MaxFaults
    <3>1. CASE StartComfy(r)
      <4>1. faults' \in 0 .. MaxFaults
        BY <3>1 DEF StartComfy
      <4>2. loaded' \in BOOLEAN /\ alive' \in BOOLEAN
        BY <3>1 DEF StartComfy
      <4> QED
        BY <3>1, <4>1, <4>2 DEF StartComfy
    <3>2. CASE AwaitComfy(r)
      BY <3>2 DEF AwaitComfy
    <3> QED
      BY <1>4, <3>1, <3>2
  <2>2. RunTypeOK' /\ HistoryIsTrue' /\ OwnOutput' /\ RetriesOnce'
    <3>1. RunTypeOK'
      BY <2>1
    <3>2. HistoryIsTrue'
      BY <2>1 DEF HistoryIsTrue
    <3>3. OwnOutput'
      BY <2>1 DEF OwnOutput, Current
    <3>4. RetriesOnce'
      BY DEF RetriesOnce
    <3> QED
      BY <3>1, <3>2, <3>3, <3>4
  <2>3. \A p \in Prompt : InQueue(p)' => InQueue(p)
    BY <2>1 DEF InQueue
  <2>4. HasStopCmd => \A j \in Job : QueueIsCurrent(j)'
    BY <2>1, <2>3, RestartersKeepQueue
  <2> QED
    BY <2>2, <2>4
<1> QED
  BY <1>1, <1>2, <1>3, <1>4 DEF ServerStep, RestartStep

\* The other callers leave the jobs and the queue alone.
LEMMA OthersKeepInv ==
  ASSUME RunInv, OtherCaller
  PROVE  RunInv'
<1>1. RunTypeOK'
  <2>1. restart' \in [Restarter -> {"none", "stop", "start", "await", "ready", "failed"}]
    BY DEF OtherCaller, RunInv, RunTypeOK, ServerTypeOK
  <2>2. present' \in BOOLEAN
    <3>1. present \in BOOLEAN /\ present' \in {present, TRUE}
      BY DEF OtherCaller, RunInv, RunTypeOK, ServerTypeOK
    <3> QED
      BY <3>1
  <2> QED
    BY <2>1, <2>2 DEF OtherCaller, RunInv, RunTypeOK, ServerTypeOK, runVars
<1> USE DEF OtherCaller
<1>2. HistoryIsTrue' /\ OwnOutput' /\ RetriesOnce'
  BY DEF RunInv, runVars, HistoryIsTrue, OwnOutput, RetriesOnce, Current
<1>3. \A j \in Job : restart'[j] = restart[j]
  BY DEF RunInv, RunTypeOK, ServerTypeOK
<1>4. HasStopCmd => \A j \in Job : QueueIsCurrent(j)'
  BY <1>3 DEF RunInv, runVars, QueueIsCurrent, InQueue
<1> QED
  BY <1>1, <1>2, <1>4 DEF RunInv

-----------------------------------------------------------------------------
(* Steps of a job                                                          *)

\* A job changes only what is its own, and puts only its current prompt into
\* the queue.
LEMMA JobSteps ==
  ASSUME RunInv, NEW j \in Job, BodyStep(j)
  PROVE  /\ \A q \in Job : q # j => step'[q] = step[q] /\ attempt'[q] = attempt[q]
                                      /\ result'[q] = result[q] /\ restart'[q] = restart[q]
         /\ history' = history /\ rendered' = rendered
         /\ queue' \in {queue, Append(queue, Current(j))}
         /\ RunTypeOK'
<1> USE DEF RunInv, RunTypeOK, ServerTypeOK, Goto, Raise, serverVars
<1>1. CASE Begin(j) \/ StageInputs(j) \/ Collect(j)
  BY <1>1 DEF Begin, StageInputs, Collect
<1>2. CASE Ensure(j)
  <2>1. /\ step' \in {[step EXCEPT ![j] = s] : s \in {"staging", "warming", "error"}}
        /\ restart' \in {restart, [restart EXCEPT ![j] = "stop"]}
        /\ present' \in BOOLEAN
    BY <1>2 DEF Ensure, CallRestart
  <2> QED
    BY <1>2, <2>1 DEF Ensure
<1>3. CASE WarmRestartReturns(j)
  BY <1>3 DEF WarmRestartReturns, RestartReturns
<1>4. CASE RetryRestartReturns(j)
  <2>1. /\ step' \in {[step EXCEPT ![j] = s] : s \in {"submitting", "error"}}
        /\ attempt' \in {attempt, [attempt EXCEPT ![j] = 2]}
    BY <1>4 DEF RetryRestartReturns, RestartReturns, RetriesOnce
  <2> QED
    BY <1>4, <2>1 DEF RetryRestartReturns, RestartReturns
<1>5. CASE SubmitPrompt(j)
  <2>1. queue' \in {queue, Append(queue, Current(j))}
    BY <1>5 DEF SubmitPrompt
  <2>2. queue' \in Seq(Prompt)
    BY <2>1, AppendQueue, PromptsOf
  <2> QED
    BY <1>5, <2>1, <2>2 DEF SubmitPrompt
<1>6. CASE PollHistory(j) \/ PollTimesOut(j)
  <2>1. /\ step' \in {[step EXCEPT ![j] = s] : s \in {"collecting", "checking", "triage"}}
        /\ UNCHANGED <<attempt, serverVars>>
    BY <1>6, PromptsOf DEF PollHistory, PollTimesOut, Outcomes
  <2>2. why' \in {why} \cup {[why EXCEPT ![j] = w] : w \in {"oom", "other"}}
    BY <1>6, PromptsOf DEF PollHistory, PollTimesOut, Outcomes
  <2>3. result' \in {result, [result EXCEPT ![j] = Current(j)]} /\ Current(j) \in Prompt
    BY <1>6, PromptsOf DEF PollHistory, PollTimesOut, Outcomes
  <2>4. RunTypeOK'
    BY <2>1, <2>2, <2>3
  <2> QED
    BY <2>1, <2>2, <2>3, <2>4
<1>7. CASE CheckQueue(j)
  <2>1. faults' \in 0 .. MaxFaults
    BY <1>7 DEF CheckQueue
  <2> QED
    BY <1>7, <2>1 DEF CheckQueue
<1>8. CASE Triage(j)
  BY <1>8 DEF Triage, CallRestart
<1> QED
  BY <1>1, <1>2, <1>3, <1>4, <1>5, <1>6, <1>7, <1>8 DEF BodyStep

\* A retry begins in the except clause of the first pass.
LEMMA OnlyTriageRetries ==
  ASSUME RunInv, NEW j \in Job, BodyStep(j), step'[j] = "retrying"
  PROVE  Triage(j) /\ attempt'[j] = 1
<1> USE DEF RunInv, RunTypeOK, Goto, Raise
<1>1. Triage(j)
  <2>1. ~Ensure(j)
    BY DEF Ensure
  <2>2. ~PollHistory(j)
    <3>1. PollHistory(j) => history[Current(j)] \in {"success", "oom", "error", "none"}
      BY PromptsOf DEF ServerTypeOK, Outcomes
    <3> QED
      BY <3>1 DEF PollHistory
  <2> QED
    BY <2>1, <2>2 DEF BodyStep, Begin, WarmRestartReturns, StageInputs, SubmitPrompt,
       CheckQueue, PollTimesOut, RetryRestartReturns, Collect
<1> QED
  BY <1>1 DEF Triage

\* What a job collects is its own, and rendered.
LEMMA JobCollectsOwn ==
  ASSUME RunInv, NEW j \in Job, BodyStep(j)
  PROVE  OwnOutput'
<1> SUFFICES ASSUME NEW q \in Job, step'[q] \in {"collecting", "ok"}
             PROVE  result'[q] = <<q, attempt'[q]>> /\ result'[q] \in rendered'
  BY DEF OwnOutput, Current
<1> USE DEF RunInv, RunTypeOK, Goto, Raise
<1>1. CASE q # j
  BY <1>1, JobSteps DEF OwnOutput, Current
<1>2. CASE q = j
  <2>1. CASE PollHistory(j)
    <3>1. /\ history[Current(j)] = "success"
          /\ result' = [result EXCEPT ![j] = Current(j)]
          /\ attempt' = attempt /\ rendered' = rendered
      <4>1. history[Current(j)] \in {"success", "oom", "error", "none"}
        BY PromptsOf DEF ServerTypeOK, Outcomes
      <4>2. history[Current(j)] = "success"
        BY <1>2, <2>1, <4>1 DEF PollHistory
      <4> QED
        BY <2>1, <4>2 DEF PollHistory, serverVars
    <3> QED
      BY <1>2, <3>1, PromptsOf DEF HistoryIsTrue
  <2>2. CASE Collect(j)
    BY <1>2, <2>2 DEF Collect, OwnOutput, Current, serverVars
  <2>3. CASE ~PollHistory(j) /\ ~Collect(j)
    BY <1>2, <2>3 DEF BodyStep, Begin, Ensure, WarmRestartReturns, StageInputs, SubmitPrompt,
       CheckQueue, PollTimesOut, Triage, RetryRestartReturns
  <2> QED
    BY <2>1, <2>2, <2>3
<1> QED
  BY <1>1, <1>2

\* The queue holds what the pass of each job allows.
LEMMA JobKeepsQueue ==
  ASSUME RunInv, HasStopCmd, NEW j \in Job, BodyStep(j), NEW q \in Job
  PROVE  QueueIsCurrent(q)'
<1>1. /\ <<q, 1>> \in Prompt /\ <<q, 2>> \in Prompt /\ QueueIsCurrent(q)
      /\ Current(j) = <<j, attempt[j]>>
      /\ attempt \in [Job -> {1, 2}] /\ step[j] # "none"
  BY PromptsOf DEF RunInv, RunTypeOK
<1>2. \A p \in Prompt : InQueue(p)' => InQueue(p) \/ (p = Current(j) /\ step[j] = "submitting")
  <2>1. CASE queue' = queue
    BY <2>1 DEF InQueue
  <2>2. CASE queue' # queue
    <3>1. queue' = Append(queue, Current(j))
      BY <2>2, JobSteps
    <3>2. step[j] = "submitting"
      BY <2>2 DEF BodyStep, Begin, Ensure, WarmRestartReturns, RestartReturns, StageInputs,
         SubmitPrompt, PollHistory, CheckQueue, PollTimesOut, Triage, RetryRestartReturns,
         Collect, serverVars
    <3> QED
      BY <3>1, <3>2, AppendQueue, PromptsOf DEF RunInv, RunTypeOK, ServerTypeOK
  <2> QED
    BY <2>1, <2>2
<1>3. CASE q # j
  <2>1. step'[q] = step[q] /\ attempt'[q] = attempt[q] /\ restart'[q] = restart[q]
    BY <1>3, JobSteps
  <2>2. /\ InQueue(<<q, 1>>)' => InQueue(<<q, 1>>)
        /\ InQueue(<<q, 2>>)' => InQueue(<<q, 2>>)
    BY <1>1, <1>2, <1>3
  <2> QED
    BY <1>1, <2>1, <2>2 DEF QueueIsCurrent
<1>4. CASE q = j
  <2> USE DEF RunInv, RunTypeOK, ServerTypeOK, Goto, Raise
  <2>1. CASE SubmitPrompt(j)
    <3>1. attempt' = attempt /\ step'[j] # "retrying"
      BY <2>1 DEF SubmitPrompt
    <3>2. /\ attempt[j] = 2 => ~InQueue(<<j, 1>>)'
          /\ attempt[j] = 1 => ~InQueue(<<j, 2>>)'
      BY <1>1, <1>2, <1>4 DEF QueueIsCurrent
    <3> QED
      BY <1>4, <3>1, <3>2 DEF QueueIsCurrent
  <2> SUFFICES ASSUME ~SubmitPrompt(j)
               PROVE  QueueIsCurrent(j)'
    BY <1>4, <2>1
  <2>2. \A p \in Prompt : InQueue(p)' => InQueue(p)
    <3>1. queue' = queue
      BY DEF BodyStep, Begin, Ensure, WarmRestartReturns, RestartReturns, StageInputs,
         PollHistory, CheckQueue, PollTimesOut, Triage, RetryRestartReturns, Collect,
         serverVars
    <3> QED
      BY <3>1 DEF InQueue
  <2>3. CASE Triage(j)
    <3>1. /\ attempt' = attempt
          /\ step'[j] = "retrying" =>
               attempt[j] = 1 /\ restart'[j] \notin {"start", "await", "ready"}
      BY <2>3 DEF Triage, CallRestart
    <3> QED
      BY <1>1, <1>4, <2>2, <3>1 DEF QueueIsCurrent
  <2>4. CASE RetryRestartReturns(j)
    <3>0. step[j] = "retrying" /\ attempt[j] = 1
      BY <2>4 DEF RetryRestartReturns, RetriesOnce
    <3>1. CASE restart[j] = "ready"
      <4>1. step'[j] = "submitting" /\ attempt'[j] = 2
        BY <2>4, <3>0, <3>1 DEF RetryRestartReturns
      <4> QED
        BY <1>1, <1>4, <2>2, <3>0, <3>1, <4>1 DEF QueueIsCurrent
    <3>2. CASE restart[j] # "ready"
      <4>1. step'[j] = "error" /\ attempt' = attempt
        BY <2>4, <3>2 DEF RetryRestartReturns
      <4> QED
        BY <1>1, <1>4, <2>2, <4>1 DEF QueueIsCurrent
    <3> QED
      BY <3>1, <3>2
  <2>5. CASE ~Triage(j) /\ ~RetryRestartReturns(j)
    <3>1. attempt' = attempt
      BY <2>5 DEF BodyStep, Begin, Ensure, WarmRestartReturns, StageInputs, PollHistory,
         CheckQueue, PollTimesOut, Collect
    <3>2. step'[j] # "retrying"
      BY <2>5, OnlyTriageRetries
    <3> QED
      BY <1>1, <1>4, <2>2, <3>1, <3>2 DEF QueueIsCurrent
  <2> QED
    BY <2>3, <2>4, <2>5
<1> QED
  BY <1>3, <1>4

-----------------------------------------------------------------------------
(* The theorems                                                            *)

\* The invariant holds initially.
LEMMA RunInitInv == PromptInit => RunInv
<1> SUFFICES ASSUME PromptInit
             PROVE  RunInv
  OBVIOUS
<1>1. RunTypeOK
  BY EmptySeq DEF PromptInit, ServerInit, RunInit, RunTypeOK, ServerTypeOK
<1>2. HistoryIsTrue /\ OwnOutput /\ RetriesOnce
  BY DEF PromptInit, ServerInit, RunInit, HistoryIsTrue, OwnOutput, RetriesOnce
<1>3. \A j \in Job : QueueIsCurrent(j)
  BY DEF PromptInit, ServerInit, RunInit, QueueIsCurrent, InQueue
<1> QED
  BY <1>1, <1>2, <1>3 DEF RunInv

\* Every step keeps it.
LEMMA RunStepInv == RunInv /\ [OpenNext]_promptVars => RunInv'
<1> SUFFICES ASSUME RunInv, [OpenNext]_promptVars
             PROVE  RunInv'
  OBVIOUS
<1>1. CASE UNCHANGED promptVars
  BY <1>1 DEF promptVars, serverVars, runVars, RunInv, RunTypeOK, ServerTypeOK, HistoryIsTrue,
     OwnOutput, RetriesOnce, Current, QueueIsCurrent, InQueue
<1>2. ASSUME NEW j \in Job, BodyStep(j) PROVE RunInv'
  <2>1. RunTypeOK' /\ history' = history /\ rendered' = rendered
    BY <1>2, JobSteps
  <2>2. HistoryIsTrue'
    BY <2>1 DEF RunInv, HistoryIsTrue
  <2>3. OwnOutput'
    BY <1>2, JobCollectsOwn
  <2>4. HasStopCmd => \A q \in Job : QueueIsCurrent(q)'
    BY <1>2, JobKeepsQueue
  <2>5. RetriesOnce'
    BY <1>2, JobSteps, OnlyTriageRetries DEF RunInv, RetriesOnce
  <2> QED
    BY <2>1, <2>2, <2>3, <2>4, <2>5 DEF RunInv
<1> QED
  BY <1>1, <1>2, ServerKeepsInv, OthersKeepInv DEF PromptNext, OpenNext

\* The bodies on their own are a case of the bodies among other callers.
LEMMA ClosedIsOpen == PromptSpec => OpenSpec
<1>1. [PromptNext]_promptVars => [OpenNext]_promptVars
  BY DEF OpenNext
<1> QED
  BY <1>1, PTL DEF PromptSpec, OpenSpec

\* The inductive invariant of the jobs and their ComfyUI, with or without other
\* callers.
LEMMA OpenInvariant == OpenSpec => []RunInv
BY RunInitInv, RunStepInv, PTL DEF OpenSpec

\* The inductive invariant of the jobs and their ComfyUI.
THEOREM RunInvariant == PromptSpec => []RunInv
BY ClosedIsOpen, OpenInvariant, PTL

\* The states are of the right types.
THEOREM RunTypeCorrect == PromptSpec => []RunTypeOK
<1>1. RunInv => RunTypeOK
  BY DEF RunInv
<1> QED
  BY <1>1, RunInvariant, PTL

\* A job that collects or has collected has its own result, and never two prompts.
LEMMA InvMeansOwn == RunInv => OwnOutput /\ SingleLivePrompt
<1>1. RunInv => OwnOutput
  BY DEF RunInv
<1>2. RunInv => SingleLivePrompt
  <2> SUFFICES ASSUME RunInv, HasStopCmd, NEW j \in Job
               PROVE  ~(InQueue(<<j, 1>>) /\ InQueue(<<j, 2>>))
    BY DEF SingleLivePrompt
  <2>1. QueueIsCurrent(j) /\ attempt[j] \in {1, 2}
    BY DEF RunInv, RunTypeOK
  <2> QED
    BY <2>1 DEF QueueIsCurrent
<1> QED
  BY <1>1, <1>2

\* No job ships another's output, or one that never rendered.
THEOREM OutputsAreOwn == PromptSpec => []OwnOutput
BY InvMeansOwn, RunInvariant, PTL

\* A retry never runs beside the attempt it replaces.
THEOREM OnePromptPerJob == PromptSpec => []SingleLivePrompt
BY InvMeansOwn, RunInvariant, PTL

-----------------------------------------------------------------------------
(* Progress                                                                *)

\* How many steps a job has before it at most, at each step of its last pass.
StepsLeft ==
  [idle |-> 12, ensuring |-> 11, warming |-> 10, staging |-> 9, retrying |-> 5,
   submitting |-> 4, polling |-> 3, checking |-> 3, triage |-> 2, collecting |-> 1,
   ok |-> 0, error |-> 0]

\* The steps of a pass, the first of which has a second before it.
PassStep == {"submitting", "polling", "checking", "triage"}

Rank(j) == StepsLeft[step[j]] + IF attempt[j] = 1 /\ step[j] \in PassStep THEN 4 ELSE 0

\* How many times a job may still call restart_comfy: for its download and for
\* its retry.
RestartsLeft(j) ==
  CASE step[j] \in {"idle", "ensuring"} -> 2
    [] step[j] \in {"warming", "staging"} -> 1
    [] step[j] \in PassStep /\ attempt[j] = 1 -> 1
    [] OTHER -> 0

\* Where a step of the job may lead.
Follows ==
  [idle |-> {"ensuring"}, ensuring |-> {"warming", "staging", "error"},
   warming |-> {"staging", "error"}, staging |-> {"submitting", "error"},
   submitting |-> {"polling", "triage"}, polling |-> {"checking", "collecting", "triage"},
   checking |-> {"polling", "triage"}, triage |-> {"retrying", "error"},
   retrying |-> {"submitting", "error"}, collecting |-> {"ok", "error"},
   ok |-> {}, error |-> {}]

\* The effects of a job's step on where it is.
LEMMA JobMoves ==
  ASSUME RunInv, NEW j \in Job, BodyStep(j)
  PROVE  /\ step'[j] \in Follows[step[j]]
         /\ attempt'[j] = IF step[j] = "retrying" /\ step'[j] = "submitting"
                          THEN 2 ELSE attempt[j]
         /\ step'[j] = "retrying" => attempt[j] = 1
         /\ restart'[j] = IF step'[j] \in {"warming", "retrying"} THEN "stop"
                          ELSE IF step[j] \in {"warming", "retrying"} THEN "none"
                          ELSE restart[j]
<1> USE DEF RunInv, RunTypeOK, ServerTypeOK, Goto, Raise, Follows, serverVars
<1>1. CASE Begin(j) \/ StageInputs(j) \/ Collect(j)
  BY <1>1 DEF Begin, StageInputs, Collect
<1>2. CASE Ensure(j)
  BY <1>2 DEF Ensure, CallRestart
<1>3. CASE WarmRestartReturns(j)
  BY <1>3 DEF WarmRestartReturns, RestartReturns
<1>4. CASE RetryRestartReturns(j)
  BY <1>4 DEF RetryRestartReturns, RestartReturns, RetriesOnce
<1>5. CASE SubmitPrompt(j)
  BY <1>5 DEF SubmitPrompt
<1>6. CASE PollHistory(j) \/ PollTimesOut(j)
  <2>1. history[Current(j)] \in {"success", "oom", "error", "none"}
    BY PromptsOf DEF Outcomes
  <2>2. step' \in {[step EXCEPT ![j] = s] : s \in {"collecting", "checking", "triage"}}
    BY <1>6, <2>1 DEF PollHistory, PollTimesOut
  <2>3. step[j] = "polling" /\ UNCHANGED <<attempt, restart>>
    BY <1>6 DEF PollHistory, PollTimesOut
  <2> QED
    BY <2>2, <2>3
<1>7. CASE CheckQueue(j)
  BY <1>7 DEF CheckQueue
<1>8. CASE Triage(j)
  BY <1>8 DEF Triage, CallRestart
<1> QED
  BY <1>1, <1>2, <1>3, <1>4, <1>5, <1>6, <1>7, <1>8 DEF BodyStep

\* A job comes nearer to its end with each step it takes, except that between two
\* polls it looks at the queue; nothing that others do throws it back.
JobsOnlyAdvance ==
  [][\A j \in Job :
       \/ Rank(j)' < Rank(j)
       \/ UNCHANGED <<step[j], attempt[j]>>
       \/ {step[j], step'[j]} = {"polling", "checking"} /\ UNCHANGED attempt[j]]_promptVars

\* Each call of restart_comfy uses up one of the two that a job has.
RestartsAreSpent ==
  [][\A j \in Job :
       /\ RestartsLeft(j)' <= RestartsLeft(j)
       /\ restart[j] # "stop" /\ restart'[j] = "stop" => RestartsLeft(j)' < RestartsLeft(j)
    ]_promptVars

\* A job's step brings it forward.
LEMMA JobAdvances ==
  ASSUME RunInv, NEW j \in Job, BodyStep(j)
  PROVE  /\ \/ Rank(j)' < Rank(j)
            \/ {step[j], step'[j]} = {"polling", "checking"} /\ attempt'[j] = attempt[j]
         /\ RestartsLeft(j)' <= RestartsLeft(j)
         /\ restart[j] # "stop" /\ restart'[j] = "stop" => RestartsLeft(j)' < RestartsLeft(j)
<1>1. /\ step'[j] \in Follows[step[j]]
      /\ attempt'[j] = IF step[j] = "retrying" /\ step'[j] = "submitting" THEN 2 ELSE attempt[j]
      /\ step'[j] = "retrying" => attempt[j] = 1
      /\ restart'[j] = IF step'[j] \in {"warming", "retrying"} THEN "stop"
                       ELSE IF step[j] \in {"warming", "retrying"} THEN "none" ELSE restart[j]
      /\ attempt[j] \in {1, 2}
      /\ step[j] \in {"idle", "ensuring", "warming", "staging", "submitting", "polling",
                      "checking", "triage", "retrying", "collecting", "ok", "error"}
  BY JobMoves DEF RunInv, RunTypeOK
<1>2. \/ Rank(j)' < Rank(j)
      \/ {step[j], step'[j]} = {"polling", "checking"} /\ attempt'[j] = attempt[j]
  BY <1>1 DEF Follows, Rank, StepsLeft, PassStep
<1>3. /\ RestartsLeft(j)' <= RestartsLeft(j)
      /\ restart[j] # "stop" /\ restart'[j] = "stop" => RestartsLeft(j)' < RestartsLeft(j)
  BY <1>1 DEF Follows, RestartsLeft, PassStep
<1> QED
  BY <1>2, <1>3

\* The rank is a number before and after.
LEMMA RankIsNat ==
  ASSUME RunInv, [OpenNext]_promptVars, NEW j \in Job
  PROVE  Rank(j) \in Nat /\ Rank(j)' \in Nat
<1>1. step[j] \in DOMAIN StepsLeft /\ step'[j] \in DOMAIN StepsLeft
  BY RunStepInv DEF RunInv, RunTypeOK, StepsLeft
<1>2. \A s \in DOMAIN StepsLeft : StepsLeft[s] \in Nat
  BY DEF StepsLeft
<1> QED
  BY <1>1, <1>2 DEF Rank

\* The commands of restart_comfy go on from where they are.
LEMMA CommandsGoOn ==
  ASSUME RunInv, NEW r \in Restarter, RestartStep(r)
  PROVE  /\ restart[r] \in {"stop", "start", "await"}
         /\ restart'[r] \in {"start", "await", "ready", "failed"}
         /\ \A q \in Restarter : q # r => restart'[q] = restart[q]
BY DEF RunInv, RunTypeOK, ServerTypeOK, RestartStep, StopComfy, StartComfy, AwaitComfy

\* Any step: a job's own, or one that leaves all jobs where they are.
LEMMA StepsAdvance ==
  ASSUME RunInv, [OpenNext]_promptVars, NEW j \in Job
  PROVE  /\ \/ Rank(j)' < Rank(j)
            \/ UNCHANGED <<step[j], attempt[j]>>
            \/ {step[j], step'[j]} = {"polling", "checking"} /\ UNCHANGED attempt[j]
         /\ RestartsLeft(j)' <= RestartsLeft(j)
         /\ restart[j] # "stop" /\ restart'[j] = "stop" => RestartsLeft(j)' < RestartsLeft(j)
<1>1. CASE BodyStep(j)
  BY <1>1, JobAdvances
<1>2. CASE UNCHANGED <<step[j], attempt[j], restart[j]>>
  <2>1. RestartsLeft(j)' = RestartsLeft(j) /\ RestartsLeft(j) \in {0, 1, 2}
    BY <1>2 DEF RestartsLeft
  <2> QED
    BY <1>2, <2>1
<1>3. ASSUME UNCHANGED runVars, restart[j] # "stop" => restart'[j] # "stop"
      PROVE  /\ UNCHANGED <<step[j], attempt[j]>>
             /\ RestartsLeft(j)' <= RestartsLeft(j)
             /\ ~(restart[j] # "stop" /\ restart'[j] = "stop")
  <2>1. RestartsLeft(j)' = RestartsLeft(j) /\ RestartsLeft(j) \in {0, 1, 2}
    BY <1>3 DEF RestartsLeft, runVars
  <2> QED
    BY <1>3, <2>1 DEF runVars
<1>4. ASSUME NEW q \in Job, q # j, BodyStep(q) PROVE UNCHANGED <<step[j], attempt[j], restart[j]>>
  BY <1>4, JobSteps
<1>5. ASSUME NEW r \in Restarter, RestartStep(r), restart[j] # "stop" PROVE restart'[j] # "stop"
  BY <1>5, CommandsGoOn
<1>6. ServerStep => restart' = restart
  BY DEF ServerStep, Execute, Crash
<1>7. UNCHANGED promptVars => UNCHANGED <<step[j], attempt[j], restart[j]>>
  BY DEF promptVars, runVars, serverVars
<1>8. OtherCaller => UNCHANGED <<step[j], attempt[j], restart[j]>>
  BY DEF OtherCaller, runVars, RunInv, RunTypeOK, ServerTypeOK
<1> QED
  BY <1>1, <1>2, <1>3, <1>4, <1>5, <1>6, <1>7, <1>8 DEF PromptNext, OpenNext

\* The only way a job can go on for ever is to wait for a prompt: a body takes no
\* more than twelve steps beside its polls, whatever the others and ComfyUI do.
THEOREM BodiesOnlyAdvance == OpenSpec => JobsOnlyAdvance
<1>1. RunInv /\ [OpenNext]_promptVars =>
        [\A j \in Job :
           \/ Rank(j)' < Rank(j)
           \/ UNCHANGED <<step[j], attempt[j]>>
           \/ {step[j], step'[j]} = {"polling", "checking"} /\ UNCHANGED attempt[j]]_promptVars
  BY StepsAdvance
<1> QED
  BY <1>1, OpenInvariant, PTL DEF OpenSpec, JobsOnlyAdvance

\* The cascade of restarts ends: each job restarts ComfyUI at most twice, once
\* for a download and once for a retry.
THEOREM RestartsAreBounded == OpenSpec => RestartsAreSpent
<1>1. RunInv /\ [OpenNext]_promptVars =>
        [\A j \in Job :
           /\ RestartsLeft(j)' <= RestartsLeft(j)
           /\ restart[j] # "stop" /\ restart'[j] = "stop" => RestartsLeft(j)' < RestartsLeft(j)
        ]_promptVars
  BY StepsAdvance
<1> QED
  BY <1>1, OpenInvariant, PTL DEF OpenSpec, RestartsAreSpent

-----------------------------------------------------------------------------
(* What an empty queue means                                               *)

\* A prompt that has left the queue: it ended, or it died with its server.
Gone(p) == history[p] # "none" \/ p \in lost

\* A job that calls restart_comfy waits for it, and no other does: none waits
\* for a call that is not under way.
CallersWait ==
  \A j \in Job : restart[j] # "none" <=> step[j] \in {"warming", "retrying"}

\* A job waits only for a prompt that ComfyUI has accepted.
PromptsAreKnown ==
  \A j \in Job : step[j] \in {"polling", "checking"} => InQueue(Current(j)) \/ Gone(Current(j))

DeadIsEmpty == ~alive => queue = << >> /\ \A p \in Prompt : history[p] = "none"

\* What _check_comfy_restarted takes for a restart is one, or the prompt has
\* ended since the history was read, or the reading of the queue failed.
VerdictIsSound ==
  \A j \in Job : step[j] = "triage" /\ why[j] = "restart" =>
    Gone(Current(j)) \/ (InQueue(Current(j)) /\ faults > 0)

WaitInv == CallersWait /\ PromptsAreKnown /\ DeadIsEmpty /\ VerdictIsSound

\* If a prompt that is known stays so, and nothing is forgotten, those who move
\* no job keep the invariant.
LEMMA QuietKeepsWait ==
  ASSUME RunInv, WaitInv, UNCHANGED runVars, faults' \in Nat, faults' >= faults,
         \A p \in Prompt : Gone(p) => Gone(p)',
         \A p \in Prompt : InQueue(p) => InQueue(p)' \/ Gone(p)',
         \A j \in Job : restart'[j] # "none" <=> restart[j] # "none",
         DeadIsEmpty'
  PROVE  WaitInv'
<1>1. CallersWait'
  BY DEF WaitInv, CallersWait, runVars
<1>2. \A j \in Job : Current(j) \in Prompt /\ Current(j)' = Current(j)
  BY PromptsOf DEF RunInv, RunTypeOK, Current, runVars
<1>3. PromptsAreKnown'
  BY <1>2 DEF WaitInv, PromptsAreKnown, runVars
<1>4. VerdictIsSound'
  <2>1. faults > 0 => faults' > 0
    BY DEF RunInv, RunTypeOK, ServerTypeOK
  <2> QED
    BY <1>2, <2>1 DEF WaitInv, VerdictIsSound, runVars
<1> QED
  BY <1>1, <1>3, <1>4 DEF WaitInv

\* A prompt that is not the head stays in the queue.
LEMMA OthersStayInQueue ==
  ASSUME queue \in Seq(Prompt), queue # << >>, queue' = Tail(queue),
         NEW p \in Prompt, InQueue(p), p # Head(queue)
  PROVE  InQueue(p)'
<1>1. /\ Len(queue') = Len(queue) - 1 /\ Len(queue) \in Nat
      /\ \A i \in 1 .. Len(queue') : queue'[i] = queue[i + 1]
      /\ Head(queue) = queue[1]
  BY HeadTailProperties, LenProperties
<1>2. PICK i \in 1 .. Len(queue) : queue[i] = p
  BY DEF InQueue
<1>3. i - 1 \in 1 .. Len(queue') /\ queue'[i - 1] = p
  BY <1>1, <1>2
<1> QED
  BY <1>3 DEF InQueue

\* A process that dies takes its prompts with it.
LEMMA DeathTakesAll ==
  ASSUME ProcessDies
  PROVE  /\ \A p \in Prompt : Gone(p) \/ InQueue(p) => Gone(p)'
         /\ DeadIsEmpty'
BY DEF ProcessDies, Gone, DeadIsEmpty

\* ComfyUI on its own, and the commands of restart_comfy.
LEMMA ServerKeepsWait ==
  ASSUME RunInv, WaitInv, UNCHANGED runVars,
         ServerStep \/ \E r \in Restarter : RestartStep(r)
  PROVE  WaitInv'
<1>1. CASE \E outcome \in Outcomes : Execute(outcome)
  <2>1. PICK outcome \in Outcomes : Execute(outcome)
    BY <1>1
  <2>2. queue \in Seq(Prompt) /\ Head(queue) \in Prompt /\ history \in [Prompt -> Outcomes \cup {"none"}]
        /\ faults \in Nat
    BY <2>1, TailQueue DEF Execute, RunInv, RunTypeOK, ServerTypeOK
  <2>3. \A p \in Prompt : Gone(p) => Gone(p)'
    BY <2>1, <2>2 DEF Execute, Gone, Outcomes
  <2>4. \A p \in Prompt : p = Head(queue) => Gone(p)'
    BY <2>1, <2>2 DEF Execute, Gone, Outcomes
  <2>5. \A p \in Prompt : InQueue(p) => InQueue(p)' \/ Gone(p)'
    BY <2>1, <2>2, <2>4, OthersStayInQueue DEF Execute
  <2>6. DeadIsEmpty'
    BY <2>1 DEF Execute, DeadIsEmpty
  <2> QED
    BY <2>1, <2>2, <2>3, <2>5, <2>6, QuietKeepsWait DEF Execute
<1>2. CASE Crash
  <2>1. ProcessDies /\ faults' = faults + 1 /\ restart' = restart /\ faults \in Nat
    BY <1>2 DEF Crash, RunInv, RunTypeOK, ServerTypeOK
  <2> QED
    BY <2>1, DeathTakesAll, QuietKeepsWait
<1>3. ASSUME NEW r \in Restarter, RestartStep(r) PROVE WaitInv'
  <2>1. \A q \in Job : restart'[q] # "none" <=> restart[q] # "none"
    BY <1>3, CommandsGoOn
  <2>2. faults' \in Nat /\ faults' >= faults
    BY <1>3 DEF RestartStep, StopComfy, StartComfy, AwaitComfy, RunInv, RunTypeOK, ServerTypeOK
  <2>3. CASE ProcessDies
    BY <2>1, <2>2, <2>3, DeathTakesAll, QuietKeepsWait
  <2>4. CASE ~ProcessDies
    <3>1. UNCHANGED <<queue, history, lost>> /\ (alive' = alive \/ alive' = TRUE)
      BY <1>3, <2>4 DEF RestartStep, StopComfy, StartComfy, AwaitComfy
    <3>2. \A p \in Prompt : (Gone(p) => Gone(p)') /\ (InQueue(p) => InQueue(p)')
      BY <3>1 DEF Gone, InQueue
    <3>3. DeadIsEmpty'
      BY <3>1 DEF WaitInv, DeadIsEmpty
    <3> QED
      BY <2>1, <2>2, <3>2, <3>3, QuietKeepsWait
  <2> QED
    BY <2>3, <2>4
<1> QED
  BY <1>1, <1>2, <1>3 DEF ServerStep

\* The other callers.
LEMMA OthersKeepWait ==
  ASSUME RunInv, WaitInv, OtherCaller \/ UNCHANGED promptVars
  PROVE  WaitInv'
<1>0. /\ UNCHANGED <<alive, queue, history, faults, lost, runVars>>
      /\ \A j \in Job : restart'[j] = restart[j]
  BY DEF OtherCaller, promptVars, serverVars, RunInv, RunTypeOK, ServerTypeOK
<1>1. \A p \in Prompt : (Gone(p) => Gone(p)') /\ (InQueue(p) => InQueue(p)')
  BY <1>0 DEF Gone, InQueue
<1>2. DeadIsEmpty' /\ faults' \in Nat /\ faults' >= faults
  BY <1>0 DEF WaitInv, DeadIsEmpty, RunInv, RunTypeOK, ServerTypeOK
<1> QED
  BY <1>0, <1>1, <1>2, QuietKeepsWait

\* What a job's step does to ComfyUI and to the exceptions in hand.
LEMMA JobEffects ==
  ASSUME RunInv, NEW j \in Job, BodyStep(j)
  PROVE  /\ alive' = alive /\ history' = history /\ lost' = lost /\ loaded' = loaded
         /\ queue' = queue \/ (alive /\ queue' = Append(queue, Current(j)))
         /\ faults' \in {faults, faults + 1}
         /\ \A q \in Job : q # j => why'[q] = why[q]
         /\ \A r \in Restarter : r # j => restart'[r] = restart[r]
         /\ step'[j] = "polling" => step[j] = "checking" \/ queue' = Append(queue, Current(j))
         /\ step'[j] = "checking" => step[j] = "polling"
         /\ step'[j] = "triage" /\ why'[j] = "restart" => CheckQueue(j)
<1> USE DEF RunInv, RunTypeOK, ServerTypeOK, Goto, Raise, CallRestart, serverVars
<1>1. CASE Begin(j) \/ StageInputs(j) \/ Collect(j)
  BY <1>1 DEF Begin, StageInputs, Collect
<1>2. CASE Ensure(j) \/ WarmRestartReturns(j) \/ RetryRestartReturns(j) \/ Triage(j)
  BY <1>2 DEF Ensure, WarmRestartReturns, RetryRestartReturns, Triage, RestartReturns
<1>3. CASE SubmitPrompt(j)
  BY <1>3 DEF SubmitPrompt
<1>4. CASE PollHistory(j) \/ PollTimesOut(j)
  <2>1. history[Current(j)] \in {"success", "oom", "error", "none"}
    BY PromptsOf DEF Outcomes, ServerTypeOK
  <2>2. /\ step' \in {[step EXCEPT ![j] = s] : s \in {"collecting", "checking", "triage"}}
        /\ why' \in {why} \cup {[why EXCEPT ![j] = w] : w \in {"oom", "other"}}
        /\ step'[j] = "triage" => why'[j] # "restart"
    BY <1>4, <2>1 DEF PollHistory, PollTimesOut
  <2>3. step[j] = "polling" /\ UNCHANGED <<attempt, serverVars>>
    BY <1>4 DEF PollHistory, PollTimesOut
  <2> QED
    BY <2>2, <2>3
<1>5. CASE CheckQueue(j)
  BY <1>5 DEF CheckQueue
<1> QED
  BY <1>1, <1>2, <1>3, <1>4, <1>5 DEF BodyStep

\* What is in the queue stays there when a prompt is added, which is there then.
LEMMA AppendKeeps ==
  ASSUME queue \in Seq(Prompt), NEW q \in Prompt, queue' = Append(queue, q)
  PROVE  \A p \in Prompt : InQueue(p) \/ p = q => InQueue(p)'
<1>1. /\ Len(queue') = Len(queue) + 1 /\ Len(queue) \in Nat
      /\ \A i \in 1 .. Len(queue) : queue'[i] = queue[i]
      /\ queue'[Len(queue) + 1] = q
  BY AppendProperties, LenProperties
<1>2. ASSUME NEW p \in Prompt, InQueue(p) PROVE InQueue(p)'
  BY <1>1, <1>2 DEF InQueue
<1>3. ASSUME NEW p \in Prompt, p = q PROVE InQueue(p)'
  <2>1. Len(queue) + 1 \in 1 .. Len(queue') /\ queue'[Len(queue) + 1] = p
    BY <1>1, <1>3
  <2> QED
    BY <2>1 DEF InQueue
<1> QED
  BY <1>2, <1>3

\* The jobs keep the invariant: a verdict is given by CheckQueue alone, on a prompt
\* that is known, and if the queue is empty or dead that prompt is gone.
LEMMA JobKeepsWait ==
  ASSUME RunInv, WaitInv, NEW j \in Job, BodyStep(j)
  PROVE  WaitInv'
<1>1. /\ \A p \in Prompt : Gone(p)' <=> Gone(p)
      /\ \A p \in Prompt : InQueue(p) => InQueue(p)'
      /\ \A p \in Prompt : p = Current(j) /\ queue' = Append(queue, p) => InQueue(p)'
      /\ faults \in Nat /\ faults' \in {faults, faults + 1}
      /\ \A q \in Job : Current(q) \in Prompt
  <2>1. \A p \in Prompt : Gone(p)' <=> Gone(p)
    BY JobEffects DEF Gone
  <2>2. faults \in Nat /\ faults' \in {faults, faults + 1}
    BY JobEffects DEF RunInv, RunTypeOK, ServerTypeOK
  <2>3. queue \in Seq(Prompt) /\ \A q \in Job : Current(q) \in Prompt
    BY PromptsOf DEF RunInv, RunTypeOK, ServerTypeOK
  <2>4. CASE queue' = queue
    <3>1. \A p \in Prompt : queue' # Append(queue, p)
      BY <2>3, <2>4, AppendProperties, LenProperties
    <3>2. \A p \in Prompt : InQueue(p) => InQueue(p)'
      BY <2>4 DEF InQueue
    <3> QED
      BY <2>1, <2>2, <2>3, <3>1, <3>2
  <2>5. CASE queue' = Append(queue, Current(j))
    BY <2>1, <2>2, <2>3, <2>5, AppendKeeps
  <2> QED
    BY <2>4, <2>5, JobEffects
<1>2. ASSUME NEW q \in Job, q # j
      PROVE  /\ step'[q] = step[q] /\ why'[q] = why[q] /\ restart'[q] = restart[q]
             /\ Current(q)' = Current(q)
  BY <1>2, JobSteps, JobEffects DEF Current
<1>3. CallersWait'
  <2>1. restart'[j] # "none" <=> step'[j] \in {"warming", "retrying"}
    <3>1. restart[j] # "none" <=> step[j] \in {"warming", "retrying"}
      BY DEF WaitInv, CallersWait
    <3> QED
      BY <3>1, JobMoves
  <2> QED
    BY <1>2, <2>1 DEF WaitInv, CallersWait
<1>4. PromptsAreKnown'
  <2>1. ASSUME step'[j] \in {"polling", "checking"}
        PROVE  (InQueue(Current(j)) \/ Gone(Current(j)))'
    <3>1. Current(j)' = Current(j)
      <4>1. step'[j] # "submitting"
        BY <2>1
      <4> QED
        BY <4>1, JobMoves DEF Current
    <3>2. CASE queue' = Append(queue, Current(j))
      BY <1>1, <3>1, <3>2
    <3>3. CASE queue' # Append(queue, Current(j))
      <4>1. step[j] \in {"polling", "checking"}
        BY <2>1, <3>3, JobEffects
      <4> QED
        BY <1>1, <3>1, <4>1 DEF WaitInv, PromptsAreKnown
    <3> QED
      BY <3>2, <3>3
  <2> QED
    BY <1>1, <1>2, <2>1 DEF WaitInv, PromptsAreKnown
<1>5. DeadIsEmpty'
  BY JobEffects DEF WaitInv, DeadIsEmpty
<1>6. VerdictIsSound'
  <2>1. ASSUME step'[j] = "triage", why'[j] = "restart"
        PROVE  (Gone(Current(j)) \/ (InQueue(Current(j)) /\ faults > 0))'
    <3>1. CheckQueue(j) /\ step[j] = "checking"
      BY <2>1, JobEffects DEF CheckQueue
    <3>2. Current(j)' = Current(j) /\ Current(j) \in Prompt
      BY <1>1, <3>1 DEF CheckQueue, Current
    <3>3. InQueue(Current(j)) \/ Gone(Current(j))
      BY <3>1 DEF WaitInv, PromptsAreKnown
    <3>4. CASE ~alive \/ queue = << >>
      <4>1. ~InQueue(Current(j))
        BY <3>4, EmptyIsEmpty DEF WaitInv, DeadIsEmpty
      <4> QED
        BY <1>1, <3>2, <3>3, <4>1
    <3>5. CASE alive /\ queue # << >>
      <4>1. faults' = faults + 1
        BY <2>1, <3>1, <3>5 DEF CheckQueue, Goto, RunInv, RunTypeOK
      <4> QED
        BY <1>1, <3>2, <3>3, <4>1
    <3> QED
      BY <3>4, <3>5
  <2>2. ASSUME NEW q \in Job, q # j, step'[q] = "triage", why'[q] = "restart"
        PROVE  (Gone(Current(q)) \/ (InQueue(Current(q)) /\ faults > 0))'
    <3>1. Gone(Current(q)) \/ (InQueue(Current(q)) /\ faults > 0)
      BY <1>2, <2>2 DEF WaitInv, VerdictIsSound
    <3> QED
      BY <1>1, <1>2, <2>2, <3>1
  <2> QED
    BY <2>1, <2>2 DEF VerdictIsSound
<1> QED
  BY <1>3, <1>4, <1>5, <1>6 DEF WaitInv

\* It holds initially, and every step keeps it.
LEMMA WaitStepInv ==
  /\ PromptInit => WaitInv
  /\ RunInv /\ WaitInv /\ [OpenNext]_promptVars => WaitInv'
<1>1. PromptInit => WaitInv
  BY DEF PromptInit, ServerInit, RunInit, WaitInv, CallersWait, PromptsAreKnown, DeadIsEmpty,
     VerdictIsSound
<1> QED
  BY <1>1, OthersKeepWait, ServerKeepsWait, JobKeepsWait DEF PromptNext, OpenNext

\* No job waits in vain: one that waits for a restart has a call of it under way,
\* and one that waits for a prompt has had it accepted.
THEOREM NobodyWaitsInVain == OpenSpec => [](CallersWait /\ PromptsAreKnown)
<1>1. WaitInv => CallersWait /\ PromptsAreKnown
  BY DEF WaitInv
<1> QED
  BY <1>1, OpenInvariant, WaitStepInv, PTL DEF OpenSpec

\* Without a fault, a job takes an empty queue for a restart only if its prompt
\* died with the server or has just ended: the one race behind the finding on
\* DetectedRestartsHappened.
THEOREM VerdictsAreSound == OpenSpec => []VerdictIsSound
<1>1. WaitInv => VerdictIsSound
  BY DEF WaitInv
<1> QED
  BY <1>1, OpenInvariant, WaitStepInv, PTL DEF OpenSpec

-----------------------------------------------------------------------------
(* Who leaves ComfyUI without the new files                                *)

\* A job that has downloaded and has not yet stopped ComfyUI, or could not; then it
\* fails without ever entering the loop.
OwesRestart(k) ==
  \/ step[k] = "warming" /\ restart[k] \in {"stop", "failed"}
  \/ step[k] = "error" /\ why[k] = "none"

\* A prompt goes to a ComfyUI that has not loaded the files only while another job
\* owes it the restart.
HastySubmitIsOwed ==
  HasStopCmd =>
    \A j \in Job : step[j] = "submitting" /\ alive /\ ~loaded =>
      \E k \in Job \ {j} : OwesRestart(k)

\* Past the asset check the files are there, and only the loop has exceptions.
PassedChecks ==
  \A j \in Job :
    /\ step[j] \notin {"idle", "ensuring", "error"} => present
    /\ step[j] \in {"idle", "ensuring", "warming"} => why[j] = "none"

StaleInv ==
  /\ PassedChecks
  /\ HasStopCmd /\ alive /\ present /\ ~loaded => \E k \in Job : OwesRestart(k)

\* ComfyUI and the commands: a process that starts loads what is present.
LEMMA ServerKeepsStale ==
  ASSUME RunInv, StaleInv, UNCHANGED runVars,
         ServerStep \/ \E r \in Restarter : RestartStep(r)
  PROVE  StaleInv'
<1> USE DEF StaleInv, RunInv, RunTypeOK, ServerTypeOK, runVars
<1>1. PassedChecks'
  <2>1. present' = present
    BY DEF ServerStep, Execute, Crash, RestartStep, StopComfy, StartComfy, AwaitComfy
  <2> QED
    BY <2>1 DEF PassedChecks
<1>2. CASE ServerStep
  BY <1>1, <1>2 DEF ServerStep, Execute, Crash, ProcessDies, OwesRestart
<1>3. ASSUME NEW r \in Restarter, RestartStep(r) PROVE StaleInv'
  <2>1. \A k \in Job : OwesRestart(k) => OwesRestart(k)' \/ (HasStopCmd => ~alive')
    BY <1>3 DEF RestartStep, StopComfy, StartComfy, AwaitComfy, ProcessDies, OwesRestart
  <2>2. present' = present /\ (alive' => loaded' = present \/ (alive /\ loaded' = loaded))
    BY <1>3 DEF RestartStep, StopComfy, StartComfy, AwaitComfy, ProcessDies
  <2> QED
    BY <1>1, <2>1, <2>2
<1> QED
  BY <1>2, <1>3

\* The jobs: who downloads owes.
LEMMA JobKeepsStale ==
  ASSUME RunInv, StaleInv, NEW j \in Job, BodyStep(j)
  PROVE  StaleInv'
<1> USE DEF RunInv, RunTypeOK, ServerTypeOK, Goto, Raise, serverVars
<1>1. CASE Ensure(j)
  <2>1. /\ step[j] = "ensuring" /\ UNCHANGED <<why, alive, loaded>> /\ present \in BOOLEAN
        /\ \/ present /\ present' /\ step'[j] = "staging" /\ restart' = restart
           \/ ~present /\ present' /\ step'[j] = "warming" /\ restart'[j] = "stop"
           \/ ~present /\ ~present' /\ step'[j] = "error" /\ restart' = restart
    BY <1>1 DEF Ensure, CallRestart
  <2>2. \A q \in Job : q # j => step'[q] = step[q] /\ restart'[q] = restart[q]
    BY JobSteps
  <2>3. PassedChecks'
    BY <2>1, <2>2 DEF StaleInv, PassedChecks
  <2>4. \A k \in Job : OwesRestart(k) => OwesRestart(k)'
    BY <2>1, <2>2 DEF OwesRestart
  <2>5. present' /\ ~present => OwesRestart(j)'
    BY <2>1 DEF OwesRestart
  <2> QED
    BY <2>1, <2>3, <2>4, <2>5 DEF StaleInv
<1>2. CASE ~Ensure(j)
  <2>1. present' = present
    BY <1>2 DEF BodyStep, Begin, WarmRestartReturns, RetryRestartReturns, RestartReturns,
       StageInputs, SubmitPrompt, PollHistory, CheckQueue, PollTimesOut, Triage, Collect
  <2>2. /\ step'[j] \in Follows[step[j]]
        /\ step[j] \in {"idle", "ensuring", "warming", "staging", "submitting", "polling",
                        "checking", "triage", "retrying", "collecting", "ok", "error"}
        /\ step[j] \notin {"ensuring", "error"}
        /\ step'[j] \in {"idle", "ensuring", "warming"} => step[j] = "idle"
        /\ step[j] = "idle" => step'[j] = "ensuring"
    <3>1. step'[j] \in Follows[step[j]] /\ step[j] # "ensuring"
      BY JobMoves, <1>2 DEF BodyStep, Begin, WarmRestartReturns, RetryRestartReturns,
         StageInputs, SubmitPrompt, PollHistory, CheckQueue, PollTimesOut, Triage, Collect
    <3> QED
      BY <1>2, <3>1 DEF Follows
  <2>3. step[j] \in {"idle", "warming"} => why'[j] = why[j]
    BY <1>2 DEF BodyStep, Begin, WarmRestartReturns, RetryRestartReturns, StageInputs,
       SubmitPrompt, PollHistory, CheckQueue, PollTimesOut, Triage, Collect
  <2>4. \A q \in Job : q # j => step'[q] = step[q] /\ restart'[q] = restart[q] /\ why'[q] = why[q]
    BY JobSteps, JobEffects
  <2>5. PassedChecks'
    BY <2>1, <2>2, <2>3, <2>4 DEF StaleInv, PassedChecks
  <2>6. \A k \in Job : OwesRestart(k) => OwesRestart(k)'
    <3>1. ASSUME OwesRestart(j) PROVE OwesRestart(j)'
      <4>1. WarmRestartReturns(j)
        BY <3>1 DEF OwesRestart, BodyStep, Begin, Ensure, RetryRestartReturns, StageInputs,
           SubmitPrompt, PollHistory, CheckQueue, PollTimesOut, Triage, Collect
      <4>2. restart[j] = "failed" /\ step'[j] = "error" /\ why' = why /\ why[j] = "none"
        BY <3>1, <4>1 DEF OwesRestart, WarmRestartReturns, RestartReturns, StaleInv, PassedChecks
      <4> QED
        BY <4>2 DEF OwesRestart
    <3> QED
      BY <2>4, <3>1 DEF OwesRestart
  <2> QED
    BY <2>1, <2>5, <2>6, JobEffects DEF StaleInv
<1> QED
  BY <1>1, <1>2

\* It holds initially, and every step keeps it.
LEMMA StaleStepInv ==
  /\ PromptInit => StaleInv
  /\ RunInv /\ StaleInv /\ [PromptNext]_promptVars => StaleInv'
<1>1. PromptInit => StaleInv
  BY DEF PromptInit, ServerInit, RunInit, StaleInv, PassedChecks
<1>2. ASSUME StaleInv, UNCHANGED promptVars PROVE StaleInv'
  BY <1>2 DEF promptVars, serverVars, runVars, StaleInv, PassedChecks, OwesRestart
<1> QED
  BY <1>1, <1>2, ServerKeepsStale, JobKeepsStale DEF PromptNext

\* What is left of SubmitsToLoadedComfy: with a stop command, a job that submits to
\* a ComfyUI without the files has overtaken the job that downloaded them, or that
\* job's restart has failed.
THEOREM HastySubmitsAreOwed == PromptSpec => []HastySubmitIsOwed
<1>1. StaleInv => HastySubmitIsOwed
  <2> SUFFICES ASSUME StaleInv, HasStopCmd, NEW j \in Job, step[j] = "submitting", alive, ~loaded
               PROVE  \E k \in Job \ {j} : OwesRestart(k)
    BY DEF HastySubmitIsOwed
  <2>1. PICK k \in Job : OwesRestart(k)
    BY DEF StaleInv, PassedChecks
  <2> QED
    BY <2>1 DEF OwesRestart
<1> QED
  BY <1>1, RunInvariant, StaleStepInv, PTL DEF PromptSpec

===============================================================================
