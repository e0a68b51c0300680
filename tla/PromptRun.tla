------------------------------- MODULE PromptRun -------------------------------
(***************************************************************************)
(* The body of a ComfyUI job: from the asset check to the collected        *)
(* outputs (_execute_run of src/app.py inside its slot), with submit_prompt*)
(* and poll_for_completion of src/comfy_client.py.  Several jobs run at    *)
(* once against one ComfyUI server, and each of them restarts that server  *)
(* after a download and after a failed first attempt.                      *)
(***************************************************************************)
EXTENDS ComfyServer

VARIABLES
  step,     \* where each job is in its body
  attempt,  \* 1 or 2: the pass of the retry loop
  why,      \* the exception in hand
  result    \* the prompt whose history entry the job accepted

runVars == <<step, attempt, why, result>>
promptVars == <<serverVars, runVars>>

NoPrompt == <<>>

\* The prompt of the pass the job is in.
Current(j) == <<j, attempt[j]>>

RunTypeOK ==
  /\ ServerTypeOK
  /\ step \in [Job -> {"idle", "ensuring", "warming", "staging", "submitting",
                       "polling", "checking", "triage", "retrying", "collecting",
                       "ok", "error"}]
  /\ attempt \in [Job -> {1, 2}]
  /\ why \in [Job -> {"none", "oom", "restart", "other"}]
  /\ result \in [Job -> Prompt \cup {NoPrompt}]

RunInit ==
  /\ step = [j \in Job |-> "idle"]
  /\ attempt = [j \in Job |-> 1]
  /\ why = [j \in Job |-> "none"]
  /\ result = [j \in Job |-> NoPrompt]

Goto(j, s) == step' = [step EXCEPT ![j] = s]

\* An exception inside the retry loop.
Raise(j, kind) == Goto(j, "triage") /\ why' = [why EXCEPT ![j] = kind]

\* Mutant: restart without the stop command.
CallRestartWithoutStop(j) == restart' = [restart EXCEPT ![j] = "start"]

\* restart_comfy is called by the thread that executes job j.
CallRestart(j) == restart' = [restart EXCEPT ![j] = "stop"]

-----------------------------------------------------------------------------
(* Preparation                                                             *)

Begin(j) ==
  /\ step[j] = "idle"
  /\ Goto(j, "ensuring")
  /\ UNCHANGED <<attempt, why, result, serverVars>>

\* ensure_asset_group and _ensure_runtime_provisioned: everything is there;
\* something is downloaded or provisioned, so this job restarts ComfyUI; or
\* they raise, which the outer handler turns into an error response.  The
\* locks of the files and of the provisioner let one job do the download.
Ensure(j) ==
  /\ step[j] = "ensuring"
  /\ \/ present /\ Goto(j, "staging") /\ UNCHANGED <<present, restart>>
     \/ ~present /\ present' = TRUE /\ Goto(j, "warming") /\ CallRestart(j)
     \/ ~present /\ Goto(j, "error") /\ UNCHANGED <<present, restart>>
  /\ UNCHANGED <<attempt, why, result, alive, queue, history, loaded, faults, lost, rendered>>

\* restart_comfy returns or raises.
RestartReturns(j) ==
  /\ restart[j] \in {"ready", "failed"}
  /\ restart' = [restart EXCEPT ![j] = "none"]
  /\ UNCHANGED <<alive, queue, history, present, loaded, faults, lost, rendered>>

WarmRestartReturns(j) ==
  /\ step[j] = "warming"
  /\ RestartReturns(j)
  /\ Goto(j, IF restart[j] = "ready" THEN "staging" ELSE "error")
  /\ UNCHANGED <<attempt, why, result>>

\* _prepare_comfy_inputs.
StageInputs(j) ==
  /\ step[j] = "staging"
  /\ Goto(j, "submitting") \/ Goto(j, "error")
  /\ UNCHANGED <<attempt, why, result, serverVars>>

-----------------------------------------------------------------------------
(* One pass of the retry loop                                              *)

\* POST /prompt.  The answer may be lost after ComfyUI has queued the prompt:
\* the job then takes the failure path while its prompt is in the queue.
SubmitPrompt(j) ==
  /\ step[j] = "submitting"
  /\ \/ /\ alive
        /\ queue' = Append(queue, Current(j))
        /\ (Goto(j, "polling") /\ UNCHANGED why) \/ Raise(j, "other")
     \/ Raise(j, "other") /\ UNCHANGED queue
  /\ UNCHANGED <<attempt, result, alive, history, present, loaded, restart, faults, lost,
                 rendered>>

\* Mutant: any successful entry of the history is adopted (what the identity
\* rule of poll_for_completion repaired).
PollAnyHistory(j) ==
  /\ step[j] = "polling"
  /\ alive
  /\ \E p \in Prompt :
       /\ history[p] = "success"
       /\ Goto(j, "collecting")
       /\ result' = [result EXCEPT ![j] = p]
  /\ UNCHANGED <<attempt, why, serverVars>>

\* GET /history/{id}: only the entry under the job's own prompt id counts.
PollHistory(j) ==
  /\ step[j] = "polling"
  /\ alive
  /\ CASE history[Current(j)] = "success" ->
            /\ Goto(j, "collecting")
            /\ result' = [result EXCEPT ![j] = Current(j)]
            /\ UNCHANGED why
       [] history[Current(j)] = "oom" -> Raise(j, "oom") /\ UNCHANGED result
       [] history[Current(j)] = "error" -> Raise(j, "other") /\ UNCHANGED result
       [] history[Current(j)] = "none" -> Goto(j, "checking") /\ UNCHANGED <<why, result>>
  /\ UNCHANGED <<attempt, serverVars>>

\* _check_comfy_restarted, after the grace period: the history read before had
\* no entry, and the queue is read now.  An empty queue means a restart; so
\* does a queue that cannot be read (the server is down, or a fault of the
\* request), since the history payload of an id without an entry is {}.
CheckQueue(j) ==
  /\ step[j] = "checking"
  /\ \/ alive /\ queue # << >> /\ Goto(j, "polling") /\ UNCHANGED <<why, faults>>
     \/ (~alive \/ queue = << >>) /\ Raise(j, "restart") /\ UNCHANGED faults
     \/ alive /\ faults < MaxFaults /\ faults' = faults + 1 /\ Raise(j, "restart")
  /\ UNCHANGED <<attempt, result, alive, queue, history, present, loaded, restart, lost,
                 rendered>>

\* Mutant: the deadline moves with every poll.
PollNeverTimesOut(j) == step[j] = "polling" /\ FALSE /\ UNCHANGED promptVars

\* The deadline of poll_for_completion.  The prompt stays where it is.
PollTimesOut(j) ==
  /\ step[j] = "polling"
  /\ Raise(j, "other")
  /\ UNCHANGED <<attempt, result, serverVars>>

\* Mutant: one attempt too many.
TriageOnceMore(j) ==
  /\ step[j] = "triage"
  /\ IF attempt[j] <= 2 /\ (why[j] \in {"oom", "restart"} \/ ~alive)
       THEN Goto(j, "retrying") /\ CallRestart(j)
       ELSE Goto(j, "error") /\ UNCHANGED restart
  /\ UNCHANGED <<attempt, why, result, alive, queue, history, present, loaded, faults, lost,
                 rendered>>

\* The except clause of the loop: one restart and one retry, for an OOM, a
\* detected restart, or a ComfyUI that does not answer the health check now.
Triage(j) ==
  /\ step[j] = "triage"
  /\ IF attempt[j] = 1 /\ (why[j] \in {"oom", "restart"} \/ ~alive)
       THEN Goto(j, "retrying") /\ CallRestart(j)
       ELSE Goto(j, "error") /\ UNCHANGED restart
  /\ UNCHANGED <<attempt, why, result, alive, queue, history, present, loaded, faults, lost,
                 rendered>>

RetryRestartReturns(j) ==
  /\ step[j] = "retrying"
  /\ RestartReturns(j)
  /\ IF restart[j] = "ready"
       THEN Goto(j, "submitting") /\ attempt' = [attempt EXCEPT ![j] = @ + 1]
       ELSE Goto(j, "error") /\ UNCHANGED attempt
  /\ UNCHANGED <<why, result>>

\* collect_output_paths, build_output_files, _assert_material_outputs; the
\* keyframes and the upload after them never fail the job.
Collect(j) ==
  /\ step[j] = "collecting"
  /\ Goto(j, "ok") \/ Goto(j, "error")
  /\ UNCHANGED <<attempt, why, result, serverVars>>

-----------------------------------------------------------------------------
BodyStep(j) ==
  \/ Begin(j) \/ Ensure(j) \/ WarmRestartReturns(j) \/ StageInputs(j)
  \/ SubmitPrompt(j) \/ PollHistory(j) \/ CheckQueue(j) \/ PollTimesOut(j)
  \/ Triage(j) \/ RetryRestartReturns(j) \/ Collect(j)

Finished == \A j \in Job : step[j] \in {"ok", "error"}

PromptNext ==
  \/ \E j \in Job : BodyStep(j)
  \/ (\E r \in Restarter : RestartStep(r)) /\ UNCHANGED runVars
  \/ ServerStep /\ UNCHANGED runVars
  \/ Finished /\ UNCHANGED promptVars

PromptInit == ServerInit /\ RunInit

PromptSpec == PromptInit /\ [][PromptNext]_promptVars

\* The job's thread and the commands of restart_comfy always make progress;
\* the poll's deadline is an absolute time, so polling does not go on for
\* ever.  Nothing is assumed of ComfyUI.
FairPromptSpec ==
  /\ PromptSpec
  /\ \A j \in Job : WF_promptVars(BodyStep(j)) /\ SF_promptVars(PollTimesOut(j))
  /\ \A r \in Restarter : WF_promptVars(RestartStep(r) /\ UNCHANGED runVars)

-----------------------------------------------------------------------------
(* Properties                                                              *)

\* A job that collects outputs collects those of a prompt it submitted itself
\* in the current pass, and that prompt really rendered: however many
\* restarts wipe the history in between, no job ships another job's output
\* (the identity rule of poll_for_completion).
OwnOutput ==
  \A j \in Job : step[j] \in {"collecting", "ok"} =>
    result[j] = Current(j) /\ result[j] \in rendered

\* A retry never runs beside the attempt it replaces: with a stop command,
\* ComfyUI never has two prompts of one job in its queue.
SingleLivePrompt ==
  HasStopCmd =>
    \A j \in Job : ~(InQueue(<<j, 1>>) /\ InQueue(<<j, 2>>))

\* Restarts by one job make other jobs restart; the cascade ends, because
\* each job restarts at most once for a download and once for a retry.
EveryBodyEnds == \A j \in Job : step[j] = "ensuring" ~> step[j] \in {"ok", "error"}

\* poll_for_completion: "Raises ComfyRestartDetectedError if ComfyUI was
\* restarted and the prompt was lost from history".
DetectedRestartsHappened ==
  \A j \in Job : step[j] = "triage" /\ why[j] = "restart" => Current(j) \in lost

\* The flow of the README: "2. The worker ensures all models for that asset
\* group exist locally.  3. If any model was downloaded, the worker restarts
\* local ComfyUI once", and only then submits.
SubmitsToLoadedComfy == \A j \in Job : step[j] = "submitting" => loaded

=============================================================================
