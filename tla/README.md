# TLA+ verification of gpu_worker

`gpu_worker` is a service on a rented GPU machine: it takes render jobs over
HTTP, makes sure the model files they need are on disk, drives a local ComfyUI
server, and reports to a broker. The same repository holds the tools that make
such a machine, install the worker on it, and take it into or out of service.
This directory models both halves in TLA+, checks them with TLC and proves their
safety properties with TLAPS. `PROJECT.json` maps every definition to the lines it models.

## Inventory

| Component | State | Operations | Hard behaviour | Correct when |
|---|---|---|---|---|
| Job registry (`app.py`) | `_JOBS` under `_JOB_LOCK`, one thread per job | POST /jobs, the two critical sections of `_run_job_async`, GET /jobs/{id} and /progress, eviction by TTL and by size | eviction between the critical sections of running jobs; limits; threads that do not start | bounded; never evicts a live record; recent results survive |
| Execution slots (`app.py`) | semaphore, `_ACTIVE_JOBS`, `_JOBS_COMPLETED` under three different locks | entry and `finally` of `_execute_run`, `_run_sa3_audio`, `_run_tts_dialogue` | each update is a step of its own | permits conserved; the count is exact |
| Watchdog (`app.py`) | its local baseline, the permits it holds | health tick, restart when unhealthy, `_maybe_recycle_comfy` | claims all permits one by one under one deadline | recycles only an empty worker; never blocks the worker |
| ComfyUI and `restart_comfy` (`comfy_process.py`) | process, queue, history (in the server's memory) | stop, start, await | no lock: any thread restarts under the others | callers learn whether a server is up |
| Job body (`app.py`, `comfy_client.py`) | per-job position, attempt, prompt id | ensure, warm restart, staging, submit, poll, restart detection, one retry, collect | lost answers, lost prompts, wiped history, restarts by others | own output only; always ends |
| Asset store (`asset_manager.py`) | target, `.part` and `.lock` files on a disk shared by processes | `ensure_asset_group`, `_ensure_single_asset`, three downloaders | two unlocked tests, clean-up outside the lock, crashes | only verified files get their name, once |
| Warm groups, broker (`app.py`) | `_WARMED_GROUPS`, `_PROVISIONED_GROUPS`, heartbeats | what jobs, preflight and `/assets/ensure` do with a download; register, heartbeat | three orders of mark, provision and restart; unordered heartbeats | what is advertised is on disk; new files are followed by a restart |
| Input staging (`comfy_client.py`, `app.py`, `infinitetalk.py`) | ComfyUI's input directory | download, validate, fit, receipts, normalise | shared file names that callers may choose, no lock, a retry that stages again | a job with an addressed input renders what its receipt says |
| Secure profile (`worker_release.py`) | systemd links, receipts, markers, active pointer | stage, prepare, cutover, rollback, retire | a death or power loss between any two durable writes | every call finishes or undoes the last |
| Code release (`worker_release.py`, `deploy_gpu.py`) | `current`, `previous`, trees, a lock beside that of the profile | install, promote, roll back, reconcile | interruption, two deployments at once | what is in use stays; one finished release is current |
| One-click deployment (`secure_one_click.py`, `deploy_gpu.py`) | machine, DNS, backend secrets, commands in flight | the saga and its compensations | lost answers, commands that run late, a tool that dies | at the end all of it is in force, or none |
| Provisioning of a machine (`deploy_gpu.py`, shell scripts) | an OS and a data volume that outlive machines, systemd units on them | boot, install, rehydrate, spot retries | a spot machine taken away anywhere; units of earlier plans that come back at boot | no file is lost; a staged machine runs its plan |
| Ingress, authentication (`worker_ingress.py`, `worker_auth.py`) | none | bound and authenticate a request | - | per request |
| Output collection, configuration, model services | - | data, I/O | - | - |

How they interact. A job's thread goes through registry, slots, assets, staging and
ComfyUI: its record is made by POST /jobs and its thread calls `_execute_run`, which
waits on the semaphore, counts itself in `_ACTIVE_JOBS`, ensures the assets, talks to
ComfyUI and gives the slot back; then the second critical section stores the result.
The watchdog and the preflight read `_ACTIVE_JOBS`, the watchdog also claims the
semaphore, and jobs, watchdog, preflight and `/assets/ensure` all call
`restart_comfy`, which kills everybody's prompts. Workers on one machine share the
model files. On the other side, `deploy_gpu.py` boots the volumes and makes a machine
of them, with services enabled and workers held back; the saga installs code and
profile over SSH, cuts over, promotes the code and turns dispatch on. The two kernel
locks of `worker_release.py` order what different commands do to one machine.

## Modules

| Module | Models | State and actions |
|---|---|---|
| `JobRegistry` | `_JOBS`, POST /jobs, `_run_job_async`, GET | `record`, `finished` (terminal records in finish order), `expired` (how many of those are past the TTL), `thread`. One action per critical section: `Submit` (capacity, pruning, insertion), `Spawn`/`SpawnFails`, `Start`, `Return`/`Die` (`_execute_run`), `Store`, `Poll`; `Expire` is the clock |
| `RecycleGate` | what `_acquire_all_slots` promises | a room with `vacancies` and a gate that closes at once, on an empty room |
| `ExecutionSlots` | slots, counters, watchdog | `permits`, `active`, `completed`, `stage` of each job; `watchdog`, `reason`, `taken`, `baseline`. One action per lock-protected update |
| `ComfyServer` | `restart_comfy`, and ComfyUI as the worker sees it (external) | `alive`, `queue`, `history`, `present`, `loaded`, `restart` (position of each thread in `restart_comfy`), `faults`; history variables `lost`, `rendered` |
| `PromptRun` | the body of a ComfyUI job, `submit_prompt`, `poll_for_completion`, `_check_comfy_restarted`; extends `ComfyServer` | `step`, `attempt`, `why`, `result` of each job |
| `WorkerRuntime` | the composition by `INSTANCE` of `JobRegistry`, `ExecutionSlots` and `PromptRun`, plus preflight and `/assets/ensure` | the variables of the parts and `maintenance`; its actions conjoin those of the parts (`BeginBody` = `CountIn` and `Begin`; `ReturnResponse` = stage done and `Return`) |
| `AssetStore` | `ensure_asset_group` down to the downloaders | `target`, `part`, `holder` (lock) per file; `at`, `file`, `got` per caller; `crashes`; history variable `installs` |
| `WarmGroups` | what the callers of `ensure_asset_group` do next, and heartbeats; extends `AssetStore` | `tail` and `changed` of each caller, `warmed`, `provisioned` and `unloaded` of each worker, `told` (a heartbeat, however late, has said so) |
| `InputStaging` | one input file per job, from source to ComfyUI's read | `dir` (contents stand for digests), `request`, `at`, `bound`, `receipt`, `read`, `pass` of each thread; one action per file operation |
| `ProfileSwitch` | what the secure profile promises | `linked`, `authorized`, `installed` |
| `SecureProfile` | stage, prepare, cutover, rollback, retire | links, marks, journal (`receipt`), services, `pc` and `rel` of the operation under the profile lock; one action per durable write or systemd command; `Die`, `PowerLoss` |
| `CodeRelease` | installer, promotion, pointer rollback, reconciliation; extends `SecureProfile` | `tree` of each release, `current`, `previous`, what the base units name, `script` (holder of the code lock) |
| `Deployment` | the saga and the machine it works on, or the machine driven by hand; extends `CodeRelease` | `at`, commands `asked` and `doing`, `reply`, `vm`, `dns`, `dispatch`, `warned` |
| `VolumePair` | `verda_deploy`, `verda_fresh_deploy`, installer, rehydrate script, spot retries | the two volumes (`dataFs`, `marker`, `onData`; `comfyTree`, `wheels`, `onOs`, units, pins), the machine (`cards`, `bound`, what runs), `step`, `plan`, `caps` (WORKER_CAPABILITIES), `missed` (units the pass did not put away), `attempt` |
| `*_proofs` | theorems about the module of that name; `WarmGroups_proofs` has those of `AssetStore` and the types of the run `asset_store`, `Deployment_proofs` those of `SecureProfile` and `CodeRelease` | - |
| `MC*` | instances for TLC | - |

Abstractions. Job ids, prompts, files and releases are model values or small records;
a prompt is `<<job, attempt>>`, because ComfyUI mints a fresh id per submission.
Progress, ETA, statistics, wording and timings are left out: no control depends on
them. In `PromptRun`, staging and collection succeed or fail; `InputStaging` has the
inside of the former, where a content also stands for the image fitted from it, and where
no caller's subfolder is the directory of another job's WAV. A file is absent, partial, or holds good or bad bytes. `present`
stands for the jobs' asset group, provisioner included. Time appears as what it
allows: an expiry, a deadline, a timeout may happen when its waiting step can be
reached. The grace period of `_check_comfy_restarted` needs no state: until it ends,
the poll simply does not move on. `COMFY_START_CMD` is assumed set; without it
`restart_comfy` raises at once. A stop command that succeeds is assumed to have ended
the process by the time the start command runs (the code waits one second).

`SecureProfile` writes a staged release directory in one step, as the code does with a
rename; the digests of artifacts that never change are left out. In `CodeRelease` an id
stands for a digest, so a tree is absent, partial, ready or drifted from its manifest.
A command of `Deployment` that the saga stops waiting for remains `asked`, and may
begin late, or `doing`, and runs on. In `VolumePair` the four asset directories are one flag
`bound`; a kit provisioner is a step that succeeds or fails; a resident server's
environment is a nondeterministic failure. The file `.filmforge-bootstrap-complete` does
not say of which installation it is; the model tells the last one begun on this OS volume
("current") from others ("stale") so that the property can speak of the former.

Operators marked "Mutant" in the modules are deliberate mistakes, used only to see
that each property can fail.

## What the runs check

| Run | Bounds | States | Shows |
|---|---|---|---|
| `job_registry` | 5 jobs, 2 slots, 3 records, threads may fail to start; staging with 2 threads, 2 contents, callers that name files after one content's digest | 2 569 997 | bounds, no live record evicted, recent results survive; attested receipts hold the attested bytes, and what is read is what the receipt says, but under a name callers choose |
| `execution_slots` | 3 jobs, 2 slots, recycle after 1 job or on low VRAM, threads may fail | 10 860 | permits and count exact; recycle excludes jobs; refinement of `RecycleGate`; jobs leave; the watchdog returns |
| `prompt_run` | 2 jobs, 1 fault | 171 538 | own output, one live prompt per job, every body ends |
| `worker_runtime` | asynchronous ComfyUI job, asynchronous and synchronous audio job, preflight, 1 slot, 2 records | 1 110 918 | completed means rendered; zero means idle; accepted jobs find slots; recycle spares prompts |
| `runtime_liveness` | 1 asynchronous job, preflight, low-VRAM and periodic recycle | 167 416 | a started job reaches a terminal record |
| `asset_store` | 3 callers in 2 processes, 2 files (one with a checksum, one flat), a provisioner, 1 crash; the volumes with 2 plans, 1 loss, 2 attempts: 1 file on machines of 1 card, or the units of 1 or 2 cards with 2 sets of capabilities | 1 624 261 | verified before named, installed once, stays, reported; warm means on disk, new files are followed by a restart; no file lost, marked means whole, staged means planned |
| `deployment` | 2 profiles, 2 code releases, worker 0 and a sibling; saga with 2 faults, by hand with 1 | 959 520 | links, journals, pointers and trees through any order of commands, deaths and power losses; refinement of `ProfileSwitch`; the saga ends in all or nothing |
| `watchdog_race`, `false_restart`, `stale_comfy`, `stranded_cutover`, `lost_isolation` | as small as shows it | - | the findings below |

Two runs carry two specifications each, because the subjects are small and share no
state: a behaviour of `MCJobRegistry` is one of the registry or one of the input
directory, a behaviour of `MCAssetStore` one of the files or one of the volumes, told
by its variable `about`. Nothing of the one is ever seen with anything of the other.

Why the bounds are enough. In the registry each property concerns the relation of
at most one record to the slots, the limit and the list; five submissions fill and
overflow three records with expiry and reservation in play. In staging, two
threads with two contents each run one job after another, which gives every
combination of names that meet; `FitKinds` tries the fit on one kind of source, and
callers use the name of one digest, so that the other is one nobody chooses. In the
slots, a partial claim needs two slots, and a job competing with it while another
holds a slot needs three jobs. In `prompt_run` two jobs are what a misjoin, a cascade
or a masked loss needs. The runtime run is about the seams between the parts, so it
has one ComfyUI job and one slot; the second accepted job is what could be admitted too
many, and is there only before the first one's body begins (`OneBody`). The parts' own
runs have the larger populations. `MaxFaults` of `ComfyServer` (crashes of ComfyUI and failures of its
commands) is 1 in `prompt_run` and `watchdog_race` and 0 in the runtime runs, where
restarts by the watchdog, the preflight and the jobs already take the server away at
any moment. In the asset store, the third caller is what lets a late clean-up hit a
second download while a third waits. For the volumes, the two plans make a card with a
resident server a render card and another change its root, and the smaller machine cuts
both short; one resident server is enough, since the audio servers go through the same
`Serve`. Behaviours about the files keep to one card and name no capabilities
(`VolumesBound`); behaviours about the units have both, with one installation, one kind
of card and nothing downloaded (`UnitsBound`): which units are enabled does not depend on
which files are there. For all of these the proofs cover every size; only liveness rests on the bounds.

For `deployment` likewise; its bounds were chosen for finding mistakes. Two profiles that may pin the
same or different code are what a switch, and a removal of a tree in use, need. Two
faults let an operation and its repair both be interrupted when the saga drives; a
machine driven by hand starts with one of the two used up (`HandFaults`), because its
requests come in any order. `MCInit` leaves hand-driven first-install machines with
profiles of different code to the migration case. Drift of a tree happens only when no
operation is under way. With two releases the saga never meets a displaced volume, and
retire, prepare and cutover are never refused to it: those paths are exercised by hand.

Deadlock is checked except in `deployment` and `stranded_cutover`, where the end of
the saga, or of the machine, is the end of the system: the watchdog ticks for ever,
polls of the registry are always possible, and where nothing is left to do once all
callers have returned (`PromptRun`, `AssetStore`) a stutter says so.

### Fairness

A thread that can run does run (weak fairness of each job, of the watchdog and of
the commands of `restart_comfy`). `Acquire` is strongly fair: the watchdog holds
permits for one attempt of at most five seconds plus a restart and then sleeps 30
seconds, and a release wakes a waiter. `PollTimesOut` is strongly fair: the deadline
is an absolute time computed once, so polling cannot go on for ever. Nothing is
assumed of ComfyUI, of clients, of faults or of the clock. `StartedJobsFinish` is
stated for a process that does not run out of threads, and `EveryJobLeaves` allows
for a job stranded with its slot: both exceptions are real (hazards at
`app.py:1557` and `app.py:1778`). The deployment tools have no liveness property: a
tool that was killed does nothing more, and no step of theirs is retried but by a person.

## Findings

- **watchdog_race** (`app.py:549`). The watchdog's unhealthy branch looks at
  `_ACTIVE_JOBS`, lets the lock go and restarts. A job that arrives in between
  has its prompt killed, although the docstring says the action is "never taken
  while a job is running". The recycle branch claims all slots against exactly
  this; `RecycleSparesPrompts` shows that it works.
- **false_restart** (`comfy_client.py:484`). History first, queue second: a prompt
  that ends between the two reads looks lost, and a healthy ComfyUI is restarted.
  `OwnOutput` and `EveryBodyEnds` hold all the same; the price is a second render,
  for every job with a prompt in the queue. Without a fault this race is the only wrong
  verdict (`VerdictsAreSound`), and no job restarts more than twice (`RestartsAreBounded`).
- **stale_comfy** (`app.py:1578`). The job that downloads restarts ComfyUI; one
  that comes just after finds the files present and submits before that restart. The
  restart is still owed then, or has failed (`HastySubmitsAreOwed`).
- **stranded_cutover** (`worker_release.py:2875`). A cutover of several workers that
  dies after worker 0's link is refused when it is run again, because the siblings'
  links are required already; rollback is refused as well (nothing was authorized),
  and so is staging (the drop-in is there, the active pointer is not).
- **lost_isolation** (`deploy_gpu.py:3874`). `systemctl enable --now` leaves a running
  unit running: a card that moves from the identity department to generation keeps the
  identity department's ComfyUI until something restarts it.

### Known limits of the code

Met while modelling and written into the models as they are; the properties are stated
so as to except them, by name.

- `asset_manager.py:317`: with `local_dir` set to the target's directory, Hugging Face
  writes a top-level file of the same name straight to the target, unverified, and the
  code then moves it to `.part` and back; README.md:43 speaks of an atomic rename.
  Files in `Flat` are excepted from `ReadyStaysReady` and the checksum of
  `ReadyIsVerified`.
- A worker's ComfyUI is never restarted for files another worker put in place
  (`unloaded` counts own files only); an unattested filename is used as it is
  (`comfy_client.py:921`), also one that spells another job's `sha256_<digest>.png` or
  `fit_contain_....png`, whose file is then unlinked and replaced: `RendersWhatWasObserved`
  excepts the names in `CallerName`; a `source_path` that is the destination is unlinked
  before it is looked for (`SourceMissing`); the receipt of a fitted image re-reads the
  original by name (`comfy_client.py:1021`); `infinitetalk.py:270` uses one `.part.wav`
  per client job id, so `InputStaging` assumes that concurrent jobs have different ids.
- Registration with the broker is tried once. Heartbeats of job threads are unordered:
  the broker may keep an old active count until the next one (hazard at `app.py:1778`).
- Profiles: retire does not resume; a migration rollback does not restart siblings; a
  staging that dies before the siblings' guards leaves them unguarded (excepted in
  `BootIsProven`); a rollback that dies between the active pointer and the code pointer
  leaves `current` on the failed code; cutover does not verify the pinned tree.
- Code: the rollback script replaces only the executable, so `WorkingDirectory` keeps
  the failed tree; rolling the same release back a second time is refused for good.
- Saga: killed, it compensates nothing; if it fails after dispatch was turned on, the
  profile is rolled back before dispatch goes off; a rollback the machine refuses
  becomes a warning; the machine is never deleted; a lost answer to a DNS creation can
  leave two records, which every later preflight refuses; in preserve mode nobody
  verifies that dispatch is off.
- Volumes: a copy that `cp -an` left truncated is taken for the file by the next pass,
  which removes the original (`deploy_gpu.py:3448`; excepted in `FilesKept`);
  `_stop_stale_resident` misses a unit between two attempts to start, and wherever
  `systemctl disable --now` fails the pass goes on (both in `missed`); a resident server
  that `WORKER_CAPABILITIES` names is spared on whatever card it is pinned to, with a plan
  that gives the card to a render department too (`deploy_gpu.py:3289`; `Wanted`), while the
  set-up of the audio servers asks the plan alone (`deploy_gpu.py:4085`); a
  partial clone refuses `git pull` for good; the marker is on the data volume and the
  tree on the OS volume, so another OS volume, or a fresh deploy resumed and
  interrupted on an installed machine, lets half an installation pass for a whole one
  ("stale"); `_wants_vision` reads the plan before it is cut to the cards; the bind mounts
  are not in fstab, so after a reboot everything writes to the OS volume; the worker
  start and drift guard after `deploy_gpu.py:4113` are unreachable.

## What is proved

Each `*_proofs` module holds an inductive invariant, the theorem that it holds
throughout, and the properties it implies, for all values of the constants that satisfy
the module's assumption.

`ExecutionSlots_proofs` (any finite set of jobs, any slots, any recycle triggers):
`PermitsConserved`, `CountIsExact`, `RecycleExcludesJobs`, and the refinement
`SlotsImplementGate`. `SlotsConserved` alone is not inductive: that a claim succeeds
on an empty room follows only if `taken` in each state of the watchdog is known.
`SlotsInv` adds that `taken = MaxSlots` in "quiesced" and "recycling" and 0 outside a
claim; then conservation leaves no permit for a holder. How a set of jobs changes when
one job changes stage is in the lemmas `JobsAt...` and `StageMoves`. The refinement maps a step to
`Enter`, `Leave`, `Close` or `Open`, or to a stutter; `Claim` is `Close` only when it
takes the last permit, and the invariant says that the room is then empty.

`JobRegistry_proofs` (any finite set of jobs, any limit, also one below the number of
slots): `RegistryStaysBounded`, `ResultsAreNotDropped`, and
the action property `RecentResultsAreKept`. The invariant joins the bounds, the state
of each record against its thread, and the list against the records, because each needs
the others: eviction spares live records only as long as the list holds none, and the
list holds none because `Store` is reached once per thread (`FinishedIsRegistry`, a part
of the invariant about the model's own list). What pruning keeps is a
suffix of the list (`KeptIsSuffix`), and that a fresh result goes only for lack of room
is arithmetic on `Overflow` (`PruningSparesRecent`).

`PromptRun_proofs` (any jobs, restarters and faults): `OutputsAreOwn` and
`OnePromptPerJob`. A second prompt is submitted only after the job's own stop command
has emptied the queue; nobody else puts the first one back (`QueueIsCurrent`). What
follows is proved of `OpenSpec`, in which callers that are not jobs restart ComfyUI too
and download files:

- Progress: `Rank`, the number of steps a body has before it, falls with each step but the
  look at the queue between two polls (`BodiesOnlyAdvance`), and each job has two calls of
  `restart_comfy` to spend (`RestartsAreBounded`), so that jobs that lose their prompts
  to each other's restarts do not go on restarting. `NobodyWaitsInVain`: who waits for a
  restart has a call of it under way, who polls has a prompt that was accepted.
- What is left of two findings. `VerdictsAreSound`: an empty queue that is taken for a
  restart is one, or the prompt has ended between the two reads, or, after a fault, the
  queue was not read. `HastySubmitsAreOwed` (for the jobs alone: a download by preflight
  or `/assets/ensure` is owed by no job): with a stop command, a prompt goes to a ComfyUI
  without the new files only while another job owes it the restart or has failed in it.

`WorkerRuntime_proofs`: the composition implements the specifications of registry, slots
and bodies (`RuntimeImplementsRegistry`, `RuntimeImplementsSlots`, `RuntimeImplementsRun`,
step by step), so the theorems about the parts hold of the whole:
`PartsKeepTheirPromises` states them, sound verdicts, recent results and bounded restarts
included, and `RuntimeImplementsGate` the refinement of
`RecycleGate`. `IdleIsIdle`, `CompletedHasRendered` and `RecyclesSparePrompts` relate the
parts. They rest on one fact, `BodyInSlot`: a body waits for ComfyUI only while its job is
counted and holds its slot. A recycle holds all slots, so no body waits; the count is
exact, so zero means that nobody does. Three theorems are about progress:

- `JobsAlwaysAdvance`: a job has at most 23 steps before it besides its polls, and nothing
  that others do adds one. The measure is the sum of the parts' (`ThreadAdvances`,
  `StageAdvances`, `StepsAdvance`).
- `NobodyIsForgotten`: a job waits for a permit only while one is taken, the watchdog and
  the maintainers are in a restart just while `restart_comfy` runs for them, and a slot
  has a thread at work in it, unless it was stranded by a failing `Thread.start`. The new
  inductive part is `InStep`, that threads, stages, bodies and calls agree.
- `AdmissionMatchesSlots`: a job that POST /jobs accepted never waits for another accepted
  one. Jobs that wait or hold a slot are in flight in the registry (`ThreadAtWork` with
  `NoResultDropped`), which admits no more of them than there are slots; if all permits
  are out, one is with a job of POST /run or with the watchdog.

`WarmGroups_proofs` (any callers, processes, files and crashes), about `AssetStore`:
`ReadyFilesAreVerified`, `FilesAreInstalledOnce`, `ReadyFilesStay`,
`DownloadsAreReported`. The lock's holder alone takes a file from missing to ready; the
`.part` is not under the lock because of the clean-up, so `HolderInv` relies on it only
as far as it may have vanished. That a completed group is reported rests on who completes
it (`ReportInv`): only a caller that has just renamed a `.part`, and once no file is
pending none becomes so, and nothing is left on which that caller could fail. About
`WarmGroups`, which implements `AssetStore` (`WarmImplementsAssets`):
`WarmGroupsAreOnDisk` and `UnloadedAreExcused`, that without a crash a worker whose
ComfyUI lacks a file has a caller that still owes the restart.

`InputStaging_proofs` (any threads, contents and names that callers choose):
`RendersAreObserved`. A name made from a digest that no caller chooses never holds another
valid content (`NamesAreKept`), and a job that has its receipt is bound to such a name.
That the receipt of an attested input is right under any name rests on the digest that
`observe_staged_input_receipts` computes again.

`VolumePair_proofs` (any files, plans, cards, attempts and losses):
`MarkedPairsAreWhole`, `StagedPairsArePlanned`, `FilesAreKept`. `InstallInv` relates the
installation to the volumes: the marker is absent while one is under way, and nothing
is mounted over a directory that is not there, which is why the `rm -rf` of an install
reaches nothing. `ServicesInv` says that what is enabled runs, or tries to (the converse
fails where systemctl removed a link and could not stop the unit), and `PlanInv` how far
the pass has made what is enabled or runs follow the plan, but for `missed`; each needs the
other, because the resident servers are told by what runs and the units bring them back.

`Deployment_proofs` (any profiles, code releases, units and number of faults; with the
saga or by hand), in three layers, each an invariant that uses the one before.

- The profile: `OnlyProvenBoots`, `ServiceNeverLapses`, `RollbackLeavesNothing`,
  `RollbackCanResume`, and the refinement `ProfileIsASwitch`, from which
  `AuthorityFollowsLink` follows. None of the properties is inductive: what the next write
  of an operation may do depends on what its earlier writes did, and what is accepted
  after a death on the journal. `ProfileInv` says of each step of a staging, cutover,
  rollback or retirement what is done and still relied on (`CutoverInv`, `RollbackInv`,
  ...), and, since any of them may be cut there, what each state of a journal means while
  nobody works (`OpenInv`, `CleanInv`, `PerformedInv`, `UntriedInv`). Requests are where
  the two meet: a guard of the code must yield what the first step needs. Steps that leave
  the profile's files alone (`QuietStep`: code, power, drift, the saga) preserve it in one
  lemma.
- The code: `UsedTreesStay`, `OnlyProvenIsCurrent`. `CodeInv` says what the holder of the
  code lock has tested and what nobody can change under it: the installer clears only
  a tree that no profile pins, because a profile is staged only onto a finished tree, and
  while a promotion runs it holds the lock of the profile too, so the profile stays in
  force.
- The saga: `SuccessIsReal`, `FailureIsUndone`, `DispatchComesLast`. `PathInv` is the
  saga's own record (hostname, dispatch, flags); `CommandInv` and `DutyInv` say which
  commands may still be under way on the machine at each step, which is what makes an
  answer believable: on its way forward the saga has no other command under way than
  the one it waits for, and one it gave up on that runs after an `undo-profile` is
  refused, because the links it tests are gone (`CleanInv`). `UndoneInv` and `PromotedInv` relate
  the saga's step to the journal, the links and the code pointer, `PromotedInv` also to
  what a power loss would bring back.

`DeploymentTypes` is the type invariant of all three. The names of the steps of an
operation are the model's; the order of the steps is the code's.

Assumptions: those of the constants (`...Assumption`), which `config.py` enforces
(`_MAX_EXECUTION_SLOTS = max(1, ...)`, `_validate_positive_registry_bounds`) and
`parse_worker_plan` (`PairAssumption`), that no id is one of the
modules' own strings (`CodeAssumption`), and the abstractions above. `StagingAssumption`
restricts callers to the names the model has.

Only model-checked: all liveness (`EveryJobLeaves`, `WatchdogReturns`, `EveryBodyEnds`,
`StartedJobsFinish`), because fairness and `ENABLED` are out of the prover's reach. For
the jobs the theorems about progress are what can be proved of it: nothing is undone and
no wait lacks a cause; that the threads then move is left to fairness and to TLC.
Every other property of a passing run is a theorem (`StoresTypeCorrect` joins
`WarmTypeCorrect` and `PairTypeCorrect` for the run that carries both). The findings are
counterexamples and stay with TLC. The theorems that state no property of a run were
checked with TLC on small instances before they were proved.

## Not modelled

- Output collection, upload and keyframes, ingress and authentication, configuration,
  model services: no state shared between requests, or data and I/O.
- Of the asset store: the download status shown in the UI, an aria2c process that
  survives its worker, checksums of files that rot after installation (nothing re-reads
  them), what a provisioner script does. `provision_flux_ipadapter` skips the
  requirements of a node whose directory exists; a clone cut before pip is repaired
  by nobody, and the smoke test fails the deploy.
- Of the broker: the active count inside the payload (`ActiveIsExact` has the count
  itself), performance figures, readiness probes. `backend_registration.py`, which
  BACKEND_REGISTRATION.md describes, is not used by `app.py`.
- `_LAST_ASSET_GROUP` and the free-VRAM preflight are hints.
- Of the tools: provider selection, prices, the Vast and RunPod paths, the model upload,
  the web UI, and the lag between `fly secrets import --detach` and the backend.
- Of provisioning: boxes without a plan, the identity root's own venv, firmware and
  driver repair, `setup_gpu.sh`.

## Plan

Done: the worker (`JobRegistry` to `WorkerRuntime`, `AssetStore`, `WarmGroups`,
`InputStaging`), the machine it is installed on (`SecureProfile`, `CodeRelease`,
`VolumePair`), the saga (`Deployment`), the safety of all of them proved, and of the
worker's progress what needs no fairness. What would come next: the same measure for the
saga, whose commands run late; a `VolumePair` whose staged machine is the initial state of `SecureProfile`,
with a proof that the one hands the other what it assumes; a broker that draws conclusions
from heartbeats.
