----------------------------- MODULE JobRegistry -----------------------------
(***************************************************************************)
(* The asynchronous job registry of the worker API (src/app.py): the       *)
(* dictionary _JOBS under _JOB_LOCK, POST /jobs, the thread that runs a    *)
(* job, GET /jobs/{id}, and the eviction of old results.                   *)
(*                                                                         *)
(* Every critical section of _JOB_LOCK is one action.  What the job's      *)
(* thread does between its two critical sections (_execute_run) is here    *)
(* only the action Return; WorkerRuntime composes this module with the     *)
(* slots and the ComfyUI run that fill it in.                              *)
(***************************************************************************)
EXTENDS Integers, Sequences, FiniteSets

CONSTANTS
  Job,         \* the ids submit_job mints, one per accepted submission
  MaxSlots,    \* _MAX_EXECUTION_SLOTS
  MaxRecords,  \* _JOB_REGISTRY_MAX_RECORDS
  ThreadsFail  \* whether Thread.start may raise: the process is out of threads

ASSUME RegistryAssumption ==
  /\ IsFiniteSet(Job)
  /\ MaxSlots \in Nat \ {0}
  /\ MaxRecords \in Nat \ {0}
  /\ ThreadsFail \in BOOLEAN

VARIABLES
  record,    \* status of each job's _JobRecord; "absent" before, "evicted" after
  finished,  \* the terminal records still in _JOBS, in the order of finished_monotonic
  expired,   \* how many of them, from the oldest, are older than the TTL
  thread     \* where each job's thread is in submit_job / _run_job_async

registryVars == <<record, finished, expired, thread>>

InFlightStates == {"queued", "running"}
TerminalStates == {"completed", "failed"}

InFlight == {j \in Job : record[j] \in InFlightStates}

\* len(_JOBS)
RegistrySize == Cardinality(InFlight) + Len(finished)

RegistryTypeOK ==
  /\ record \in [Job -> {"absent", "evicted"} \cup InFlightStates \cup TerminalStates]
  /\ finished \in Seq(Job)
  /\ expired \in 0 .. Len(finished)
  /\ thread \in [Job -> {"none", "inserted", "unspawned", "ready", "executing",
                         "ok", "error", "exited", "dead"}]

RegistryInit ==
  /\ record = [j \in Job |-> "absent"]
  /\ finished = << >>
  /\ expired = 0
  /\ thread = [j \in Job |-> "none"]

-----------------------------------------------------------------------------
(* Eviction: _prune_job_registry_locked, called under the lock.            *)

AtLeastZero(n) == IF n < 0 THEN 0 ELSE n

\* Terminal records that must go, beyond the expired ones, for `reserve` new
\* records to fit: the loop pops the oldest until they fit or none is left.
Overflow(reserve) ==
  AtLeastZero(Cardinality(InFlight) + Len(finished) - expired + reserve - MaxRecords)

\* Mutant: eviction from the young end.
KeepsOldest(reserve) == SubSeq(finished, expired + 1, Len(finished) - Overflow(reserve))

Kept(reserve) == SubSeq(finished, expired + Overflow(reserve) + 1, Len(finished))

\* The value the function returns.
Fits(reserve) == Cardinality(InFlight) + Len(Kept(reserve)) + reserve <= MaxRecords

InSeq(j, seq) == \E i \in 1 .. Len(seq) : seq[i] = j

\* Mutant: eviction without the test of the status.
EvictAnyStatus(kept) ==
  [j \in Job |-> IF record[j] # "absent" /\ ~InSeq(j, kept) THEN "evicted" ELSE record[j]]

\* The registry once only the terminal records in `kept` are left.
Evict(kept) ==
  [j \in Job |-> IF record[j] \in TerminalStates /\ ~InSeq(j, kept)
                 THEN "evicted" ELSE record[j]]

-----------------------------------------------------------------------------
(* POST /jobs                                                              *)

\* Mutant: off by one.
HasCapacityForOneMore == Cardinality(InFlight) <= MaxSlots

\* The first 503 of submit_job is not raised.
HasCapacity == Cardinality(InFlight) < MaxSlots

\* Admission in one critical section: capacity, pruning, insertion.  The 503
\* for a full worker is raised before anything changes; the 503 for a full
\* registry is raised after the pruning, whose evictions stay.
Submit(j) ==
  /\ record[j] = "absent"
  /\ HasCapacity
  /\ finished' = Kept(1)
  /\ expired' = 0
  /\ IF Fits(1)
       THEN /\ record' = [Evict(Kept(1)) EXCEPT ![j] = "queued"]
            /\ thread' = [thread EXCEPT ![j] = "inserted"]
       ELSE /\ record' = Evict(Kept(1))
            /\ UNCHANGED thread

\* thread.start(), after the lock is released.
Spawn(j) ==
  /\ thread[j] = "inserted"
  /\ thread' = [thread EXCEPT ![j] = "ready"]
  /\ UNCHANGED <<record, finished, expired>>

\* thread.start() raises: the request fails, nothing removes the record.
SpawnFails(j) ==
  /\ ThreadsFail
  /\ thread[j] = "inserted"
  /\ thread' = [thread EXCEPT ![j] = "unspawned"]
  /\ UNCHANGED <<record, finished, expired>>

-----------------------------------------------------------------------------
(* _run_job_async                                                          *)

\* First critical section.  A thread that does not find its record returns.
Start(j) ==
  /\ thread[j] = "ready"
  /\ IF record[j] = "queued"
       THEN /\ record' = [record EXCEPT ![j] = "running"]
            /\ thread' = [thread EXCEPT ![j] = "executing"]
       ELSE /\ thread' = [thread EXCEPT ![j] = "exited"]
            /\ UNCHANGED record
  /\ UNCHANGED <<finished, expired>>

\* _execute_run returns a response: it turns exceptions into one.
Return(j, result) ==
  /\ thread[j] = "executing"
  /\ thread' = [thread EXCEPT ![j] = result]
  /\ UNCHANGED <<record, finished, expired>>

\* _execute_run raises: it starts a thread for a heartbeat before its `try` and
\* at the end of its `finally`, and nothing catches what Thread.start raises.
Die(j) ==
  /\ ThreadsFail
  /\ thread[j] = "executing"
  /\ thread' = [thread EXCEPT ![j] = "dead"]
  /\ UNCHANGED <<record, finished, expired>>

\* Second critical section.
Store(j) ==
  /\ thread[j] \in {"ok", "error"}
  /\ thread' = [thread EXCEPT ![j] = "exited"]
  /\ IF record[j] = "running"
       THEN /\ record' = [record EXCEPT ![j] =
                            IF thread[j] = "ok" THEN "completed" ELSE "failed"]
            /\ finished' = Append(finished, j)
       ELSE UNCHANGED <<record, finished>>
  /\ UNCHANGED expired

-----------------------------------------------------------------------------
(* GET /jobs/{id} and /jobs/{id}/progress, and the clock                   *)

\* Mutant: the expired records are removed but still counted as such.
PollKeepsExpired ==
  /\ finished' = Kept(0)
  /\ record' = Evict(Kept(0))
  /\ UNCHANGED <<expired, thread>>

\* A poll prunes the registry before it looks the record up.
Poll ==
  /\ finished' = Kept(0)
  /\ expired' = 0
  /\ record' = Evict(Kept(0))
  /\ UNCHANGED thread

\* The oldest result not yet expired reaches the TTL.
Expire ==
  /\ expired < Len(finished)
  /\ expired' = expired + 1
  /\ UNCHANGED <<record, finished, thread>>

RegistryNext ==
  \/ \E j \in Job :
       \/ Submit(j) \/ Spawn(j) \/ SpawnFails(j) \/ Start(j) \/ Die(j) \/ Store(j)
       \/ \E result \in {"ok", "error"} : Return(j, result)
  \/ Poll
  \/ Expire

RegistrySpec == RegistryInit /\ [][RegistryNext]_registryVars

-----------------------------------------------------------------------------
(* Properties                                                              *)

\* The admission check and the eviction together keep the worker from
\* accepting more asynchronous work than it has slots for, and the registry
\* from outgrowing WORKER_JOB_REGISTRY_MAX_RECORDS, whatever the order of
\* submissions, completions, polls and expiries (submit_job).
RegistryBounded ==
  /\ Cardinality(InFlight) <= MaxSlots
  /\ RegistrySize <= MaxRecords

\* A thread always finds its record: eviction never takes the record of a job
\* that has not stored its result, so the two early returns of _run_job_async
\* are never taken and no computed result is dropped.
NoResultDropped ==
  \A j \in Job :
    /\ thread[j] \in {"inserted", "unspawned", "ready"} => record[j] = "queued"
    /\ thread[j] \in {"executing", "ok", "error", "dead"} => record[j] = "running"

\* What a polling backend may rely on: an unexpired result is evicted only
\* once MaxRecords - MaxSlots younger results exist, so a client that polls
\* before that many other jobs finish always gets its result.
RecentResultsSurvive ==
  [][\A i \in 1 .. Len(finished) :
       (i > expired /\ record'[finished[i]] = "evicted")
         => Len(finished) - i >= MaxRecords - MaxSlots]_registryVars

=============================================================================
