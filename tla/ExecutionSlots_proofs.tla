------------------------ MODULE ExecutionSlots_proofs ------------------------
(***************************************************************************)
(* What ExecutionSlots does for any number of jobs and of slots.           *)
(*                                                                         *)
(* The invariants rest on one another: a permit is never lost (Conserved)  *)
(* only because a watchdog that is not in a claim holds none (NoneTaken),  *)
(* and the gate is closed only on an empty room because a closed gate has  *)
(* taken all of the permits there are (AllTaken).                          *)
(***************************************************************************)
EXTENDS ExecutionSlots, FiniteSetTheorems, TLAPS

Claims == {"claiming", "quiesced", "recycling", "yielding", "recycled"}

Conserved == permits + Cardinality(Holders) + taken = MaxSlots
NoneTaken == watchdog \notin Claims => taken = 0
AllTaken == GateClosed => taken = MaxSlots

SlotsInv ==
  /\ SlotsTypeOK
  /\ Conserved
  /\ NoneTaken
  /\ AllTaken
  /\ ActiveIsExact

-----------------------------------------------------------------------------
(* How the sets of jobs at certain stages change with a step of one job    *)

Stages == {"idle", "waiting", "done"} \cup HoldingStages

JobsAt(S, f) == {j \in Job : f[j] \in S}

\* The jobs at a set of stages are finitely many.
LEMMA JobsAtFinite ==
  ASSUME NEW S, NEW f
  PROVE  IsFiniteSet(JobsAt(S, f)) /\ Cardinality(JobsAt(S, f)) \in Nat
<1>1. JobsAt(S, f) \subseteq Job
  BY DEF JobsAt
<1>2. IsFiniteSet(JobsAt(S, f))
  BY <1>1, FS_Subset, SlotsAssumption DEF SlotsAssumption
<1> QED
  BY <1>2, FS_CardinalityType

\* A job that enters the set of stages adds one.
LEMMA JobsAtEnter ==
  ASSUME NEW S, NEW f \in [Job -> Stages], NEW j \in Job, NEW s \in S,
         f[j] \notin S
  PROVE  Cardinality(JobsAt(S, [f EXCEPT ![j] = s])) = Cardinality(JobsAt(S, f)) + 1
<1>1. JobsAt(S, [f EXCEPT ![j] = s]) = JobsAt(S, f) \cup {j}
  BY DEF JobsAt
<1>2. j \notin JobsAt(S, f)
  BY DEF JobsAt
<1> QED
  BY <1>1, <1>2, JobsAtFinite, FS_AddElement

\* A job that leaves it takes one away.
LEMMA JobsAtLeave ==
  ASSUME NEW S, NEW f \in [Job -> Stages], NEW j \in Job, NEW s,
         f[j] \in S, s \notin S
  PROVE  Cardinality(JobsAt(S, [f EXCEPT ![j] = s])) = Cardinality(JobsAt(S, f)) - 1
<1>1. JobsAt(S, [f EXCEPT ![j] = s]) = JobsAt(S, f) \ {j}
  BY DEF JobsAt
<1>2. j \in JobsAt(S, f)
  BY DEF JobsAt
<1>3. IsFiniteSet(JobsAt(S, f))
  BY JobsAtFinite
<1>4. Cardinality(JobsAt(S, f) \ {j}) = Cardinality(JobsAt(S, f)) - 1
  BY ONLY <1>2, <1>3, FS_RemoveElement
<1> QED
  BY ONLY <1>1, <1>4

\* One that stays in it, or outside, changes nothing.
LEMMA JobsAtStay ==
  ASSUME NEW S, NEW f \in [Job -> Stages], NEW j \in Job, NEW s,
         f[j] \in S <=> s \in S
  PROVE  JobsAt(S, [f EXCEPT ![j] = s]) = JobsAt(S, f)
BY DEF JobsAt

-----------------------------------------------------------------------------
(* The invariant                                                           *)

USE SlotsAssumption DEF SlotsAssumption

\* The invariant holds of an idle worker,
LEMMA SlotsInvInit == SlotsInit => SlotsInv
<1> SUFFICES ASSUME SlotsInit PROVE SlotsInv
  OBVIOUS
<1>1. Holders = {} /\ Counted = {}
  BY DEF SlotsInit, Holders, Counted, HoldingStages, CountedStages
<1>2. Cardinality(Holders) = 0 /\ Cardinality(Counted) = 0
  BY <1>1, FS_EmptySet
<1>3. SlotsTypeOK
  BY DEF SlotsInit, SlotsTypeOK
<1>4. Conserved /\ ActiveIsExact
  BY <1>2 DEF SlotsInit, Conserved, ActiveIsExact
<1>5. NoneTaken /\ AllTaken
  BY DEF SlotsInit, NoneTaken, AllTaken, GateClosed
<1> QED
  BY <1>3, <1>4, <1>5 DEF SlotsInv

\* The sets of the model are instances of JobsAt.
LEMMA Sets ==
  /\ Holders = JobsAt(HoldingStages, stage)
  /\ Counted = JobsAt(CountedStages, stage)
  /\ IsFiniteSet(Holders)
  /\ Cardinality(Holders) \in Nat
  /\ Cardinality(Counted) \in Nat
<1>1. Holders = JobsAt(HoldingStages, stage) /\ Counted = JobsAt(CountedStages, stage)
  BY DEF Holders, Counted, JobsAt
<1> QED
  BY <1>1, JobsAtFinite

\* What a job that goes from one stage to another does to these sets.
LEMMA StageMoves ==
  ASSUME stage \in [Job -> Stages], NEW j \in Job, NEW s, stage' = [stage EXCEPT ![j] = s]
  PROVE  /\ (stage[j] \in HoldingStages <=> s \in HoldingStages) => Holders' = Holders
         /\ (stage[j] \in CountedStages <=> s \in CountedStages) => Counted' = Counted
         /\ stage[j] \notin HoldingStages /\ s \in HoldingStages =>
              Cardinality(Holders') = Cardinality(Holders) + 1
         /\ stage[j] \notin CountedStages /\ s \in CountedStages =>
              Cardinality(Counted') = Cardinality(Counted) + 1
         /\ stage[j] \in HoldingStages /\ s \notin HoldingStages =>
              Cardinality(Holders') = Cardinality(Holders) - 1
         /\ stage[j] \in CountedStages /\ s \notin CountedStages =>
              Cardinality(Counted') = Cardinality(Counted) - 1
         /\ Cardinality(Holders') \in Nat /\ Cardinality(Counted') \in Nat
<1>1. /\ Holders = JobsAt(HoldingStages, stage)
      /\ Counted = JobsAt(CountedStages, stage)
      /\ Holders' = JobsAt(HoldingStages, [stage EXCEPT ![j] = s])
      /\ Counted' = JobsAt(CountedStages, [stage EXCEPT ![j] = s])
  BY DEF Holders, Counted, JobsAt
<1>2. ASSUME NEW S, stage[j] \in S <=> s \in S
      PROVE  JobsAt(S, [stage EXCEPT ![j] = s]) = JobsAt(S, stage)
  BY <1>2, JobsAtStay
<1>3. ASSUME NEW S, stage[j] \notin S, s \in S
      PROVE  Cardinality(JobsAt(S, [stage EXCEPT ![j] = s])) = Cardinality(JobsAt(S, stage)) + 1
  BY <1>3, JobsAtEnter
<1>4. ASSUME NEW S, stage[j] \in S, s \notin S
      PROVE  Cardinality(JobsAt(S, [stage EXCEPT ![j] = s])) = Cardinality(JobsAt(S, stage)) - 1
  BY <1>4, JobsAtLeave
<1>5. Cardinality(Holders') \in Nat /\ Cardinality(Counted') \in Nat
  BY <1>1, JobsAtFinite
<1>6. /\ (stage[j] \in HoldingStages <=> s \in HoldingStages) => Holders' = Holders
      /\ (stage[j] \in CountedStages <=> s \in CountedStages) => Counted' = Counted
  BY ONLY <1>1, <1>2
<1>7. /\ stage[j] \notin HoldingStages /\ s \in HoldingStages =>
           Cardinality(Holders') = Cardinality(Holders) + 1
      /\ stage[j] \notin CountedStages /\ s \in CountedStages =>
           Cardinality(Counted') = Cardinality(Counted) + 1
  BY ONLY <1>1, <1>3
<1>8. /\ stage[j] \in HoldingStages /\ s \notin HoldingStages =>
           Cardinality(Holders') = Cardinality(Holders) - 1
      /\ stage[j] \in CountedStages /\ s \notin CountedStages =>
           Cardinality(Counted') = Cardinality(Counted) - 1
  BY ONLY <1>1, <1>4
<1> QED
  BY ONLY <1>5, <1>6, <1>7, <1>8

\* A step of a job keeps the invariant.
LEMMA JobStepKeepsInv ==
  ASSUME SlotsInv, NEW j \in Job, JobStep(j)
  PROVE  SlotsInv'
<1> USE DEF SlotsInv, SlotsTypeOK, Conserved, NoneTaken, AllTaken, ActiveIsExact, GateClosed,
            watchdogVars
<1>0. /\ stage \in [Job -> Stages]
      /\ Cardinality(Holders) \in Nat
      /\ Cardinality(Counted) \in Nat
  BY Sets DEF Stages, HoldingStages
<1>1. CASE Arrive(j)
  <2>1. stage[j] = "idle" /\ stage' = [stage EXCEPT ![j] = "waiting"]
    BY <1>1 DEF Arrive
  <2>2. "idle" \notin HoldingStages /\ "waiting" \notin HoldingStages
    BY DEF HoldingStages
  <2>3. "idle" \notin CountedStages /\ "waiting" \notin CountedStages
    BY DEF CountedStages
  <2>4. Holders' = Holders /\ Counted' = Counted
    BY ONLY <1>0, <2>1, <2>2, <2>3, StageMoves
  <2> QED
    BY <1>0, <1>1, <2>4 DEF Arrive, HoldingStages, CountedStages
<1>2. CASE RejectEarly(j)
  <2>1. stage[j] = "idle" /\ stage' = [stage EXCEPT ![j] = "done"]
    BY <1>2 DEF RejectEarly
  <2>2. "idle" \notin HoldingStages /\ "done" \notin HoldingStages
    BY DEF HoldingStages
  <2>3. "idle" \notin CountedStages /\ "done" \notin CountedStages
    BY DEF CountedStages
  <2>4. Holders' = Holders /\ Counted' = Counted
    BY ONLY <1>0, <2>1, <2>2, <2>3, StageMoves
  <2> QED
    BY <1>0, <1>2, <2>4 DEF RejectEarly, HoldingStages, CountedStages
<1>3. CASE Acquire(j)
  <2>1. stage[j] = "waiting" /\ stage' = [stage EXCEPT ![j] = "acquired"]
    BY <1>3 DEF Acquire
  <2>2. "waiting" \notin HoldingStages /\ "acquired" \in HoldingStages
    BY DEF HoldingStages
  <2>3. "waiting" \notin CountedStages /\ "acquired" \notin CountedStages
    BY DEF CountedStages
  <2>4. Cardinality(Holders') = Cardinality(Holders) + 1 /\ Counted' = Counted
    BY ONLY <1>0, <2>1, <2>2, <2>3, StageMoves
  <2> QED
    BY <1>0, <1>3, <2>4 DEF Acquire, HoldingStages, CountedStages
<1>4. CASE CountIn(j)
  <2>1. PICK s \in CountedStages : stage' = [stage EXCEPT ![j] = s]
    BY <1>4 DEF CountIn
  <2>2. stage[j] = "acquired" /\ s \in HoldingStages
    BY <1>4, <2>1 DEF CountIn, HoldingStages, CountedStages
  <2>3. stage[j] \in HoldingStages /\ stage[j] \notin CountedStages
    BY <2>2 DEF HoldingStages, CountedStages
  <2>4. Holders' = Holders /\ Cardinality(Counted') = Cardinality(Counted) + 1
    BY ONLY <1>0, <2>1, <2>2, <2>3, StageMoves
  <2> QED
    BY <1>0, <1>4, <2>1, <2>2, <2>4 DEF CountIn, HoldingStages, CountedStages
<1>5. CASE CountOut(j)
  <2>1. stage[j] = "running" /\ stage' = [stage EXCEPT ![j] = "leaving"]
    BY <1>5 DEF CountOut
  <2>2. "running" \in HoldingStages /\ "leaving" \in HoldingStages
    BY DEF HoldingStages
  <2>3. "running" \in CountedStages /\ "leaving" \notin CountedStages
    BY DEF CountedStages
  <2>4. Holders' = Holders /\ Cardinality(Counted') = Cardinality(Counted) - 1
        /\ Cardinality(Counted') \in Nat
    BY ONLY <1>0, <2>1, <2>2, <2>3, StageMoves
  <2> QED
    BY <1>0, <1>5, <2>4 DEF CountOut, HoldingStages, CountedStages
<1>6. CASE NoteCompleted(j)
  <2>1. stage[j] = "leaving" /\ stage' = [stage EXCEPT ![j] = "noted"]
    BY <1>6 DEF NoteCompleted
  <2>2. "leaving" \in HoldingStages /\ "noted" \in HoldingStages
    BY DEF HoldingStages
  <2>3. "leaving" \notin CountedStages /\ "noted" \notin CountedStages
    BY DEF CountedStages
  <2>4. Holders' = Holders /\ Counted' = Counted
    BY ONLY <1>0, <2>1, <2>2, <2>3, StageMoves
  <2> QED
    BY <1>0, <1>6, <2>4 DEF NoteCompleted, HoldingStages, CountedStages
<1>7. CASE Release(j)
  <2>1. stage[j] = "noted" /\ stage' = [stage EXCEPT ![j] = "done"]
    BY <1>7 DEF Release
  <2>2. "noted" \in HoldingStages /\ "done" \notin HoldingStages
    BY DEF HoldingStages
  <2>3. "noted" \notin CountedStages /\ "done" \notin CountedStages
    BY DEF CountedStages
  <2>4. Counted' = Counted /\ Cardinality(Holders') = Cardinality(Holders) - 1
        /\ Cardinality(Holders') \in Nat
    BY ONLY <1>0, <2>1, <2>2, <2>3, StageMoves
  <2> QED
    BY <1>0, <1>7, <2>4 DEF Release, HoldingStages, CountedStages
<1> QED
  BY <1>1, <1>2, <1>3, <1>4, <1>5, <1>6, <1>7 DEF JobStep

\* A step of the watchdog keeps it.
LEMMA WatchdogStepKeepsInv ==
  ASSUME SlotsInv, WatchdogStep
  PROVE  SlotsInv'
<1> USE DEF SlotsInv, SlotsTypeOK, Conserved, NoneTaken, AllTaken, ActiveIsExact, GateClosed,
            jobVars, Claims
<1>0. /\ stage' = stage
      /\ active' = active
      /\ Cardinality(Holders) \in Nat
      /\ Holders' = Holders
      /\ Counted' = Counted
  <2>1. stage' = stage /\ active' = active
    BY DEF WatchdogStep, Tick, CheckIdleBeforeRestart, RestartEnds, CheckIdleBeforeRecycle,
           Decide, Claim, ClaimTimesOut, Confirm, RecycleEnds, GiveBack, RecycleReturns
  <2> QED
    BY <2>1, Sets DEF Holders, Counted
<1>1. CASE \E healthy \in BOOLEAN : Tick(healthy)
  BY <1>0, <1>1 DEF Tick
<1>2. CASE CheckIdleBeforeRestart
  BY <1>0, <1>2 DEF CheckIdleBeforeRestart
<1>3. CASE \E ok \in BOOLEAN : RestartEnds(ok)
  BY <1>0, <1>3 DEF RestartEnds
<1>4. CASE CheckIdleBeforeRecycle
  BY <1>0, <1>4 DEF CheckIdleBeforeRecycle
<1>5. CASE \E low \in BOOLEAN : Decide(low)
  BY <1>0, <1>5 DEF Decide
<1>6. CASE Claim
  BY <1>0, <1>6 DEF Claim
<1>7. CASE ClaimTimesOut
  BY <1>0, <1>7 DEF ClaimTimesOut
<1>8. CASE \E recovered \in BOOLEAN : Confirm(recovered)
  BY <1>0, <1>8 DEF Confirm
<1>9. CASE \E ok \in BOOLEAN : RecycleEnds(ok)
  BY <1>0, <1>9 DEF RecycleEnds
<1>10. CASE GiveBack
  BY <1>0, <1>10 DEF GiveBack
<1>11. CASE RecycleReturns
  BY <1>0, <1>11 DEF RecycleReturns
<1> QED
  BY <1>1, <1>2, <1>3, <1>4, <1>5, <1>6, <1>7, <1>8, <1>9, <1>10, <1>11 DEF WatchdogStep

\* and every step keeps it.
LEMMA SlotsInvStep == SlotsInv /\ [SlotsNext]_slotVars => SlotsInv'
<1> SUFFICES ASSUME SlotsInv, [SlotsNext]_slotVars PROVE SlotsInv'
  OBVIOUS
<1>1. CASE \E j \in Job : JobStep(j)
  BY <1>1, JobStepKeepsInv
<1>2. CASE WatchdogStep
  BY <1>2, WatchdogStepKeepsInv
<1>3. CASE UNCHANGED slotVars
  BY <1>3 DEF slotVars, jobVars, watchdogVars, SlotsInv, SlotsTypeOK, Conserved, NoneTaken,
              AllTaken, ActiveIsExact, GateClosed, Holders, Counted
<1> QED
  BY <1>1, <1>2, <1>3 DEF SlotsNext

\* The inductive invariant of slots, counters and watchdog.
THEOREM SlotsInvariant == SlotsSpec => []SlotsInv
BY SlotsInvInit, SlotsInvStep, PTL DEF SlotsSpec

-----------------------------------------------------------------------------
(* Theorems                                                                *)

\* Type correctness of the slots, for any number of jobs and of slots.
THEOREM SlotsTypeCorrect == SlotsSpec => []SlotsTypeOK
<1>1. SlotsInv => SlotsTypeOK
  BY DEF SlotsInv
<1> QED
  BY <1>1, SlotsInvariant, PTL

\* No interleaving of jobs, partial claims and give-backs loses or invents a
\* permit of _EXECUTION_SEMAPHORE.
THEOREM PermitsConserved == SlotsSpec => []SlotsConserved
<1>1. SlotsInv => SlotsConserved
  BY DEF SlotsInv, SlotsConserved, Conserved, NoneTaken, Claims
<1> QED
  BY <1>1, SlotsInvariant, PTL

\* _ACTIVE_JOBS always equals the number of jobs it should count.
THEOREM CountIsExact == SlotsSpec => []ActiveIsExact
<1>1. SlotsInv => ActiveIsExact
  BY DEF SlotsInv
<1> QED
  BY <1>1, SlotsInvariant, PTL

\* A closed gate has an empty room behind it.
LEMMA ClosedMeansEmpty == SlotsInv => RecycleIsExclusive
<1> SUFFICES ASSUME SlotsInv, GateClosed PROVE Holders = {}
  BY DEF RecycleIsExclusive, GateClosed
<1>1. IsFiniteSet(Holders)
  BY Sets
<1>2. Cardinality(Holders) = 0
  BY Sets DEF SlotsInv, SlotsTypeOK, Conserved, AllTaken
<1> QED
  BY <1>1, <1>2, FS_EmptySet

\* When the counter reads 0, it has no job to count.
LEMMA ZeroMeansNone == SlotsInv /\ active = 0 => Counted = {}
<1> SUFFICES ASSUME SlotsInv, active = 0 PROVE Counted = {}
  OBVIOUS
<1>1. IsFiniteSet(Counted) /\ Cardinality(Counted) = 0
  BY Sets, JobsAtFinite DEF SlotsInv, ActiveIsExact
<1> QED
  BY <1>1, FS_EmptySet

\* No job is between acquire and release while ComfyUI is being recycled.
THEOREM RecycleExcludesJobs == SlotsSpec => []RecycleIsExclusive
BY ClosedMeansEmpty, SlotsInvariant, PTL

-----------------------------------------------------------------------------
(* ExecutionSlots implements RecycleGate                                   *)

\* An idle worker is an open gate before an empty room.
LEMMA GateInitially == SlotsInit => Gate!GateInit
<1> SUFFICES ASSUME SlotsInit PROVE Gate!GateInit
  OBVIOUS
<1>1. Holders = {}
  BY DEF SlotsInit, Holders, HoldingStages
<1>2. GateClosed = FALSE
  BY DEF SlotsInit, GateClosed
<1>3. Cardinality(Holders) = 0
  BY <1>1, FS_EmptySet
<1> QED
  BY <1>1, <1>2, <1>3 DEF Gate!GateInit

\* A job enters the room with its acquire and leaves it with its release.
LEMMA GateJobStep ==
  ASSUME SlotsInv, NEW j \in Job, JobStep(j)
  PROVE  [Gate!GateNext]_Gate!gateVars
<1>0. stage \in [Job -> Stages]
  BY DEF SlotsInv, SlotsTypeOK, Stages
<1>1. watchdog' = watchdog /\ GateClosed' = GateClosed
  BY DEF JobStep, Arrive, RejectEarly, Acquire, CountIn, CountOut, NoteCompleted, Release,
         GateClosed, watchdogVars
<1>2. CASE Acquire(j)
  <2>1. ~GateClosed
    BY <1>2, Sets DEF SlotsInv, SlotsTypeOK, Conserved, AllTaken, Acquire
  <2>2. j \notin Holders /\ Holders' = Holders \cup {j}
    BY <1>0, <1>2 DEF Acquire, Holders, HoldingStages
  <2>3. Cardinality(Holders') = Cardinality(Holders) + 1
    BY <2>2, Sets, FS_AddElement
  <2>4. MaxSlots - Cardinality(Holders) > 0
    BY <1>2, Sets DEF SlotsInv, SlotsTypeOK, Conserved, Acquire
  <2>5. MaxSlots - Cardinality(Holders') = MaxSlots - Cardinality(Holders) - 1
    BY <2>3, Sets
  <2>6. Gate!Enter(j)
    BY <1>1, <2>1, <2>2, <2>4, <2>5 DEF Gate!Enter
  <2> QED
    BY <2>6 DEF Gate!GateNext
<1>3. CASE Release(j)
  <2>1. j \in Holders /\ Holders' = Holders \ {j}
    BY <1>0, <1>3 DEF Release, Holders, HoldingStages
  <2>2. Cardinality(Holders') = Cardinality(Holders) - 1
    BY <2>1, Sets, FS_RemoveElement
  <2>3. MaxSlots - Cardinality(Holders') = MaxSlots - Cardinality(Holders) + 1
    BY <2>2, Sets
  <2>4. Gate!Leave(j)
    BY <1>1, <2>1, <2>3 DEF Gate!Leave
  <2> QED
    BY <2>4 DEF Gate!GateNext
<1>4. CASE Arrive(j) \/ RejectEarly(j) \/ CountIn(j) \/ CountOut(j) \/ NoteCompleted(j)
  <2>1. Holders' = Holders
    BY <1>0, <1>4 DEF Arrive, RejectEarly, CountIn, CountOut, NoteCompleted, CountedStages,
                      Holders, HoldingStages
  <2> QED
    BY <1>1, <2>1 DEF Gate!gateVars
<1> QED
  BY <1>2, <1>3, <1>4 DEF JobStep

\* The claim of the last permit closes the gate; the end of the recycle, or
\* its cancellation, opens it.
LEMMA GateWatchdogStep ==
  ASSUME SlotsInv, SlotsInv', WatchdogStep
  PROVE  [Gate!GateNext]_Gate!gateVars
<1>1. Holders' = Holders
  BY DEF WatchdogStep, Tick, CheckIdleBeforeRestart, RestartEnds, CheckIdleBeforeRecycle,
         Decide, Claim, ClaimTimesOut, Confirm, RecycleEnds, GiveBack, RecycleReturns,
         jobVars, Holders
<1>2. CASE GateClosed' = GateClosed
  BY <1>1, <1>2 DEF Gate!gateVars
<1>3. CASE GateClosed' /\ ~GateClosed
  <2>1. Holders' = {}
    <3>1. RecycleIsExclusive'
      BY ClosedMeansEmpty, PTL
    <3> QED
      BY <1>3, <3>1 DEF RecycleIsExclusive, GateClosed
  <2> QED
    BY <1>1, <1>3, <2>1 DEF Gate!GateNext, Gate!Close
<1>4. CASE ~GateClosed' /\ GateClosed
  BY <1>1, <1>4 DEF Gate!GateNext, Gate!Open
<1> QED
  BY <1>2, <1>3, <1>4 DEF GateClosed

\* The slots implement the gate: a claim made permit by permit, under a
\* deadline, excludes jobs exactly as a door that shuts at once would.
THEOREM SlotsImplementGate == SlotsSpec => ImplementsGate
<1>1. SlotsInv /\ SlotsInv' /\ [SlotsNext]_slotVars => [Gate!GateNext]_Gate!gateVars
  <2> SUFFICES ASSUME SlotsInv, SlotsInv', [SlotsNext]_slotVars
               PROVE  [Gate!GateNext]_Gate!gateVars
    OBVIOUS
  <2>1. CASE \E j \in Job : JobStep(j)
    BY <2>1, GateJobStep
  <2>2. CASE WatchdogStep
    BY <2>2, GateWatchdogStep
  <2>3. CASE UNCHANGED slotVars
    BY <2>3 DEF slotVars, jobVars, watchdogVars, Gate!gateVars, Holders, GateClosed
  <2> QED
    BY <2>1, <2>2, <2>3 DEF SlotsNext
<1> QED
  BY <1>1, GateInitially, SlotsInvariant, PTL DEF SlotsSpec, ImplementsGate, Gate!GateSpec

-----------------------------------------------------------------------------
(* Progress                                                                *)

\* How many steps a job has before it at most.
StageLeft ==
  [idle |-> 6, waiting |-> 5, acquired |-> 4, running |-> 3, leaving |-> 2, noted |-> 1,
   done |-> 0, stranded |-> 0]

\* A step of the slots brings a job to its next stage, or leaves it where it is.
LEMMA StageAdvances ==
  ASSUME SlotsInv, [SlotsNext]_slotVars, NEW j \in Job
  PROVE  /\ stage'[j] = stage[j] \/ StageLeft[stage'[j]] < StageLeft[stage[j]]
         /\ StageLeft[stage[j]] \in Nat /\ StageLeft[stage'[j]] \in Nat
<1> USE DEF SlotsInv, SlotsTypeOK, HoldingStages
<1>1. ASSUME NEW q \in Job, JobStep(q)
      PROVE  \/ stage'[j] = stage[j]
             \/ stage[j] = "idle" /\ stage'[j] \in {"waiting", "done"}
             \/ stage[j] = "waiting" /\ stage'[j] = "acquired"
             \/ stage[j] = "acquired" /\ stage'[j] \in {"running", "stranded"}
             \/ stage[j] = "running" /\ stage'[j] = "leaving"
             \/ stage[j] = "leaving" /\ stage'[j] = "noted"
             \/ stage[j] = "noted" /\ stage'[j] = "done"
  BY <1>1 DEF JobStep, Arrive, RejectEarly, Acquire, CountIn, CountedStages, CountOut,
     NoteCompleted, Release
<1>2. WatchdogStep \/ UNCHANGED slotVars => stage' = stage
  BY DEF WatchdogStep, Tick, CheckIdleBeforeRestart, RestartEnds, CheckIdleBeforeRecycle, Decide,
     Claim, ClaimTimesOut, Confirm, RecycleEnds, GiveBack, RecycleReturns, jobVars, slotVars
<1>3. stage[j] \in {"idle", "waiting", "acquired", "running", "leaving", "noted", "done", "stranded"}
  OBVIOUS
<1> QED
  BY <1>1, <1>2, <1>3 DEF SlotsNext, StageLeft

\* A job that finds no permit waits for a job in its slot or for a claim of the
\* watchdog: permits do not vanish.
LEMMA WaitersHaveHolders ==
  ASSUME SlotsInv, permits = 0
  PROVE  watchdog \in Claims \/ \E k \in Job : stage[k] \in HoldingStages
<1> SUFFICES ASSUME watchdog \notin Claims, Holders = {}
             PROVE  FALSE
  BY DEF Holders
<1>1. taken = 0 /\ Cardinality(Holders) = 0
  BY FS_EmptySet DEF SlotsInv, NoneTaken
<1> QED
  BY <1>1, SlotsAssumption DEF SlotsInv, Conserved, SlotsAssumption

=============================================================================
