-------------------------- MODULE JobRegistry_proofs --------------------------
(***************************************************************************)
(* What JobRegistry does for any number of jobs, slots and records.  The   *)
(* invariants of the run are inductive together: eviction by count is safe *)
(* because `finished` lists exactly the terminal records, and it lists     *)
(* them because eviction never touches a record a thread still needs.      *)
(***************************************************************************)
EXTENDS JobRegistry, FiniteSetTheorems, SequenceTheorems, TLAPS

\* The model's list is the dictionary: `finished` has each terminal record of
\* _JOBS exactly once.
FinishedIsRegistry ==
  /\ \A j \in Job : record[j] \in TerminalStates <=> InSeq(j, finished)
  /\ \A i, k \in 1 .. Len(finished) : finished[i] = finished[k] => i = k

RegistryInv ==
  /\ RegistryTypeOK
  /\ NoResultDropped
  /\ FinishedIsRegistry
  /\ RegistryBounded

USE RegistryAssumption DEF RegistryAssumption

-----------------------------------------------------------------------------
(* The records in flight                                                   *)

\* The records in flight are finitely many.
LEMMA InFlightFinite == IsFiniteSet(InFlight) /\ Cardinality(InFlight) \in Nat
<1>1. InFlight \subseteq Job
  BY DEF InFlight
<1>2. IsFiniteSet(InFlight)
  BY <1>1, FS_Subset
<1> QED
  BY <1>2, FS_CardinalityType

\* Eviction leaves them alone.
LEMMA EvictKeepsInFlight ==
  ASSUME RegistryTypeOK, NEW kept
  PROVE  /\ Evict(kept) \in [Job -> {"absent", "evicted"} \cup InFlightStates \cup TerminalStates]
         /\ \A j \in Job : record[j] \notin TerminalStates => Evict(kept)[j] = record[j]
         /\ \A j \in Job : Evict(kept)[j] \in TerminalStates
                             <=> record[j] \in TerminalStates /\ InSeq(j, kept)
         /\ {j \in Job : Evict(kept)[j] \in InFlightStates} = InFlight
BY DEF Evict, RegistryTypeOK, InFlight, InFlightStates, TerminalStates

-----------------------------------------------------------------------------
(* What eviction keeps                                                     *)

\* The number of records beyond capacity is a natural number.
LEMMA OverflowType ==
  ASSUME RegistryTypeOK, NEW reserve \in {0, 1}
  PROVE  /\ Overflow(reserve) \in Nat
         /\ Overflow(reserve) >= Cardinality(InFlight) + Len(finished) - expired + reserve
                                   - MaxRecords
         /\ Overflow(reserve) > 0 =>
              Overflow(reserve) = Cardinality(InFlight) + Len(finished) - expired + reserve
                                    - MaxRecords
<1>1. Cardinality(InFlight) \in Nat /\ Len(finished) \in Nat /\ expired \in Nat
  BY InFlightFinite, LenProperties DEF RegistryTypeOK
<1> QED
  BY <1>1 DEF Overflow, AtLeastZero

\* Arithmetic of places in the list.
LEMMA Shift == \A a, b, c \in Int : a - b - c = a - (b + c + 1) + 1
OBVIOUS

\* What is kept is the young end of the list.
LEMMA KeptIsSuffix ==
  ASSUME RegistryTypeOK, NEW reserve \in {0, 1}
  PROVE  /\ Kept(reserve) \in Seq(Job)
         /\ Len(Kept(reserve)) \in Nat
         /\ Len(Kept(reserve)) <= Len(finished)
         /\ \A i \in 1 .. Len(Kept(reserve)) :
              /\ expired + Overflow(reserve) + i \in 1 .. Len(finished)
              /\ Kept(reserve)[i] = finished[expired + Overflow(reserve) + i]
         /\ \A i \in 1 .. Len(finished) :
              i > expired + Overflow(reserve) =>
                /\ i - expired - Overflow(reserve) \in 1 .. Len(Kept(reserve))
                /\ Kept(reserve)[i - expired - Overflow(reserve)] = finished[i]
<1> DEFINE m == expired + Overflow(reserve) + 1
           n == Len(finished)
<1>1. m \in Int /\ n \in Nat /\ m >= 1 /\ expired \in Nat /\ Overflow(reserve) \in Nat
  BY OverflowType, LenProperties DEF RegistryTypeOK
<1>2. \A i \in m .. n : finished[i] \in Job
  BY <1>1, ElementOfSeq DEF RegistryTypeOK
<1>3. Kept(reserve) = SubSeq(finished, m, n)
  BY DEF Kept
<1> HIDE DEF m, n
<1>4. /\ SubSeq(finished, m, n) \in Seq(Job)
      /\ Len(SubSeq(finished, m, n)) = IF m <= n THEN n - m + 1 ELSE 0
      /\ \A i \in 1 .. n - m + 1 : SubSeq(finished, m, n)[i] = finished[m + i - 1]
  BY <1>1, <1>2, SubSeqProperties
<1>5. /\ Kept(reserve) \in Seq(Job)
      /\ Len(Kept(reserve)) = IF m <= n THEN n - m + 1 ELSE 0
      /\ \A i \in 1 .. Len(Kept(reserve)) : Kept(reserve)[i] = finished[m + i - 1]
  BY <1>1, <1>3, <1>4
<1>6. m = expired + Overflow(reserve) + 1 /\ n = Len(finished)
  BY DEF m, n
<1>7. ASSUME NEW i \in 1 .. Len(Kept(reserve))
      PROVE  /\ expired + Overflow(reserve) + i \in 1 .. Len(finished)
             /\ Kept(reserve)[i] = finished[expired + Overflow(reserve) + i]
  <2>1. m + i - 1 = expired + Overflow(reserve) + i
    BY <1>1, <1>6
  <2>2. expired + Overflow(reserve) + i \in 1 .. Len(finished)
    <3>1. i \in Int /\ 1 <= i /\ i <= n - m + 1
      BY <1>1, <1>5
    <3>2. m + i - 1 \in 1 .. n
      BY <1>1, <3>1
    <3> QED
      BY <1>6, <2>1, <3>2
  <2>3. Kept(reserve)[i] = finished[m + i - 1]
    BY <1>5
  <2> QED
    BY <2>1, <2>2, <2>3
<1>8. ASSUME NEW i \in 1 .. Len(finished), i > expired + Overflow(reserve)
      PROVE  /\ i - expired - Overflow(reserve) \in 1 .. Len(Kept(reserve))
             /\ Kept(reserve)[i - expired - Overflow(reserve)] = finished[i]
  <2>1. i - expired - Overflow(reserve) \in 1 .. Len(Kept(reserve))
    <3>1. i \in Int /\ i <= n /\ m <= i
      BY ONLY <1>1, <1>6, <1>8
    <3>2. Len(Kept(reserve)) = n - m + 1
      <4>1. m <= n
        BY <1>1, <3>1
      <4>2. Len(Kept(reserve)) = IF m <= n THEN n - m + 1 ELSE 0
        BY <1>5
      <4> QED
        BY <4>1, <4>2
    <3>3. i - expired - Overflow(reserve) = i - m + 1
      <4>1. i - expired - Overflow(reserve) = i - (expired + Overflow(reserve) + 1) + 1
        BY <1>1, <3>1, Shift
      <4> QED
        BY ONLY <4>1, <1>6
    <3>4. i - m + 1 \in 1 .. (n - m + 1)
      BY <1>1, <3>1
    <3> QED
      BY <3>2, <3>3, <3>4
  <2>2. m + (i - expired - Overflow(reserve)) - 1 = i
    BY <1>1, <1>6
  <2> QED
    BY <1>5, <2>1, <2>2
<1> QED
  BY <1>1, <1>5, <1>6, <1>7, <1>8

\* The list that is kept lists the terminal records that are kept.
LEMMA KeptIsRegistry ==
  ASSUME RegistryTypeOK, FinishedIsRegistry, NEW reserve \in {0, 1}
  PROVE  /\ \A j \in Job : Evict(Kept(reserve))[j] \in TerminalStates
                             <=> InSeq(j, Kept(reserve))
         /\ \A i, k \in 1 .. Len(Kept(reserve)) :
              Kept(reserve)[i] = Kept(reserve)[k] => i = k
<1>1. ASSUME NEW j \in Job, InSeq(j, Kept(reserve)) PROVE InSeq(j, finished)
  BY <1>1, KeptIsSuffix DEF InSeq
<1>2. \A j \in Job : Evict(Kept(reserve))[j] \in TerminalStates <=> InSeq(j, Kept(reserve))
  BY <1>1, EvictKeepsInFlight DEF FinishedIsRegistry
<1>3. ASSUME NEW i \in 1 .. Len(Kept(reserve)), NEW k \in 1 .. Len(Kept(reserve)),
             Kept(reserve)[i] = Kept(reserve)[k]
      PROVE  i = k
  <2> DEFINE x == expired + Overflow(reserve) + i
             y == expired + Overflow(reserve) + k
  <2>0. x \in 1 .. Len(finished) /\ y \in 1 .. Len(finished) /\ finished[x] = finished[y]
    BY <1>3, KeptIsSuffix
  <2>1. x = y
    BY <2>0 DEF FinishedIsRegistry
  <2>2. expired \in Nat /\ Overflow(reserve) \in Nat
    BY OverflowType DEF RegistryTypeOK
  <2>3. i \in Nat /\ k \in Nat
    BY KeptIsSuffix
  <2> QED
    BY ONLY <2>1, <2>2, <2>3
<1> QED
  BY <1>2, <1>3

-----------------------------------------------------------------------------
(* The invariant                                                           *)

\* The invariant holds of an empty registry,
LEMMA RegistryInvInit == RegistryInit => RegistryInv
<1> SUFFICES ASSUME RegistryInit PROVE RegistryInv
  OBVIOUS
<1>1. RegistryTypeOK
  BY DEF RegistryInit, RegistryTypeOK
<1>2. NoResultDropped
  BY DEF RegistryInit, NoResultDropped
<1>3. FinishedIsRegistry
  BY DEF RegistryInit, FinishedIsRegistry, InSeq, TerminalStates
<1>4. InFlight = {}
  BY DEF RegistryInit, InFlight, InFlightStates
<1>5. Cardinality(InFlight) = 0
  BY <1>4, FS_EmptySet
<1>6. RegistryBounded
  BY <1>5 DEF RegistryInit, RegistryBounded, RegistrySize
<1> QED
  BY <1>1, <1>2, <1>3, <1>6 DEF RegistryInv

\* Pruning alone, as a poll does it.
LEMMA PollKeepsInv ==
  ASSUME RegistryInv, Poll
  PROVE  RegistryInv'
<1>0. RegistryTypeOK /\ FinishedIsRegistry /\ NoResultDropped /\ RegistryBounded
  BY DEF RegistryInv
<1>1. RegistryTypeOK'
  BY <1>0, KeptIsSuffix, EvictKeepsInFlight DEF Poll, RegistryTypeOK
<1>2. NoResultDropped'
  BY <1>0, EvictKeepsInFlight DEF Poll, NoResultDropped, TerminalStates
<1>3. FinishedIsRegistry'
  BY <1>0, KeptIsRegistry DEF Poll, FinishedIsRegistry
<1>4. InFlight' = InFlight
  BY <1>0, EvictKeepsInFlight DEF Poll, InFlight
<1>5. RegistryBounded'
  BY <1>0, <1>4, KeptIsSuffix, InFlightFinite, LenProperties
     DEF Poll, RegistryBounded, RegistrySize, RegistryTypeOK
<1> QED
  BY <1>1, <1>2, <1>3, <1>5 DEF RegistryInv

\* Admission.
LEMMA SubmitKeepsInv ==
  ASSUME RegistryInv, NEW j \in Job, Submit(j)
  PROVE  RegistryInv'
<1>0. RegistryTypeOK /\ FinishedIsRegistry /\ NoResultDropped /\ RegistryBounded
  BY DEF RegistryInv
<1> DEFINE kept == Kept(1)
<1>1. finished' = kept /\ expired' = 0
  BY DEF Submit
<1>2. kept \in Seq(Job) /\ Len(kept) \in Nat /\ Len(kept) <= Len(finished)
  BY <1>0, KeptIsSuffix
<1>3. CASE ~Fits(1)
  <2>1. record' = Evict(kept) /\ thread' = thread
    BY <1>3 DEF Submit
  <2>2. RegistryTypeOK'
    BY <1>0, <1>1, <1>2, <2>1, EvictKeepsInFlight DEF RegistryTypeOK
  <2>3. NoResultDropped'
    BY <1>0, <2>1, EvictKeepsInFlight DEF NoResultDropped, TerminalStates
  <2>4. FinishedIsRegistry'
    BY <1>0, <1>1, <2>1, KeptIsRegistry DEF FinishedIsRegistry
  <2>5. InFlight' = InFlight
    BY <1>0, <2>1, EvictKeepsInFlight DEF InFlight
  <2>6. RegistryBounded'
    BY <1>0, <1>1, <1>2, <2>5, InFlightFinite, LenProperties
       DEF RegistryBounded, RegistrySize, RegistryTypeOK
  <2> QED
    BY <2>2, <2>3, <2>4, <2>6 DEF RegistryInv
<1>4. CASE Fits(1)
  <2> DEFINE pruned == Evict(kept)
  <2>1. record' = [pruned EXCEPT ![j] = "queued"] /\ thread' = [thread EXCEPT ![j] = "inserted"]
    BY <1>4 DEF Submit
  <2>2. /\ pruned \in [Job -> {"absent", "evicted"} \cup InFlightStates \cup TerminalStates]
        /\ \A k \in Job : record[k] \notin TerminalStates => pruned[k] = record[k]
        /\ {k \in Job : pruned[k] \in InFlightStates} = InFlight
    BY <1>0, EvictKeepsInFlight
  <2>3. record[j] = "absent" /\ pruned[j] = "absent"
    BY <2>2 DEF Submit, TerminalStates
  <2>4. /\ \A k \in Job : pruned[k] \in TerminalStates <=> InSeq(k, kept)
        /\ \A i, k \in 1 .. Len(kept) : kept[i] = kept[k] => i = k
    BY <1>0, KeptIsRegistry
  <2> HIDE DEF pruned, kept
  <2>5. RegistryTypeOK'
    BY <1>0, <1>1, <1>2, <2>1, <2>2 DEF RegistryTypeOK, InFlightStates
  <2>6. NoResultDropped'
    BY <1>0, <2>1, <2>2 DEF NoResultDropped, RegistryTypeOK, TerminalStates
  <2>7. FinishedIsRegistry'
    <3>1. ASSUME NEW k \in Job PROVE record'[k] \in TerminalStates <=> pruned[k] \in TerminalStates
      BY <2>1, <2>2, <2>3 DEF TerminalStates
    <3> QED
      BY <1>1, <2>4, <3>1 DEF FinishedIsRegistry
  <2>8. InFlight' = InFlight \cup {j} /\ j \notin InFlight
    BY <2>1, <2>2, <2>3 DEF InFlight, InFlightStates
  <2>9. Cardinality(InFlight') = Cardinality(InFlight) + 1
    BY <2>8, InFlightFinite, FS_AddElement
  <2>10. RegistryBounded'
    <3>1. Cardinality(InFlight) < MaxSlots
      BY DEF Submit, HasCapacity
    <3>2. Cardinality(InFlight) + Len(kept) + 1 <= MaxRecords
      BY <1>4 DEF Fits, kept
    <3> QED
      BY <1>1, <1>2, <2>9, <3>1, <3>2, InFlightFinite DEF RegistryBounded, RegistrySize
  <2> QED
    BY <2>5, <2>6, <2>7, <2>10 DEF RegistryInv
<1> QED
  BY <1>3, <1>4

\* The second critical section: a record in flight becomes the youngest result.
LEMMA StoreKeepsInv ==
  ASSUME RegistryInv, NEW j \in Job, Store(j)
  PROVE  RegistryInv'
<1>0. RegistryTypeOK /\ FinishedIsRegistry /\ NoResultDropped /\ RegistryBounded
  BY DEF RegistryInv
<1>1. record[j] = "running"
  BY <1>0 DEF Store, NoResultDropped
<1>2. PICK s \in TerminalStates : record' = [record EXCEPT ![j] = s]
  BY <1>1 DEF Store, TerminalStates
<1>3. /\ finished' = Append(finished, j)
      /\ expired' = expired
      /\ thread' = [thread EXCEPT ![j] = "exited"]
  BY <1>1 DEF Store
<1>4. /\ finished' \in Seq(Job)
      /\ Len(finished) \in Nat
      /\ Len(finished') = Len(finished) + 1
      /\ \A i \in 1 .. Len(finished) : finished'[i] = finished[i]
      /\ finished'[Len(finished) + 1] = j
  BY <1>0, <1>3, AppendProperties, LenProperties DEF RegistryTypeOK
<1>5. RegistryTypeOK'
  BY <1>0, <1>2, <1>3, <1>4 DEF RegistryTypeOK
<1>6. NoResultDropped'
  BY <1>0, <1>2, <1>3 DEF NoResultDropped, RegistryTypeOK
<1>7. ~InSeq(j, finished)
  BY <1>0, <1>1 DEF FinishedIsRegistry, TerminalStates
<1>8. FinishedIsRegistry'
  <2>1. ASSUME NEW k \in Job PROVE InSeq(k, finished') <=> InSeq(k, finished) \/ k = j
    BY <1>4 DEF InSeq
  <2>2. ASSUME NEW k \in Job
        PROVE  record'[k] \in TerminalStates <=> record[k] \in TerminalStates \/ k = j
    BY <1>0, <1>2 DEF RegistryTypeOK
  <2>3. ASSUME NEW i \in 1 .. Len(finished'), NEW k \in 1 .. Len(finished'),
               finished'[i] = finished'[k]
        PROVE  i = k
    BY <1>0, <1>4, <1>7, <2>3 DEF InSeq, FinishedIsRegistry
  <2> QED
    BY <1>0, <2>1, <2>2, <2>3 DEF FinishedIsRegistry
<1>9. InFlight' = InFlight \ {j} /\ j \in InFlight
  BY <1>0, <1>1, <1>2 DEF InFlight, RegistryTypeOK, InFlightStates, TerminalStates
<1>10. Cardinality(InFlight') = Cardinality(InFlight) - 1
  BY <1>9, InFlightFinite, FS_RemoveElement
<1>11. RegistryBounded'
  BY <1>0, <1>4, <1>10, InFlightFinite DEF RegistryBounded, RegistrySize
<1> QED
  BY <1>5, <1>6, <1>8, <1>11 DEF RegistryInv

\* The steps that leave the list of results alone.
LEMMA ThreadStepKeepsInv ==
  ASSUME RegistryInv, NEW j \in Job,
         \/ Spawn(j) \/ SpawnFails(j) \/ Start(j) \/ Die(j)
         \/ \E result \in {"ok", "error"} : Return(j, result)
  PROVE  RegistryInv'
<1>0. RegistryTypeOK /\ FinishedIsRegistry /\ NoResultDropped /\ RegistryBounded
  BY DEF RegistryInv
<1>1. finished' = finished /\ expired' = expired
  BY DEF Spawn, SpawnFails, Start, Die, Return
<1>2. \/ record' = record
      \/ record[j] = "queued" /\ record' = [record EXCEPT ![j] = "running"]
  BY DEF Spawn, SpawnFails, Start, Die, Return
<1>3. RegistryTypeOK'
  BY <1>0, <1>1, <1>2 DEF RegistryTypeOK, Spawn, SpawnFails, Start, Die, Return, InFlightStates
<1>4. NoResultDropped'
  BY <1>0 DEF NoResultDropped, RegistryTypeOK, Spawn, SpawnFails, Start, Die, Return
<1>5. \A k \in Job : /\ record'[k] \in TerminalStates <=> record[k] \in TerminalStates
                     /\ record'[k] \in InFlightStates <=> record[k] \in InFlightStates
  BY <1>0, <1>2 DEF RegistryTypeOK, TerminalStates, InFlightStates
<1>6. FinishedIsRegistry'
  BY <1>0, <1>1, <1>5 DEF FinishedIsRegistry
<1>7. InFlight' = InFlight
  BY <1>5 DEF InFlight
<1>8. RegistryBounded'
  BY <1>0, <1>1, <1>7 DEF RegistryBounded, RegistrySize
<1> QED
  BY <1>3, <1>4, <1>6, <1>8 DEF RegistryInv

\* and every step keeps it.
LEMMA RegistryInvStep == RegistryInv /\ [RegistryNext]_registryVars => RegistryInv'
<1> SUFFICES ASSUME RegistryInv, [RegistryNext]_registryVars PROVE RegistryInv'
  OBVIOUS
<1>1. ASSUME NEW j \in Job, Submit(j) PROVE RegistryInv'
  BY <1>1, SubmitKeepsInv
<1>2. ASSUME NEW j \in Job, Store(j) PROVE RegistryInv'
  BY <1>2, StoreKeepsInv
<1>3. ASSUME NEW j \in Job,
             \/ Spawn(j) \/ SpawnFails(j) \/ Start(j) \/ Die(j)
             \/ \E result \in {"ok", "error"} : Return(j, result)
      PROVE  RegistryInv'
  BY <1>3, ThreadStepKeepsInv
<1>4. CASE Poll
  BY <1>4, PollKeepsInv
<1>5. CASE Expire
  BY <1>5, LenProperties
     DEF Expire, RegistryInv, RegistryTypeOK, NoResultDropped, FinishedIsRegistry,
         RegistryBounded, RegistrySize, InFlight, InSeq
<1>6. CASE UNCHANGED registryVars
  BY <1>6 DEF registryVars, RegistryInv, RegistryTypeOK, NoResultDropped, FinishedIsRegistry,
              RegistryBounded, RegistrySize, InFlight, InSeq
<1> QED
  BY <1>1, <1>2, <1>3, <1>4, <1>5, <1>6 DEF RegistryNext

\* The inductive invariant of records, threads and the order of eviction.
THEOREM RegistryInvariant == RegistrySpec => []RegistryInv
BY RegistryInvInit, RegistryInvStep, PTL DEF RegistrySpec

-----------------------------------------------------------------------------
(* Theorems                                                                *)

\* Type correctness of the registry.
THEOREM RegistryTypeCorrect == RegistrySpec => []RegistryTypeOK
<1>1. RegistryInv => RegistryTypeOK
  BY DEF RegistryInv
<1> QED
  BY <1>1, RegistryInvariant, PTL

\* Neither the work in flight nor the registry outgrows its limit, whatever
\* the limits are.
THEOREM RegistryStaysBounded == RegistrySpec => []RegistryBounded
<1>1. RegistryInv => RegistryBounded
  BY DEF RegistryInv
<1> QED
  BY <1>1, RegistryInvariant, PTL

\* No thread ever finds its record evicted: no computed result is dropped.
THEOREM ResultsAreNotDropped == RegistrySpec => []NoResultDropped
<1>1. RegistryInv => NoResultDropped
  BY DEF RegistryInv
<1> QED
  BY <1>1, RegistryInvariant, PTL

\* Pruning for `reserve` new records takes an unexpired result only if
\* MaxRecords - MaxSlots younger ones exist.
LEMMA PruningSparesRecent ==
  ASSUME RegistryInv, NEW reserve \in {0, 1},
         Cardinality(InFlight) + reserve <= MaxSlots,
         NEW i \in 1 .. Len(finished), i > expired,
         Evict(Kept(reserve))[finished[i]] = "evicted"
  PROVE  Len(finished) - i >= MaxRecords - MaxSlots
<1>0. RegistryTypeOK /\ FinishedIsRegistry
  BY DEF RegistryInv
<1>1. finished[i] \in Job
  BY <1>0, ElementOfSeq DEF RegistryTypeOK
<1>2. InSeq(finished[i], finished)
  BY DEF InSeq
<1>3. record[finished[i]] \in TerminalStates
  BY <1>0, <1>1, <1>2 DEF FinishedIsRegistry
<1>4. ~InSeq(finished[i], Kept(reserve))
  BY <1>1, <1>3 DEF Evict, TerminalStates
<1>5. ~(i > expired + Overflow(reserve))
  <2> SUFFICES ASSUME i > expired + Overflow(reserve) PROVE FALSE
    OBVIOUS
  <2>1. /\ i - expired - Overflow(reserve) \in 1 .. Len(Kept(reserve))
        /\ Kept(reserve)[i - expired - Overflow(reserve)] = finished[i]
    BY <1>0, KeptIsSuffix
  <2> QED
    BY ONLY <1>4, <2>1 DEF InSeq
<1>6. /\ expired \in Nat /\ Len(finished) \in Nat /\ i \in Nat
      /\ Overflow(reserve) \in Nat /\ Cardinality(InFlight) \in Nat
  <2>1. expired \in Nat /\ Len(finished) \in Nat /\ i \in Nat
    BY <1>0, LenProperties DEF RegistryTypeOK
  <2>2. Overflow(reserve) \in Nat /\ Cardinality(InFlight) \in Nat
    BY <1>0, OverflowType, InFlightFinite
  <2> QED
    BY <2>1, <2>2
<1>7. Overflow(reserve) > 0
  BY <1>5, <1>6
<1>8. Overflow(reserve) = Cardinality(InFlight) + Len(finished) - expired + reserve - MaxRecords
  BY <1>0, <1>7, OverflowType
<1>9. Cardinality(InFlight) + reserve <= MaxSlots /\ reserve \in Nat
      /\ MaxSlots \in Nat /\ MaxRecords \in Nat
  OBVIOUS
<1>10. i <= expired + Overflow(reserve)
  BY ONLY <1>5, <1>6
<1>11. i <= Cardinality(InFlight) + Len(finished) + reserve - MaxRecords
  BY ONLY <1>6, <1>8, <1>9, <1>10
<1> QED
  BY ONLY <1>6, <1>9, <1>11

\* The promise to a polling backend, for any limits.
THEOREM RecentResultsAreKept == RegistrySpec => RecentResultsSurvive
<1>1. RegistryInv /\ [RegistryNext]_registryVars =>
        [\A i \in 1 .. Len(finished) :
           (i > expired /\ record'[finished[i]] = "evicted")
             => Len(finished) - i >= MaxRecords - MaxSlots]_registryVars
  <2> SUFFICES ASSUME RegistryInv, RegistryNext,
                      NEW i \in 1 .. Len(finished), i > expired,
                      record'[finished[i]] = "evicted"
               PROVE  Len(finished) - i >= MaxRecords - MaxSlots
    OBVIOUS
  <2>0. RegistryTypeOK /\ FinishedIsRegistry /\ Cardinality(InFlight) <= MaxSlots
    BY DEF RegistryInv, RegistryBounded
  <2>1. finished[i] \in Job /\ record[finished[i]] \in TerminalStates
    BY <2>0, ElementOfSeq DEF RegistryTypeOK, FinishedIsRegistry, InSeq
  <2>2. CASE Poll
    <3>1. Cardinality(InFlight) + 0 <= MaxSlots
      BY <2>0, InFlightFinite
    <3> QED
      BY <2>2, <3>1, PruningSparesRecent DEF Poll
  <2>3. ASSUME NEW j \in Job, Submit(j) PROVE Len(finished) - i >= MaxRecords - MaxSlots
    <3>1. Cardinality(InFlight) + 1 <= MaxSlots
      BY <2>3, InFlightFinite DEF Submit, HasCapacity
    <3>2. Evict(Kept(1))[finished[i]] = "evicted"
      BY <2>0, <2>1, <2>3, EvictKeepsInFlight DEF Submit, TerminalStates
    <3> QED
      BY <3>1, <3>2, PruningSparesRecent
  <2>4. CASE Expire \/ \E j \in Job : \/ Spawn(j) \/ SpawnFails(j) \/ Start(j) \/ Die(j) \/ Store(j)
                                      \/ \E result \in {"ok", "error"} : Return(j, result)
    <3>1. record'[finished[i]] # "evicted"
      BY <2>0, <2>1, <2>4
         DEF RegistryTypeOK, TerminalStates, Expire, Spawn, SpawnFails, Start, Die, Store, Return
    <3> QED
      BY <3>1
  <2> QED
    BY <2>2, <2>3, <2>4 DEF RegistryNext
<1> QED
  BY <1>1, RegistryInvariant, PTL DEF RegistrySpec, RecentResultsSurvive

-----------------------------------------------------------------------------
(* Progress                                                                *)

\* How many steps a thread has before it at most.
ThreadLeft ==
  [none |-> 5, inserted |-> 4, ready |-> 3, executing |-> 2, ok |-> 1, error |-> 1,
   exited |-> 0, unspawned |-> 0, dead |-> 0]

\* A job that was never accepted has no thread.
FreshHasNoThread == \A j \in Job : record[j] = "absent" => thread[j] = "none"

\* It holds initially, and every step keeps it.
LEMMA FreshStepInv ==
  /\ RegistryInit => FreshHasNoThread
  /\ RegistryInv /\ FreshHasNoThread /\ [RegistryNext]_registryVars => FreshHasNoThread'
<1>1. RegistryInit => FreshHasNoThread
  BY DEF RegistryInit, FreshHasNoThread
<1>2. ASSUME RegistryInv, FreshHasNoThread, [RegistryNext]_registryVars
      PROVE  FreshHasNoThread'
  <2> USE DEF FreshHasNoThread, RegistryInv, RegistryTypeOK
  <2>1. \A kept : \A j \in Job : Evict(kept)[j] = "absent" => record[j] = "absent"
    BY DEF Evict
  <2>2. CASE Poll \/ Expire \/ UNCHANGED registryVars
    BY <1>2, <2>1, <2>2 DEF Poll, Expire, registryVars
  <2>3. ASSUME NEW j \in Job, Submit(j) PROVE FreshHasNoThread'
    <3>1. Evict(Kept(1)) = [q \in Job |-> Evict(Kept(1))[q]]
      BY DEF Evict
    <3>2. CASE Fits(1)
      <4>1. /\ record' = [Evict(Kept(1)) EXCEPT ![j] = "queued"]
            /\ thread' = [thread EXCEPT ![j] = "inserted"]
        BY <2>3, <3>2 DEF Submit
      <4>2. \A q \in Job : record'[q] = "absent" =>
              record[q] = "absent" /\ thread'[q] = thread[q]
        BY <2>1, <3>1, <4>1
      <4> QED
        BY <1>2, <4>2
    <3>3. CASE ~Fits(1)
      <4>1. record' = Evict(Kept(1)) /\ thread' = thread
        BY <2>3, <3>3 DEF Submit
      <4> QED
        BY <1>2, <2>1, <4>1
    <3> QED
      BY <3>2, <3>3
  <2>4. ASSUME NEW j \in Job,
               Spawn(j) \/ SpawnFails(j) \/ Start(j) \/ Die(j) \/ Store(j)
               \/ \E result \in {"ok", "error"} : Return(j, result)
        PROVE  FreshHasNoThread'
    <3>1. thread[j] # "none"
      BY <2>4 DEF Spawn, SpawnFails, Start, Die, Store, Return
    <3>2. \A q \in Job : q # j => thread'[q] = thread[q]
      <4>1. \E s \in {"ready", "unspawned", "executing", "exited", "dead", "ok", "error"} :
              thread' = [thread EXCEPT ![j] = s]
        BY <2>4 DEF Spawn, SpawnFails, Start, Die, Store, Return
      <4> QED
        BY <4>1
    <3>3. \A q \in Job : record'[q] = "absent" => record[q] = "absent"
      <4>1. record' = record \/ \E s \in {"running", "failed", "completed"} :
                                  record' = [record EXCEPT ![j] = s]
        BY <2>4 DEF Spawn, SpawnFails, Start, Die, Store, Return
      <4>2. ASSUME record' = record PROVE \A q \in Job : record'[q] = "absent" => record[q] = "absent"
        BY <4>2
      <4>3. ASSUME NEW s \in {"running", "failed", "completed"}, record' = [record EXCEPT ![j] = s]
            PROVE  \A q \in Job : record'[q] = "absent" => record[q] = "absent"
        BY <4>3
      <4> QED
        BY <4>1, <4>2, <4>3
    <3> QED
      BY <1>2, <3>1, <3>2, <3>3
  <2> QED
    BY <1>2, <2>2, <2>3, <2>4 DEF RegistryNext
<1> QED
  BY <1>1, <1>2

\* The registry knows every job that has a thread.
LEMMA FreshInvariant == RegistrySpec => []FreshHasNoThread
BY RegistryInvariant, FreshStepInv, PTL DEF RegistrySpec

\* A step of the registry brings a thread to its next critical section, or leaves
\* it where it is.
LEMMA ThreadAdvances ==
  ASSUME RegistryInv, FreshHasNoThread, [RegistryNext]_registryVars, NEW j \in Job
  PROVE  /\ thread'[j] = thread[j] \/ ThreadLeft[thread'[j]] < ThreadLeft[thread[j]]
         /\ ThreadLeft[thread[j]] \in Nat /\ ThreadLeft[thread'[j]] \in Nat
<1> USE DEF RegistryInv, RegistryTypeOK
<1>1. thread[j] \in DOMAIN ThreadLeft /\ ThreadLeft[thread[j]] \in Nat
  BY DEF ThreadLeft
<1>2. thread'[j] = thread[j] \/ ThreadLeft[thread'[j]] < ThreadLeft[thread[j]]
  <2>1. ASSUME NEW q \in Job,
               Submit(q) \/ Spawn(q) \/ SpawnFails(q) \/ Start(q) \/ Die(q) \/ Store(q)
               \/ \E result \in {"ok", "error"} : Return(q, result)
        PROVE  \/ thread'[j] = thread[j]
               \/ thread[j] = "none" /\ thread'[j] = "inserted"
               \/ thread[j] = "inserted" /\ thread'[j] \in {"ready", "unspawned"}
               \/ thread[j] = "ready" /\ thread'[j] \in {"executing", "exited"}
               \/ thread[j] = "executing" /\ thread'[j] \in {"ok", "error", "dead"}
               \/ thread[j] \in {"ok", "error"} /\ thread'[j] = "exited"
    BY <2>1 DEF Submit, Spawn, SpawnFails, Start, Die, Store, Return, FreshHasNoThread
  <2>2. Poll \/ Expire \/ UNCHANGED registryVars => thread' = thread
    BY DEF Poll, Expire, registryVars
  <2> QED
    BY <2>1, <2>2 DEF RegistryNext, ThreadLeft
<1>3. ThreadLeft[thread'[j]] \in Nat
  <2>1. thread'[j] \in DOMAIN ThreadLeft
    <3>1. RegistryTypeOK'
      BY RegistryInvStep DEF RegistryInv
    <3> QED
      BY <3>1 DEF ThreadLeft
  <2> QED
    BY <2>1 DEF ThreadLeft
<1> QED
  BY <1>1, <1>2, <1>3

=============================================================================
