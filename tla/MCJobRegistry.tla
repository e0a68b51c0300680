--------------------------- MODULE MCJobRegistry ---------------------------
(* JobRegistry on five jobs, two slots and three records: the registry     *)
(* fills up, evicts by age and by capacity, and refuses.  InputStaging on  *)
(* two threads and two contents.  The registry and the input directory     *)
(* share no state, so a behaviour is one of either and never mixes them.   *)
EXTENDS JobRegistry, InputStaging

CONSTANTS a, b

\* Callers name their files after the digest of an attested input; the names of
\* another and of the fitted images are left alone.
MCCallerName == {Digest(a)}

\* No request goes by the generic name.
MCInit == RegistryInit /\ StagingInit /\ dir[Generic] = None

NoJobYet == \A j \in Job : record[j] = "absent"
NoFileYet == (\A r \in Run : at[r] = "idle") /\ (\A n \in Name : dir[n] = None)

MCNext ==
  \/ NoFileYet /\ RegistryNext /\ UNCHANGED stagingVars
  \/ NoJobYet /\ StagingNext /\ UNCHANGED registryVars

MCSpec == MCInit /\ [][MCNext]_<<registryVars, stagingVars>>

=============================================================================
