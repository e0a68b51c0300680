---------------------------- MODULE ProfileSwitch ----------------------------
(***************************************************************************)
(* What the secure profile of a worker machine promises, without its links,*)
(* services and journals (src/worker_release.py): at most one release is   *)
(* linked to the worker; it may listen only once it is authorized, and     *)
(* counts as installed only while it is both.  On the way back the claim   *)
(* goes first, then the authority, then the link.                          *)
(***************************************************************************)
CONSTANTS
  Release,  \* secure-profile releases
  None      \* no release

VARIABLES
  linked,      \* the release the worker's drop-in names, or None
  authorized,  \* releases with authority to start a worker
  installed    \* releases whose cutover is complete

switchVars == <<linked, authorized, installed>>

SwitchInit ==
  /\ linked \in Release \cup {None}
  /\ authorized = {linked} \ {None}
  /\ installed = authorized

\* A release is linked where none was.
LinkTo(r) ==
  /\ linked = None /\ linked' = r
  /\ UNCHANGED <<authorized, installed>>

Empower(r) ==
  /\ linked = r /\ authorized' = authorized \cup {r}
  /\ UNCHANGED <<linked, installed>>

Complete(r) ==
  /\ linked = r /\ r \in authorized
  /\ installed' = installed \cup {r}
  /\ UNCHANGED <<linked, authorized>>

Disclaim(r) ==
  /\ installed' = installed \ {r}
  /\ UNCHANGED <<linked, authorized>>

Withdraw(r) ==
  /\ r \notin installed
  /\ authorized' = authorized \ {r}
  /\ UNCHANGED <<linked, installed>>

Unlink ==
  /\ linked \notin authorized
  /\ linked' = None
  /\ UNCHANGED <<authorized, installed>>

SwitchNext ==
  \/ \E r \in Release : LinkTo(r) \/ Empower(r) \/ Complete(r) \/ Disclaim(r) \/ Withdraw(r)
  \/ Unlink

SwitchSpec == SwitchInit /\ [][SwitchNext]_switchVars

\* Authority and claim never outlive the link.
SwitchSafe == authorized \subseteq {linked} /\ installed \subseteq authorized
=============================================================================
