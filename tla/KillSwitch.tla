------------------------------ MODULE KillSwitch ------------------------------
(***************************************************************************)
(* What the kill-switch store promises: one audited log to which each      *)
(* transition is added atomically and names the state that was in force    *)
(* when it was made.  Nothing is ever removed.                             *)
(***************************************************************************)
EXTENDS KillSwitchRecords

VARIABLE log

Init == log = {}

\* A transition: its prior_state is what is in force just before.  Its stamp
\* is the caller's, so it need not be the newest of its scope.
Commit(r) ==
  /\ log' = log \cup {r}
  /\ DistinctIds(log')
  /\ r.prior = InForce(log, r.scope)

Next == \E r \in KillSwitchRecord : Commit(r)

Spec == Init /\ [][Next]_log
=============================================================================
