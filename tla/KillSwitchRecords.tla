-------------------------- MODULE KillSwitchRecords --------------------------
(***************************************************************************)
(* Kill-switch transition records and the state they put in force:         *)
(* contracts/risk.py (KillSwitchState, KillSwitchScope, KillSwitchRecord)  *)
(* and the pure helpers of risk/kill_switch.py.                            *)
(*                                                                         *)
(* A record carries the fields that decide which state is in force.  Its   *)
(* record_id is a hash of every field; all that matters of it is that two  *)
(* different records have different ids and that ids are ordered, so "rid" *)
(* is the rank of that hash.  A tuple of records is modelled as a set:     *)
(* _latest_records_by_scope sorts by (transitioned_at, record_id), so the  *)
(* order in the file never shows.                                          *)
(***************************************************************************)
EXTENDS Naturals

CONSTANTS
  Scopes,       \* kill-switch scope keys, GLOBAL among them
  GLOBAL,       \* the (KillSwitchScopeType.GLOBAL, None) key
  Stamps,       \* values of transitioned_at
  RecordIds     \* ranks of record_id hashes

ASSUME ScopesAssumption == GLOBAL \in Scopes
ASSUME StampsAssumption == Stamps \subseteq Nat
ASSUME RecordIdsAssumption == RecordIds \subseteq Nat

UNKNOWN == "unknown_fail_closed"

\* _state_severity
Severity(state) ==
  CASE state = "clear"               -> 0
    [] state = "soft_limited"        -> 1
    [] state = "pause_new_orders"    -> 2
    [] state = "reduce_only"         -> 3
    [] state = "cancel_only"         -> 4
    [] state = "halted"              -> 5
    [] state = "unknown_fail_closed" -> 6

KillStates ==
  {"clear", "soft_limited", "pause_new_orders", "reduce_only", "cancel_only",
   "halted", "unknown_fail_closed"}

KillSwitchRecord ==
  [scope : Scopes, prior : KillStates, new : KillStates,
   at : Stamps, rid : RecordIds]

\* The sort key (transitioned_at, record_id).
Before(r, s) == r.at < s.at \/ (r.at = s.at /\ r.rid < s.rid)

OfScope(recs, s) == {r \in recs : r.scope = s}

\* r is the entry _latest_records_by_scope keeps for its scope.
IsLatest(r, recs) ==
  r \in recs /\ \A o \in OfScope(recs, r.scope) : ~ Before(r, o)

LatestRecords(recs) == {r \in recs : IsLatest(r, recs)}

\* transition: latest.new_state if latest is not None else UNKNOWN_FAIL_CLOSED
InForce(recs, s) ==
  LET latest == OfScope(LatestRecords(recs), s)
  IN IF latest = {} THEN UNKNOWN ELSE (CHOOSE r \in latest : TRUE).new

\* A slip: forgetting the global key.
MatchingRequestedOnly(recs, scopes) ==
  {r \in LatestRecords(recs) : r.scope \in scopes}

\* _matching_records: the requested scopes and always the global one.
Matching(recs, scopes) ==
  {r \in LatestRecords(recs) : r.scope \in scopes \cup {GLOBAL}}

\* A slip: a store with no applicable record reads as clear.
ActiveStateFailOpen(recs, scopes) ==
  IF Matching(recs, scopes) = {} THEN "clear"
  ELSE CHOOSE k \in {r.new : r \in Matching(recs, scopes)} :
         \A r \in Matching(recs, scopes) : Severity(r.new) <= Severity(k)

\* load_snapshot: no record, or none that applies, is UNKNOWN_FAIL_CLOSED;
\* otherwise the most severe of the matching states is active.
ActiveState(recs, scopes) ==
  IF Matching(recs, scopes) = {} THEN UNKNOWN
  ELSE CHOOSE k \in {r.new : r \in Matching(recs, scopes)} :
         \A r \in Matching(recs, scopes) : Severity(r.new) <= Severity(k)

\* record_id hashes every field: one key, one record.
DistinctIds(recs) ==
  \A r, o \in recs : r.at = o.at /\ r.rid = o.rid => r = o
=============================================================================
