--------------------------- MODULE KillSwitchStore ---------------------------
(***************************************************************************)
(* risk/kill_switch.py: FileKillSwitchStateStore.                          *)
(*                                                                         *)
(* The log is one JSON file.  transition reads it, adds a record, writes   *)
(* the whole log to ".<name>.tmp" beside it and os.replace()s it over the  *)
(* log.  Nothing locks, and the temporary name is the same for every       *)
(* writer, so the module follows the file system down to inodes: two       *)
(* writers that open the temporary file hold the same inode, and one that  *)
(* still holds it after a replace writes into the live log.                *)
(***************************************************************************)
EXTENDS KillSwitchRecords, FiniteSets

CONSTANTS
  Writers,        \* processes that call transition
  Inodes,         \* file-system objects
  None,           \* no directory entry, no open file, no record
  NewStates,      \* states the callers ask for
  Faults,         \* which of {"read_error", "damage"} may happen
  Lag,            \* 0: every transitioned_at is later than all before it;
                  \* n: it may be up to n - 1 behind the newest one
  MaxTransitions  \* bound: transitions begun in a behaviour

ASSUME NewStatesAssumption == NewStates \subseteq KillStates
ASSUME FaultsAssumption == Faults \subseteq {"read_error", "damage"}
ASSUME NoneAssumption == None \notin Inodes
ASSUME LagAssumption == Lag \in Nat

VARIABLES
  content,  \* bytes of each inode, as _read_records would take them
  store,    \* inode under self.path, or None
  temp,     \* inode under the temporary name, or None
  pc,       \* where each writer is in transition
  record,   \* the record it built
  payload,  \* (*records, record)
  fd,       \* the inode it has open
  clock,    \* newest transitioned_at used
  issued,   \* history: every record built
  acked     \* history: every record transition returned

vars == <<content, store, temp, pc, record, payload, fd, clock, issued, acked>>
disk == <<content, store, temp>>

\* What an inode holds: nothing written since it was truncated, bytes whose
\* reading raises what _read_records catches (no JSON, another schema, a record
\* that does not validate), bytes whose reading raises what it does not catch
\* (no UTF-8: UnicodeDecodeError; JSON that is not an object: AttributeError of
\* payload.get), or a valid log.
Truncated == [kind |-> "empty", recs |-> {}]
Garbled   == [kind |-> "garbled", recs |-> {}]
Foreign   == [kind |-> "foreign", recs |-> {}]
Log(recs) == [kind |-> "log", recs |-> recs]

\* _read_records() or (): an absent file and one that does not parse or
\* validate both give the empty tuple to transition.
StoreRecords == IF store = None THEN {} ELSE content[store].recs

\* _read_records() raises
ReadRaises == store # None /\ content[store].kind = "foreign"

\* _read_records() is None
Unreadable == store # None /\ content[store].kind \in {"empty", "garbled"}

\* load_snapshot gives no snapshot but an exception.
RAISED == "raised"

\* load_snapshot for one requested scope.
LoadedState(s) ==
  CASE ReadRaises -> RAISED
    [] Unreadable -> UNKNOWN
    [] OTHER      -> ActiveState(StoreRecords, {s})

Contents ==
  [kind : {"empty", "garbled", "foreign", "log"}, recs : SUBSET KillSwitchRecord]

\* Types; a file that cannot be parsed holds no records.
TypeOK ==
  /\ content \in [Inodes -> Contents]
  /\ \A i \in Inodes : content[i].kind = "log" \/ content[i].recs = {}
  /\ store \in Inodes \cup {None}
  /\ temp \in Inodes \cup {None}
  /\ pc \in [Writers -> {"idle", "read", "opened", "written", "replaced"}]
  /\ record \in [Writers -> KillSwitchRecord \cup {None}]
  /\ payload \in [Writers -> SUBSET KillSwitchRecord]
  /\ fd \in [Writers -> Inodes \cup {None}]
  /\ clock \in Nat
  /\ issued \subseteq KillSwitchRecord
  /\ acked \subseteq KillSwitchRecord

Init ==
  /\ content = [i \in Inodes |-> Truncated]
  /\ store = None
  /\ temp = None
  /\ pc = [w \in Writers |-> "idle"]
  /\ record = [w \in Writers |-> None]
  /\ payload = [w \in Writers |-> {}]
  /\ fd = [w \in Writers |-> None]
  /\ clock = 0
  /\ issued = {}
  /\ acked = {}
-----------------------------------------------------------------------------
Step(w, from, to) == pc[w] = from /\ pc' = [pc EXCEPT ![w] = to]

Rest(w) ==
  /\ pc' = [pc EXCEPT ![w] = "idle"]
  /\ record' = [record EXCEPT ![w] = None]
  /\ payload' = [payload EXCEPT ![w] = {}]
  /\ fd' = [fd EXCEPT ![w] = None]

\* What _read_records() or () may give a writer: an OSError of read_text reads
\* as None.  Where it raises there is no result: transition raises, too, and
\* has written nothing.
ReadResults ==
  (IF ReadRaises THEN {} ELSE {StoreRecords})
    \cup (IF "read_error" \in Faults THEN {{}} ELSE {})

\* Slips: dropping the history, or the scope's own, from the new log.
NextLogDropped(recs, r) == {r}
NextLogCompacted(recs, r) == {o \in recs : o.scope # r.scope} \cup {r}

\* (*records, record)
NextLog(recs, r) == recs \cup {r}

\* The records make_kill_switch_record may build from what was read: any
\* scope and state the caller names, the prior state the log gives.
NewRecords(recs) ==
  {[scope |-> s, prior |-> InForce(recs, s), new |-> k, at |-> t, rid |-> h] :
     s \in Scopes, k \in NewStates, t \in Stamps, h \in RecordIds}

\* transition up to the write: read, find the prior state, build the record.
BeginTransition(w) ==
  /\ Cardinality(issued) < MaxTransitions
  /\ Step(w, "idle", "read")
  /\ \E recs \in ReadResults : \E r \in NewRecords(recs) :
       /\ r.at <= clock + 1 /\ clock < r.at + Lag
       /\ DistinctIds(issued \cup {r})
       /\ record' = [record EXCEPT ![w] = r]
       /\ payload' = [payload EXCEPT ![w] = NextLog(recs, r)]
       /\ clock' = IF r.at > clock THEN r.at ELSE clock
       /\ issued' = issued \cup {r}
  /\ UNCHANGED <<disk, fd, acked>>

\* A slip: writing the log in place.
OpenTempInPlace(w) ==
  /\ Step(w, "read", "opened")
  /\ \E i \in Inodes :
       /\ store # None => i = store
       /\ temp' = i
       /\ content' = [content EXCEPT ![i] = Truncated]
       /\ fd' = [fd EXCEPT ![w] = i]
  /\ UNCHANGED <<store, record, payload, clock, issued, acked>>

\* temp_path.write_text opens the shared name: it truncates the inode that
\* is there, or creates one nothing refers to.
OpenTemp(w) ==
  /\ Step(w, "read", "opened")
  /\ \E i \in Inodes :
       /\ IF temp # None THEN i = temp
          ELSE i # store /\ \A v \in Writers : fd[v] # i
       /\ temp' = i
       /\ content' = [content EXCEPT ![i] = Truncated]
       /\ fd' = [fd EXCEPT ![w] = i]
  /\ UNCHANGED <<store, record, payload, clock, issued, acked>>

\* write_text writes from offset 0 and closes.  Over bytes another writer
\* left there, the result is this payload or, when it is shorter, this
\* payload with their tail: JSON and extra data, all of it ASCII.
WriteTemp(w) ==
  /\ Step(w, "opened", "written")
  /\ content' \in
       {[content EXCEPT ![fd[w]] = c] :
          c \in {Log(payload[w])}
                  \cup (IF content[fd[w]].kind = "empty" THEN {} ELSE {Garbled})}
  /\ fd' = [fd EXCEPT ![w] = None]
  /\ UNCHANGED <<store, temp, record, payload, clock, issued, acked>>

\* os.replace: whatever is under the temporary name becomes the log.
Replace(w) ==
  /\ temp # None
  /\ Step(w, "written", "replaced")
  /\ store' = temp
  /\ temp' = None
  /\ UNCHANGED <<content, record, payload, fd, clock, issued, acked>>

\* os.replace raises FileNotFoundError: another writer moved the file away.
ReplaceFails(w) ==
  /\ pc[w] = "written" /\ temp = None
  /\ Rest(w)
  /\ UNCHANGED <<disk, clock, issued, acked>>

\* A slip: clearing the record before it is returned.
ReturnCleared(w) ==
  /\ pc[w] = "replaced"
  /\ Rest(w)
  /\ acked' = acked \cup {record'[w]}
  /\ UNCHANGED <<disk, clock, issued>>

\* transition returns its record.
Return(w) ==
  /\ pc[w] = "replaced"
  /\ acked' = acked \cup {record[w]}
  /\ Rest(w)
  /\ UNCHANGED <<disk, clock, issued>>

\* The process dies; a temporary file stays where it is.
Crash(w) ==
  /\ pc[w] # "idle"
  /\ Rest(w)
  /\ UNCHANGED <<disk, clock, issued, acked>>

\* The log is no longer valid: media error, power loss before the data of
\* a replaced file was flushed (nothing calls fsync), another schema version,
\* a file edited by hand.
Damage ==
  /\ "damage" \in Faults
  /\ store # None
  /\ \E c \in {Garbled, Foreign} : content' = [content EXCEPT ![store] = c]
  /\ UNCHANGED <<store, temp, pc, record, payload, fd, clock, issued, acked>>

Next ==
  \/ \E w \in Writers :
       \/ BeginTransition(w) \/ OpenTemp(w) \/ WriteTemp(w)
       \/ Replace(w) \/ ReplaceFails(w) \/ Return(w) \/ Crash(w)
  \/ Damage

Spec == Init /\ [][Next]_vars
-----------------------------------------------------------------------------
\* S0-003 6.1 rule 2: a scope is taken out of UNKNOWN_FAIL_CLOSED only by an
\* audited transition of that scope or of GLOBAL, whatever crashes, collides,
\* or is damaged: where load_snapshot gives a snapshot at all.
OnlyAuditedStates ==
  \A s \in Scopes :
    LoadedState(s) \notin {UNKNOWN, RAISED} =>
      \E r \in issued : r.scope \in {s, GLOBAL} /\ r.new = LoadedState(s)

\* A transition that returned is in the log, across crashes and restarts.
AckedDurable == acked \subseteq StoreRecords

\* Once transition has returned for a scope, no snapshot it applies to is less
\* restrictive until a newer transition of that scope is issued (NFR-010:
\* kill state persists across restart until explicitly cleared).
AckedStateEnforced ==
  \A r \in acked, s \in Scopes :
    (r.scope \in {s, GLOBAL} /\ \A o \in OfScope(issued, r.scope) : ~ Before(r, o)) =>
      Severity(LoadedState(s)) >= Severity(r.new)

\* A snapshot becomes less restrictive only in the step that replaces the
\* log, and only by a record for that scope or GLOBAL.
RelaxedOnlyByTransition ==
  [][\A s \in Scopes :
       Severity(LoadedState(s)') < Severity(LoadedState(s)) =>
         \E w \in Writers :
           /\ Replace(w)
           /\ record[w].scope \in {s, GLOBAL}
           /\ Severity(record[w].new) <= Severity(LoadedState(s)')]_vars

\* The log is the abstract one.
Promise == INSTANCE KillSwitch WITH log <- StoreRecords
AtomicLog == Promise!Spec
=============================================================================
