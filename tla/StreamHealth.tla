---------------------------- MODULE StreamHealth ----------------------------
(***************************************************************************)
(* contracts/stream_health.py: StreamHealthEvaluator, the one stateful     *)
(* object of the streaming layer, and DataHealthGate behind it.            *)
(*                                                                         *)
(* Events arrive one at a time, in any order and any number of times, and  *)
(* each is judged at an explicit evaluation_ts.  A scope stands for        *)
(* (subscription, source, venue, channel, instrument); what matters of it  *)
(* is its feed and its instrument.  sequence None is NoSequence.           *)
(***************************************************************************)
EXTENDS Integers, Sequences, FiniteSets

CONSTANTS
  Events,      \* [feed, instrument, id, sequence, event_ts, source_ts]
  Clocks,      \* values of evaluation_ts
  MaxAge, MaxDrift,
  Critical,    \* DataHealthGatePolicy.critical_checks
  MaxEvents    \* bound on events delivered

NoSequence == -1
HealthChecks == {"freshness", "timestamp_drift", "duplicate", "sequence_gap"}

ASSUME CriticalAssumption == Critical \subseteq HealthChecks
ASSUME ThresholdsAssumption == MaxAge \in Nat \ {0} /\ MaxDrift \in Nat \ {0}
ASSUME EventsAssumption ==
  \A e \in Events : e.sequence \in Nat \cup {NoSequence} /\ e.source_ts \in Int /\ e.event_ts \in Int
ASSUME ClocksAssumption == Clocks \subseteq Int

VARIABLES
  last,      \* _last_sequence_by_scope: scope key -> sequence or NoSequence
  ids,       \* _seen_event_ids_by_scope
  sequences, \* _seen_sequences_by_scope
  records    \* StreamHealthRecords with the gate's verdict, oldest first

vars == <<last, ids, sequences, records>>

\* A slip: one state for all instruments of a feed.
ScopeOfFeed(e) == [feed |-> e.feed, instrument |-> "any"]

\* _scope_for and StreamHealthScope.key
Scope(e) == [feed |-> e.feed, instrument |-> e.instrument]

ScopeKeys == {Scope(e) : e \in Events}
-----------------------------------------------------------------------------
Distance(a, b) == IF a >= b THEN a - b ELSE b - a

Stale(e, now)   == now - e.event_ts > MaxAge
Drifted(e, now) == Distance(now, e.source_ts) > MaxDrift

\* A slip: ids only, because every event has one.
DuplicateId(e, seenIds, seenSequences) == e.id \in seenIds

Duplicate(e, seenIds, seenSequences) ==
  e.id \in seenIds \/ (e.sequence # NoSequence /\ e.sequence \in seenSequences)

\* A slip: the number that arrived counted as missing.
GapInclusive(e, previous) ==
  IF NoSequence \notin {e.sequence, previous} /\ e.sequence > previous + 1
  THEN e.sequence - previous ELSE 0

Gap(e, previous) ==
  IF NoSequence \notin {e.sequence, previous} /\ e.sequence > previous + 1
  THEN e.sequence - previous - 1 ELSE 0

Advance(e, previous) == IF e.sequence > previous THEN e.sequence ELSE previous

Issues(e, now, previous, seenIds, seenSequences) ==
  {c \in HealthChecks :
     CASE c = "freshness"       -> Stale(e, now)
       [] c = "timestamp_drift" -> Drifted(e, now)
       [] c = "duplicate"       -> Duplicate(e, seenIds, seenSequences)
       [] c = "sequence_gap"    -> Gap(e, previous) > 0}

\* A slip: blocked only when nothing but critical checks failed.
VerdictOfAll(issues) ==
  IF issues = {} THEN "healthy" ELSE IF issues \subseteq Critical THEN "blocked" ELSE "degraded"

\* DataHealthGate.evaluate
Verdict(issues) ==
  IF issues = {} THEN "healthy"
  ELSE IF issues \cap Critical # {} THEN "blocked" ELSE "degraded"

HealthRecord(e, now, previous, seenIds, seenSequences) ==
  LET issues == Issues(e, now, previous, seenIds, seenSequences)
  IN [event |-> e, now |-> now, gap |-> Gap(e, previous), issues |-> issues,
      verdict |-> Verdict(issues)]
-----------------------------------------------------------------------------
\* The dictionaries start empty and are read with a default.
Init ==
  /\ last = [s \in ScopeKeys |-> NoSequence]
  /\ ids = [s \in ScopeKeys |-> {}]
  /\ sequences = [s \in ScopeKeys |-> {}]
  /\ records = <<>>

Evaluate(e, now) ==
  LET s == Scope(e)
  IN /\ Len(records) < MaxEvents
     /\ records' = Append(records, HealthRecord(e, now, last[s], ids[s], sequences[s]))
     /\ ids' = [ids EXCEPT ![s] = @ \cup {e.id}]
     /\ sequences' = [sequences EXCEPT ![s] = @ \cup ({e.sequence} \ {NoSequence})]
     /\ last' = [last EXCEPT ![s] = Advance(e, @)]

Next == \E e \in Events, now \in Clocks : Evaluate(e, now)

Spec == Init /\ [][Next]_vars
-----------------------------------------------------------------------------
\* A stream is identified by its events, whatever the evaluator calls it.
Stream(e) == <<e.feed, e.instrument>>

Streams == {Stream(e) : e \in Events}

\* The records of a stream's events, and those of them before record i.
RecordsOf(stream) == {i \in 1..Len(records) : Stream(records[i].event) = stream}
Earlier(i)        == {j \in RecordsOf(Stream(records[i].event)) : j < i}

\* HP-002, missing data is reported: a number above one a stream delivered
\* before, and overtaken before it or any higher one had come, was counted as
\* missing once; any other number never was, however the events were shuffled
\* and repeated.
GapsCountedOnce ==
  \A stream \in Streams :
    LET number(i) == records[i].event.sequence
        numbered == {i \in RecordsOf(stream) : number(i) # NoSequence}
        overtaken(n) == \E i \in numbered :
                          /\ n < number(i) /\ \E j \in numbered : j < i
                          /\ \A j \in numbered : j < i => number(j) < n
        reports(n) == {i \in numbered : number(i) - records[i].gap <= n /\ n < number(i)}
    IN \A n \in UNION {0..e.sequence : e \in Events} :
         Cardinality(reports(n)) = IF overtaken(n) THEN 1 ELSE 0

\* No event of a stream counts as new twice: of the records that carry one id
\* or one sequence, all but the first say so.
NewOnce ==
  \A i, j \in 1..Len(records) :
    LET a == records[i].event  b == records[j].event
    IN /\ i < j /\ a.feed = b.feed /\ a.instrument = b.instrument
       /\ a.id = b.id \/ (a.sequence = b.sequence /\ a.sequence # NoSequence)
       => "duplicate" \in records[j].issues

Highest(numbers) ==
  IF numbers = {} THEN NoSequence ELSE CHOOSE n \in numbers : \A m \in numbers : m <= n

\* What an evaluator that saw only these events finds of the next.
SeenAlone(e, now, seen) ==
  LET numbers == {f.sequence : f \in seen}
  IN HealthRecord(e, now, Highest(numbers), {f.id : f \in seen}, numbers)

\* "Only the affected instrument scope": what other streams deliver never
\* changes a stream's records.
Isolated ==
  \A i \in 1..Len(records) :
    records[i] = SeenAlone(records[i].event, records[i].now, {records[j].event : j \in Earlier(i)})

\* NFR-006, fail closed on a stale critical feed: an event too old blocks its
\* instrument, whatever else is wrong with it or right about it.
StaleBlocks ==
  \A i \in 1..Len(records) :
    "freshness" \in Critical /\ records[i].now - records[i].event.event_ts > MaxAge
      => records[i].verdict = "blocked"
=============================================================================
