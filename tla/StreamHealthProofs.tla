------------------------- MODULE StreamHealthProofs -------------------------
(***************************************************************************)
(* Proofs about StreamHealth, for any events, clocks and thresholds and    *)
(* for deliveries without a bound.                                         *)
(*                                                                         *)
(* The evaluator keeps three dictionaries per scope; the records are all   *)
(* that was ever delivered.  The inductive invariant says the dictionaries *)
(* are what the records of the scope add up to, so each new record is one  *)
(* an evaluator of this stream alone would have made (Isolated); the other *)
(* properties follow from that equation without another induction.         *)
(***************************************************************************)
EXTENDS StreamHealth, TLAPS, FiniteSetTheorems

Numbers == Nat \cup {NoSequence}

HealthRecords ==
  [event : Events, now : Clocks, gap : Nat, issues : SUBSET HealthChecks,
   verdict : {"healthy", "degraded", "blocked"}]

\* What was delivered of one scope.
Delivered(s) == {j \in 1..Len(records) : Scope(records[j].event) = s}
SeenOf(s)    == {records[j].event : j \in Delivered(s)}

\* n is what Advance has reached over numbers, starting at none.
Reached(n, numbers) ==
  n \in numbers \cup {NoSequence} /\ \A m \in numbers : m <= n

RecordsTyped == records \in Seq(HealthRecords)

ScopesTyped ==
  /\ last \in [ScopeKeys -> Numbers]
  /\ DOMAIN ids = ScopeKeys
  /\ DOMAIN sequences = ScopeKeys

ScopesMatchRecords ==
  \A s \in ScopeKeys :
    /\ ids[s] = {e.id : e \in SeenOf(s)}
    /\ sequences[s] = {e.sequence : e \in SeenOf(s)} \ {NoSequence}
    /\ Reached(last[s], {e.sequence : e \in SeenOf(s)})

\* The stream's highest number when record i was made.
HighestKnown ==
  \A i \in 1..Len(records) :
    \E h : Reached(h, {f.sequence : f \in {records[j].event : j \in Earlier(i)}})

ScopeInv == RecordsTyped /\ ScopesTyped /\ ScopesMatchRecords /\ Isolated /\ HighestKnown
-----------------------------------------------------------------------------
\* An event's fields, from the assumption on Events.
LEMMA EventFields ==
  ASSUME NEW e \in Events
  PROVE  /\ e.sequence \in Numbers /\ e.source_ts \in Int /\ e.event_ts \in Int
         /\ Scope(e) \in ScopeKeys /\ Stream(e) \in Streams
<1> QED BY EventsAssumption DEF Numbers, ScopeKeys, Streams

\* A scope is the evaluator's name for a stream.
LEMMA ScopeIsStream ==
  ASSUME NEW a, NEW b
  PROVE  Scope(a) = Scope(b) <=> Stream(a) = Stream(b)
<1> QED BY DEF Scope, Stream

\* The highest of a set is the one number that is reached over it.
LEMMA ReachedIsHighest ==
  ASSUME NEW numbers \in SUBSET Numbers, NEW n, Reached(n, numbers)
  PROVE  Highest(numbers) = n
<1>1. CASE numbers = {}
  BY <1>1 DEF Highest, Reached
<1>2. CASE numbers # {}
  <2>1. PICK m \in numbers : TRUE
    BY <1>2
  <2>2. n \in numbers
    BY <2>1 DEF Reached, Numbers, NoSequence
  <2>3. \A k \in numbers : (\A m2 \in numbers : m2 <= k) => k = n
    BY <2>2 DEF Reached, Numbers, NoSequence
  <2> QED BY <1>2, <2>2, <2>3 DEF Highest, Reached
<1> QED BY <1>1, <1>2

\* One more event is reached by Advance.
LEMMA AdvanceReaches ==
  ASSUME NEW numbers \in SUBSET Numbers, NEW n, Reached(n, numbers), NEW e \in Events
  PROVE  /\ Reached(Advance(e, n), numbers \cup {e.sequence})
         /\ Advance(e, n) \in Numbers
<1> QED BY EventFields DEF Reached, Advance, Numbers, NoSequence

\* An event without a number repeats none.
LEMMA NoSequenceIsNew ==
  ASSUME NEW e, NEW now, NEW n, NEW seenIds, NEW numbers
  PROVE  HealthRecord(e, now, n, seenIds, numbers \ {NoSequence})
           = HealthRecord(e, now, n, seenIds, numbers)
<1>1. Duplicate(e, seenIds, numbers \ {NoSequence}) = Duplicate(e, seenIds, numbers)
  BY DEF Duplicate
<1>2. Issues(e, now, n, seenIds, numbers \ {NoSequence}) = Issues(e, now, n, seenIds, numbers)
  BY <1>1 DEF Issues
<1> QED BY <1>2 DEF HealthRecord

LEMMA HealthRecordTyped ==
  ASSUME NEW e \in Events, NEW now \in Clocks, NEW n \in Numbers, NEW seenIds, NEW numbers
  PROVE  HealthRecord(e, now, n, seenIds, numbers) \in HealthRecords
<1>1. Gap(e, n) \in Nat
  BY EventFields DEF Gap, Numbers, NoSequence
<1>2. Issues(e, now, n, seenIds, numbers) \in SUBSET HealthChecks
  BY DEF Issues
<1>3. \A issues : Verdict(issues) \in {"healthy", "degraded", "blocked"}
  BY DEF Verdict
<1> QED BY <1>1, <1>2, <1>3 DEF HealthRecord, HealthRecords
-----------------------------------------------------------------------------
LEMMA ScopeInit == Init => ScopeInv
<1> SUFFICES ASSUME Init PROVE ScopeInv
  OBVIOUS
<1>1. RecordsTyped /\ Len(records) = 0
  BY DEF Init, RecordsTyped
<1>2. ScopesTyped
  BY DEF Init, ScopesTyped, Numbers
<1>3. \A s : SeenOf(s) = {}
  BY <1>1 DEF SeenOf, Delivered
<1>4. ScopesMatchRecords
  BY <1>3 DEF Init, ScopesMatchRecords, Reached
<1>5. Isolated
  BY <1>1 DEF Isolated
<1>6. HighestKnown
  BY <1>1 DEF HighestKnown
<1> QED BY <1>1, <1>2, <1>4, <1>5, <1>6 DEF ScopeInv

LEMMA ScopeStep == ScopeInv /\ [Next]_vars => ScopeInv'
<1> SUFFICES ASSUME ScopeInv, [Next]_vars PROVE ScopeInv'
  OBVIOUS
<1> USE DEF ScopeInv
<1>1. CASE UNCHANGED vars
  <2>1. RecordsTyped' /\ ScopesTyped'
    BY <1>1 DEF vars, RecordsTyped, ScopesTyped
  <2>2. \A s : SeenOf(s)' = SeenOf(s)
    BY <1>1 DEF vars, SeenOf, Delivered
  <2>3. ScopesMatchRecords'
    BY <1>1, <2>2 DEF vars, ScopesMatchRecords
  <2>4. Isolated'
    BY <1>1 DEF vars, Isolated, Earlier, RecordsOf
  <2>5. HighestKnown'
    BY <1>1 DEF vars, HighestKnown, Earlier, RecordsOf
  <2> QED BY <2>1, <2>3, <2>4, <2>5
<1>2. ASSUME NEW e \in Events, NEW now \in Clocks, Evaluate(e, now) PROVE ScopeInv'
  <2> DEFINE s == Scope(e)
             r == HealthRecord(e, now, last[s], ids[s], sequences[s])
             before == {f.sequence : f \in SeenOf(s)}
  <2>0. PICK n : n = Len(records)
    OBVIOUS
  <2>1. s \in ScopeKeys /\ last[s] \in Numbers /\ n \in Nat /\ r \in HealthRecords
    BY <2>0, EventFields, HealthRecordTyped DEF RecordsTyped, ScopesTyped
  <2>2. r.event = e /\ r.now = now
    BY DEF HealthRecord
  <2>3. records' = Append(records, r) /\ records \in Seq(HealthRecords)
    BY <1>2 DEF Evaluate, RecordsTyped
  <2> HIDE DEF r
  <2>4. /\ RecordsTyped' /\ Len(records') = n + 1 /\ records'[n + 1] = r
        /\ \A j \in 1..n : records'[j] = records[j]
    BY <2>0, <2>1, <2>3 DEF RecordsTyped
  <2>5. \A j \in 1..n : records[j].event \in Events
    <3>1. \A j \in 1..n : records[j] \in HealthRecords
      BY <2>0, <2>3
    <3> QED BY <3>1 DEF HealthRecords
  <2>6. ScopesTyped'
    <3>1. Advance(e, last[s]) \in Numbers
      BY <2>1, EventFields DEF Advance
    <3>2. last' = [last EXCEPT ![s] = Advance(e, last[s])]
      BY <1>2 DEF Evaluate
    <3>3. last' \in [ScopeKeys -> Numbers]
      BY <2>1, <3>1, <3>2 DEF ScopesTyped
    <3> QED BY <1>2, <3>3 DEF ScopesTyped, Evaluate
  <2>7. SeenOf(s)' = SeenOf(s) \cup {e}
    BY <2>0, <2>1, <2>2, <2>4 DEF SeenOf, Delivered
  <2>8. \A t : t # s => SeenOf(t)' = SeenOf(t)
    BY <2>0, <2>1, <2>2, <2>4 DEF SeenOf, Delivered
  <2>9. before \in SUBSET Numbers
    BY <2>0, <2>5, EventFields DEF SeenOf, Delivered
  <2>10. ScopesMatchRecords'
    <3> SUFFICES ASSUME NEW t \in ScopeKeys
                 PROVE  /\ ids'[t] = {f.id : f \in SeenOf(t)'}
                        /\ sequences'[t] = {f.sequence : f \in SeenOf(t)'} \ {NoSequence}
                        /\ Reached(last'[t], {f.sequence : f \in SeenOf(t)'})
      BY DEF ScopesMatchRecords, Reached
    <3>1. CASE t # s
      BY <1>2, <2>8, <3>1 DEF ScopesMatchRecords, ScopesTyped, Evaluate
    <3>2. CASE t = s
      <4>1. /\ ids'[s] = ids[s] \cup {e.id}
            /\ sequences'[s] = sequences[s] \cup ({e.sequence} \ {NoSequence})
            /\ last'[s] = Advance(e, last[s])
        BY <1>2, <2>1 DEF Evaluate, ScopesTyped
      <4>2. /\ {f.id : f \in SeenOf(s)'} = {f.id : f \in SeenOf(s)} \cup {e.id}
            /\ {f.sequence : f \in SeenOf(s)'} = before \cup {e.sequence}
        BY <2>7
      <4>3. Reached(Advance(e, last[s]), before \cup {e.sequence})
        BY <2>1, <2>9, AdvanceReaches DEF ScopesMatchRecords
      <4> QED BY <2>1, <3>2, <4>1, <4>2, <4>3 DEF ScopesMatchRecords
    <3> QED BY <3>1, <3>2
  <2>11. Isolated' /\ HighestKnown'
    <3>1. ASSUME NEW i \in 1..n
          PROVE  /\ records'[i] = SeenAlone(records'[i].event, records'[i].now,
                                           {records'[j].event : j \in Earlier(i)'})
                 /\ \E h : Reached(h, {f.sequence : f \in {records'[j].event : j \in Earlier(i)'}})
      <4>1. Earlier(i)' = Earlier(i)
        BY <2>0, <2>1, <2>4 DEF Earlier, RecordsOf
      <4>2. \A j \in Earlier(i) : records'[j] = records[j]
        BY <2>0, <2>4 DEF Earlier, RecordsOf
      <4>3. {records'[j].event : j \in Earlier(i)'} = {records[j].event : j \in Earlier(i)}
        BY <4>1, <4>2
      <4>4. records[i] = SeenAlone(records[i].event, records[i].now,
                                   {records[j].event : j \in Earlier(i)})
        BY <2>0 DEF Isolated
      <4>5. \E h : Reached(h, {f.sequence : f \in {records[j].event : j \in Earlier(i)}})
        BY <2>0 DEF HighestKnown
      <4> QED BY <2>4, <4>3, <4>4, <4>5
    <3>2. {records'[j].event : j \in Earlier(n + 1)'} = SeenOf(s)
      <4>1. \A j \in 1..n : Stream(records'[j].event) = Stream(e) <=> Scope(records[j].event) = s
        BY <2>4, ScopeIsStream
      <4>2. Stream(records'[n + 1].event) = Stream(e)
        BY <2>2, <2>4
      <4>3. Earlier(n + 1)' = {j \in 1..n : Stream(records'[j].event) = Stream(e)}
        <5>1. Len(records') = n + 1 /\ n \in Nat
          BY <2>1, <2>4
        <5> QED BY <4>2, <5>1 DEF Earlier, RecordsOf
      <4>4. Earlier(n + 1)' = Delivered(s)
        BY <2>0, <4>1, <4>3 DEF Delivered
      <4> QED BY <2>0, <2>4, <4>4 DEF SeenOf, Delivered
    <3>3. r = SeenAlone(e, now, SeenOf(s))
      <4>1. Highest(before) = last[s]
        BY <2>1, <2>9, ReachedIsHighest DEF ScopesMatchRecords
      <4>2. sequences[s] = before \ {NoSequence} /\ ids[s] = {f.id : f \in SeenOf(s)}
        BY <2>1 DEF ScopesMatchRecords
      <4>3. r = HealthRecord(e, now, last[s], ids[s], before)
        BY <4>2, NoSequenceIsNew DEF r
      <4> QED BY <4>1, <4>2, <4>3 DEF SeenAlone
    <3>4. Len(records') = n + 1 /\ n \in Nat
      BY <2>1, <2>4
    <3>5. ASSUME NEW i \in 1..Len(records')
          PROVE  /\ records'[i] = SeenAlone(records'[i].event, records'[i].now,
                                           {records'[j].event : j \in Earlier(i)'})
                 /\ \E h : Reached(h, {f.sequence : f \in {records'[j].event : j \in Earlier(i)'}})
      <4>1. CASE i = n + 1
        <5>1. Reached(last[s], before)
          BY <2>1 DEF ScopesMatchRecords
        <5>2. {records'[j].event : j \in Earlier(i)'} = SeenOf(s)
          BY <3>2, <4>1
        <5> QED BY <2>2, <2>4, <3>3, <4>1, <5>1, <5>2
      <4>2. CASE i # n + 1
        <5>1. i \in 1..n
          BY <3>4, <4>2
        <5> QED BY <3>1, <5>1
      <4> QED BY <4>1, <4>2
    <3> QED BY <3>5 DEF Isolated, HighestKnown
  <2> QED BY <2>4, <2>6, <2>10, <2>11
<1> QED BY <1>1, <1>2 DEF Next

LEMMA ScopeAlways == Spec => []ScopeInv
<1> QED BY ScopeInit, ScopeStep, PTL DEF Spec

\* What one scope receives never depends on what another does: each record is
\* the one an evaluator of its stream alone would have made.
THEOREM StreamsAreIsolated == Spec => []Isolated
<1> QED BY ScopeAlways, PTL DEF ScopeInv
-----------------------------------------------------------------------------
\* What each record says, once Isolated is known: what was seen before it.
LEMMA RecordSays ==
  ASSUME ScopeInv, NEW i \in 1..Len(records)
  PROVE  LET e == records[i].event
             seen == {records[j].event : j \in Earlier(i)}
             numbers == {f.sequence : f \in seen}
         IN /\ e \in Events /\ records[i].now \in Clocks
            /\ seen \in SUBSET Events
            /\ records[i].gap = Gap(e, Highest(numbers))
            /\ records[i].issues =
                 Issues(e, records[i].now, Highest(numbers), {f.id : f \in seen}, numbers)
            /\ records[i].verdict = Verdict(records[i].issues)
<1> DEFINE e == records[i].event
           seen == {records[j].event : j \in Earlier(i)}
           numbers == {f.sequence : f \in seen}
<1>1. \A k \in 1..Len(records) : records[k] \in HealthRecords
  BY DEF ScopeInv, RecordsTyped
<1>2. \A k \in 1..Len(records) : records[k].event \in Events /\ records[k].now \in Clocks
  BY <1>1 DEF HealthRecords
<1>3. \A j \in Earlier(i) : j \in 1..Len(records)
  BY DEF Earlier, RecordsOf
<1>4. seen \in SUBSET Events
  BY <1>2, <1>3
<1>5. records[i] = SeenAlone(e, records[i].now, seen)
  BY DEF ScopeInv, Isolated
<1> PICK now : now = records[i].now
  OBVIOUS
<1>6. records[i] = HealthRecord(e, now, Highest(numbers), {f.id : f \in seen}, numbers)
  BY <1>5 DEF SeenAlone
<1>7. e \in Events /\ records[i].now \in Clocks
  BY <1>2
<1> HIDE DEF e, seen, numbers
<1>8. /\ records[i].gap = Gap(e, Highest(numbers))
      /\ records[i].issues = Issues(e, now, Highest(numbers), {f.id : f \in seen}, numbers)
      /\ records[i].verdict = Verdict(records[i].issues)
  BY <1>6 DEF HealthRecord
<1> QED BY <1>4, <1>7, <1>8 DEF e, seen, numbers

\* The second of two events of a stream with one id or one number is reported.
LEMMA RepeatsReported == ScopeInv => NewOnce
<1> SUFFICES ASSUME ScopeInv, NEW i \in 1..Len(records), NEW j \in 1..Len(records),
                    i < j, records[i].event.feed = records[j].event.feed,
                    records[i].event.instrument = records[j].event.instrument,
                    \/ records[i].event.id = records[j].event.id
                    \/ /\ records[i].event.sequence = records[j].event.sequence
                       /\ records[i].event.sequence # NoSequence
             PROVE  "duplicate" \in records[j].issues
  BY DEF NewOnce
<1> DEFINE seen == {records[k].event : k \in Earlier(j)}
           numbers == {f.sequence : f \in seen}
<1>1. i \in Earlier(j)
  BY DEF Earlier, RecordsOf, Stream
<1>2. records[i].event \in seen
  BY <1>1
<1>3. Duplicate(records[j].event, {f.id : f \in seen}, numbers)
  BY <1>2 DEF Duplicate
<1>4. records[j].issues =
        Issues(records[j].event, records[j].now, Highest(numbers), {f.id : f \in seen}, numbers)
  BY RecordSays
<1> HIDE DEF seen, numbers
<1>5. "duplicate" \in HealthChecks
  BY DEF HealthChecks
<1> QED BY <1>3, <1>4, <1>5 DEF Issues

\* A stale event is blocked when freshness is critical, whatever else failed.
LEMMA StaleBlocked == ScopeInv => StaleBlocks
<1> SUFFICES ASSUME ScopeInv, NEW i \in 1..Len(records), "freshness" \in Critical,
                    records[i].now - records[i].event.event_ts > MaxAge
             PROVE  records[i].verdict = "blocked"
  BY DEF StaleBlocks
<1>1. "freshness" \in HealthChecks
  BY DEF HealthChecks
<1>2. "freshness" \in records[i].issues
  BY <1>1, RecordSays DEF Issues, Stale
<1> QED BY <1>2, RecordSays DEF Verdict

\* An event of a stream is new once: every later one with its id or its number
\* is called a duplicate.
THEOREM RepeatsNeverCountAsNew == Spec => []NewOnce
<1> QED BY ScopeAlways, RepeatsReported, PTL

\* With freshness among the critical checks, no stale event leaves its
\* instrument open.
THEOREM StaleAlwaysBlocks == Spec => []StaleBlocks
<1> QED BY ScopeAlways, StaleBlocked, PTL
-----------------------------------------------------------------------------
\* The gap of a numbered record is what lies between it and the highest of the
\* numbers before; without one there is no gap.
LEMMA GapBounds ==
  ASSUME ScopeInv, NEW i \in 1..Len(records), records[i].event.sequence # NoSequence, NEW n \in Nat
  PROVE  LET number(k) == records[k].event.sequence
             before == {k \in Earlier(i) : number(k) # NoSequence}
         IN (number(i) - records[i].gap <= n /\ n < number(i))
              <=> /\ n < number(i) /\ before # {}
                  /\ \A k \in before : number(k) < n
<1> DEFINE number(k) == records[k].event.sequence
           before == {k \in Earlier(i) : number(k) # NoSequence}
           numbers == {f.sequence : f \in {records[j].event : j \in Earlier(i)}}
<1>1. /\ number(i) \in Nat /\ numbers \in SUBSET Numbers
      /\ records[i].gap = Gap(records[i].event, Highest(numbers))
  BY RecordSays, EventFields DEF Numbers
<1>2. numbers = {number(k) : k \in Earlier(i)}
  OBVIOUS
<1>3. PICK h : Reached(h, numbers)
  BY DEF ScopeInv, HighestKnown
<1>4. h \in Numbers /\ h = Highest(numbers)
  BY <1>1, <1>3, ReachedIsHighest DEF Reached, Numbers
<1>5. h \in numbers \/ (h = NoSequence /\ \A k \in Earlier(i) : number(k) <= h)
  BY <1>2, <1>3 DEF Reached
<1>6. \A k \in Earlier(i) : number(k) \in Numbers /\ number(k) <= h
  BY <1>1, <1>2, <1>3 DEF Reached
<1>7. CASE h = NoSequence
  <2>1. before = {}
    BY <1>6, <1>7 DEF Numbers, NoSequence
  <2>2. records[i].gap = 0
    BY <1>1, <1>4, <1>7 DEF Gap
  <2> QED BY <1>1, <2>1, <2>2
<1>8. CASE h # NoSequence
  <2>1. PICK k \in before : number(k) = h
    BY <1>2, <1>5, <1>8
  <2>2. before # {} /\ ((\A j \in before : number(j) < n) <=> h < n)
    <3>1. \A j \in before : number(j) \in Nat /\ number(j) <= h
      BY <1>6 DEF Numbers
    <3>2. h \in Nat
      BY <1>4, <1>8 DEF Numbers
    <3> HIDE DEF number, before
    <3> QED BY <2>1, <3>1, <3>2
  <2>3. records[i].gap = IF number(i) > h + 1 THEN number(i) - h - 1 ELSE 0
    BY <1>1, <1>4, <1>8 DEF Gap
  <2>4. h \in Nat
    BY <1>4, <1>8 DEF Numbers
  <2>5. (number(i) - records[i].gap <= n /\ n < number(i)) <=> (h < n /\ n < number(i))
    BY <1>1, <2>3, <2>4
  <2> HIDE DEF before, number
  <2> QED BY <2>2, <2>5 DEF before, number
<1> QED BY <1>7, <1>8

\* Of two records of a stream that span a number, the later one would have
\* started above the earlier one: at most one spans it.
LEMMA GapsDisjoint == ScopeInv => GapsCountedOnce
<1> SUFFICES ASSUME ScopeInv, NEW stream \in Streams, NEW n \in UNION {0..e.sequence : e \in Events}
             PROVE
    LET number(i) == records[i].event.sequence
        numbered == {i \in RecordsOf(stream) : number(i) # NoSequence}
        overtaken == \E i \in numbered :
                          /\ n < number(i) /\ \E j \in numbered : j < i
                          /\ \A j \in numbered : j < i => number(j) < n
        reports == {i \in numbered : number(i) - records[i].gap <= n /\ n < number(i)}
    IN Cardinality(reports) = IF overtaken THEN 1 ELSE 0
  BY DEF GapsCountedOnce
<1> DEFINE number(i) == records[i].event.sequence
           numbered == {i \in RecordsOf(stream) : number(i) # NoSequence}
           witness(i) == /\ n < number(i) /\ \E j \in numbered : j < i
                         /\ \A j \in numbered : j < i => number(j) < n
           reports == {i \in numbered : number(i) - records[i].gap <= n /\ n < number(i)}
<1>1. n \in Nat
  BY EventFields DEF Numbers, NoSequence
<1>2. \A i \in numbered : i \in 1..Len(records) /\ number(i) # NoSequence
  BY DEF RecordsOf
<1>3. ASSUME NEW i \in numbered
      PROVE  {k \in Earlier(i) : number(k) # NoSequence} = {j \in numbered : j < i}
  BY DEF Earlier, RecordsOf
<1>4. \A i \in numbered : i \in reports <=> witness(i)
  <2> TAKE i \in numbered
  <2>1. (number(i) - records[i].gap <= n /\ n < number(i))
          <=> /\ n < number(i) /\ {k \in Earlier(i) : number(k) # NoSequence} # {}
              /\ \A k \in {k \in Earlier(i) : number(k) # NoSequence} : number(k) < n
    BY <1>1, <1>2, GapBounds
  <2> QED BY <1>3, <2>1
<1>5. \A i, k \in numbered : witness(i) /\ witness(k) => i = k
  <2> SUFFICES ASSUME NEW i \in numbered, NEW k \in numbered, witness(i), witness(k), i < k
               PROVE  FALSE
    BY <1>2
  <2>1. number(i) \in Int
    <3>1. i \in 1..Len(records)
      BY <1>2
    <3>2. records[i].event \in Events
      BY <3>1, RecordSays
    <3>3. number(i) \in Numbers
      BY <3>2, EventFields
    <3> QED BY <3>3 DEF Numbers, NoSequence
  <2>2. n < number(i) /\ number(i) < n
    OBVIOUS
  <2> QED BY <1>1, <2>1, <2>2
<1>6. reports \subseteq numbered
  OBVIOUS
<1> HIDE DEF witness, numbered, reports
<1>7. CASE \E i \in numbered : witness(i)
  <2>1. PICK i \in numbered : witness(i)
    BY <1>7
  <2>2. reports = {i}
    BY <1>4, <1>5, <1>6, <2>1
  <2>3. Cardinality(reports) = 1
    BY <2>2, FS_Singleton
  <2> QED BY <1>7, <2>3 DEF witness, numbered, reports
<1>8. CASE ~ \E i \in numbered : witness(i)
  <2>1. reports = {}
    BY <1>4, <1>6, <1>8
  <2>2. Cardinality(reports) = 0
    BY <2>1, FS_EmptySet
  <2> QED BY <1>8, <2>2 DEF witness, numbered, reports
<1> QED BY <1>7, <1>8

\* A number a stream skipped is counted as missing exactly once, and a number
\* it did not skip never, in whatever order its events arrive.
THEOREM GapsAreCountedOnce == Spec => []GapsCountedOnce
<1> QED BY ScopeAlways, GapsDisjoint, PTL
=============================================================================
