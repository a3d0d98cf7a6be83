------------------------ MODULE KillSwitchStoreProofs ------------------------
(***************************************************************************)
(* Proofs about KillSwitchStore, for every set of scopes, stamps, writers, *)
(* inodes and requested states.                                            *)
(***************************************************************************)
EXTENDS KillSwitchStore, TLAPS

USE ScopesAssumption, StampsAssumption, NewStatesAssumption, NoneAssumption

-----------------------------------------------------------------------------
(* The records of a log. *)

\* Every set of states that is not empty has one of the greatest severity:
\* load_snapshot's max() always has a value to return.
LEMMA MostSevereExists ==
  ASSUME NEW K \in SUBSET KillStates, K # {}
  PROVE  \E k \in K : \A j \in K : Severity(j) <= Severity(k)
<1>1. CASE "unknown_fail_closed" \in K
  BY <1>1 DEF KillStates, Severity
<1>2. CASE "unknown_fail_closed" \notin K /\ "halted" \in K
  BY <1>2 DEF KillStates, Severity
<1>3. CASE "unknown_fail_closed" \notin K /\ "halted" \notin K /\ "cancel_only" \in K
  BY <1>3 DEF KillStates, Severity
<1>4. CASE /\ "unknown_fail_closed" \notin K /\ "halted" \notin K
           /\ "cancel_only" \notin K /\ "reduce_only" \in K
  BY <1>4 DEF KillStates, Severity
<1>5. CASE K \subseteq {"clear", "soft_limited", "pause_new_orders"}
  BY <1>5 DEF KillStates, Severity
<1> QED BY <1>1, <1>2, <1>3, <1>4, <1>5 DEF KillStates

\* The prior_state transition writes is always one of the seven states.
LEMMA InForceType ==
  ASSUME NEW recs \in SUBSET KillSwitchRecord, NEW s \in Scopes
  PROVE  InForce(recs, s) \in KillStates
<1> DEFINE latest == OfScope(LatestRecords(recs), s)
<1>1. latest \subseteq KillSwitchRecord
  BY DEF OfScope, LatestRecords
<1>2. CASE latest = {}
  BY <1>2 DEF InForce, UNKNOWN, KillStates
<1>3. CASE latest # {}
  <2>1. (CHOOSE r \in latest : TRUE) \in KillSwitchRecord
    BY <1>1, <1>3
  <2> QED BY <2>1, <1>3 DEF InForce, KillSwitchRecord
<1> QED BY <1>2, <1>3

\* The active state of a log comes from one of its records, of a requested
\* scope or GLOBAL, unless it is UNKNOWN_FAIL_CLOSED.
LEMMA ActiveStateFromRecord ==
  ASSUME NEW recs \in SUBSET KillSwitchRecord, NEW scopes,
         ActiveState(recs, scopes) # UNKNOWN
  PROVE  \E r \in recs : /\ r.scope \in scopes \cup {GLOBAL}
                         /\ r.new = ActiveState(recs, scopes)
<1> DEFINE M == Matching(recs, scopes)
           K == {r.new : r \in M}
<1>1. M \subseteq recs /\ \A r \in M : r.scope \in scopes \cup {GLOBAL}
  BY DEF Matching, LatestRecords
<1>2. M # {}
  BY DEF ActiveState
<1>3. K # {} /\ K \in SUBSET KillStates
  BY <1>1, <1>2 DEF KillSwitchRecord
<1>4. \E k \in K : \A j \in K : Severity(j) <= Severity(k)
  BY <1>3, MostSevereExists
<1>5. \E k \in K : \A r \in M : Severity(r.new) <= Severity(k)
  BY <1>4
<1>6. ActiveState(recs, scopes) \in K
  BY <1>2, <1>5 DEF ActiveState
<1> QED BY <1>1, <1>6

\* No matching record is more severe than the active state.
LEMMA ActiveStateMostSevere ==
  ASSUME NEW recs \in SUBSET KillSwitchRecord, NEW scopes,
         NEW r \in Matching(recs, scopes)
  PROVE  /\ ActiveState(recs, scopes) \in KillStates
         /\ Severity(r.new) <= Severity(ActiveState(recs, scopes))
<1> DEFINE M == Matching(recs, scopes)
           K == {o.new : o \in M}
<1>1. M \subseteq recs
  BY DEF Matching, LatestRecords
<1>2. K # {} /\ K \in SUBSET KillStates
  BY <1>1 DEF KillSwitchRecord
<1>3. \E k \in K : \A j \in K : Severity(j) <= Severity(k)
  BY <1>2, MostSevereExists
<1>4. \E k \in K : \A o \in M : Severity(o.new) <= Severity(k)
  BY <1>3
<1>5. /\ ActiveState(recs, scopes) \in K
      /\ \A o \in M : Severity(o.new) <= Severity(ActiveState(recs, scopes))
  BY <1>4 DEF ActiveState
<1> QED BY <1>2, <1>5

\* A snapshot depends on the log only through the records that match it.
LEMMA ActiveStateOfMatching ==
  ASSUME NEW recs, NEW more, NEW scopes,
         Matching(recs, scopes) = Matching(more, scopes)
  PROVE  ActiveState(recs, scopes) = ActiveState(more, scopes)
<1> DEFINE Choice(M) ==
      CHOOSE k \in {r.new : r \in M} : \A r \in M : Severity(r.new) <= Severity(k)
           Pick(M) == IF M = {} THEN UNKNOWN ELSE Choice(M)
<1>1. ActiveState(recs, scopes) = Pick(Matching(recs, scopes))
  BY DEF ActiveState
<1>2. ActiveState(more, scopes) = Pick(Matching(more, scopes))
  BY DEF ActiveState
<1> HIDE DEF Pick
<1> QED BY <1>1, <1>2

\* The order of the log is irreflexive.
LEMMA NotBeforeItself ==
  ASSUME NEW r \in KillSwitchRecord
  PROVE  ~ Before(r, r)
<1>1. r.at \in Nat /\ r.rid \in Nat
  BY RecordIdsAssumption DEF KillSwitchRecord
<1> QED BY <1>1 DEF Before
-----------------------------------------------------------------------------
(* What the file may hold. *)

\* Every byte string that may become the log holds only records transition
\* built: what crashes, collisions and damage can leave behind.
AuditInv ==
  /\ TypeOK
  /\ \A i \in Inodes : content[i].recs \subseteq issued
  /\ \A w \in Writers : payload[w] \subseteq issued
  /\ \A w \in Writers : pc[w] # "idle" => record[w] \in issued

LEMMA AuditInit == Init => AuditInv
BY DEF Init, AuditInv, TypeOK, Truncated, Contents

\* What transition reads is a set of issued records.
LEMMA ReadsIssued ==
  ASSUME AuditInv, NEW recs \in ReadResults
  PROVE  recs \in SUBSET issued
<1>1. StoreRecords \subseteq issued
  BY DEF AuditInv, TypeOK, StoreRecords
<1> QED BY <1>1 DEF ReadResults

LEMMA AuditBegin ==
  ASSUME AuditInv, NEW w \in Writers, BeginTransition(w)
  PROVE  AuditInv'
<1>1. PICK recs \in ReadResults : \E r \in NewRecords(recs) :
        /\ record' = [record EXCEPT ![w] = r]
        /\ payload' = [payload EXCEPT ![w] = NextLog(recs, r)]
        /\ clock' = IF r.at > clock THEN r.at ELSE clock
        /\ issued' = issued \cup {r}
  BY DEF BeginTransition
<1>2. PICK r \in NewRecords(recs) :
        /\ record' = [record EXCEPT ![w] = r]
        /\ payload' = [payload EXCEPT ![w] = NextLog(recs, r)]
        /\ clock' = IF r.at > clock THEN r.at ELSE clock
        /\ issued' = issued \cup {r}
  BY <1>1
<1>3. recs \in SUBSET issued
  BY ReadsIssued
<1>4. r \in KillSwitchRecord
  <2>1. recs \in SUBSET KillSwitchRecord
    BY <1>3 DEF AuditInv, TypeOK
  <2> QED BY <2>1, InForceType DEF NewRecords, KillSwitchRecord
<1>5. /\ clock' \in Nat
      /\ pc' = [pc EXCEPT ![w] = "read"]
      /\ UNCHANGED <<content, store, temp, fd, acked>>
  BY <1>2, <1>4 DEF BeginTransition, Step, disk, AuditInv, TypeOK, KillSwitchRecord
<1>6. TypeOK'
  BY <1>2, <1>3, <1>4, <1>5 DEF AuditInv, TypeOK, NextLog
<1> QED BY <1>2, <1>3, <1>5, <1>6 DEF AuditInv, TypeOK, NextLog

LEMMA AuditStep == AuditInv /\ [Next]_vars => AuditInv'
<1> SUFFICES ASSUME AuditInv, [Next]_vars PROVE AuditInv'
  OBVIOUS
<1>1. ASSUME NEW w \in Writers, BeginTransition(w) PROVE AuditInv'
  BY <1>1, AuditBegin
<1>2. ASSUME NEW w \in Writers, OpenTemp(w) PROVE AuditInv'
  BY <1>2 DEF AuditInv, TypeOK, OpenTemp, Step, Truncated, Contents
<1>3. ASSUME NEW w \in Writers, WriteTemp(w) PROVE AuditInv'
  <2>1. PICK c \in {Log(payload[w]), Garbled} :
          content' = [content EXCEPT ![fd[w]] = c]
    BY <1>3 DEF WriteTemp
  <2>2. payload[w] \in SUBSET issued /\ issued \subseteq KillSwitchRecord
    BY DEF AuditInv, TypeOK
  <2>3. c \in Contents /\ c.recs \subseteq issued /\ (c.kind = "log" \/ c.recs = {})
    <3>1. CASE c = Log(payload[w])
      BY <3>1, <2>2 DEF Log, Contents
    <3>2. CASE c = Garbled
      BY <3>2 DEF Garbled, Contents
    <3> QED BY <2>1, <3>1, <3>2
  <2> QED BY <1>3, <2>1, <2>3 DEF AuditInv, TypeOK, WriteTemp, Step
<1>4. ASSUME NEW w \in Writers, Replace(w) PROVE AuditInv'
  BY <1>4 DEF AuditInv, TypeOK, Replace, Step
<1>5. ASSUME NEW w \in Writers, ReplaceFails(w) PROVE AuditInv'
  BY <1>5 DEF AuditInv, TypeOK, ReplaceFails, Rest, disk
<1>6. ASSUME NEW w \in Writers, Return(w) PROVE AuditInv'
  BY <1>6 DEF AuditInv, TypeOK, Return, Rest, disk
<1>7. ASSUME NEW w \in Writers, Crash(w) PROVE AuditInv'
  BY <1>7 DEF AuditInv, TypeOK, Crash, Rest, disk
<1>8. CASE Damage
  BY <1>8 DEF AuditInv, TypeOK, Damage, Garbled, Foreign, Contents
<1>9. CASE UNCHANGED vars
  BY <1>9 DEF AuditInv, TypeOK, vars
<1> QED BY <1>1, <1>2, <1>3, <1>4, <1>5, <1>6, <1>7, <1>8, <1>9 DEF Next

LEMMA AuditInvariant == Spec => []AuditInv
BY AuditInit, AuditStep, PTL DEF Spec

\* The store's variables keep their types.
THEOREM TypeCorrect == Spec => []TypeOK
<1>1. AuditInv => TypeOK
  BY DEF AuditInv
<1> QED BY <1>1, AuditInvariant, PTL

\* However many writers collide, crash or meet a damaged file, a snapshot that
\* is returned and is not UNKNOWN_FAIL_CLOSED reports a state some audited
\* transition asked for, for that scope or for GLOBAL.
THEOREM SnapshotsAudited == Spec => []OnlyAuditedStates
<1>1. AuditInv => OnlyAuditedStates
  <2> SUFFICES ASSUME AuditInv, NEW s \in Scopes, LoadedState(s) \notin {UNKNOWN, RAISED}
               PROVE  \E r \in issued : /\ r.scope \in {s, GLOBAL}
                                        /\ r.new = LoadedState(s)
    BY DEF OnlyAuditedStates
  <2>1. StoreRecords \in SUBSET KillSwitchRecord /\ StoreRecords \subseteq issued
    BY DEF AuditInv, TypeOK, StoreRecords
  <2>2. LoadedState(s) = ActiveState(StoreRecords, {s})
    BY DEF LoadedState
  <2>3. \E r \in StoreRecords : /\ r.scope \in {s, GLOBAL}
                               /\ r.new = LoadedState(s)
    BY <2>1, <2>2, ActiveStateFromRecord
  <2> QED BY <2>1, <2>3
<1> QED BY <1>1, AuditInvariant, PTL

-----------------------------------------------------------------------------
\* One writer and no fault, which is what the module docstring's "durable
\* restart semantics" covers.  The strengthening follows the write: the
\* temporary file is never the log, what is written is the log plus one
\* record, and the log grows only when that file takes its place.
Alone == (\A v, w \in Writers : v = w) /\ Faults = {}

DurableInv ==
  /\ AuditInv
  /\ store # None => content[store].kind = "log"
  /\ temp # None => temp # store
  /\ acked \subseteq StoreRecords
  /\ \A w \in Writers :
       /\ pc[w] \in {"read", "opened", "written"} =>
            payload[w] = StoreRecords \cup {record[w]}
       /\ pc[w] = "opened" => temp # None /\ fd[w] = temp /\ content[temp].kind = "empty"
       /\ pc[w] = "written" => temp # None /\ content[temp] = Log(payload[w])
       /\ pc[w] = "replaced" => record[w] \in StoreRecords
       /\ pc[w] # "opened" => fd[w] = None

LEMMA DurableInit == Init => DurableInv
BY AuditInit DEF Init, DurableInv, StoreRecords

LEMMA DurableStep == Alone /\ DurableInv /\ [Next]_vars => DurableInv'
<1> SUFFICES ASSUME Alone, DurableInv, [Next]_vars PROVE DurableInv'
  OBVIOUS
<1>0. AuditInv' /\ TypeOK /\ TypeOK'
  BY AuditStep DEF DurableInv, AuditInv
<1>1. ASSUME NEW w \in Writers, BeginTransition(w) PROVE DurableInv'
  <2>1. /\ UNCHANGED <<content, store, temp, fd, acked>>
        /\ pc' = [pc EXCEPT ![w] = "read"]
        /\ pc[w] = "idle"
    BY <1>1 DEF BeginTransition, Step, disk
  <2>2. PICK recs \in ReadResults : \E r \in NewRecords(recs) :
          /\ record' = [record EXCEPT ![w] = r]
          /\ payload' = [payload EXCEPT ![w] = NextLog(recs, r)]
    BY <1>1 DEF BeginTransition
  <2>3. PICK r \in NewRecords(recs) :
          /\ record' = [record EXCEPT ![w] = r]
          /\ payload' = [payload EXCEPT ![w] = NextLog(recs, r)]
    BY <2>2
  <2>4. recs = StoreRecords /\ StoreRecords' = StoreRecords
    BY <2>1 DEF Alone, ReadResults, StoreRecords
  <2>5. payload'[w] = StoreRecords \cup {record'[w]}
    BY <2>3, <2>4, <1>0 DEF TypeOK, NextLog
  <2> QED BY <1>0, <2>1, <2>4, <2>5 DEF DurableInv, TypeOK, Alone
<1>2. ASSUME NEW w \in Writers, OpenTemp(w) PROVE DurableInv'
  <2>1. PICK i \in Inodes :
          /\ IF temp # None THEN i = temp
             ELSE i # store /\ \A v \in Writers : fd[v] # i
          /\ temp' = i
          /\ content' = [content EXCEPT ![i] = Truncated]
          /\ fd' = [fd EXCEPT ![w] = i]
    BY <1>2 DEF OpenTemp
  <2>2. i # store /\ StoreRecords' = StoreRecords
    BY <1>0, <1>2, <2>1 DEF DurableInv, OpenTemp, StoreRecords, TypeOK
  <2> QED BY <1>0, <1>2, <2>1, <2>2
          DEF DurableInv, TypeOK, OpenTemp, Step, Truncated, Alone
<1>3. ASSUME NEW w \in Writers, WriteTemp(w) PROVE DurableInv'
  <2>1. content' = [content EXCEPT ![temp] = Log(payload[w])]
    BY <1>3 DEF DurableInv, WriteTemp, Step
  <2>2. StoreRecords' = StoreRecords
    BY <1>0, <1>3, <2>1 DEF DurableInv, WriteTemp, Step, StoreRecords, TypeOK
  <2> QED BY <1>0, <1>3, <2>1, <2>2 DEF DurableInv, TypeOK, WriteTemp, Step, Alone
<1>4. ASSUME NEW w \in Writers, Replace(w) PROVE DurableInv'
  <2>1. /\ pc[w] = "written" /\ temp # None /\ temp \in Inodes
        /\ store' = temp /\ temp' = None
        /\ pc' = [pc EXCEPT ![w] = "replaced"]
        /\ UNCHANGED <<content, record, payload, fd, issued, acked>>
    BY <1>0, <1>4 DEF Replace, Step, TypeOK
  <2>2. content[temp] = Log(payload[w]) /\ payload[w] = StoreRecords \cup {record[w]}
    BY <2>1 DEF DurableInv
  <2>3. StoreRecords' = payload[w] /\ content[temp].kind = "log"
    BY <2>1, <2>2, NoneAssumption DEF StoreRecords, Log
  <2>4. /\ acked' \subseteq StoreRecords'
        /\ record'[w] \in StoreRecords'
    BY <2>1, <2>2, <2>3 DEF DurableInv
  <2>5. \A v \in Writers : v = w /\ pc'[v] = "replaced"
    BY <1>0, <2>1 DEF Alone, TypeOK
  <2>6. fd'[w] = None
    BY <2>1 DEF DurableInv
  <2> QED BY <1>0, <2>1, <2>3, <2>4, <2>5, <2>6 DEF DurableInv
<1>5. ASSUME NEW w \in Writers, ReplaceFails(w) PROVE DurableInv'
  BY <1>0, <1>5 DEF DurableInv, ReplaceFails
<1>6. ASSUME NEW w \in Writers, Return(w) PROVE DurableInv'
  BY <1>0, <1>6 DEF DurableInv, TypeOK, Return, Rest, disk, StoreRecords, Alone
<1>7. ASSUME NEW w \in Writers, Crash(w) PROVE DurableInv'
  BY <1>0, <1>7 DEF DurableInv, TypeOK, Crash, Rest, disk, StoreRecords, Alone
<1>8. CASE Damage
  BY <1>8 DEF Damage, Alone
<1>9. CASE UNCHANGED vars
  BY <1>0, <1>9 DEF DurableInv, vars, StoreRecords
<1> QED BY <1>1, <1>2, <1>3, <1>4, <1>5, <1>6, <1>7, <1>8, <1>9 DEF Next

\* With one writer and no fault, every transition that returned stays in the
\* log through any crash, at any point, of the writer.
THEOREM SingleWriterDurable == ASSUME Alone PROVE Spec => []AckedDurable
<1>1. DurableInv => AckedDurable
  BY DEF DurableInv, AckedDurable
<1>2. DurableInv /\ [Next]_vars => DurableInv'
  BY DurableStep
<1> QED BY DurableInit, <1>1, <1>2, PTL DEF Spec

-----------------------------------------------------------------------------
\* The file is absent or holds a valid log.
Readable == ~ Unreadable /\ ~ ReadRaises

\* One writer and no fault: only os.replace changes what a snapshot reads,
\* and it adds exactly the record the writer built.
LEMMA LogChange ==
  ASSUME Alone, DurableInv, [Next]_vars
  PROVE  \/ /\ StoreRecords' = StoreRecords
            /\ Readable /\ Readable'
         \/ \E w \in Writers :
              /\ Replace(w)
              /\ StoreRecords' = StoreRecords \cup {record[w]}
              /\ Readable /\ Readable'
<1>0. DurableInv' /\ TypeOK /\ Readable /\ Readable'
  BY DurableStep DEF DurableInv, AuditInv, Readable, Unreadable, ReadRaises
<1>1. ASSUME NEW w \in Writers, BeginTransition(w) PROVE StoreRecords' = StoreRecords
  BY <1>1 DEF BeginTransition, disk, StoreRecords
<1>2. ASSUME NEW w \in Writers, OpenTemp(w) PROVE StoreRecords' = StoreRecords
  BY <1>0, <1>2 DEF DurableInv, OpenTemp, StoreRecords, TypeOK
<1>3. ASSUME NEW w \in Writers, WriteTemp(w) PROVE StoreRecords' = StoreRecords
  <2>1. fd[w] = temp /\ temp # store
    BY <1>3 DEF DurableInv, WriteTemp, Step
  <2> QED BY <1>0, <1>3, <2>1 DEF WriteTemp, StoreRecords, TypeOK
<1>4. ASSUME NEW w \in Writers, Replace(w)
      PROVE  StoreRecords' = StoreRecords \cup {record[w]}
  <2>1. content[temp] = Log(payload[w]) /\ payload[w] = StoreRecords \cup {record[w]}
    BY <1>4 DEF DurableInv, Replace, Step
  <2> QED BY <1>4, <2>1 DEF Replace, StoreRecords, Log
<1>5. ASSUME NEW w \in Writers, ReplaceFails(w) \/ Return(w) \/ Crash(w)
      PROVE  StoreRecords' = StoreRecords
  BY <1>5 DEF ReplaceFails, Return, Crash, disk, StoreRecords
<1>6. ~ Damage
  BY DEF Damage, Alone
<1>7. CASE UNCHANGED vars
  BY <1>7, <1>0 DEF vars, StoreRecords
<1> QED BY <1>0, <1>1, <1>2, <1>3, <1>4, <1>5, <1>6, <1>7 DEF Next

\* With one writer and no fault, a state stays in force once transition has
\* returned for it: no later snapshot is less restrictive until a newer
\* transition of that scope is issued.
THEOREM SingleWriterEnforced == ASSUME Alone PROVE Spec => []AckedStateEnforced
<1>1. DurableInv => AckedStateEnforced
  <2> SUFFICES ASSUME DurableInv, NEW r \in acked, NEW s \in Scopes,
                      r.scope \in {s, GLOBAL},
                      \A o \in OfScope(issued, r.scope) : ~ Before(r, o)
               PROVE  Severity(LoadedState(s)) >= Severity(r.new)
    BY DEF AckedStateEnforced
  <2>1. /\ StoreRecords \in SUBSET KillSwitchRecord
        /\ StoreRecords \subseteq issued
        /\ r \in StoreRecords
        /\ Readable
    BY DEF DurableInv, AuditInv, TypeOK, StoreRecords, Readable, Unreadable, ReadRaises
  <2>2. r \in Matching(StoreRecords, {s})
    BY <2>1 DEF Matching, LatestRecords, IsLatest, OfScope
  <2>3. /\ LoadedState(s) = ActiveState(StoreRecords, {s})
        /\ LoadedState(s) \in KillStates
        /\ Severity(r.new) <= Severity(LoadedState(s))
    BY <2>1, <2>2, ActiveStateMostSevere DEF LoadedState, Readable
  <2>4. r.new \in KillStates
    BY <2>1 DEF KillSwitchRecord
  <2> QED BY <2>3, <2>4 DEF KillStates, Severity
<1>2. DurableInv /\ [Next]_vars => DurableInv'
  BY DurableStep
<1> QED BY DurableInit, <1>1, <1>2, PTL DEF Spec

-----------------------------------------------------------------------------
\* Adding a record that is older than one of its scope changes no snapshot.
LEMMA StaleRecordInert ==
  ASSUME NEW recs \in SUBSET KillSwitchRecord, NEW r \in KillSwitchRecord,
         NEW o \in OfScope(recs, r.scope), Before(r, o), NEW scopes
  PROVE  Matching(recs \cup {r}, scopes) = Matching(recs, scopes)
<1> DEFINE more == recs \cup {r}
<1>1. o \in recs /\ o.scope = r.scope
  BY DEF OfScope
<1>2. ~ IsLatest(r, more)
  BY <1>1 DEF IsLatest, OfScope
<1>3. ASSUME NEW p \in recs PROVE IsLatest(p, more) <=> IsLatest(p, recs)
  <2>1. CASE p.scope # r.scope
    BY <2>1 DEF IsLatest, OfScope
  <2>2. CASE p.scope = r.scope
    <3>1. Before(p, r) => Before(p, o)
      <4>1. /\ p.at \in Nat /\ r.at \in Nat /\ o.at \in Nat
            /\ p.rid \in Nat /\ r.rid \in Nat /\ o.rid \in Nat
        BY <1>1, RecordIdsAssumption DEF KillSwitchRecord
      <4> QED BY <4>1 DEF Before
    <3>2. o \in OfScope(recs, p.scope)
      BY <1>1, <2>2 DEF OfScope
    <3> QED BY <3>1, <3>2 DEF IsLatest, OfScope
  <2> QED BY <2>1, <2>2
<1>4. LatestRecords(more) = LatestRecords(recs)
  BY <1>2, <1>3 DEF LatestRecords, IsLatest
<1> QED BY <1>4 DEF Matching

\* A record reaches only the snapshots of its own scope, and GLOBAL's all.
LEMMA ForeignRecordInert ==
  ASSUME NEW recs \in SUBSET KillSwitchRecord, NEW r \in KillSwitchRecord,
         NEW scopes, r.scope \notin scopes \cup {GLOBAL}
  PROVE  Matching(recs \cup {r}, scopes) = Matching(recs, scopes)
BY DEF Matching, LatestRecords, IsLatest, OfScope

\* With one writer and no fault, a snapshot becomes less restrictive only in
\* the step that replaces the log, by a record for that scope or GLOBAL that
\* asks for no more than the snapshot then allows.
THEOREM SingleWriterRelaxes == ASSUME Alone PROVE Spec => RelaxedOnlyByTransition
<1> DEFINE Relaxed(s) ==
      Severity(LoadedState(s)') < Severity(LoadedState(s)) =>
         \E w \in Writers :
           /\ Replace(w)
           /\ record[w].scope \in {s, GLOBAL}
           /\ Severity(record[w].new) <= Severity(LoadedState(s)')
<1>1. DurableInv /\ [Next]_vars => \A s \in Scopes : Relaxed(s)
  <2> SUFFICES ASSUME DurableInv, [Next]_vars, NEW s \in Scopes,
                      Severity(LoadedState(s)') < Severity(LoadedState(s))
               PROVE  \E w \in Writers :
                        /\ Replace(w)
                        /\ record[w].scope \in {s, GLOBAL}
                        /\ Severity(record[w].new) <= Severity(LoadedState(s)')
    OBVIOUS
  <2>1. /\ StoreRecords \in SUBSET KillSwitchRecord
        /\ TypeOK
    BY DEF DurableInv, AuditInv, TypeOK, StoreRecords
  <2>2. ASSUME Readable, Readable'
        PROVE  /\ LoadedState(s) = ActiveState(StoreRecords, {s})
               /\ LoadedState(s)' = ActiveState(StoreRecords', {s})
    BY <2>2 DEF LoadedState, Readable
  <2>3. ASSUME Readable, Readable',
               Matching(StoreRecords', {s}) = Matching(StoreRecords, {s})
        PROVE  FALSE
    <3>1. LoadedState(s)' = LoadedState(s)
      BY <2>2, <2>3, ActiveStateOfMatching
    <3>2. LoadedState(s) \in KillStates
      <4>1. CASE Matching(StoreRecords, {s}) = {}
        BY <4>1, <2>2, <2>3 DEF ActiveState, KillStates, UNKNOWN
      <4>2. CASE Matching(StoreRecords, {s}) # {}
        BY <4>2, <2>1, <2>2, <2>3, ActiveStateMostSevere
      <4> QED BY <4>1, <4>2
    <3> QED BY <3>1, <3>2 DEF KillStates, Severity
  <2>4. PICK w \in Writers :
          /\ Replace(w)
          /\ StoreRecords' = StoreRecords \cup {record[w]}
          /\ Readable /\ Readable'
    BY LogChange, <2>3
  <2>5. record[w] \in KillSwitchRecord
    BY <2>1, <2>4 DEF DurableInv, AuditInv, TypeOK, Replace, Step
  <2>6. record[w].scope \in {s, GLOBAL}
    BY <2>1, <2>3, <2>4, <2>5, ForeignRecordInert
  <2>7. \A o \in OfScope(StoreRecords, record[w].scope) : ~ Before(record[w], o)
    BY <2>1, <2>3, <2>4, <2>5, StaleRecordInert
  <2>8. record[w] \in Matching(StoreRecords', {s})
    <3>1. ~ Before(record[w], record[w])
      BY <2>5, NotBeforeItself
    <3> QED BY <2>4, <2>6, <2>7, <3>1 DEF Matching, LatestRecords, IsLatest, OfScope
  <2>9. Severity(record[w].new) <= Severity(LoadedState(s)')
    <3>1. StoreRecords' \in SUBSET KillSwitchRecord
      BY <2>1, <2>4, <2>5
    <3> QED BY <3>1, <2>2, <2>4, <2>8, ActiveStateMostSevere
  <2> QED BY <2>4, <2>6, <2>9
<1>2. DurableInv /\ [Next]_vars => DurableInv'
  BY DurableStep
<1>3. DurableInv /\ [Next]_vars =>
        [\A s \in Scopes :
           Severity(LoadedState(s)') < Severity(LoadedState(s)) =>
             \E w \in Writers :
               /\ Replace(w)
               /\ record[w].scope \in {s, GLOBAL}
               /\ Severity(record[w].new) <= Severity(LoadedState(s)')]_vars
  BY <1>1
<1> QED BY DurableInit, <1>2, <1>3, PTL DEF Spec, RelaxedOnlyByTransition

-----------------------------------------------------------------------------
\* Refinement.  Until the record in hand is in the log, nothing else gets
\* there: the state it names as prior is still the one in force.
AtomicInv ==
  /\ DurableInv
  /\ DistinctIds(issued)
  /\ \A w \in Writers :
       pc[w] \in {"read", "opened", "written"} =>
         record[w].prior = InForce(StoreRecords, record[w].scope)

LEMMA AtomicInit == Init => AtomicInv
BY DurableInit DEF Init, AtomicInv, DistinctIds

LEMMA AtomicStep == Alone /\ AtomicInv /\ [Next]_vars => AtomicInv'
<1> SUFFICES ASSUME Alone, AtomicInv, [Next]_vars PROVE AtomicInv'
  OBVIOUS
<1>0. /\ DurableInv /\ DurableInv' /\ TypeOK /\ TypeOK'
      /\ StoreRecords \subseteq issued /\ issued \subseteq KillSwitchRecord
  BY DurableStep DEF AtomicInv, DurableInv, AuditInv, TypeOK, StoreRecords
<1>1. ASSUME NEW w \in Writers, BeginTransition(w) PROVE AtomicInv'
  <2>1. PICK recs \in ReadResults : \E r \in NewRecords(recs) :
          /\ DistinctIds(issued \cup {r})
          /\ record' = [record EXCEPT ![w] = r]
          /\ issued' = issued \cup {r}
    BY <1>1 DEF BeginTransition
  <2>2. PICK r \in NewRecords(recs) :
          /\ DistinctIds(issued \cup {r})
          /\ record' = [record EXCEPT ![w] = r]
          /\ issued' = issued \cup {r}
    BY <2>1
  <2>3. recs = StoreRecords /\ StoreRecords' = StoreRecords
    BY <1>1 DEF Alone, ReadResults, StoreRecords, BeginTransition, disk
  <2>4. r.prior = InForce(StoreRecords, r.scope)
    BY <2>3 DEF NewRecords
  <2>5. record'[w] = r /\ \A v \in Writers : v = w
    BY <1>0, <2>2 DEF TypeOK, Alone
  <2>6. DistinctIds(issued')
    BY <2>2
  <2>7. record'[w].prior = InForce(StoreRecords', record'[w].scope)
    BY <2>3, <2>4, <2>5
  <2>8. (DistinctIds(issued))'
    BY <2>6 DEF DistinctIds
  <2>9. (InForce(StoreRecords, record[w].scope))' = InForce(StoreRecords', record'[w].scope)
    BY DEF InForce, LatestRecords, IsLatest, OfScope, Before
  <2> QED BY <1>0, <2>5, <2>7, <2>8, <2>9 DEF AtomicInv
<1>2. ASSUME NEW w \in Writers, OpenTemp(w) \/ WriteTemp(w) PROVE AtomicInv'
  <2>1. /\ UNCHANGED <<record, issued>>
        /\ pc[w] \in {"read", "opened"}
        /\ ~ Replace(w)
    BY <1>2 DEF OpenTemp, WriteTemp, Step, Replace
  <2>2. StoreRecords' = StoreRecords
    <3>1. \A v \in Writers : ~ Replace(v)
      BY <2>1 DEF Alone
    <3> QED BY <1>0, <3>1, LogChange
  <2>3. \A v \in Writers : pc[v] \in {"read", "opened", "written"}
    BY <2>1 DEF Alone
  <2> QED BY <1>0, <2>1, <2>2, <2>3 DEF AtomicInv
<1>3. ASSUME NEW w \in Writers, Replace(w) PROVE AtomicInv'
  <2>1. UNCHANGED issued /\ \A v \in Writers : pc'[v] = "replaced"
    BY <1>0, <1>3 DEF Replace, Step, TypeOK, Alone
  <2> QED BY <1>0, <2>1 DEF AtomicInv
<1>4. ASSUME NEW w \in Writers, ReplaceFails(w) \/ Return(w) \/ Crash(w)
      PROVE  AtomicInv'
  <2>1. UNCHANGED issued /\ \A v \in Writers : pc'[v] = "idle"
    BY <1>0, <1>4 DEF ReplaceFails, Return, Crash, Rest, TypeOK, Alone
  <2> QED BY <1>0, <2>1 DEF AtomicInv
<1>5. ~ Damage
  BY DEF Damage, Alone
<1>6. CASE UNCHANGED vars
  BY <1>0, <1>6 DEF AtomicInv, vars, StoreRecords
<1> QED BY <1>1, <1>2, <1>3, <1>4, <1>5, <1>6 DEF Next

\* Every step of the store is a step of the abstract log or leaves it as it
\* is: os.replace is where a transition takes effect.
LEMMA StepRefines ==
  Alone /\ AtomicInv /\ [Next]_vars => [Promise!Next]_StoreRecords
<1> SUFFICES ASSUME Alone, AtomicInv, [Next]_vars,
                    StoreRecords' # StoreRecords
             PROVE  Promise!Next
  OBVIOUS
<1>1. DurableInv /\ TypeOK
  BY DEF AtomicInv, DurableInv, AuditInv
<1>2. PICK w \in Writers :
        Replace(w) /\ StoreRecords' = StoreRecords \cup {record[w]}
  BY <1>1, LogChange
<1>3. pc[w] = "written"
  BY <1>2 DEF Replace, Step
<1>4. /\ record[w] \in KillSwitchRecord
      /\ record[w] \in issued /\ StoreRecords \subseteq issued
      /\ record[w].prior = InForce(StoreRecords, record[w].scope)
  BY <1>1, <1>3 DEF AtomicInv, DurableInv, AuditInv, TypeOK, StoreRecords
<1>5. DistinctIds(StoreRecords')
  BY <1>2, <1>4 DEF AtomicInv, DistinctIds
<1>6. Promise!Commit(record[w])
  <2>1. Promise!InForce(StoreRecords, record[w].scope)
          = InForce(StoreRecords, record[w].scope)
    BY DEF Promise!InForce, InForce, Promise!OfScope, OfScope,
           Promise!LatestRecords, LatestRecords, Promise!IsLatest, IsLatest,
           Promise!Before, Before, Promise!UNKNOWN, UNKNOWN
  <2> QED BY <1>2, <1>4, <1>5, <2>1
          DEF Promise!Commit, Promise!DistinctIds, DistinctIds
<1> QED BY <1>4, <1>6 DEF Promise!Next, Promise!KillSwitchRecord,
           KillSwitchRecord, Promise!KillStates, KillStates

\* One writer and no fault: the file protocol, crashes at any point and stamps
\* in any order included, implements the atomic audited log.
THEOREM SingleWriterAtomic ==
  ASSUME Alone
  PROVE  Spec => AtomicLog
<1>1. Init => Promise!Init
  BY DEF Init, Promise!Init, StoreRecords
<1>2. AtomicInv /\ [Next]_vars => AtomicInv'
  BY AtomicStep
<1>3. AtomicInv /\ [Next]_vars => [Promise!Next]_StoreRecords
  BY StepRefines
<1> QED BY AtomicInit, <1>1, <1>2, <1>3, PTL DEF Spec, AtomicLog, Promise!Spec
=============================================================================
