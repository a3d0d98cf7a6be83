-------------------------- MODULE BronzeStoreProofs --------------------------
(***************************************************************************)
(* Proofs about BronzeStore, for every set of writers, readers, paths and  *)
(* stamps and every number of calls and crashes.                           *)
(***************************************************************************)
EXTENDS BronzeStore, TLAPS

USE BoundsAssumption, TokensAssumption

LEMMA TypeInit == Init => TypeOK
BY DEF Init, TypeOK, Places, ObjectStates, At

\* What a writer that moves on leaves of its type.
LEMMA Moves ==
  ASSUME TypeOK, NEW w \in Writers, NEW place \in Places, NEW r \in References,
         Goes(w, place, r)
  PROVE  /\ writer' \in [Writers -> [at : Places, asked : SUBSET References]]
         /\ \A v \in Writers : writer'[v].at = "idle" \/ \E q \in References : writer'[v].asked = {q}
         /\ \A v \in Writers : v # w => writer'[v] = writer[v]
         /\ writer'[w].at = place /\ writer'[w].asked = {r}
BY DEF TypeOK, Goes, At

LEMMA Stops ==
  ASSUME TypeOK, NEW w \in Writers, Rests(w)
  PROVE  /\ writer' \in [Writers -> [at : Places, asked : SUBSET References]]
         /\ \A v \in Writers : writer'[v].at = "idle" \/ \E q \in References : writer'[v].asked = {q}
         /\ \A v \in Writers : v # w => writer'[v] = writer[v]
         /\ writer'[w].at = "idle" /\ writer'[w].asked = {}
BY DEF TypeOK, Rests, Idle, Places, At

LEMMA AskedType == ASSUME TypeOK, NEW w \in Writers, NEW r \in writer[w].asked PROVE r \in References
BY DEF TypeOK

LEMMA StampType == ASSUME NEW r \in References PROVE r.path \in Paths /\ r.stamp \in Stamps
BY DEF References

LEMMA TypeStep == TypeOK /\ [Next]_vars => TypeOK'
<1> SUFFICES ASSUME TypeOK, [Next]_vars PROVE TypeOK'
  OBVIOUS
<1> USE StampType DEF disk, counts
<1>1. ASSUME NEW w \in Writers, NEW r \in References, Persist(w, r) PROVE TypeOK'
  <2>1. Looked(object[r.path]) \in Places
    BY DEF Looked, Places
  <2>2. raced' \subseteq Paths
    BY <1>1 DEF Persist, TypeOK
  <2> QED BY <1>1, <2>1, <2>2, Moves DEF Persist, TypeOK, At
<1>2. ASSUME NEW w \in Writers, Compare(w) PROVE TypeOK'
  <2>1. PICK r \in References :
          \/ Goes(w, "sidecar", r) /\ UNCHANGED refused
          \/ Rests(w) /\ refused' = refused \cup {[asked |-> r, why |-> "bytes"]}
    BY <1>2, AskedType DEF Compare
  <2>2. CASE Goes(w, "sidecar", r) /\ UNCHANGED refused
    BY <1>2, <2>2, Moves DEF Compare, TypeOK, At, Places
  <2>3. CASE Rests(w) /\ refused' = refused \cup {[asked |-> r, why |-> "bytes"]}
    BY <1>2, <2>3, Stops DEF Compare, TypeOK, At
  <2> QED BY <2>1, <2>2, <2>3
<1>3. ASSUME NEW w \in Writers, CompareSidecar(w) PROVE TypeOK'
  <2>1. PICK r \in References : r \in writer[w].asked /\ Rests(w)
          /\ \/ acked' = acked \cup {r} /\ UNCHANGED refused
             \/ /\ \E why \in {"absent", "torn", "metadata"} :
                     refused' = refused \cup {[asked |-> r, why |-> why]}
                /\ UNCHANGED acked
    BY <1>3, AskedType DEF CompareSidecar
  <2>2. reader' \in [Readers -> [at : {"idle", "verify"}, asked : SUBSET acked', bytes : ObjectStates]]
    BY <1>3, <2>1 DEF CompareSidecar, TypeOK
  <2> QED BY <1>3, <2>1, <2>2, Stops DEF CompareSidecar, TypeOK, At
<1>4. ASSUME NEW w \in Writers, OpenObject(w) PROVE TypeOK'
  <2>1. PICK r \in References : Goes(w, "fill", r) /\ object' = [object EXCEPT ![r.path] = "partial"]
    BY <1>4, AskedType DEF OpenObject
  <2> QED BY <1>4, <2>1, Moves DEF OpenObject, TypeOK, At, Places, ObjectStates
<1>5. ASSUME NEW w \in Writers, FillObject(w) PROVE TypeOK'
  <2>1. PICK r \in References : Goes(w, "describe", r) /\ object' = [object EXCEPT ![r.path] = "whole"]
    BY <1>5, AskedType DEF FillObject
  <2> QED BY <1>5, <2>1, Moves DEF FillObject, TypeOK, At, Places, ObjectStates
<1>6. ASSUME NEW w \in Writers, OpenSidecar(w) PROVE TypeOK'
  <2>1. PICK r \in References : Goes(w, "sign", r) /\ sidecar' = [sidecar EXCEPT ![r.path] = "torn"]
    BY <1>6, AskedType DEF OpenSidecar
  <2> QED BY <1>6, <2>1, Moves DEF OpenSidecar, TypeOK, At, Places
<1>7. ASSUME NEW w \in Writers, FillSidecar(w) PROVE TypeOK'
  <2>1. PICK r \in References : Goes(w, "return", r)
          /\ \E s \in {r.stamp, "torn"} : sidecar' = [sidecar EXCEPT ![r.path] = s]
    BY <1>7, AskedType DEF FillSidecar
  <2> QED BY <1>7, <2>1, Moves DEF FillSidecar, TypeOK, At, Places
<1>8. ASSUME NEW w \in Writers, Return(w) PROVE TypeOK'
  <2>1. PICK r \in References : Rests(w) /\ acked' = acked \cup {r}
    BY <1>8, AskedType DEF Return
  <2>2. reader' \in [Readers -> [at : {"idle", "verify"}, asked : SUBSET acked', bytes : ObjectStates]]
    BY <1>8, <2>1 DEF Return, TypeOK
  <2> QED BY <1>8, <2>1, <2>2, Stops DEF Return, TypeOK, At
<1>9. ASSUME NEW w \in Writers, Crash(w) PROVE TypeOK'
  BY <1>9, Stops DEF Crash, TypeOK, At
<1>10. ASSUME NEW n \in Readers, NEW r \in acked, ReadBytes(n, r) PROVE TypeOK'
  BY <1>10 DEF ReadBytes, TypeOK, At
<1>11. ASSUME NEW n \in Readers, VerifyBytes(n) PROVE TypeOK'
  <2>1. reader' \in [Readers -> [at : {"idle", "verify"}, asked : SUBSET acked', bytes : ObjectStates]]
    BY <1>11 DEF VerifyBytes, TypeOK, ObjectStates
  <2>2. delivered' \subseteq [asked : acked', bytes : ObjectStates]
    BY <1>11 DEF VerifyBytes, TypeOK
  <2> QED BY <1>11, <2>1, <2>2 DEF VerifyBytes, TypeOK, At
<1>12. CASE UNCHANGED vars
  BY <1>12 DEF vars, TypeOK, At
<1> QED BY <1>1, <1>2, <1>3, <1>4, <1>5, <1>6, <1>7, <1>8, <1>9, <1>10, <1>11, <1>12 DEF Next

\* The store's variables keep their types, whoever crashes or races.
THEOREM TypeCorrect == Spec => []TypeOK
BY TypeInit, TypeStep, PTL DEF Spec

-----------------------------------------------------------------------------
\* The strengthening follows the two writes of one call: bytes come before
\* the sidecar, and a path that has bytes is never opened again.  It holds of
\* a path until two calls for it overlap, because another call that is under
\* way then works on other files.
Progress(w, r) ==
  /\ At(w, "write") => object[r.path] = "absent"
  /\ At(w, "fill") => object[r.path] = "partial"
  /\ At(w, "sidecar") => object[r.path] = "whole"
  /\ At(w, "describe") => object[r.path] = "whole" /\ sidecar[r.path] = "absent"
  /\ At(w, "sign") => object[r.path] = "whole" /\ sidecar[r.path] = "torn"
  /\ At(w, "return") => object[r.path] = "whole" /\ sidecar[r.path] = r.stamp

Steady == \A w \in Writers : \A r \in writer[w].asked : r.path \notin raced => Progress(w, r)

Apart ==
  \A v, w \in Writers : \A q \in writer[v].asked, r \in writer[w].asked :
    v # w /\ q.path = r.path => r.path \in raced

BytesFirst == \A p \in Paths \ raced : object[p] # "whole" => sidecar[p] = "absent"

Taken ==
  \A n \in Readers : \A r \in reader[n].asked : r.path \notin raced => reader[n].bytes = "whole"

WriteInv == TypeOK /\ Steady /\ Apart /\ BytesFirst /\ Immutable /\ Taken /\ ReadsVerified

LEMMA WriteInit == Init => WriteInv
BY TypeInit DEF Init, WriteInv, Steady, Apart, BytesFirst, Immutable, Taken, ReadsVerified

\* A call that goes on with its request, or ends, and touches only its own
\* path: what the other calls rely on stays.
LEMMA OwnPath ==
  ASSUME WriteInv, NEW w \in Writers, NEW r \in writer[w].asked, raced' = raced,
         \A v \in Writers : v # w => writer'[v] = writer[v],
         writer'[w].asked \subseteq {r},
         \A p \in Paths : p # r.path => object'[p] = object[p] /\ sidecar'[p] = sidecar[p],
         r \in writer'[w].asked /\ r.path \notin raced => Progress(w, r)',
         r.path \notin raced /\ object'[r.path] # "whole" => sidecar'[r.path] = "absent"
  PROVE  Steady' /\ Apart' /\ BytesFirst'
<1>1. Apart'
  BY DEF WriteInv, Apart
<1>2. ASSUME NEW v \in Writers, NEW q \in writer'[v].asked, q.path \notin raced' PROVE Progress(v, q)'
  <2>1. CASE v = w
    BY <1>2, <2>1
  <2>2. CASE v # w
    <3>1. q \in writer[v].asked /\ writer'[v] = writer[v] /\ q.path \notin raced
      BY <1>2, <2>2
    <3>2. q.path # r.path /\ q.path \in Paths
      BY <2>2, <3>1, AskedType, StampType DEF WriteInv, Apart
    <3>3. Progress(v, q)
      BY <3>1 DEF WriteInv, Steady
    <3> QED BY <3>1, <3>2, <3>3 DEF Progress, At
  <2> QED BY <2>1, <2>2
<1>3. BytesFirst'
  BY DEF WriteInv, BytesFirst
<1> QED BY <1>1, <1>2, <1>3 DEF Steady

\* A step that is not a reader's leaves the readers' facts.
LEMMA ReadersRest ==
  ASSUME WriteInv, raced \subseteq raced', reader' = reader, delivered' = delivered
  PROVE  Taken' /\ ReadsVerified'
BY DEF WriteInv, Taken, ReadsVerified

LEMMA WriteStep == WriteInv /\ [Next]_vars => WriteInv'
<1> SUFFICES ASSUME WriteInv, [Next]_vars PROVE WriteInv'
  OBVIOUS
<1>0. TypeOK /\ TypeOK'
  BY TypeStep DEF WriteInv
<1> USE StampType DEF disk, counts
<1>1. ASSUME NEW w \in Writers, NEW r \in References, Persist(w, r) PROVE WriteInv'
  <2>1. /\ \A v \in Writers : v # w => writer'[v] = writer[v]
        /\ writer'[w] = [at |-> Looked(object[r.path]), asked |-> {r}]
        /\ raced \subseteq raced' /\ object' = object /\ sidecar' = sidecar /\ acked' = acked
        /\ reader' = reader /\ delivered' = delivered
    BY <1>0, <1>1 DEF Persist, Goes, TypeOK
  <2>2. ASSUME NEW v \in Writers, v # w, NEW q \in writer[v].asked, q.path = r.path
        PROVE  r.path \in raced'
    BY <1>1, <2>2 DEF Persist, Overlaps
  <2>3. Apart'
    BY <2>1, <2>2 DEF WriteInv, Apart
  <2>4. Steady'
    <3>1. Progress(w, r)'
      BY <2>1 DEF Looked, Progress, At
    <3> QED BY <2>1, <3>1 DEF WriteInv, Steady, Progress, At
  <2> QED BY <1>0, <2>1, <2>3, <2>4, ReadersRest DEF WriteInv, BytesFirst, Immutable
<1>2. ASSUME NEW w \in Writers, Compare(w) PROVE WriteInv'
  <2>1. PICK r \in References : /\ r \in writer[w].asked
                               /\ \/ Goes(w, "sidecar", r) /\ object[r.path] = "whole"
                                  \/ Rests(w)
    BY <1>0, <1>2, AskedType DEF Compare
  <2>2. /\ \A v \in Writers : v # w => writer'[v] = writer[v]
        /\ \/ writer'[w].at = "sidecar" /\ writer'[w].asked = {r} /\ object[r.path] = "whole"
           \/ writer'[w].asked = {}
    BY <1>0, <2>1, Stops DEF Goes, TypeOK
  <2>3. r \in writer'[w].asked => Progress(w, r)'
    BY <1>2, <2>2 DEF Compare, Progress, At
  <2>4. Steady' /\ Apart' /\ BytesFirst'
    BY <1>2, <2>1, <2>2, <2>3, OwnPath DEF Compare, WriteInv, BytesFirst
  <2> QED BY <1>0, <1>2, <2>4, ReadersRest DEF Compare, WriteInv, Immutable
<1>3. ASSUME NEW w \in Writers, CompareSidecar(w) PROVE WriteInv'
  <2>1. PICK r \in References : /\ r \in writer[w].asked /\ At(w, "sidecar") /\ Rests(w)
                               /\ \/ acked' = acked \cup {r} /\ sidecar[r.path] = r.stamp
                                  \/ acked' = acked
    BY <1>0, <1>3, AskedType DEF CompareSidecar, Accepted
  <2>2. r.path \notin raced => object[r.path] = "whole"
    BY <2>1 DEF WriteInv, Steady, Progress
  <2>3. Immutable'
    BY <1>3, <2>1, <2>2 DEF CompareSidecar, WriteInv, Immutable
  <2>4. /\ \A v \in Writers : v # w => writer'[v] = writer[v]
        /\ writer'[w].asked = {}
    BY <1>0, <2>1, Stops
  <2>5. Steady' /\ Apart' /\ BytesFirst'
    BY <1>3, <2>1, <2>4, OwnPath DEF CompareSidecar, WriteInv, BytesFirst
  <2> QED BY <1>0, <1>3, <2>3, <2>5, ReadersRest DEF CompareSidecar, WriteInv
<1>4. ASSUME NEW w \in Writers, OpenObject(w) PROVE WriteInv'
  <2>1. PICK r \in References :
          /\ r \in writer[w].asked /\ At(w, "write") /\ Goes(w, "fill", r)
          /\ object' = [object EXCEPT ![r.path] = "partial"]
    BY <1>0, <1>4, AskedType DEF OpenObject
  <2>2. r.path \notin raced => object[r.path] = "absent" /\ sidecar[r.path] = "absent"
    BY <2>1 DEF WriteInv, Steady, Progress, BytesFirst
  <2>3. /\ \A v \in Writers : v # w => writer'[v] = writer[v]
        /\ writer'[w] = [at |-> "fill", asked |-> {r}] /\ object'[r.path] = "partial"
        /\ \A p \in Paths : p # r.path => object'[p] = object[p]
    BY <1>0, <2>1 DEF Goes, TypeOK
  <2>4. Immutable'
    BY <1>4, <2>2, <2>3 DEF OpenObject, WriteInv, Immutable, TypeOK
  <2>5. Progress(w, r)'
    BY <2>3 DEF Progress, At
  <2>6. Steady' /\ Apart' /\ BytesFirst'
    BY <1>4, <2>1, <2>2, <2>3, <2>5, OwnPath DEF OpenObject
  <2> QED BY <1>0, <1>4, <2>4, <2>6, ReadersRest DEF OpenObject, WriteInv
<1>5. ASSUME NEW w \in Writers, FillObject(w) PROVE WriteInv'
  <2>1. PICK r \in References :
          /\ r \in writer[w].asked /\ At(w, "fill") /\ Goes(w, "describe", r)
          /\ object' = [object EXCEPT ![r.path] = "whole"]
    BY <1>0, <1>5, AskedType DEF FillObject
  <2>2. r.path \notin raced => object[r.path] = "partial" /\ sidecar[r.path] = "absent"
    BY <2>1 DEF WriteInv, Steady, Progress, BytesFirst
  <2>3. /\ \A v \in Writers : v # w => writer'[v] = writer[v]
        /\ writer'[w] = [at |-> "describe", asked |-> {r}] /\ object'[r.path] = "whole"
        /\ \A p \in Paths : p # r.path => object'[p] = object[p]
    BY <1>0, <2>1 DEF Goes, TypeOK
  <2>4. Immutable'
    BY <1>5, <2>2, <2>3 DEF FillObject, WriteInv, Immutable, TypeOK
  <2>5. r.path \notin raced => Progress(w, r)'
    BY <1>5, <2>2, <2>3 DEF FillObject, Progress, At
  <2>6. Steady' /\ Apart' /\ BytesFirst'
    BY <1>5, <2>1, <2>3, <2>5, OwnPath DEF FillObject
  <2> QED BY <1>0, <1>5, <2>4, <2>6, ReadersRest DEF FillObject, WriteInv
<1>6. ASSUME NEW w \in Writers, OpenSidecar(w) PROVE WriteInv'
  <2>1. PICK r \in References :
          /\ r \in writer[w].asked /\ At(w, "describe") /\ Goes(w, "sign", r)
          /\ sidecar' = [sidecar EXCEPT ![r.path] = "torn"]
    BY <1>0, <1>6, AskedType DEF OpenSidecar
  <2>2. r.path \notin raced => object[r.path] = "whole" /\ sidecar[r.path] = "absent"
    BY <2>1 DEF WriteInv, Steady, Progress
  <2>3. /\ \A v \in Writers : v # w => writer'[v] = writer[v]
        /\ writer'[w] = [at |-> "sign", asked |-> {r}] /\ sidecar'[r.path] = "torn"
        /\ \A p \in Paths : p # r.path => sidecar'[p] = sidecar[p]
    BY <1>0, <2>1 DEF Goes, TypeOK
  <2>4. Immutable'
    <3>1. \A q \in acked : q.path \notin raced => q.path # r.path
      BY <2>2 DEF WriteInv, Immutable, TypeOK
    <3> QED BY <1>0, <1>6, <2>3, <3>1 DEF OpenSidecar, WriteInv, Immutable, TypeOK
  <2>5. r.path \notin raced => Progress(w, r)'
    BY <1>6, <2>2, <2>3 DEF OpenSidecar, Progress, At
  <2>6. Steady' /\ Apart' /\ BytesFirst'
    BY <1>6, <2>1, <2>2, <2>3, <2>5, OwnPath DEF OpenSidecar
  <2> QED BY <1>0, <1>6, <2>4, <2>6, ReadersRest DEF OpenSidecar, WriteInv
<1>7. ASSUME NEW w \in Writers, FillSidecar(w) PROVE WriteInv'
  <2>1. PICK r \in References :
          /\ r \in writer[w].asked /\ At(w, "sign") /\ Goes(w, "return", r)
          /\ \E s \in {r.stamp, "torn"} : sidecar' = [sidecar EXCEPT ![r.path] = s]
          /\ sidecar[r.path] = "torn" => sidecar' = [sidecar EXCEPT ![r.path] = r.stamp]
    BY <1>0, <1>7, AskedType DEF FillSidecar
  <2>2. r.path \notin raced => object[r.path] = "whole" /\ sidecar[r.path] = "torn"
    BY <2>1 DEF WriteInv, Steady, Progress
  <2>3. /\ \A v \in Writers : v # w => writer'[v] = writer[v]
        /\ writer'[w] = [at |-> "return", asked |-> {r}]
        /\ r.path \notin raced => sidecar'[r.path] = r.stamp
        /\ \A p \in Paths : p # r.path => sidecar'[p] = sidecar[p]
    BY <1>0, <2>1, <2>2 DEF Goes, TypeOK
  <2>4. Immutable'
    <3>1. \A q \in acked : q.path \notin raced => q.path # r.path
      BY <2>2 DEF WriteInv, Immutable, TypeOK, References
    <3> QED BY <1>0, <1>7, <2>3, <3>1 DEF FillSidecar, WriteInv, Immutable, TypeOK
  <2>5. r.path \notin raced => Progress(w, r)'
    BY <1>7, <2>2, <2>3 DEF FillSidecar, Progress, At
  <2>6. Steady' /\ Apart' /\ BytesFirst'
    BY <1>7, <2>1, <2>2, <2>3, <2>5, OwnPath DEF FillSidecar
  <2> QED BY <1>0, <1>7, <2>4, <2>6, ReadersRest DEF FillSidecar, WriteInv
<1>8. ASSUME NEW w \in Writers, Return(w) PROVE WriteInv'
  <2>1. PICK r \in References : /\ r \in writer[w].asked /\ At(w, "return") /\ Rests(w)
                               /\ acked' = acked \cup {r}
    BY <1>0, <1>8, AskedType DEF Return
  <2>2. r.path \notin raced => object[r.path] = "whole" /\ sidecar[r.path] = r.stamp
    BY <2>1 DEF WriteInv, Steady, Progress
  <2>3. /\ \A v \in Writers : v # w => writer'[v] = writer[v]
        /\ writer'[w].asked = {}
    BY <1>0, <2>1, Stops
  <2>4. Immutable'
    BY <1>8, <2>1, <2>2 DEF Return, WriteInv, Immutable
  <2>5. Steady' /\ Apart' /\ BytesFirst'
    BY <1>8, <2>1, <2>3, OwnPath DEF Return, WriteInv, BytesFirst
  <2> QED BY <1>0, <1>8, <2>4, <2>5, ReadersRest DEF Return, WriteInv
<1>9. ASSUME NEW w \in Writers, Crash(w) PROVE WriteInv'
  <2>1. PICK r \in References : r \in writer[w].asked
    BY <1>0, <1>9 DEF Crash, TypeOK
  <2>2. /\ \A v \in Writers : v # w => writer'[v] = writer[v]
        /\ writer'[w].asked = {}
    BY <1>0, <1>9, Stops DEF Crash
  <2>3. Steady' /\ Apart' /\ BytesFirst'
    BY <1>9, <2>1, <2>2, OwnPath DEF Crash, WriteInv, BytesFirst
  <2> QED BY <1>0, <1>9, <2>3, ReadersRest DEF Crash, WriteInv, Immutable
<1>10. ASSUME NEW n \in Readers, NEW r \in acked, ReadBytes(n, r) PROVE WriteInv'
  <2>1. r.path \notin raced => object[r.path] = "whole"
    BY DEF WriteInv, Immutable
  <2>2. Taken'
    BY <1>0, <1>10, <2>1 DEF ReadBytes, WriteInv, Taken, TypeOK
  <2> QED BY <1>0, <1>10, <2>2
       DEF ReadBytes, WriteInv, Immutable, ReadsVerified, Steady, Apart, BytesFirst, Progress, At
<1>11. ASSUME NEW n \in Readers, VerifyBytes(n) PROVE WriteInv'
  <2>1. Taken'
    BY <1>0, <1>11 DEF VerifyBytes, WriteInv, Taken, TypeOK
  <2>2. ReadsVerified'
    BY <1>11 DEF VerifyBytes, WriteInv, Taken, ReadsVerified
  <2> QED BY <1>0, <1>11, <2>1, <2>2
       DEF VerifyBytes, WriteInv, Immutable, Steady, Apart, BytesFirst, Progress, At
<1>12. CASE UNCHANGED vars
  BY <1>0, <1>12 DEF vars, WriteInv, Immutable, Taken, ReadsVerified, Steady, Apart, BytesFirst,
                     Progress, At
<1> QED BY <1>1, <1>2, <1>3, <1>4, <1>5, <1>6, <1>7, <1>8, <1>9, <1>10, <1>11, <1>12 DEF Next

LEMMA WriteInvariant == Spec => []WriteInv
BY WriteInit, WriteStep, PTL DEF Spec

\* A payload that was returned stays on disk, whole and described by the
\* reference returned, through any crash and beside any other processes, as
\* long as no two calls of persist for its path overlap.
THEOREM ReturnedImmutable == Spec => []Immutable
<1>1. WriteInv => Immutable
  BY DEF WriteInv
<1> QED BY WriteInvariant, <1>1, PTL

\* Under the same condition a sidecar that can be read stands beside the
\* whole bytes it describes, wherever a crash fell between the two writes.
THEOREM Lineage == Spec => []SidecarVouches
<1>1. WriteInv => SidecarVouches
  BY TokensAssumption DEF WriteInv, BytesFirst, SidecarVouches
<1> QED BY WriteInvariant, <1>1, PTL

\* Under the same condition the bytes read returns are those it verified,
\* although it opens the file twice.
THEOREM VerifiedReads == Spec => []ReadsVerified
<1>1. WriteInv => ReadsVerified
  BY DEF WriteInv
<1> QED BY WriteInvariant, <1>1, PTL
=============================================================================
