----------------------------- MODULE BronzeStore -----------------------------
(***************************************************************************)
(* storage/bronze.py: FilesystemBronzePayloadStore, used by ingestion      *)
(* processes (Writers) and by consumers of raw payloads (Readers).         *)
(*                                                                         *)
(* The path of an object ends with the hash of its bytes, so a path        *)
(* determines the payload: on disk an object is absent, partial (opened    *)
(* for writing, not yet whole) or whole.  Two requests for one path may    *)
(* differ in fetched_at or content type; a reference is a path with such a *)
(* stamp; the sidecar holds its path's reference, or is absent or torn.    *)
(***************************************************************************)
EXTENDS Naturals

CONSTANTS
  Writers, Readers,
  Paths,            \* source/venue/date/hash.suffix
  Stamps,           \* what references to one path differ in
  MaxCrashes,       \* bound on process deaths
  MaxCalls          \* bound on calls of persist

ASSUME BoundsAssumption == MaxCrashes \in Nat /\ MaxCalls \in Nat

References == [path : Paths, stamp : Stamps]
ASSUME TokensAssumption == {"absent", "torn"} \cap Stamps = {}

VARIABLES
  object,    \* path -> "absent", "partial" or "whole"
  sidecar,   \* path -> "absent", "torn" or the stamp of its reference
  writer,    \* writer -> [at, asked]: how far its persist has come
  reader,    \* reader -> [at, asked, bytes]: how far its read has come
  acked,     \* references persist has returned
  refused,   \* [asked, why] of the calls of persist that raised
  delivered, \* [asked, bytes] of the calls of read that returned
  raced,     \* history: paths for which two calls of persist overlapped
  calls, crashes

disk   == <<object, sidecar>>
counts == <<raced, calls, crashes>>
vars   == <<object, sidecar, writer, reader, acked, refused, delivered, raced, calls, crashes>>

Init ==
  /\ object = [p \in Paths |-> "absent"]
  /\ sidecar = [p \in Paths |-> "absent"]
  /\ writer = [w \in Writers |-> [at |-> "idle", asked |-> {}]]
  /\ reader = [n \in Readers |-> [at |-> "idle", asked |-> {}, bytes |-> "absent"]]
  /\ acked = {} /\ refused = {} /\ delivered = {}
  /\ raced = {} /\ calls = 0 /\ crashes = 0

Idle == [at |-> "idle", asked |-> {}]
At(w, place) == writer[w].at = place
Goes(w, place, r) == writer' = [writer EXCEPT ![w] = [at |-> place, asked |-> {r}]]
Rests(w) == writer' = [writer EXCEPT ![w] = Idle]
-----------------------------------------------------------------------------
\* object_path.exists(): where the call goes on.
Looked(there) == IF there = "absent" THEN "write" ELSE "compare"

\* Some other call of persist is under way for this path.
Overlaps(w, p) == \E v \in Writers \ {w} : \E q \in writer[v].asked : q.path = p

Persist(w, r) ==
  /\ At(w, "idle") /\ calls < MaxCalls
  /\ calls' = calls + 1
  /\ raced' = raced \cup {p \in {r.path} : Overlaps(w, p)}
  /\ Goes(w, Looked(object[r.path]), r)
  /\ UNCHANGED <<disk, reader, acked, refused, delivered, crashes>>

\* The existing bytes, against the payload.
Compare(w) ==
  \E r \in writer[w].asked :
    /\ At(w, "compare")
    /\ IF object[r.path] = "whole"
       THEN Goes(w, "sidecar", r) /\ UNCHANGED refused
       ELSE Rests(w) /\ refused' = refused \cup {[asked |-> r, why |-> "bytes"]}
    /\ UNCHANGED <<disk, reader, acked, delivered, counts>>

\* A slip: metadata that differs is accepted.
AcceptedAnyStamp(side, r) == side \notin {"absent", "torn"}

\* existing_reference == reference
Accepted(side, r) == side = r.stamp

\* _read_sidecar: a missing file and a torn one raise.
CompareSidecar(w) ==
  \E r \in writer[w].asked :
    /\ At(w, "sidecar")
    /\ Rests(w)
    /\ IF Accepted(sidecar[r.path], r)
       THEN acked' = acked \cup {r} /\ UNCHANGED refused
       ELSE /\ refused' = refused \cup
                 {[asked |-> r,
                   why |-> IF sidecar[r.path] \in {"absent", "torn"} THEN sidecar[r.path]
                           ELSE "metadata"]}
            /\ UNCHANGED acked
    /\ UNCHANGED <<disk, reader, delivered, counts>>

\* A slip: the sidecar first.
OpenObjectLast(w) ==
  \E r \in writer[w].asked :
    /\ At(w, "write") /\ Goes(w, "fill", r)
    /\ object' = [object EXCEPT ![r.path] = "partial"]
    /\ sidecar' = [sidecar EXCEPT ![r.path] = r.stamp]
    /\ UNCHANGED <<reader, acked, refused, delivered, counts>>

\* write_bytes: the open empties the file, then one write fills it.
OpenObject(w) ==
  \E r \in writer[w].asked :
    /\ At(w, "write") /\ Goes(w, "fill", r)
    /\ object' = [object EXCEPT ![r.path] = "partial"]
    /\ UNCHANGED <<sidecar, reader, acked, refused, delivered, counts>>

FillObject(w) ==
  \E r \in writer[w].asked :
    /\ At(w, "fill") /\ Goes(w, "describe", r)
    /\ object' = [object EXCEPT ![r.path] = "whole"]
    /\ UNCHANGED <<sidecar, reader, acked, refused, delivered, counts>>

\* _write_sidecar: likewise.
OpenSidecar(w) ==
  \E r \in writer[w].asked :
    /\ At(w, "describe") /\ Goes(w, "sign", r)
    /\ sidecar' = [sidecar EXCEPT ![r.path] = "torn"]
    /\ UNCHANGED <<object, reader, acked, refused, delivered, counts>>

\* Over another writer's longer text the tail of that text stays.
FillSidecar(w) ==
  \E r \in writer[w].asked :
    /\ At(w, "sign") /\ Goes(w, "return", r)
    /\ \/ sidecar' = [sidecar EXCEPT ![r.path] = r.stamp]
       \/ /\ sidecar[r.path] \notin {"torn", r.stamp}
          /\ sidecar' = [sidecar EXCEPT ![r.path] = "torn"]
    /\ UNCHANGED <<object, reader, acked, refused, delivered, counts>>

Return(w) ==
  \E r \in writer[w].asked :
    /\ At(w, "return") /\ Rests(w)
    /\ acked' = acked \cup {r}
    /\ UNCHANGED <<disk, reader, refused, delivered, counts>>

\* The process dies in the middle of persist; the files stay as they are.
Crash(w) ==
  /\ ~ At(w, "idle") /\ crashes < MaxCrashes
  /\ crashes' = crashes + 1
  /\ Rests(w)
  /\ UNCHANGED <<disk, reader, acked, refused, delivered, raced, calls>>
-----------------------------------------------------------------------------
\* A slip: one read call, which may come back short.
ReadBytesShort(n, r) ==
  /\ reader[n].at = "idle"
  /\ reader' = [reader EXCEPT ![n] = [at |-> "verify", asked |-> {r}, bytes |-> "partial"]]
  /\ UNCHANGED <<disk, writer, acked, refused, delivered, counts>>

\* read: the bytes first, and then verify, which opens the file again.
ReadBytes(n, r) ==
  /\ reader[n].at = "idle"
  /\ reader' = [reader EXCEPT ![n] = [at |-> "verify", asked |-> {r}, bytes |-> object[r.path]]]
  /\ UNCHANGED <<disk, writer, acked, refused, delivered, counts>>

\* A slip: what a read has taken stays behind for the next one.
VerifyBytesForgotten(n) ==
  \E r \in reader[n].asked :
    /\ reader[n].at = "verify"
    /\ reader' = [reader EXCEPT ![n].at = "idle"]
    /\ delivered' = IF object[r.path] = "whole"
                    THEN delivered \cup {[asked |-> r, bytes |-> reader[n].bytes]}
                    ELSE delivered
    /\ UNCHANGED <<disk, writer, acked, refused, counts>>

\* Bytes that do not verify raise, as does a file that is not there.
VerifyBytes(n) ==
  \E r \in reader[n].asked :
    /\ reader[n].at = "verify"
    /\ reader' = [reader EXCEPT ![n] = [at |-> "idle", asked |-> {}, bytes |-> "absent"]]
    /\ delivered' = IF object[r.path] = "whole"
                    THEN delivered \cup {[asked |-> r, bytes |-> reader[n].bytes]}
                    ELSE delivered
    /\ UNCHANGED <<disk, writer, acked, refused, counts>>

Next ==
  \/ \E w \in Writers :
       \/ \E r \in References : Persist(w, r)
       \/ Compare(w) \/ CompareSidecar(w)
       \/ OpenObject(w) \/ FillObject(w) \/ OpenSidecar(w) \/ FillSidecar(w) \/ Return(w)
       \/ Crash(w)
  \/ \E n \in Readers : (\E r \in acked : ReadBytes(n, r)) \/ VerifyBytes(n)

Spec == Init /\ [][Next]_vars
-----------------------------------------------------------------------------
Places == {"idle", "compare", "sidecar", "write", "fill", "describe", "sign", "return"}
ObjectStates == {"absent", "partial", "whole"}

\* Types; a reader only verifies what a persist returned.
TypeOK ==
  /\ object \in [Paths -> ObjectStates]
  /\ sidecar \in [Paths -> {"absent", "torn"} \cup Stamps]
  /\ writer \in [Writers -> [at : Places, asked : SUBSET References]]
  /\ \A w \in Writers : At(w, "idle") \/ \E r \in References : writer[w].asked = {r}
  /\ reader \in [Readers -> [at : {"idle", "verify"}, asked : SUBSET acked, bytes : ObjectStates]]
  /\ \A n \in Readers : reader[n].at = "idle" => reader[n].asked = {}
  /\ acked \subseteq References
  /\ refused \subseteq [asked : References, why : {"bytes", "absent", "torn", "metadata"}]
  /\ delivered \subseteq [asked : acked, bytes : ObjectStates]
  /\ raced \subseteq Paths

\* TFR-002 and the Bronze row, "immutable append-only": what persist returned
\* a reference to stays on disk, whole, and described by that reference,
\* unless two calls of persist for its path overlapped.
Immutable ==
  \A r \in acked : r.path \notin raced => object[r.path] = "whole" /\ sidecar[r.path] = r.stamp

\* A sidecar that can be read stands beside whole bytes, whatever crashed:
\* lineage never vouches for a half-written payload.
SidecarVouches ==
  \A p \in Paths \ raced : sidecar[p] \in Stamps => object[p] = "whole"

\* read, "verifying the checksum before returning": the bytes it returns are
\* the bytes that were verified, although verify opens the file again.
ReadsVerified == \A d \in delivered : d.asked.path \notin raced => d.bytes = "whole"
=============================================================================
