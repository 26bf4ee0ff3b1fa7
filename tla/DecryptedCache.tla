--------------------------- MODULE DecryptedCache ---------------------------
(***************************************************************************)
(* player/decrypted_cache.go: the disk cache.  It keeps sd blobs as they   *)
(* came from upstream and chunks decrypted, both under the blob's hash,    *)
(* and fetches from the upstream blob store what it lacks.                 *)
(*                                                                         *)
(* The key, the IV and even whether a hash is a descriptor's or a chunk's  *)
(* are what the caller says, from a claim or from a publisher's            *)
(* descriptor.  Nothing compares two callers: one hash may be asked for as *)
(* both, or with several keys, and what is kept is what the first made of  *)
(* it.                                                                     *)
(*                                                                         *)
(* The look-up order of the caching store (disk, then upstream, then save) *)
(* is that of the gody-cdn library, which is external: it is modelled from *)
(* how decrypted_cache.go sets it up and uses it.  A look-up is one        *)
(* goroutine's sequence of steps, so anything may happen between two of    *)
(* them: another look-up, a clean-up of the disk, a crash.                 *)
(***************************************************************************)
CONSTANTS
    Readers,    \* goroutines: http streams and prefetchers
    Hashes,     \* hashes of blobs
    Keys,       \* keys with their IVs, as descriptors list them
    NoKey,      \* the extra argument of GetSDBlob
    Named,      \* the requests that claims and descriptors give rise to
    Available,  \* the bytes that upstream's blobs yield, decrypted or not
    Parsing,    \* the bytes that parse as a descriptor
    None        \* no blob, no request, no reader

Extras == Keys \cup {NoKey}

\* GetSDBlob asks with NoKey, GetChunk with the key of a descriptor.
Requests == [hash : Hashes, extra : Extras]

\* A blob is bytes, or a parsed descriptor: those of hash `of`, decrypted with
\* `extra` or not at all.
Blobs == [form : {"bytes", "sd"}, of : Hashes, extra : Extras]
Bytes == {b \in Blobs : b.form = "bytes"}

\* The errors a look-up can end with; the last three end it without a blob.
\* "decrypt" is what is left of a chunk's upstream error.
Errors == {"none", "malformed", "not_found", "unavailable", "decrypt", "store"}
Outcomes == [err : Errors, blob : Blobs \cup {None}]

ASSUME NamedAssumption == NoKey \notin Keys /\ Named \subseteq Requests
ASSUME BytesAssumption == Available \subseteq Bytes /\ Parsing \subseteq Bytes
ASSUME NoneAssumption == None \notin Blobs \cup Requests \cup Readers

VARIABLES
    disk,  \* disk[h]: the object on disk under h, or None
    pc,    \* pc[r]: where reader r stands in its look-up
    req,   \* req[r]: what it looks up, or None
    got    \* got[r]: what it has in hand

Nothing == [err |-> "none", blob |-> None]
Failed(e) == [err |-> e, blob |-> None]
Holding(b) == [err |-> "none", blob |-> b]

Blob(f, h, e) == [form |-> f, of |-> h, extra |-> e]

\* What a request expects to be given: a *stream.SDBlob or a ReadableChunk.
FormOf(q) == IF q.extra = NoKey THEN "sd" ELSE "bytes"

-----------------------------------------------------------------------------
\* Mutant of Decoded: the error of the parser is dropped.
DecodedUnchecked(q, b) ==
    Holding(IF q.extra # NoKey THEN b ELSE [b EXCEPT !.form = "sd"])

(* What GetSDBlob and GetChunk make of an object of the store.  A chunk is  *)
(* returned as it is found, whoever has put it there; a descriptor is       *)
(* parsed first.                                                            *)
Decoded(q, b) ==
    IF q.extra # NoKey THEN Holding(b)
    ELSE IF b \in Parsing
         THEN Holding([b EXCEPT !.form = "sd"])
         ELSE Failed("malformed")

\* What GetFunc makes of the upstream store's blob: a chunk is decrypted, with
\* the key of this request.
Fetched(q) == Blob("bytes", q.hash, q.extra)

\* GetFunc decrypts before it looks at upstream's error, so for a chunk any
\* upstream error turns into an error of the decryption, as does a wrong key.
UpstreamErrors(q) ==
    IF q.extra # NoKey THEN {"decrypt"}
    ELSE {"unavailable"} \cup (IF Fetched(q) \in Available THEN {} ELSE {"not_found"})

-----------------------------------------------------------------------------
DiskHit(r) ==
    /\ pc[r] = "disk"
    /\ disk[req[r].hash] # None
    /\ got' = [got EXCEPT ![r] = Decoded(req[r], disk[req[r].hash])]
    /\ pc' = [pc EXCEPT ![r] = "fetched"]
    /\ UNCHANGED <<disk, req>>

DiskMiss(r) ==
    /\ pc[r] = "disk"
    /\ disk[req[r].hash] = None
    /\ pc' = [pc EXCEPT ![r] = "upstream"]
    /\ UNCHANGED <<disk, req, got>>

UpstreamOk(r) ==
    /\ pc[r] = "upstream"
    /\ Fetched(req[r]) \in Available
    /\ got' = [got EXCEPT ![r] = Holding(Fetched(req[r]))]
    /\ pc' = [pc EXCEPT ![r] = "save"]
    /\ UNCHANGED <<disk, req>>

UpstreamFail(r) ==
    /\ pc[r] = "upstream"
    /\ \E e \in UpstreamErrors(req[r]) : got' = [got EXCEPT ![r] = Failed(e)]
    /\ pc' = [pc EXCEPT ![r] = "fetched"]
    /\ UNCHANGED <<disk, req>>

\* Mutant of Save: what is written is the blob as it came from upstream.
SaveUndecrypted(r) ==
    /\ pc[r] = "save"
    /\ disk' = [disk EXCEPT ![req[r].hash] = Blob("bytes", req[r].hash, NoKey)]
    /\ got' = [got EXCEPT ![r] = Decoded(req[r], got[r].blob)]
    /\ pc' = [pc EXCEPT ![r] = "fetched"]
    /\ UNCHANGED req

\* The fetched object is written to disk, and only then parsed.
Save(r) ==
    /\ pc[r] = "save"
    /\ disk' = [disk EXCEPT ![req[r].hash] = got[r].blob]
    /\ got' = [got EXCEPT ![r] = Decoded(req[r], got[r].blob)]
    /\ pc' = [pc EXCEPT ![r] = "fetched"]
    /\ UNCHANGED req

\* The object could not be written: the library may answer all the same, or
\* give its own error.
SaveFail(r) ==
    /\ pc[r] = "save"
    /\ \/ got' = [got EXCEPT ![r] = Decoded(req[r], got[r].blob)]
       \/ got' = [got EXCEPT ![r] = Failed("store")]
    /\ pc' = [pc EXCEPT ![r] = "fetched"]
    /\ UNCHANGED <<disk, req>>

OriginStep(r) ==
    \/ DiskHit(r)
    \/ DiskMiss(r)
    \/ UpstreamOk(r)
    \/ UpstreamFail(r)
    \/ Save(r)
    \/ SaveFail(r)

\* cleanup.SelfCleanup, a goroutine of the library, removes objects from the
\* disk whenever it likes.
SelfCleanup(h) ==
    /\ disk[h] # None
    /\ disk' = [disk EXCEPT ![h] = None]
    /\ UNCHANGED <<pc, req, got>>
=============================================================================
