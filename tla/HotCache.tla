------------------------------ MODULE HotCache ------------------------------
(***************************************************************************)
(* player/hot_cache.go: the memory cache in front of the disk cache.  It   *)
(* keeps parsed descriptors and decrypted chunks, bounded by a number of   *)
(* entries, and merges concurrent misses of one hash into one flight       *)
(* (golang.org/x/sync/singleflight): the first reader fetches, the others  *)
(* wait for what it gets, blob or error.                                   *)
(*                                                                         *)
(* pc of a reader: idle -> lookup -> (done | missed); missed -> (waiting | *)
(* disk); disk ... fetched are the steps of DecryptedCache, taken by the   *)
(* leader of a flight; fetched -> landing -> done, with an error straight  *)
(* from fetched to done.  A type assertion that fails is "panicked": that  *)
(* of an http request is recovered from, that of a prefetching goroutine   *)
(* ends the process.                                                       *)
(***************************************************************************)
EXTENDS DecryptedCache, FiniteSets, Integers

CONSTANT Capacity  \* int(maxSizeInBytes / stream.MaxBlobSize) entries

\* gcache refuses to build an ARC cache of size 0.
ASSUME CapacityAssumption == Capacity \in Nat \ {0}

VARIABLES
    cache,  \* cache[h]: the entry under h, or None
    flight  \* flight[h]: the leader of the flight for h, or None

vars == <<disk, pc, req, got, cache, flight>>

Entries == {h \in Hashes : cache[h] # None}

\* The readers that wait for the flight of h.
Waiters(h) == {r \in Readers : pc[r] = "waiting" /\ req[r].hash = h}

-----------------------------------------------------------------------------
Init ==
    /\ disk = [h \in Hashes |-> None]
    /\ pc = [r \in Readers |-> "idle"]
    /\ req = [r \in Readers |-> None]
    /\ got = [r \in Readers |-> Nothing]
    /\ cache = [h \in Hashes |-> None]
    /\ flight = [h \in Hashes |-> None]

\* PrepareForReading asks for the sd hash of a claim, every other caller for
\* the hashes that a descriptor lists, with the keys that it lists.
Call(r, q) ==
    /\ pc[r] = "idle"
    /\ req' = [req EXCEPT ![r] = q]
    /\ pc' = [pc EXCEPT ![r] = "lookup"]
    /\ UNCHANGED <<disk, got, cache, flight>>

\* cached.(sizedSD) and item.(sizedSlice) panic on an entry of the other kind.
Hit(r) ==
    /\ pc[r] = "lookup"
    /\ cache[req[r].hash] # None
    /\ IF cache[req[r].hash].form = FormOf(req[r])
       THEN /\ got' = [got EXCEPT ![r] = Holding(cache[req[r].hash])]
            /\ pc' = [pc EXCEPT ![r] = "done"]
       ELSE /\ pc' = [pc EXCEPT ![r] = "panicked"]
            /\ UNCHANGED got
    /\ UNCHANGED <<disk, req, cache, flight>>

\* The miss is only acted upon later, in Lead or Join: by then the entry may
\* be there, and nobody looks again.
Miss(r) ==
    /\ pc[r] = "lookup"
    /\ cache[req[r].hash] = None
    /\ pc' = [pc EXCEPT ![r] = "missed"]
    /\ UNCHANGED <<disk, req, got, cache, flight>>

\* Mutants: nobody looks whether there is a flight; key and value are mixed up.
LeadUnguarded(r) ==
    /\ pc[r] = "missed"
    /\ flight' = [flight EXCEPT ![req[r].hash] = r]
    /\ pc' = [pc EXCEPT ![r] = "disk"]
    /\ UNCHANGED <<disk, req, got, cache>>

LeadSwapped(r) ==
    /\ pc[r] = "missed"
    /\ flight[req[r].hash] = None
    /\ flight' = [flight EXCEPT ![req[r].hash] = req[r].hash]
    /\ pc' = [pc EXCEPT ![r] = "disk"]
    /\ UNCHANGED <<disk, req, got, cache>>

Lead(r) ==
    /\ pc[r] = "missed"
    /\ flight[req[r].hash] = None
    /\ flight' = [flight EXCEPT ![req[r].hash] = r]
    /\ pc' = [pc EXCEPT ![r] = "disk"]
    /\ UNCHANGED <<disk, req, got, cache>>

Join(r) ==
    /\ pc[r] = "missed"
    /\ flight[req[r].hash] # None
    /\ pc' = [pc EXCEPT ![r] = "waiting"]
    /\ UNCHANGED <<disk, req, got, cache, flight>>

Origin(r) == OriginStep(r) /\ UNCHANGED <<cache, flight>>

\* Mutant of MakeRoom: the cache grows.
NothingEvicted(h) == {cache}

\* cache.Set: another entry makes room when the cache is full.  Which one is
\* the ARC policy's choice (external).
MakeRoom(h) ==
    IF h \in Entries \/ Cardinality(Entries) < Capacity
    THEN {cache}
    ELSE {[cache EXCEPT ![g] = None] : g \in Entries}

Fill(r) ==
    /\ pc[r] = "fetched"
    /\ got[r].err = "none"
    /\ \E c \in MakeRoom(req[r].hash) :
            cache' = [c EXCEPT ![req[r].hash] = got[r].blob]
    /\ pc' = [pc EXCEPT ![r] = "landing"]
    /\ UNCHANGED <<disk, req, got, flight>>

\* How a reader leaves Do with the flight's outcome: blob.(*stream.SDBlob) and
\* chunk.(ReadableChunk) panic on the other kind of blob.  They do so outside of
\* the flight.
Leaves(q, o) ==
    IF o.err = "none" /\ o.blob.form # FormOf(q) THEN "panicked" ELSE "done"

\* The flight's function has returned: after cache.Set, or with an error,
\* which leaves it before cache.Set.
Finished(r) ==
    \/ pc[r] = "landing"
    \/ pc[r] = "fetched" /\ got[r].err # "none"

\* Mutants: every waiting reader gets the outcome; the flight stays on the
\* books; the waiting readers are forgotten.
LandWakesAll(r) ==
    LET S == {s \in Readers : pc[s] = "waiting"} \cup {r}
    IN  /\ Finished(r)
        /\ flight' = [flight EXCEPT ![req[r].hash] = None]
        /\ got' = [s \in Readers |-> IF s \in S THEN got[r] ELSE got[s]]
        /\ pc' = [s \in Readers |-> IF s \in S THEN Leaves(req[s], got[r]) ELSE pc[s]]
        /\ UNCHANGED <<disk, req, cache>>

LandKeepsFlight(r) ==
    LET S == Waiters(req[r].hash) \cup {r}
    IN  /\ Finished(r)
        /\ got' = [s \in Readers |-> IF s \in S THEN got[r] ELSE got[s]]
        /\ pc' = [s \in Readers |-> IF s \in S THEN Leaves(req[s], got[r]) ELSE pc[s]]
        /\ UNCHANGED <<disk, req, cache, flight>>

LandAlone(r) ==
    /\ Finished(r)
    /\ flight' = [flight EXCEPT ![req[r].hash] = None]
    /\ pc' = [pc EXCEPT ![r] = Leaves(req[r], got[r])]
    /\ UNCHANGED <<disk, req, got, cache>>

\* The flight is removed and every reader that waits for it gets its outcome,
\* under one lock of singleflight.
Land(r) ==
    LET h == req[r].hash
        S == Waiters(h) \cup {r}
    IN  /\ Finished(r)
        /\ flight' = [flight EXCEPT ![h] = None]
        /\ got' = [s \in Readers |-> IF s \in S THEN got[r] ELSE got[s]]
        /\ pc' = [s \in Readers |-> IF s \in S THEN Leaves(req[s], got[r]) ELSE pc[s]]
        /\ UNCHANGED <<disk, req, cache>>

\* Reader r is through with its look-up.
Leave(r) ==
    /\ pc' = [pc EXCEPT ![r] = "idle"]
    /\ req' = [req EXCEPT ![r] = None]
    /\ got' = [got EXCEPT ![r] = Nothing]
    /\ UNCHANGED <<disk, cache, flight>>

\* The caller takes the blob or the error.
Return(r) == pc[r] = "done" /\ Leave(r)

\* The process is killed and started again: memory is lost, the disk is kept.
Restart ==
    /\ pc' = [r \in Readers |-> "idle"]
    /\ req' = [r \in Readers |-> None]
    /\ got' = [r \in Readers |-> Nothing]
    /\ cache' = [h \in Hashes |-> None]
    /\ flight' = [h \in Hashes |-> None]
    /\ UNCHANGED disk

\* A panic: nice.Recovery answers an http request, nothing recovers from that
\* of a prefetching goroutine.
Panic(r) == pc[r] = "panicked" /\ (Leave(r) \/ Restart)

Cleanup(h) == SelfCleanup(h) /\ UNCHANGED <<cache, flight>>

\* What a goroutine does once it has asked, until it has its answer.
Step(r) ==
    \/ Hit(r)
    \/ Miss(r)
    \/ Lead(r)
    \/ Join(r)
    \/ Origin(r)
    \/ Fill(r)
    \/ Land(r)
    \/ Return(r)
    \/ Panic(r)

Next ==
    \/ \E r \in Readers : Step(r)
    \/ \E r \in Readers, q \in Named : Call(r, q)
    \/ \E h \in Hashes : Cleanup(h)
    \/ Restart

Spec == Init /\ [][Next]_vars

\* Goroutines are scheduled, and an upstream fetch ends, with a blob or with
\* an error: the clients main.go builds have time-outs.  Nothing forces calls,
\* clean-ups or restarts.
FairSpec == Spec /\ \A r \in Readers : WF_vars(Step(r))

-----------------------------------------------------------------------------
FetchPcs == {"disk", "upstream", "save", "fetched"}
LeaderPcs == FetchPcs \cup {"landing"}
Pcs == {"idle", "lookup", "missed", "waiting", "done", "panicked"} \cup LeaderPcs

TypeOK ==
    /\ disk \in [Hashes -> Bytes \cup {None}]
    /\ pc \in [Readers -> Pcs]
    /\ req \in [Readers -> Named \cup {None}]
    /\ got \in [Readers -> Outcomes]
    /\ cache \in [Hashes -> Blobs \cup {None}]
    /\ flight \in [Hashes -> Readers \cup {None}]

\* What requests that are made may leave under h: on disk, bytes as one of them
\* fetched them; in memory these bytes, if h is asked for as a chunk, and the
\* descriptor they parse as, if it is asked for as one.
OnDisk ==
    [h \in Hashes |->
        {b \in Available : b.of = h /\ [hash |-> h, extra |-> b.extra] \in Named}]
Asked(h, form) == \E q \in Named : q.hash = h /\ FormOf(q) = form
InMemory ==
    [h \in Hashes |->
        {b \in OnDisk[h] : Asked(h, "bytes")}
          \cup {[b EXCEPT !.form = "sd"] : b \in {c \in OnDisk[h] \cap Parsing : Asked(h, "sd")}}]

\* The answers to a request: one only, unless its hash is asked for in several
\* ways.
Answers == [q \in Named |-> {b \in InMemory[q.hash] : b.form = FormOf(q)}]

\* A type assertion fails for who asks for a hash that is asked for as both
\* kinds, descriptor and chunk, and for nobody else, whatever the interleaving
\* of misses, flights, evictions, clean-ups and restarts.
PanicsNeedBothKinds ==
    \A r \in Readers :
        pc[r] = "panicked" => Asked(req[r].hash, "sd") /\ Asked(req[r].hash, "bytes")

\* Whoever gets a blob gets one of the hash it asked for, in the form that it
\* expects, and as somebody asks for that hash; so if all bring one key the blob
\* is what this key decrypts.
RightAnswers ==
    \A r \in Readers :
        pc[r] = "done" /\ got[r].err = "none" => got[r].blob \in Answers[req[r]]

\* At any time at most one goroutine fetches a given hash from the disk or
\* from upstream.
SingleFlight ==
    \A r, s \in Readers :
        pc[r] \in FetchPcs /\ pc[s] \in FetchPcs /\ req[r].hash = req[s].hash => r = s

\* Who waits, waits for a goroutine that is fetching just that hash: nobody is
\* left behind by a flight that ended.
NobodyStranded ==
    \A r \in Readers :
        pc[r] = "waiting" =>
            \E s \in Readers : pc[s] \in LeaderPcs /\ req[s].hash = req[r].hash

\* Both tiers hold, under a hash, nothing but what was asked for under it: on disk
\* what upstream gave, in memory what has come through a getter without error.
TiersRight ==
    \A h \in Hashes :
        /\ disk[h] # None => disk[h] \in OnDisk[h]
        /\ cache[h] # None => cache[h] \in InMemory[h]

\* The memory cache never grows past its bound.
WithinCapacity == Cardinality(Entries) <= Capacity

\* Every look-up ends.
LookupEnds == \A r \in Readers : pc[r] = "lookup" ~> pc[r] = "idle"

-----------------------------------------------------------------------------
\* The inductive invariant behind the properties above (HotCacheProofs.tla).
\* A request is kept until it is answered.
ReqRight == \A r \in Readers : pc[r] = "idle" <=> req[r] = None

\* flight[h] is the one reader that leads h, and whoever waits has a leader.
FlightRight ==
    /\ \A h \in Hashes : flight[h] # None =>
            pc[flight[h]] \in LeaderPcs /\ req[flight[h]].hash = h
    /\ \A r \in Readers : pc[r] \in LeaderPcs => flight[req[r].hash] = r
    /\ \A r \in Readers : pc[r] = "waiting" => flight[req[r].hash] # None

\* What a reader has in hand, at every stage of its look-up.
InHandRight ==
    \A r \in Readers :
        /\ pc[r] = "save" => got[r] = Holding(Fetched(req[r])) /\ Fetched(req[r]) \in Available
        /\ pc[r] = "landing" => got[r].err = "none"
        /\ pc[r] \in {"fetched", "landing", "done"} /\ got[r].err = "none" =>
              got[r].blob \in Answers[req[r]]

Inv ==
    /\ TypeOK
    /\ ReqRight
    /\ FlightRight
    /\ TiersRight
    /\ InHandRight
    /\ PanicsNeedBothKinds

\* The bound of the memory cache, for entries that are finitely many.
RoomRight == IsFiniteSet(Entries) /\ WithinCapacity

-----------------------------------------------------------------------------
\* What the cache promises, as a specification of its own: the readers see one
\* step where a flight lands, and a failure where the leader gets its error.
Answered ==
    [r \in Readers |-> IF pc[r] = "done" /\ got[r].err = "none" THEN got[r].blob ELSE None]
Refused == {r \in Readers : pc[r] = "panicked" \/ (pc[r] = "done" /\ got[r].err # "none")}
Failing == {req[r].hash : r \in {s \in Readers : pc[s] = "fetched" /\ got[s].err # "none"}}

Promise == INSTANCE BlobService WITH
    Requests <- Named,
    AnswersTo <- Answers,
    Contents <- InMemory,
    want <- req, answer <- Answered, refused <- Refused, failing <- Failing

\* HotCache over DecryptedCache implements BlobService.
Service == Promise!Spec
=============================================================================
