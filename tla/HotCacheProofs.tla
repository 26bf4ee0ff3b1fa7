--------------------------- MODULE HotCacheProofs ---------------------------
(***************************************************************************)
(* Proofs about HotCache, for any number of readers and blobs and any      *)
(* capacity.  The inductive invariant is Inv of HotCache: what a reader    *)
(* has in hand is right because the tiers hold the right thing, the tiers  *)
(* are only written from what a leader has in hand, and a leader is the    *)
(* only one of its hash because flight[h] points back at it.               *)
(***************************************************************************)
EXTENDS HotCache, FiniteSetTheorems, TLAPS

\* The initial state satisfies the invariant.
LEMMA InitInv == Init => Inv
<1>1. Nothing \in Outcomes
  BY DEF Nothing, Outcomes, Errors
<1>2. QED
  BY <1>1 DEF Init, Inv, TypeOK, Pcs, LeaderPcs, FetchPcs, ReqRight, FlightRight,
              TiersRight, InHandRight, PanicsNeedBothKinds

\* Who is on its way has asked for something that is asked for.
LEMMA ReqNamed ==
    ASSUME Inv, NEW r \in Readers, pc[r] # "idle"
    PROVE  /\ req[r] \in Named /\ req[r] \in Requests /\ req[r] # None
           /\ req[r].hash \in Hashes /\ req[r].extra \in Extras
  BY NamedAssumption DEF Inv, TypeOK, ReqRight, Requests

\* What the tiers may hold are blobs, on disk nothing but bytes.
LEMMA OnDiskType ==
    ASSUME NEW h \in Hashes, NEW b \in OnDisk[h]
    PROVE  b \in Available /\ b \in Bytes /\ b \in Blobs /\ b.of = h /\ b.form = "bytes"
  BY BytesAssumption DEF OnDisk, Bytes

LEMMA InMemoryType ==
    ASSUME NEW h \in Hashes, NEW b \in InMemory[h]
    PROVE  b \in Blobs /\ b # None /\ Asked(h, b.form)
<1>1. CASE b \in OnDisk[h] /\ Asked(h, "bytes")
  BY <1>1, OnDiskType, NoneAssumption
<1>2. CASE \E c \in OnDisk[h] \cap Parsing : Asked(h, "sd") /\ b = [c EXCEPT !.form = "sd"]
  <2>1. PICK c \in OnDisk[h] : Asked(h, "sd") /\ b = [c EXCEPT !.form = "sd"]
    BY <1>2
  <2>2. c \in Blobs
    BY OnDiskType
  <2>3. b \in Blobs /\ b.form = "sd"
    BY <2>1, <2>2 DEF Blobs
  <2>4. QED
    BY <2>1, <2>3, NoneAssumption
<1>3. QED
  BY <1>1, <1>2 DEF InMemory

LEMMA AnswersAre ==
    ASSUME NEW q \in Named, NEW b
    PROVE  b \in Answers[q] <=> b \in InMemory[q.hash] /\ b.form = FormOf(q)
  BY DEF Answers

\* Only under a hash that is asked for as both kinds is there something that is
\* no answer to a request.
LEMMA MisfitNeedsBothKinds ==
    ASSUME NEW q \in Named, NEW b \in InMemory[q.hash], b.form # FormOf(q)
    PROVE  Asked(q.hash, "sd") /\ Asked(q.hash, "bytes")
<1>1. q.hash \in Hashes
  BY NamedAssumption DEF Requests
<1>2. Asked(q.hash, b.form) /\ b.form \in {"sd", "bytes"}
  BY <1>1, InMemoryType DEF Blobs
<1>3. Asked(q.hash, FormOf(q)) /\ FormOf(q) \in {"sd", "bytes"}
  BY DEF Asked, FormOf
<1>4. QED
  BY <1>2, <1>3

\* The getters make answers of what the disk holds.
LEMMA DecodedRight ==
    ASSUME NEW q \in Named, NEW b \in OnDisk[q.hash]
    PROVE  LET o == Decoded(q, b)
           IN  o \in Outcomes /\ (o.err = "none" => o.blob \in Answers[q])
<1>1. q.hash \in Hashes /\ Asked(q.hash, FormOf(q))
  BY NamedAssumption DEF Requests, Asked
<1>2. b \in Blobs /\ b.form = "bytes"
  BY <1>1, OnDiskType
<1>3. CASE q.extra # NoKey
  <2>1. b \in InMemory[q.hash] /\ b.form = FormOf(q)
    BY <1>1, <1>2, <1>3 DEF InMemory, FormOf
  <2>2. b \in Answers[q]
    BY <2>1, AnswersAre
  <2>3. QED
    BY <1>2, <1>3, <2>2 DEF Decoded, Holding, Outcomes, Errors
<1>4. CASE q.extra = NoKey /\ b \in Parsing
  <2> DEFINE d == [b EXCEPT !.form = "sd"]
  <2>1. d \in Blobs /\ d.form = "sd"
    BY <1>2 DEF Blobs
  <2>2. d \in InMemory[q.hash]
    BY <1>1, <1>4 DEF InMemory, FormOf
  <2>3. Decoded(q, b) = Holding(d)
    BY <1>4 DEF Decoded
  <2> HIDE DEF d
  <2>4. d \in Answers[q]
    BY <1>4, <2>1, <2>2, AnswersAre DEF FormOf
  <2>5. QED
    BY <2>1, <2>3, <2>4 DEF Holding, Outcomes, Errors
<1>5. CASE q.extra = NoKey /\ b \notin Parsing
  BY <1>5 DEF Decoded, Failed, Outcomes, Errors
<1>6. QED
  BY <1>3, <1>4, <1>5

\* What is fetched from upstream is what the disk may hold.
LEMMA FetchedRight ==
    ASSUME NEW q \in Named, Fetched(q) \in Available
    PROVE  /\ Fetched(q) \in OnDisk[q.hash]
           /\ Fetched(q) \in Bytes
           /\ Holding(Fetched(q)) \in Outcomes /\ Holding(Fetched(q)).blob = Fetched(q)
<1>1. q.hash \in Hashes /\ q = [hash |-> q.hash, extra |-> q.extra]
  BY NamedAssumption DEF Requests
<1>2. Fetched(q).of = q.hash /\ Fetched(q).extra = q.extra
  BY DEF Fetched, Blob
<1>3. Fetched(q) \in OnDisk[q.hash]
  BY <1>1, <1>2 DEF OnDisk
<1>4. Fetched(q) \in Bytes /\ Fetched(q) \in Blobs
  BY <1>1, <1>3, OnDiskType
<1>5. QED
  BY <1>3, <1>4 DEF Holding, Outcomes, Errors

LEMMA UpstreamErrorsAreErrors ==
    ASSUME NEW q, NEW e \in UpstreamErrors(q)
    PROVE  Failed(e) \in Outcomes /\ Failed(e).err # "none"
  BY DEF UpstreamErrors, Failed, Outcomes, Errors

LEMMA CallInv ==
    ASSUME Inv, NEW r \in Readers, NEW q \in Named, Call(r, q)
    PROVE  Inv'
<1>1. q # None
  BY NamedAssumption, NoneAssumption
<1>2. req' = [req EXCEPT ![r] = q] /\ pc' = [pc EXCEPT ![r] = "lookup"]
  BY DEF Call
<1>3. TypeOK'
  BY <1>2 DEF Call, Inv, TypeOK, Pcs
<1>4. ReqRight'
  BY <1>1, <1>2 DEF Call, Inv, TypeOK, ReqRight
<1>5. FlightRight'
  BY <1>2 DEF Call, Inv, TypeOK, FlightRight, LeaderPcs, FetchPcs
<1>6. TiersRight'
  BY DEF Call, Inv, TiersRight
<1>7. InHandRight'
  BY <1>2 DEF Call, Inv, TypeOK, InHandRight
<1>8. PanicsNeedBothKinds'
  BY <1>2 DEF Call, Inv, TypeOK, PanicsNeedBothKinds
<1>9. QED
  BY <1>3, <1>4, <1>5, <1>6, <1>7, <1>8 DEF Inv

LEMMA HitInv ==
    ASSUME Inv, NEW r \in Readers, Hit(r)
    PROVE  Inv'
<1> DEFINE b == cache[req[r].hash]
<1>1. pc[r] = "lookup" /\ req[r] \in Named /\ req[r].hash \in Hashes
  BY ReqNamed DEF Hit
<1>2. b \in InMemory[req[r].hash] /\ b \in Blobs
  BY <1>1, InMemoryType DEF Hit, Inv, TiersRight
<1>3. Holding(b) \in Outcomes /\ Holding(b).blob = b
  BY <1>2 DEF Holding, Outcomes, Errors
<1>4. PICK p \in {"done", "panicked"}, o \in {Holding(b), got[r]} :
        /\ pc' = [pc EXCEPT ![r] = p]
        /\ got' = [got EXCEPT ![r] = o]
        /\ p = "done" => o = Holding(b) /\ b.form = FormOf(req[r])
        /\ p = "panicked" => b.form # FormOf(req[r])
  <2>1. got = [got EXCEPT ![r] = got[r]]
    BY DEF Inv, TypeOK
  <2>2. QED
    BY <2>1 DEF Hit
<1>5. p = "done" => b \in Answers[req[r]]
  BY <1>1, <1>2, <1>4, AnswersAre
<1>6. p = "panicked" => Asked(req[r].hash, "sd") /\ Asked(req[r].hash, "bytes")
  BY <1>1, <1>2, <1>4, MisfitNeedsBothKinds
<1> HIDE DEF b
<1>7. TypeOK'
  BY <1>3, <1>4 DEF Hit, Inv, TypeOK, Pcs
<1>8. ReqRight' /\ TiersRight'
  BY <1>1, <1>4 DEF Hit, Inv, TypeOK, ReqRight, TiersRight
<1>9. FlightRight'
  BY <1>4 DEF Hit, Inv, TypeOK, FlightRight, LeaderPcs, FetchPcs
<1>10. InHandRight'
  BY <1>3, <1>4, <1>5 DEF Hit, Inv, TypeOK, InHandRight
<1>11. PanicsNeedBothKinds'
  BY <1>4, <1>6 DEF Hit, Inv, TypeOK, PanicsNeedBothKinds
<1>12. QED
  BY <1>7, <1>8, <1>9, <1>10, <1>11 DEF Inv

LEMMA MissInv ==
    ASSUME Inv, NEW r \in Readers, Miss(r)
    PROVE  Inv'
<1>1. TypeOK'
  BY DEF Miss, Inv, TypeOK, Pcs
<1>2. ReqRight' /\ TiersRight'
  BY DEF Miss, Inv, TypeOK, ReqRight, TiersRight
<1>3. FlightRight'
  BY DEF Miss, Inv, TypeOK, FlightRight, LeaderPcs, FetchPcs
<1>4. InHandRight' /\ PanicsNeedBothKinds'
  BY DEF Miss, Inv, TypeOK, InHandRight, PanicsNeedBothKinds
<1>5. QED
  BY <1>1, <1>2, <1>3, <1>4 DEF Inv

\* A leader is the only one of its hash: the flight was free.
LEMMA LeadInv ==
    ASSUME Inv, NEW r \in Readers, Lead(r)
    PROVE  Inv'
<1>1. req[r].hash \in Hashes
  BY ReqNamed DEF Lead
<1>2. TypeOK'
  BY <1>1 DEF Lead, Inv, TypeOK, Pcs, LeaderPcs, FetchPcs
<1>3. ReqRight' /\ TiersRight'
  BY DEF Lead, Inv, TypeOK, ReqRight, TiersRight
<1>4. FlightRight'
  <2>1. \A h \in Hashes : flight'[h] # None =>
            pc'[flight'[h]] \in LeaderPcs /\ req'[flight'[h]].hash = h
    BY <1>1 DEF Lead, Inv, TypeOK, FlightRight, LeaderPcs, FetchPcs
  <2>2. \A s \in Readers : pc'[s] \in LeaderPcs => flight'[req'[s].hash] = s
    BY <1>1, NoneAssumption DEF Lead, Inv, TypeOK, FlightRight, LeaderPcs, FetchPcs
  <2>3. \A s \in Readers : pc'[s] = "waiting" => flight'[req'[s].hash] # None
    BY <1>1, NoneAssumption DEF Lead, Inv, TypeOK, FlightRight
  <2>4. QED
    BY <2>1, <2>2, <2>3 DEF FlightRight
<1>5. InHandRight' /\ PanicsNeedBothKinds'
  BY DEF Lead, Inv, TypeOK, InHandRight, PanicsNeedBothKinds
<1>6. QED
  BY <1>2, <1>3, <1>4, <1>5 DEF Inv

LEMMA JoinInv ==
    ASSUME Inv, NEW r \in Readers, Join(r)
    PROVE  Inv'
<1>1. TypeOK'
  BY DEF Join, Inv, TypeOK, Pcs
<1>2. ReqRight' /\ TiersRight'
  BY DEF Join, Inv, TypeOK, ReqRight, TiersRight
<1>3. FlightRight'
  BY DEF Join, Inv, TypeOK, FlightRight, LeaderPcs, FetchPcs
<1>4. InHandRight' /\ PanicsNeedBothKinds'
  BY DEF Join, Inv, TypeOK, InHandRight, PanicsNeedBothKinds
<1>5. QED
  BY <1>1, <1>2, <1>3, <1>4 DEF Inv

\* A step of a leader that keeps it a leader, writes nothing but its own pc
\* and hand, and leaves the right thing in its hand, keeps the invariant.
LEMMA LeaderStepInv ==
    ASSUME Inv, NEW r \in Readers, NEW o \in Outcomes, NEW p \in FetchPcs,
           pc[r] \in LeaderPcs,
           pc' = [pc EXCEPT ![r] = p],
           got' = [got EXCEPT ![r] = o],
           p = "save" => o = Holding(Fetched(req[r])) /\ Fetched(req[r]) \in Available,
           p = "fetched" /\ o.err = "none" => o.blob \in Answers[req[r]],
           disk' \in [Hashes -> Bytes \cup {None}],
           TiersRight',
           UNCHANGED <<req, cache, flight>>
    PROVE  Inv'
<1>1. TypeOK'
  BY DEF Inv, TypeOK, Pcs, LeaderPcs
<1>2. ReqRight' /\ PanicsNeedBothKinds'
  BY DEF Inv, TypeOK, ReqRight, PanicsNeedBothKinds, FetchPcs, LeaderPcs
<1>3. FlightRight'
  BY DEF Inv, TypeOK, FlightRight, FetchPcs, LeaderPcs
<1>4. InHandRight'
  BY DEF Inv, TypeOK, InHandRight, FetchPcs
<1>5. QED
  BY <1>1, <1>2, <1>3, <1>4 DEF Inv

\* The steps of the disk cache, taken by a leader.
LEMMA OriginInv ==
    ASSUME Inv, NEW r \in Readers, Origin(r)
    PROVE  Inv'
<1> DEFINE h == req[r].hash
           q == req[r]
<1>1. pc[r] \in {"disk", "upstream", "save"}
  BY DEF Origin, OriginStep, DiskHit, DiskMiss, UpstreamOk, UpstreamFail, Save, SaveFail
<1>2. q \in Named /\ h \in Hashes
  BY <1>1, ReqNamed
<1>3. pc[r] \in LeaderPcs /\ got[r] \in Outcomes
  BY <1>1 DEF LeaderPcs, FetchPcs, Inv, TypeOK
<1>4. disk \in [Hashes -> Bytes \cup {None}] /\ TiersRight /\ got \in [Readers -> Outcomes]
  BY DEF Inv, TypeOK
<1>5. CASE DiskHit(r)
  <2>1. disk[h] \in OnDisk[h]
    BY <1>2, <1>5 DEF DiskHit, Inv, TiersRight
  <2>2. LET o == Decoded(q, disk[h])
        IN  o \in Outcomes /\ (o.err = "none" => o.blob \in Answers[q])
    BY <1>2, <2>1, DecodedRight
  <2>3. TiersRight'
    BY <1>5 DEF DiskHit, Origin, Inv, TiersRight
  <2>4. "fetched" \in FetchPcs
    BY DEF FetchPcs
  <2>5. QED
    BY <1>3, <1>4, <1>5, <2>2, <2>3, <2>4, LeaderStepInv DEF DiskHit, Origin
<1>6. CASE DiskMiss(r)
  <2>1. got' = [got EXCEPT ![r] = got[r]]
    BY <1>4, <1>6 DEF DiskMiss
  <2>2. TiersRight'
    BY <1>6 DEF DiskMiss, Origin, Inv, TiersRight
  <2>3. "upstream" \in FetchPcs
    BY DEF FetchPcs
  <2>4. QED
    BY <1>3, <1>4, <1>6, <2>1, <2>2, <2>3, LeaderStepInv DEF DiskMiss, Origin
<1>7. CASE UpstreamOk(r)
  <2>1. Fetched(q) \in Available /\ Holding(Fetched(q)) \in Outcomes
    BY <1>2, <1>7, FetchedRight DEF UpstreamOk
  <2>2. TiersRight'
    BY <1>7 DEF UpstreamOk, Origin, Inv, TiersRight
  <2>3. "save" \in FetchPcs
    BY DEF FetchPcs
  <2>4. QED
    BY <1>3, <1>4, <1>7, <2>1, <2>2, <2>3, LeaderStepInv DEF UpstreamOk, Origin
<1>8. CASE UpstreamFail(r)
  <2>1. PICK e \in UpstreamErrors(q) : got' = [got EXCEPT ![r] = Failed(e)]
    BY <1>8 DEF UpstreamFail
  <2>2. Failed(e) \in Outcomes /\ Failed(e).err # "none"
    BY UpstreamErrorsAreErrors
  <2>3. TiersRight'
    BY <1>8 DEF UpstreamFail, Origin, Inv, TiersRight
  <2>4. "fetched" \in FetchPcs
    BY DEF FetchPcs
  <2>5. QED
    BY <1>3, <1>4, <1>8, <2>1, <2>2, <2>3, <2>4, LeaderStepInv DEF UpstreamFail, Origin
<1>9. ASSUME pc[r] = "save"
      PROVE  LET b == got[r].blob
                 o == Decoded(q, b)
             IN  /\ b \in OnDisk[h] /\ b \in Bytes
                 /\ o \in Outcomes /\ (o.err = "none" => o.blob \in Answers[q])
  <2>1. got[r] = Holding(Fetched(q)) /\ Fetched(q) \in Available
    BY <1>9 DEF Inv, InHandRight
  <2>2. got[r].blob = Fetched(q) /\ Fetched(q) \in OnDisk[h] /\ Fetched(q) \in Bytes
    BY <1>2, <2>1, FetchedRight
  <2>3. QED
    BY <1>2, <2>2, DecodedRight
<1>10. "fetched" \in FetchPcs
  BY DEF FetchPcs
<1>11. CASE Save(r)
  <2>1. pc[r] = "save" /\ disk' = [disk EXCEPT ![h] = got[r].blob] /\ UNCHANGED cache
    BY <1>11 DEF Save, Origin
  <2>2. disk' \in [Hashes -> Bytes \cup {None}]
    BY <1>4, <1>9, <2>1
  <2>3. TiersRight'
    BY <1>2, <1>4, <1>9, <2>1 DEF TiersRight
  <2>4. QED
    BY <1>3, <1>9, <1>10, <1>11, <2>2, <2>3, LeaderStepInv DEF Save, Origin
<1>12. CASE SaveFail(r)
  <2>1. Failed("store") \in Outcomes /\ Failed("store").err # "none"
    BY DEF Failed, Outcomes, Errors
  <2>2. TiersRight'
    BY <1>12 DEF SaveFail, Origin, Inv, TiersRight
  <2>3. CASE got' = [got EXCEPT ![r] = Decoded(q, got[r].blob)]
    BY <1>3, <1>4, <1>9, <1>10, <1>12, <2>2, <2>3, LeaderStepInv DEF SaveFail, Origin
  <2>4. CASE got' = [got EXCEPT ![r] = Failed("store")]
    BY <1>3, <1>4, <1>10, <1>12, <2>1, <2>2, <2>4, LeaderStepInv DEF SaveFail, Origin
  <2>5. QED
    BY <1>12, <2>3, <2>4 DEF SaveFail
<1>13. QED
  BY <1>5, <1>6, <1>7, <1>8, <1>11, <1>12 DEF Origin, OriginStep

\* cache.Set, whatever it evicts: the entry written is one that may be there.
LEMMA FillInv ==
    ASSUME Inv, NEW r \in Readers, Fill(r)
    PROVE  Inv'
<1> DEFINE h == req[r].hash
<1>1. req[r] \in Named /\ h \in Hashes
  BY ReqNamed DEF Fill
<1>2. got[r].blob \in Answers[req[r]]
  BY DEF Fill, Inv, InHandRight
<1>3. got[r].blob \in InMemory[h] /\ got[r].blob \in Blobs
  BY <1>1, <1>2, AnswersAre, InMemoryType
<1>4. PICK c \in MakeRoom(h) : cache' = [c EXCEPT ![h] = got[r].blob]
  BY DEF Fill
<1>5. /\ c \in [Hashes -> Blobs \cup {None}]
      /\ \A g \in Hashes : c[g] = cache[g] \/ c[g] = None
  BY <1>4 DEF MakeRoom, Entries, Inv, TypeOK
<1>6. TypeOK'
  BY <1>3, <1>4, <1>5 DEF Fill, Inv, TypeOK, Pcs, LeaderPcs
<1>7. ReqRight' /\ PanicsNeedBothKinds'
  BY DEF Fill, Inv, TypeOK, ReqRight, PanicsNeedBothKinds
<1>8. FlightRight'
  BY DEF Fill, Inv, TypeOK, FlightRight, LeaderPcs, FetchPcs
<1>9. TiersRight'
  BY <1>1, <1>3, <1>4, <1>5 DEF Fill, Inv, TypeOK, TiersRight
<1>10. InHandRight'
  BY <1>2 DEF Fill, Inv, TypeOK, InHandRight
<1>11. QED
  BY <1>6, <1>7, <1>8, <1>9, <1>10 DEF Inv

\* How the readers leave a flight for h that gives o: with an answer, with the
\* error, or by a panic, if h is asked for as both kinds.
LEMMA LeavesRight ==
    ASSUME NEW q \in Named, NEW o \in Outcomes,
           o.err = "none" => o.blob \in InMemory[q.hash]
    PROVE  /\ Leaves(q, o) \in {"done", "panicked"}
           /\ o.err # "none" => Leaves(q, o) = "done"
           /\ o.err = "none" => (Leaves(q, o) = "done" <=> o.blob \in Answers[q])
           /\ Leaves(q, o) = "panicked" => Asked(q.hash, "sd") /\ Asked(q.hash, "bytes")
  BY AnswersAre, MisfitNeedsBothKinds DEF Leaves

\* What the leader of a flight brings is what memory may hold.
LEMMA LeaderBrings ==
    ASSUME Inv, NEW r \in Readers, pc[r] \in {"landing", "fetched"}
    PROVE  /\ pc[r] \in LeaderPcs /\ got[r] \in Outcomes
           /\ req[r] \in Named /\ req[r].hash \in Hashes /\ flight[req[r].hash] = r
           /\ pc[r] = "landing" => got[r].err = "none"
           /\ got[r].err = "none" => got[r].blob \in Answers[req[r]]
           /\ got[r].err = "none" => got[r].blob \in InMemory[req[r].hash]
<1>1. pc[r] \in LeaderPcs
  BY DEF LeaderPcs, FetchPcs
<1>2. req[r] \in Named /\ req[r].hash \in Hashes
  BY ReqNamed
<1>3. got[r].err = "none" => got[r].blob \in Answers[req[r]]
  BY DEF Inv, InHandRight
<1>4. got[r].err = "none" => got[r].blob \in InMemory[req[r].hash]
  BY <1>2, <1>3, AnswersAre
<1>5. QED
  BY <1>1, <1>2, <1>3, <1>4 DEF Inv, TypeOK, FlightRight, InHandRight

\* A flight ends.  Its readers all asked for the same hash, so the outcome is an
\* answer to each of them, or the hash is asked for as both kinds.
LEMMA LandInv ==
    ASSUME Inv, NEW r \in Readers, Land(r)
    PROVE  Inv'
<1> DEFINE h == req[r].hash
           S == Waiters(h) \cup {r}
           o == got[r]
<1>1. pc[r] \in {"landing", "fetched"}
  BY DEF Land, Finished
<1>2. h \in Hashes /\ flight[h] = r /\ o \in Outcomes /\ pc[r] \in LeaderPcs
  BY <1>1, LeaderBrings
<1>3. o.err = "none" => o.blob \in InMemory[h]
  BY <1>1, LeaderBrings
<1>4. \A s \in S : /\ s \in Readers /\ pc[s] # "idle" /\ req[s].hash = h
                   /\ pc[s] \in {"landing", "fetched", "waiting"}
  BY <1>1 DEF Waiters
<1>5. \A s \in S : /\ Leaves(req[s], o) \in {"done", "panicked"}
                   /\ Leaves(req[s], o) = "done" /\ o.err = "none" => o.blob \in Answers[req[s]]
                   /\ Leaves(req[s], o) = "panicked" => Asked(h, "sd") /\ Asked(h, "bytes")
  <2> HIDE DEF S, o, h
  <2> SUFFICES ASSUME NEW s \in S
               PROVE  /\ Leaves(req[s], o) \in {"done", "panicked"}
                      /\ Leaves(req[s], o) = "done" /\ o.err = "none" => o.blob \in Answers[req[s]]
                      /\ Leaves(req[s], o) = "panicked" => Asked(h, "sd") /\ Asked(h, "bytes")
    OBVIOUS
  <2>1. req[s] \in Named /\ req[s].hash = h
    BY <1>4, ReqNamed
  <2>2. QED
    BY <1>2, <1>3, <2>1, LeavesRight
<1>6. /\ got' = [s \in Readers |-> IF s \in S THEN o ELSE got[s]]
      /\ pc' = [s \in Readers |-> IF s \in S THEN Leaves(req[s], o) ELSE pc[s]]
      /\ flight' = [flight EXCEPT ![h] = None]
      /\ UNCHANGED <<disk, req, cache>>
  BY DEF Land
<1>7. \A s \in Readers : s \notin S => ~(pc[s] = "waiting" /\ req[s].hash = h)
  BY DEF Waiters
<1>8. r \in S
  OBVIOUS
<1> HIDE DEF S, o
<1>9. \A s \in Readers :
        /\ s \in S => pc'[s] \in {"done", "panicked"} /\ pc'[s] = Leaves(req[s], o) /\ got'[s] = o
        /\ s \notin S => pc'[s] = pc[s] /\ got'[s] = got[s]
  BY <1>5, <1>6
<1>10. TypeOK'
  <2>1. pc' \in [Readers -> Pcs]
    BY <1>5, <1>6 DEF Inv, TypeOK, Pcs
  <2>2. QED
    BY <1>2, <1>6, <2>1 DEF Inv, TypeOK
<1>11. ReqRight'
  BY <1>4, <1>6, <1>9 DEF Inv, ReqRight
<1>12. FlightRight'
  <2>1. \A g \in Hashes : flight'[g] # None =>
            pc'[flight'[g]] \in LeaderPcs /\ req'[flight'[g]].hash = g
    <3> SUFFICES ASSUME NEW g \in Hashes, flight'[g] # None
                 PROVE  pc'[flight'[g]] \in LeaderPcs /\ req'[flight'[g]].hash = g
      OBVIOUS
    <3>1. g # h /\ flight'[g] = flight[g]
      BY <1>2, <1>6 DEF Inv, TypeOK
    <3>2. pc[flight[g]] \in LeaderPcs /\ req[flight[g]].hash = g /\ flight[g] \in Readers
      BY <3>1 DEF Inv, TypeOK, FlightRight
    <3>3. flight[g] \notin S
      BY <1>4, <3>1, <3>2
    <3>4. QED
      BY <1>6, <1>9, <3>1, <3>2, <3>3
  <2>2. \A s \in Readers : pc'[s] \in LeaderPcs => flight'[req'[s].hash] = s
    <3> SUFFICES ASSUME NEW s \in Readers, pc'[s] \in LeaderPcs
                 PROVE  flight'[req'[s].hash] = s
      OBVIOUS
    <3>1. s \notin S /\ pc[s] \in LeaderPcs
      BY <1>9 DEF LeaderPcs, FetchPcs
    <3>2. flight[req[s].hash] = s /\ s # r
      BY <1>8, <3>1 DEF Inv, FlightRight
    <3>3. req[s].hash # h
      BY <1>2, <3>2
    <3>4. QED
      BY <1>6, <3>2, <3>3 DEF Inv, TypeOK
  <2>3. \A s \in Readers : pc'[s] = "waiting" => flight'[req'[s].hash] # None
    BY <1>2, <1>6, <1>7, <1>9 DEF Inv, TypeOK, FlightRight
  <2>4. QED
    BY <2>1, <2>2, <2>3 DEF FlightRight
<1>13. TiersRight'
  BY <1>6 DEF Inv, TiersRight
<1>14. InHandRight'
  BY <1>5, <1>6, <1>9 DEF Inv, InHandRight
<1>15. PanicsNeedBothKinds'
  BY <1>4, <1>5, <1>6, <1>9 DEF Inv, PanicsNeedBothKinds
<1>16. QED
  BY <1>10, <1>11, <1>12, <1>13, <1>14, <1>15 DEF Inv

LEMMA LeaveInv ==
    ASSUME Inv, NEW r \in Readers, Leave(r), pc[r] \in {"done", "panicked"}
    PROVE  Inv'
<1>1. Nothing \in Outcomes
  BY DEF Nothing, Outcomes, Errors
<1>2. TypeOK'
  BY <1>1 DEF Leave, Inv, TypeOK, Pcs
<1>3. ReqRight' /\ TiersRight' /\ PanicsNeedBothKinds'
  BY DEF Leave, Inv, TypeOK, ReqRight, TiersRight, PanicsNeedBothKinds
<1>4. FlightRight'
  BY DEF Leave, Inv, TypeOK, FlightRight, LeaderPcs, FetchPcs
<1>5. InHandRight'
  BY DEF Leave, Inv, TypeOK, InHandRight
<1>6. QED
  BY <1>2, <1>3, <1>4, <1>5 DEF Inv

\* Removing an object from the disk under a running look-up does no harm.
LEMMA CleanupInv ==
    ASSUME Inv, NEW h \in Hashes, Cleanup(h)
    PROVE  Inv'
  BY DEF Cleanup, SelfCleanup, Inv, TypeOK, ReqRight, FlightRight, TiersRight,
         InHandRight, PanicsNeedBothKinds

\* A restart finds a disk that holds the right things.
LEMMA RestartInv ==
    ASSUME Inv, Restart
    PROVE  Inv'
<1>1. Nothing \in Outcomes
  BY DEF Nothing, Outcomes, Errors
<1>2. QED
  BY <1>1 DEF Restart, Inv, TypeOK, Pcs, LeaderPcs, FetchPcs, ReqRight, FlightRight,
              TiersRight, InHandRight, PanicsNeedBothKinds

\* Inv is preserved by every step.
LEMMA NextInv == Inv /\ [Next]_vars => Inv'
<1> SUFFICES ASSUME Inv, [Next]_vars PROVE Inv'
  OBVIOUS
<1>1. CASE UNCHANGED vars
  BY <1>1 DEF vars, Inv, TypeOK, ReqRight, FlightRight, TiersRight, InHandRight, PanicsNeedBothKinds
<1>2. ASSUME NEW r \in Readers, Step(r) PROVE Inv'
  BY <1>2, HitInv, MissInv, LeadInv, JoinInv, OriginInv, FillInv, LandInv, LeaveInv, RestartInv
     DEF Step, Return, Panic
<1>3. ASSUME NEW r \in Readers, NEW q \in Named, Call(r, q) PROVE Inv'
  BY <1>3, CallInv
<1>4. ASSUME NEW h \in Hashes, Cleanup(h) PROVE Inv'
  BY <1>4, CleanupInv
<1>5. CASE Restart
  BY <1>5, RestartInv
<1>6. QED
  BY <1>1, <1>2, <1>3, <1>4, <1>5 DEF Next

-----------------------------------------------------------------------------
\* Inv holds in every reachable state, for any numbers of readers and blobs.
THEOREM Invariance == Spec => []Inv
  BY InitInv, NextInv, PTL DEF Spec

\* The variables of the caches keep their types.
THEOREM TypeCorrect == Spec => []TypeOK
<1>1. Inv => TypeOK
  BY DEF Inv
<1>2. QED
  BY <1>1, Invariance, PTL

\* A type assertion of hot_cache.go fails under no hash that is asked for as one
\* kind only.
THEOREM PanicsAreMixedKinds == Spec => []PanicsNeedBothKinds
<1>1. Inv => PanicsNeedBothKinds
  BY DEF Inv
<1>2. QED
  BY <1>1, Invariance, PTL

\* Whoever gets a blob gets one of the hash it asked for, as somebody asks for it.
THEOREM AnswersAreRight == Spec => []RightAnswers
<1>1. Inv => RightAnswers
  BY DEF Inv, InHandRight, RightAnswers
<1>2. QED
  BY <1>1, Invariance, PTL

\* At most one goroutine fetches a given hash at a time.
THEOREM FlightsAreSingle == Spec => []SingleFlight
<1>1. Inv => SingleFlight
  BY DEF Inv, FlightRight, SingleFlight, LeaderPcs
<1>2. QED
  BY <1>1, Invariance, PTL

\* Whoever waits has a leader that works for it.
THEOREM NobodyIsStranded == Spec => []NobodyStranded
<1>1. Inv => NobodyStranded
  <2> SUFFICES ASSUME Inv, NEW r \in Readers, pc[r] = "waiting"
               PROVE  \E s \in Readers : pc[s] \in LeaderPcs /\ req[s].hash = req[r].hash
    BY DEF NobodyStranded
  <2>1. req[r].hash \in Hashes /\ flight[req[r].hash] # None
    BY ReqNamed DEF Inv, FlightRight
  <2>2. flight[req[r].hash] \in Readers
    BY <2>1 DEF Inv, TypeOK
  <2>3. QED
    BY <2>1, <2>2 DEF Inv, FlightRight
<1>2. QED
  BY <1>1, Invariance, PTL

\* Disk and memory hold what was asked for under a hash, across restarts too.
THEOREM TiersAreRight == Spec => []TiersRight
<1>1. Inv => TiersRight
  BY DEF Inv
<1>2. QED
  BY <1>1, Invariance, PTL

-----------------------------------------------------------------------------
(* The bound of the memory cache.                                           *)

\* One entry more or less: what cache.Set leaves is within the bound.
LEMMA FillRoom ==
    ASSUME Inv, RoomRight, NEW r \in Readers, Fill(r)
    PROVE  RoomRight'
<1> DEFINE h == req[r].hash
<1>1. /\ h \in Hashes /\ cache \in [Hashes -> Blobs \cup {None}] /\ req[r] \in Named
      /\ got[r].blob \in Answers[req[r]]
  BY ReqNamed DEF Fill, Inv, TypeOK, InHandRight
<1>2. got[r].blob # None
  BY <1>1, AnswersAre, InMemoryType
<1>3. PICK c \in MakeRoom(h) : cache' = [c EXCEPT ![h] = got[r].blob]
  BY DEF Fill
<1>4. /\ IsFiniteSet(Entries) /\ Cardinality(Entries) \in Nat
      /\ Cardinality(Entries) <= Capacity /\ Capacity \in Nat
  BY FS_CardinalityType, CapacityAssumption DEF RoomRight, WithinCapacity
<1>5. CASE c = cache /\ (h \in Entries \/ Cardinality(Entries) < Capacity)
  <2>1. Entries' = Entries \cup {h}
    BY <1>1, <1>2, <1>3, <1>5 DEF Entries
  <2>2. QED
    BY SMTT(30), <1>4, <1>5, <2>1, FS_AddElement DEF RoomRight, WithinCapacity
<1>6. ASSUME NEW g \in Entries, h \notin Entries, c = [cache EXCEPT ![g] = None]
      PROVE  RoomRight'
  <2>1. Entries' = (Entries \ {g}) \cup {h}
    BY <1>1, <1>2, <1>3, <1>6 DEF Entries
  <2>2. IsFiniteSet(Entries \ {g}) /\ Cardinality(Entries \ {g}) = Cardinality(Entries) - 1
    BY <1>4, <1>6, FS_RemoveElement
  <2>3. IsFiniteSet(Entries') /\ Cardinality(Entries') <= Cardinality(Entries)
    <3>1. h \notin Entries \ {g}
      BY <1>6
    <3>2. /\ IsFiniteSet((Entries \ {g}) \cup {h})
          /\ Cardinality((Entries \ {g}) \cup {h}) = Cardinality(Entries \ {g}) + 1
      BY <2>2, <3>1, FS_AddElement
    <3>3. QED
      BY <1>4, <2>1, <2>2, <3>2
  <2>4. Cardinality(Entries') \in Nat
    BY <2>3, FS_CardinalityType
  <2>5. QED
    BY <1>4, <2>3, <2>4 DEF RoomRight, WithinCapacity
<1>7. QED
  BY <1>3, <1>5, <1>6 DEF MakeRoom

LEMMA RoomNext == Inv /\ RoomRight /\ [Next]_vars => RoomRight'
<1> SUFFICES ASSUME Inv, RoomRight, [Next]_vars PROVE RoomRight'
  OBVIOUS
<1>1. CASE UNCHANGED cache
  BY <1>1 DEF RoomRight, WithinCapacity, Entries
<1>2. CASE Restart
  <2>1. Entries' = {}
    BY <1>2 DEF Restart, Entries
  <2>2. QED
    BY <2>1, FS_EmptySet, CapacityAssumption DEF RoomRight, WithinCapacity
<1>3. QED
  BY <1>1, <1>2, FillRoom
     DEF Next, Step, vars, Call, Hit, Miss, Lead, Join, Origin, Land, Return, Panic, Leave, Cleanup

\* The memory cache never holds more entries than it was built for, whatever
\* the policy evicts.
THEOREM CapacityHolds == Spec => []WithinCapacity
<1>1. Init => RoomRight
  <2>1. Init => Entries = {}
    BY DEF Init, Entries
  <2>2. QED
    BY <2>1, FS_EmptySet, CapacityAssumption DEF RoomRight, WithinCapacity
<1>2. RoomRight => WithinCapacity
  BY DEF RoomRight
<1>3. QED
  BY <1>1, <1>2, RoomNext, Invariance, PTL DEF Spec

-----------------------------------------------------------------------------
(* HotCache implements BlobService.  Readers ask with Call and take their   *)
(* answer away with Return; Hit and Land serve or refuse; a fetch that ends *)
(* with an error is the fault that Land passes on.  Every other step is     *)
(* hidden from the readers.                                                 *)

\* A reader that is on its way has neither answer nor error yet.
LEMMA OnTheWayIsPending ==
    ASSUME Inv, NEW r \in Readers, pc[r] \notin {"idle", "done", "panicked"}
    PROVE  Promise!Pending(r)
  BY ReqNamed DEF Promise!Pending, Answered, Refused

\* A step on the way of one reader that does not fail is hidden.
LEMMA HiddenStep ==
    ASSUME Inv, NEW r \in Readers, NEW p, NEW o,
           pc[r] \notin {"done", "panicked"}, pc[r] = "fetched" => got[r].err = "none",
           p \notin {"done", "panicked"}, p = "fetched" => o.err = "none",
           pc' = [pc EXCEPT ![r] = p],
           got' = [got EXCEPT ![r] = o],
           UNCHANGED req
    PROVE  UNCHANGED Promise!vars
<1>1. pc \in [Readers -> Pcs] /\ got \in [Readers -> Outcomes]
  BY DEF Inv, TypeOK
<1>2. Answered' = Answered /\ Refused' = Refused
  BY <1>1 DEF Answered, Refused
<1>3. {s \in Readers : pc'[s] = "fetched" /\ got'[s].err # "none"}
        = {s \in Readers : pc[s] = "fetched" /\ got[s].err # "none"}
  BY <1>1
<1>4. Failing' = Failing
  BY <1>3 DEF Failing
<1>5. QED
  BY <1>2, <1>4 DEF Promise!vars

LEMMA CallAsks ==
    ASSUME Inv, NEW r \in Readers, NEW q \in Named, Call(r, q)
    PROVE  Promise!Next
<1>1. pc \in [Readers -> Pcs] /\ req[r] = None /\ req' = [req EXCEPT ![r] = q]
  BY DEF Call, Inv, TypeOK, ReqRight
<1>2. Answered' = Answered /\ Refused' = Refused
  BY <1>1 DEF Call, Answered, Refused
<1>3. \A s \in Readers : pc'[s] = "fetched" <=> pc[s] = "fetched"
  BY <1>1 DEF Call
<1>4. \A s \in Readers : pc[s] = "fetched" => req'[s] = req[s]
  BY <1>1 DEF Call, Inv, TypeOK
<1>5. Failing' = Failing
  <2>1. got' = got
    BY DEF Call
  <2>2. QED
    BY <1>3, <1>4, <2>1 DEF Failing
<1>6. Promise!Ask(r, q)
  BY <1>1, <1>2, <1>5 DEF Promise!Ask
<1>7. QED
  BY <1>6 DEF Promise!Next

\* A blob that comes to the readers of S, who go on to done if it answers them
\* and to a panic if not, is served.
LEMMA BlobServes ==
    ASSUME Inv, NEW h \in Hashes, NEW b \in InMemory[h], NEW S \in SUBSET Readers, S # {},
           \A s \in S : /\ req[s].hash = h /\ pc[s] \notin {"idle", "done", "panicked"}
                        /\ pc[s] = "fetched" => got[s].err = "none",
           \A s \in S : /\ b \in Answers[req[s]] => pc'[s] = "done" /\ got'[s] = Holding(b)
                        /\ b \notin Answers[req[s]] => pc'[s] = "panicked",
           \A s \in Readers \ S : pc'[s] = pc[s] /\ got'[s] = got[s],
           UNCHANGED req
    PROVE  Promise!Next
<1> DEFINE answered == {s \in S : b \in Answers[req[s]]}
<1>1. \A s \in S : Promise!Pending(s) /\ req[s] \in Named /\ req[s].hash = h
  BY OnTheWayIsPending, ReqNamed
<1>2. h \in Promise!AskedHashes
  BY <1>1 DEF Promise!AskedHashes
<1>3. \A s \in S : Answered[s] = None
  BY DEF Answered
<1>4. \A s \in answered : pc'[s] = "done" /\ got'[s].err = "none" /\ got'[s].blob = b
  BY DEF Holding
<1>5. \A s \in S \ answered : pc'[s] = "panicked"
  OBVIOUS
<1>6. Answered' = [s \in Readers |-> IF s \in answered THEN b ELSE Answered[s]]
  <2> HIDE DEF answered
  <2>1. \A s \in Readers :
          (IF pc'[s] = "done" /\ got'[s].err = "none" THEN got'[s].blob ELSE None)
            = IF s \in answered THEN b ELSE Answered[s]
    <3>1. ASSUME NEW s \in answered
          PROVE  (IF pc'[s] = "done" /\ got'[s].err = "none" THEN got'[s].blob ELSE None) = b
      BY <1>4
    <3>2. ASSUME NEW s \in S \ answered
          PROVE  (IF pc'[s] = "done" /\ got'[s].err = "none" THEN got'[s].blob ELSE None)
                    = Answered[s]
      BY <1>3, <1>5
    <3>3. ASSUME NEW s \in Readers \ S
          PROVE  (IF pc'[s] = "done" /\ got'[s].err = "none" THEN got'[s].blob ELSE None)
                    = Answered[s]
      BY DEF Answered
    <3>4. answered \subseteq S
      BY DEF answered
    <3>5. QED
      BY <3>1, <3>2, <3>3, <3>4
  <2>2. QED
    BY <2>1 DEF Answered
<1>7. Refused' = Refused \cup (S \ answered)
  BY <1>4, <1>5 DEF Refused
<1>8. Failing' = Failing
  <2>1. \A s \in Readers : pc'[s] = "fetched" /\ got'[s].err # "none" <=>
                           pc[s] = "fetched" /\ got[s].err # "none"
    BY <1>4, <1>5
  <2>2. QED
    BY <2>1 DEF Failing
<1>9. Promise!Serve(h, b, S)
  BY <1>1, <1>6, <1>7, <1>8 DEF Promise!Serve
<1>10. QED
  BY <1>2, <1>9 DEF Promise!Next

LEMMA HitServes ==
    ASSUME Inv, NEW r \in Readers, Hit(r)
    PROVE  Promise!Next
<1> DEFINE h == req[r].hash
           b == cache[h]
<1>1. pc[r] = "lookup" /\ h \in Hashes /\ req[r] \in Named
  BY ReqNamed DEF Hit
<1>2. b \in InMemory[h]
  BY <1>1 DEF Hit, Inv, TiersRight
<1>3. b \in Answers[req[r]] <=> b.form = FormOf(req[r])
  BY <1>1, <1>2, AnswersAre
<1>4. pc \in [Readers -> Pcs] /\ got \in [Readers -> Outcomes]
  BY DEF Inv, TypeOK
<1>5. /\ b \in Answers[req[r]] => pc'[r] = "done" /\ got'[r] = Holding(b)
      /\ b \notin Answers[req[r]] => pc'[r] = "panicked"
      /\ \A s \in Readers \ {r} : pc'[s] = pc[s] /\ got'[s] = got[s]
      /\ UNCHANGED req
  BY <1>3, <1>4 DEF Hit
<1> DEFINE S == {r}
<1>6. S \in SUBSET Readers /\ S # {}
  OBVIOUS
<1>7. \A s \in S : /\ req[s].hash = h /\ pc[s] \notin {"idle", "done", "panicked"}
                   /\ pc[s] = "fetched" => got[s].err = "none"
  BY <1>1
<1>8. \A s \in S : /\ b \in Answers[req[s]] => pc'[s] = "done" /\ got'[s] = Holding(b)
                   /\ b \notin Answers[req[s]] => pc'[s] = "panicked"
  BY <1>5
<1>9. \A s \in Readers \ S : pc'[s] = pc[s] /\ got'[s] = got[s]
  BY <1>5
<1>10. UNCHANGED req /\ h \in Hashes
  BY <1>1, <1>5
<1> HIDE DEF S, b, h
<1>11. QED
  BY <1>2, <1>6, <1>7, <1>8, <1>9, <1>10, BlobServes

\* The disk cache works in the dark, and fails in the open.
LEMMA OriginHiddenOrFault ==
    ASSUME Inv, NEW r \in Readers, Origin(r)
    PROVE  [Promise!Next]_Promise!vars
<1>1. /\ pc \in [Readers -> Pcs] /\ got \in [Readers -> Outcomes] /\ UNCHANGED req
      /\ pc[r] \in {"disk", "upstream", "save"}
  BY DEF Origin, OriginStep, DiskHit, DiskMiss, UpstreamOk, UpstreamFail, Save, SaveFail,
         Inv, TypeOK
<1> DEFINE o == got'[r]
<1>2. PICK p \in {"upstream", "save", "fetched"} :
        pc' = [pc EXCEPT ![r] = p] /\ got' = [got EXCEPT ![r] = o]
  <2>1. got = [got EXCEPT ![r] = got[r]]
    BY <1>1
  <2>2. CASE DiskHit(r) \/ UpstreamOk(r) \/ UpstreamFail(r) \/ Save(r) \/ SaveFail(r)
    BY <1>1, <2>2 DEF DiskHit, UpstreamOk, UpstreamFail, Save, SaveFail
  <2>3. CASE DiskMiss(r)
    BY <2>1, <2>3 DEF DiskMiss
  <2>4. QED
    BY <2>2, <2>3 DEF Origin, OriginStep
<1>3. CASE p = "fetched" => o.err = "none"
  BY <1>1, <1>2, <1>3, HiddenStep
<1>4. CASE p = "fetched" /\ o.err # "none"
  <2>1. Answered' = Answered /\ Refused' = Refused
    BY <1>1, <1>2, <1>4 DEF Answered, Refused
  <2>2. {s \in Readers : pc'[s] = "fetched" /\ got'[s].err # "none"}
          = {s \in Readers : pc[s] = "fetched" /\ got[s].err # "none"} \cup {r}
    BY <1>1, <1>2, <1>4
  <2>3. Failing' = Failing \cup {req[r].hash}
    BY <1>1, <2>2 DEF Failing
  <2>4. Promise!Pending(r) /\ req[r] \in Named
    BY <1>1, OnTheWayIsPending, ReqNamed
  <2>5. Promise!Fault(req[r].hash)
    BY <1>1, <2>1, <2>3, <2>4 DEF Promise!Fault
  <2>6. req[r].hash \in Promise!AskedHashes
    BY <2>4 DEF Promise!AskedHashes
  <2>7. QED
    BY <2>5, <2>6 DEF Promise!Next
<1>5. QED
  BY <1>3, <1>4

\* A flight lands: its readers are served what it brings, or refused.
LEMMA LandServesOrRefuses ==
    ASSUME Inv, NEW r \in Readers, Land(r)
    PROVE  Promise!Next
<1> DEFINE h == req[r].hash
           S == Waiters(h) \cup {r}
           o == got[r]
<1>1. pc[r] \in {"landing", "fetched"}
  BY DEF Land, Finished
<1>2. /\ h \in Hashes /\ flight[h] = r /\ o \in Outcomes /\ pc[r] \in LeaderPcs
      /\ pc[r] = "landing" => o.err = "none"
      /\ o.err = "none" => o.blob \in InMemory[h]
  BY <1>1, LeaderBrings
<1>3. \A s \in S : /\ s \in Readers /\ req[s].hash = h
                   /\ pc[s] \in {"landing", "fetched", "waiting"}
                   /\ pc[s] = "fetched" => s = r
  BY <1>1 DEF Waiters
<1>4. \A s \in S : /\ Promise!Pending(s) /\ req[s] \in Named
                   /\ o.err # "none" => Leaves(req[s], o) = "done"
                   /\ o.err = "none" => (Leaves(req[s], o) = "done" <=> o.blob \in Answers[req[s]])
                   /\ Leaves(req[s], o) \in {"done", "panicked"}
  <2> SUFFICES ASSUME NEW s \in S
               PROVE  /\ Promise!Pending(s) /\ req[s] \in Named
                      /\ o.err # "none" => Leaves(req[s], o) = "done"
                      /\ o.err = "none" =>
                            (Leaves(req[s], o) = "done" <=> o.blob \in Answers[req[s]])
                      /\ Leaves(req[s], o) \in {"done", "panicked"}
    OBVIOUS
  <2> HIDE DEF S, o, h
  <2>1. Promise!Pending(s) /\ req[s] \in Named /\ req[s].hash = h
    BY <1>3, OnTheWayIsPending, ReqNamed
  <2>2. QED
    BY <1>2, <2>1, LeavesRight
<1>5. /\ got' = [s \in Readers |-> IF s \in S THEN o ELSE got[s]]
      /\ \A s \in Readers : pc'[s] = IF s \in S THEN Leaves(req[s], o) ELSE pc[s]
      /\ UNCHANGED req
  BY DEF Land
<1>6. S \in SUBSET Readers /\ r \in S
  BY <1>3
\* No other leader has failed at the same hash.
<1>7. \A s \in Readers \ S : pc[s] = "fetched" => req[s].hash # h
  BY <1>1, <1>2, <1>6 DEF Inv, FlightRight, LeaderPcs, FetchPcs
<1> HIDE DEF S, o, h
<1>8. CASE o.err = "none"
  <2> DEFINE b == o.blob
  <2>1. o = Holding(b)
    BY <1>2, <1>8 DEF Outcomes, Holding
  <2>2. \A s \in S : /\ b \in Answers[req[s]] => pc'[s] = "done" /\ got'[s] = Holding(b)
                     /\ b \notin Answers[req[s]] => pc'[s] = "panicked"
    BY <1>4, <1>5, <1>6, <1>8, <2>1
  <2>3. \A s \in S : /\ req[s].hash = h /\ pc[s] \notin {"idle", "done", "panicked"}
                     /\ pc[s] = "fetched" => got[s].err = "none"
    BY <1>3, <1>8 DEF o
  <2>4. \A s \in Readers \ S : pc'[s] = pc[s] /\ got'[s] = got[s]
    BY <1>5
  <2>5. b \in InMemory[h] /\ h \in Hashes
    BY <1>2, <1>8
  <2> HIDE DEF b
  <2>6. QED
    BY <1>5, <1>6, <2>2, <2>3, <2>4, <2>5, BlobServes
<1>9. CASE o.err # "none"
  <2>1. Answered' = Answered
    BY <1>3, <1>4, <1>5, <1>6, <1>9 DEF Answered
  <2>2. Refused' = Refused \cup S
    BY <1>4, <1>5, <1>6, <1>9 DEF Refused
  <2>3. Failing' = Failing \ {h}
    <3>1. \A s \in Readers : pc'[s] = "fetched" /\ got'[s].err # "none" <=>
              s \notin S /\ pc[s] = "fetched" /\ got[s].err # "none"
      BY <1>4, <1>5
    <3>2. QED
      BY <1>3, <1>5, <1>7, <3>1 DEF Failing
  <2>4. h \in Failing
    BY <1>1, <1>2, <1>9 DEF Failing, h, o
  <2>5. Promise!Refuse(h, S)
    BY <1>3, <1>4, <1>5, <2>1, <2>2, <2>3, <2>4 DEF Promise!Refuse
  <2>6. h \in Promise!AskedHashes
    BY <1>3, <1>4, <1>6 DEF Promise!AskedHashes
  <2>7. QED
    BY <1>6, <2>5, <2>6 DEF Promise!Next
<1>10. QED
  BY <1>8, <1>9

LEMMA LeaveCollects ==
    ASSUME Inv, NEW r \in Readers, Leave(r), pc[r] \in {"done", "panicked"}
    PROVE  Promise!Next
<1>1. /\ pc \in [Readers -> Pcs] /\ got \in [Readers -> Outcomes]
      /\ req \in [Readers -> Named \cup {None}]
      /\ pc' = [pc EXCEPT ![r] = "idle"]
      /\ req' = [req EXCEPT ![r] = None] /\ got' = [got EXCEPT ![r] = Nothing]
  BY DEF Leave, Inv, TypeOK
<1>2. req[r] # None /\ (pc[r] = "done" /\ got[r].err = "none" => got[r].blob # None)
  <2>1. req[r] \in Named /\ req[r].hash \in Hashes /\ req[r] # None
    BY ReqNamed
  <2>2. pc[r] = "done" /\ got[r].err = "none" => got[r].blob \in Answers[req[r]]
    BY DEF Inv, InHandRight
  <2>3. QED
    BY <2>1, <2>2, AnswersAre, InMemoryType
<1>3. ~Promise!Pending(r)
  BY <1>1, <1>2 DEF Promise!Pending, Answered, Refused
<1>4. Answered' = [Answered EXCEPT ![r] = None]
  BY <1>1 DEF Answered
<1>5. Refused' = Refused \ {r}
  BY <1>1 DEF Refused
<1>6. Failing' = Failing
  <2>1. \A s \in Readers : /\ pc'[s] = "fetched" <=> pc[s] = "fetched"
                           /\ pc[s] = "fetched" => req'[s] = req[s] /\ got'[s] = got[s]
    BY <1>1
  <2>2. QED
    BY <2>1 DEF Failing
<1>7. Promise!Collect(r)
  BY <1>1, <1>2, <1>3, <1>4, <1>5, <1>6 DEF Promise!Collect
<1>8. QED
  BY <1>7 DEF Promise!Next

LEMMA RestartRestarts ==
    ASSUME Restart
    PROVE  Promise!Next
<1>1. /\ Answered' = [r \in Readers |-> None] /\ Refused' = {} /\ Failing' = {}
      /\ req' = [r \in Readers |-> None]
  BY DEF Restart, Answered, Refused, Failing
<1>2. QED
  BY <1>1 DEF Promise!Next, Promise!Restart

\* Every step of the caches is a step of the service, or hidden.
LEMMA StepRefines == Inv /\ [Next]_vars => [Promise!Next]_Promise!vars
<1> SUFFICES ASSUME Inv, [Next]_vars PROVE [Promise!Next]_Promise!vars
  OBVIOUS
<1>1. CASE UNCHANGED <<pc, req, got>>
  BY <1>1 DEF Promise!vars, Answered, Refused, Failing
<1>2. ASSUME NEW r \in Readers, Miss(r) \/ Lead(r) \/ Join(r) \/ Fill(r)
      PROVE  UNCHANGED Promise!vars
  <2>1. got' = [got EXCEPT ![r] = got[r]]
    BY <1>2 DEF Miss, Lead, Join, Fill, Inv, TypeOK
  <2>2. PICK p \in {"missed", "disk", "waiting", "landing"} : pc' = [pc EXCEPT ![r] = p]
    BY <1>2 DEF Miss, Lead, Join, Fill
  <2>3. QED
    BY <1>2, <2>1, <2>2, HiddenStep DEF Miss, Lead, Join, Fill
<1>3. QED
  BY <1>1, <1>2, CallAsks, HitServes, OriginHiddenOrFault, LandServesOrRefuses,
     LeaveCollects, RestartRestarts
     DEF Next, Step, Return, Panic, vars, Cleanup, SelfCleanup

\* What the caches do is what the service promises: a blob that answers the
\* request or a refusal, every refusal due to a fetch of that hash that failed or
\* to a blob of the other kind, and no failure remembered, for any readers,
\* requests, evictions and restarts.
THEOREM CachesServe == Spec => Service
<1>1. Init => Promise!Init
  BY DEF Init, Promise!Init, Answered, Refused, Failing
<1>2. QED
  BY <1>1, StepRefines, Invariance, PTL DEF Spec, Service, Promise!Spec
=============================================================================
