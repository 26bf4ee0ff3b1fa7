------------------------------- MODULE Stream -------------------------------
(***************************************************************************)
(* player/stream.go and ServeStream of player/server.go: one GET of one    *)
(* stream, from PrepareForReading to the last byte of the body.            *)
(*                                                                         *)
(* The file has file.len bytes, cut into chunks of MaxChunkSize; the       *)
(* descriptor lists the chunks and a terminator, an empty blob.  The claim *)
(* says the file has file.claimed bytes: a publisher's word, 0 when it     *)
(* says nothing.  Byte p of the file is represented by p itself, so that   *)
(* the body shows which bytes were sent, and in which order.               *)
(*                                                                         *)
(* The handler runs alone on its Stream value.  It shares the caches with  *)
(* the goroutines it starts to prefetch, and with everybody else's         *)
(* requests, which evict.  A fetch of a chunk succeeds when the caches     *)
(* have it, else it succeeds or fails (HotCache.tla has the details).      *)
(***************************************************************************)
EXTENDS ChunkRange, HttpRange, FiniteSets

CONSTANTS
    Files,          \* what is served: records [len, claimed]
    Headers,        \* the Range headers of the requests
    BufferSize,     \* length of the buffer io.CopyN reads into (32 KiB)
    PrefetchCount,  \* how many chunks are fetched ahead
    Padding,        \* AES block size
    WordSize        \* 2^64, the size of a uint64

ASSUME StreamAssumption ==
    /\ BufferSize \in Nat \ {0} /\ BufferSize <= MaxChunkSize
    /\ PrefetchCount \in Nat
    /\ Padding \in Nat \ {0} /\ (MaxChunkSize + 1) % Padding = 0
    /\ WordSize \in Nat /\ WordSize % 2 = 0 /\ Padding < WordSize \div 2
    /\ Files \subseteq [len : 0 .. WordSize \div 2 - 1, claimed : 0 .. WordSize - 1]
    /\ Headers \subseteq [form : {"none", "garbage", "bytes"},
                          specs : Seq([start : Nat \cup {Blank, Junk},
                                       end : Int \cup {Blank, Junk}])]
    /\ Blank \notin Int /\ Junk \notin Int /\ Blank # Junk

VARIABLES
    file,        \* what is served
    header,      \* its Range header
    stage,       \* prepare, size, serve, copy, read; done or panicked
    Size,        \* Stream.Size, a uint64
    seekOffset,  \* Stream.seekOffset
    current,     \* the chunk that currentChunkHash names, or NoHash
    prefetched,  \* the keys of prefetchedChunks
    workers,     \* the prefetching goroutines, as [next, end] of their slices
    cached,      \* the chunks that the caches have
    reply,       \* the status and the headers that are sent
    left,        \* what the LimitedReader of io.CopyN still lets through
    body,        \* the bytes that are sent
    reading,     \* the Read in progress: its plan, its next chunk, its bytes
    faulty       \* whether a fetch for this request, or a write, has failed

vars == <<file, header, stage, Size, seekOffset, current, prefetched, workers,
          cached, reply, left, body, reading, faulty>>

request == <<file, header>>
source == <<current, prefetched, workers, cached>>

-----------------------------------------------------------------------------
(* The descriptor.                                                          *)
Chunks(f) == (f.len + MaxChunkSize - 1) \div MaxChunkSize
Blobs == Chunks(file) + 1           \* len(sdBlob.BlobInfos)
Terminator == Chunks(file)
ChunkLen(i) == Smaller(MaxChunkSize, file.len - i * MaxChunkSize)

\* currentChunkHash starts as "", which is also the terminator's hash.
NoHash == -1
HashOf(i) == IF i = Terminator THEN NoHash ELSE i

\* BlobInfo.Length of chunk i: the chunk and its padding.
BlobLen(i) == (ChunkLen(i) \div Padding + 1) * Padding

-----------------------------------------------------------------------------
(* Fetching.                                                                *)

\* How a fetch of blob i from the caches can end.  Nobody stores a blob under
\* the terminator's empty hash.
FetchEnds(i) ==
    IF i = Terminator THEN {"error"}
    ELSE IF i \in cached THEN {"chunk"}
    ELSE {"chunk", "error"}

\* How GetChunk(i) can end.
ChunkEnds(i) ==
    IF i > Blobs THEN {"error"}
    ELSE IF i = Blobs THEN {"panic"}
    ELSE IF HashOf(i) = current
         THEN IF current = NoHash THEN {"panic"} ELSE {"chunk"}
         ELSE FetchEnds(i)

\* Mutant: the last blob is not left out.
PrefetcherOfAll(i) ==
    LET len == Smaller(PrefetchCount, Blobs - i)
    IN  IF len <= 0 THEN {} ELSE {[next |-> i, end |-> i + len]}

\* The goroutine that fetches from chunk i on, never the terminator.
Prefetcher(i) ==
    LET len == Smaller(PrefetchCount, Blobs - i - 1)
    IN  IF len <= 0 THEN {} ELSE {[next |-> i, end |-> i + len]}

\* What GetChunk(i) leaves behind when it ends with e: a chunk that was not
\* the current one becomes it, and starts the prefetching of the next ones,
\* unless that was done already.
GotChunk(i, e) ==
    IF e = "chunk" /\ HashOf(i) # current
    THEN /\ current' = HashOf(i)
         /\ cached' = cached \cup {i}
         /\ prefetched' = prefetched \cup {i + 1}
         /\ workers' = workers \cup (IF i + 1 \in prefetched THEN {} ELSE Prefetcher(i + 1))
    ELSE UNCHANGED source

\* Only a fetch of a chunk the file has can be at fault.
Fault(i, e) == e = "error" /\ i < Terminator

\* One blob of a prefetching goroutine's slice: a cached one is passed over,
\* an error ends the goroutine.
Prefetch(w) ==
    /\ w \in workers
    /\ \E e \in FetchEnds(w.next) :
        LET rest == [w EXCEPT !.next = @ + 1]
        IN  /\ workers' = (workers \ {w})
                            \cup (IF e = "error" \/ rest.next = w.end THEN {} ELSE {rest})
            /\ cached' = IF e = "error" THEN cached ELSE cached \cup {w.next}
    /\ UNCHANGED <<request, stage, Size, seekOffset, current, prefetched, reply, left,
                   body, reading, faulty>>

\* Other requests make room in the caches.
Evict(i) ==
    /\ i \in cached
    /\ cached' = cached \ {i}
    /\ UNCHANGED <<request, stage, Size, seekOffset, current, prefetched, workers,
                   reply, left, body, reading, faulty>>

-----------------------------------------------------------------------------
(* PrepareForReading.                                                       *)
NoReply == [code |-> 0, start |-> 0, length |-> 0]
NotReading == [sr |-> getRange(0, 0), i |-> 0, room |-> 0, bytes |-> <<>>]

Init ==
    /\ file \in Files
    /\ header \in Headers
    /\ stage = "prepare"
    /\ Size = file.claimed
    /\ seekOffset = 0
    /\ current = NoHash
    /\ prefetched = {}
    /\ workers = {}
    /\ cached = {}
    /\ reply = NoReply
    /\ left = 0
    /\ body = <<>>
    /\ reading = NotReading
    /\ faulty = FALSE

\* The descriptor is fetched; the handler answers 500 or 503 when it cannot be.
Prepare ==
    /\ stage = "prepare"
    /\ \/ /\ stage' = "size"
          /\ UNCHANGED <<reply, faulty>>
       \/ /\ stage' = "done"
          /\ reply' = [NoReply EXCEPT !.code = 500]
          /\ faulty' = TRUE
    /\ UNCHANGED <<request, Size, seekOffset, source, left, body, reading>>

\* A size the claim does not tell is computed from the last chunk's length.
ExactSize == MaxChunkSize * (Chunks(file) - 1) + ChunkLen(Chunks(file) - 1)

\* The sum of the lengths, without the padding byte of every chunk.
Counted(i) ==
    CASE i = Terminator -> -1
      [] i # Terminator /\ BlobLen(i) = MaxChunkSize + 1 -> MaxChunkSize
      [] OTHER -> BlobLen(i) - 1

CountedSize ==
    LET sum[i \in 0 .. Blobs] == IF i = 0 THEN 0 ELSE Counted(i - 1) + sum[i - 1]
    IN  sum[Blobs]

\* Mutants: the last padding is kept; the subtractions do not wrap around.
EstimateWithPadding == (CountedSize + 1) % WordSize
EstimateUnwrapped == CountedSize - Padding

\* Or it is estimated from the lengths in the descriptor, the last padding
\* taken off.  The terminator, whose length is 0, counts as minus one, in the
\* arithmetic of uint64.
EstimatedSize == (CountedSize - Padding) % WordSize

setSize ==
    /\ stage = "size"
    /\ stage' = "serve"
    /\ \/ /\ Size > 0
          /\ UNCHANGED <<Size, cached, faulty>>
       \/ /\ Size = 0
          /\ Chunks(file) = 0
          /\ UNCHANGED <<Size, cached, faulty>>
       \/ /\ Size = 0
          /\ Chunks(file) > 0
          /\ \/ /\ Size' = ExactSize
                /\ cached' = cached \cup {Chunks(file) - 1}
                /\ UNCHANGED faulty
             \/ /\ "error" \in FetchEnds(Chunks(file) - 1)
                /\ Size' = EstimatedSize
                /\ faulty' = TRUE
                /\ UNCHANGED cached
    /\ UNCHANGED <<request, seekOffset, current, prefetched, workers, reply, left,
                   body, reading>>

-----------------------------------------------------------------------------
(* ServeStream.                                                             *)
Signed(n) == IF n >= WordSize \div 2 THEN n - WordSize ELSE n

\* The ranges that are served: none of them when they add up to more than the
\* whole stream.
RangesServed ==
    LET ranges == parseRange(header, Signed(Size)).ranges
    IN  IF sumRangesSize(ranges) > Signed(Size) THEN <<>> ELSE ranges

\* The place of the range, if it is exactly one.
OnlyRange == {k \in DOMAIN RangesServed : DOMAIN RangesServed = {k}}

\* Seek(offset, io.SeekStart) succeeds.
CanSeek(offset) == Size # 0 /\ 0 <= offset /\ offset <= Size

\* The header is ignored for a negative size.
Understood == Signed(Size) < 0 \/ parseRange(header, Signed(Size)).err = "none"

Begin(code, start, length) ==
    /\ reply' = [code |-> code, start |-> start, length |-> length]
    /\ left' = length
    /\ stage' = "copy"

Refuse ==
    /\ reply' = [NoReply EXCEPT !.code = 416]
    /\ stage' = "done"
    /\ UNCHANGED left

ServeUnsatisfiable ==
    /\ stage = "serve"
    /\ ~Understood
    /\ Refuse
    /\ UNCHANGED <<request, Size, seekOffset, source, body, reading, faulty>>

\* No range, or not exactly one: the whole stream is sent.
ServeWhole ==
    /\ stage = "serve"
    /\ Understood
    /\ Signed(Size) < 0 \/ OnlyRange = {}
    /\ Begin(200, 0, Signed(Size))
    /\ UNCHANGED <<request, Size, seekOffset, source, body, reading, faulty>>

\* One range: seek to it, and make sure of its first chunk before the status
\* is decided.
ServeRange ==
    /\ stage = "serve"
    /\ Understood
    /\ Signed(Size) >= 0
    /\ \E k \in OnlyRange :
       LET ra == RangesServed[k]
           i == getRange(ra.start, 1).FirstChunkIdx
       IN  IF ~CanSeek(ra.start)
           THEN Refuse /\ UNCHANGED <<seekOffset, source, faulty>>
           ELSE /\ seekOffset' = ra.start
                /\ \E e \in ChunkEnds(i) :
                    /\ GotChunk(i, e)
                    /\ faulty' = (faulty \/ Fault(i, e))
                    /\ \/ e = "chunk" /\ Begin(206, ra.start, ra.length)
                       \/ e = "error" /\ Refuse
                       \/ e = "panic" /\ stage' = "panicked" /\ UNCHANGED <<reply, left>>
    /\ UNCHANGED <<request, Size, body, reading>>
-----------------------------------------------------------------------------
(* io.CopyN over Stream.Read.                                               *)

\* The LimitedReader is at its end.
CopyEnds ==
    /\ stage = "copy"
    /\ left <= 0
    /\ stage' = "done"
    /\ UNCHANGED <<request, Size, seekOffset, source, reply, left, body, reading, faulty>>

ReadStarts ==
    /\ stage = "copy"
    /\ left > 0
    /\ LET room == Smaller(BufferSize, left)
           sr == getRange(seekOffset, room)
       IN  reading' = [sr |-> sr, i |-> sr.FirstChunkIdx, room |-> room, bytes |-> <<>>]
    /\ stage' = "read"
    /\ UNCHANGED <<request, Size, seekOffset, source, reply, left, body, faulty>>

\* Mutant: every chunk is read from its start.
BytesFromChunkStart ==
    LET range == ByteRangeForChunk(reading.sr, reading.i)
        n == ReadCount(ChunkLen(reading.i), range.offset, range.len,
                       reading.room - Len(reading.bytes))
    IN  [k \in 1 .. n |-> reading.i * MaxChunkSize + k - 1]

\* What ReadableChunk.Read copies of chunk reading.i, byte by byte.
BytesOfChunk ==
    LET range == ByteRangeForChunk(reading.sr, reading.i)
        n == ReadCount(ChunkLen(reading.i), range.offset, range.len,
                       reading.room - Len(reading.bytes))
    IN  [k \in 1 .. n |-> reading.i * MaxChunkSize + range.offset + k - 1]

\* Read returns its bytes and CopyN writes them, then stops if `ends`.  The
\* client may be gone, or the write deadline past.
Deliver(ends) ==
    /\ seekOffset' = seekOffset + Len(reading.bytes)
    /\ reading' = NotReading
    /\ \/ /\ body' = body \o reading.bytes
          /\ left' = left - Len(reading.bytes)
          /\ stage' = IF ends THEN "done" ELSE "copy"
          /\ UNCHANGED faulty
       \/ /\ reading.bytes # <<>>
          /\ stage' = "done"
          /\ faulty' = TRUE
          /\ UNCHANGED <<body, left>>

\* One turn of attemptReadFromChunks' loop.
ReadChunk ==
    /\ stage = "read"
    /\ reading.i <= reading.sr.LastChunkIdx
    /\ \E e \in ChunkEnds(reading.i) :
        /\ e = "chunk"
        /\ GotChunk(reading.i, e)
        /\ IF ReadPanics(ChunkLen(reading.i),
                         ByteRangeForChunk(reading.sr, reading.i).offset)
           THEN stage' = "panicked" /\ UNCHANGED reading
           ELSE /\ reading' = [reading EXCEPT !.i = @ + 1, !.bytes = @ \o BytesOfChunk]
                /\ UNCHANGED stage
    /\ UNCHANGED <<request, Size, seekOffset, reply, left, body, faulty>>

\* No chunk, no more bytes: Read returns those it has, with the error.
ReadFails ==
    /\ stage = "read"
    /\ reading.i <= reading.sr.LastChunkIdx
    /\ "error" \in ChunkEnds(reading.i)
    /\ seekOffset' = seekOffset + Len(reading.bytes)
    /\ body' = body \o reading.bytes
    /\ left' = left - Len(reading.bytes)
    /\ reading' = NotReading
    /\ stage' = "done"
    /\ faulty' = (faulty \/ Fault(reading.i, "error"))
    /\ UNCHANGED <<request, Size, source, reply>>

ReadPanicked ==
    /\ stage = "read"
    /\ reading.i <= reading.sr.LastChunkIdx
    /\ "panic" \in ChunkEnds(reading.i)
    /\ stage' = "panicked"
    /\ UNCHANGED <<request, Size, seekOffset, source, reply, left, body, reading, faulty>>

\* Mutant: Read returns 0, nil.
EmptyReadGoesOn == FALSE

\* The loop is done.  To have read nothing is an error, "triggering an endless
\* loop" otherwise: CopyN would ask again.
EmptyReadEnds == reading.bytes = <<>>

ReadReturns ==
    /\ stage = "read"
    /\ reading.i > reading.sr.LastChunkIdx
    /\ Deliver(EmptyReadEnds)
    /\ UNCHANGED <<request, Size, source, reply>>

Handler ==
    \/ Prepare
    \/ setSize
    \/ ServeUnsatisfiable
    \/ ServeWhole
    \/ ServeRange
    \/ CopyEnds
    \/ ReadStarts
    \/ ReadChunk
    \/ ReadFails
    \/ ReadPanicked
    \/ ReadReturns

Next ==
    \/ Handler
    \/ \E w \in workers : Prefetch(w)
    \/ \E i \in cached : Evict(i)

Spec == Init /\ [][Next]_vars

\* The handler is a goroutine: it is scheduled, and its fetches and writes
\* have time-outs.
FairSpec == Spec /\ WF_vars(Handler)

-----------------------------------------------------------------------------
Over == stage \in {"done", "panicked"}
Served == reply.code \in {200, 206}

\* The claim tells the truth or understates the file.
Honest == file.claimed <= file.len

TypeOK ==
    /\ file \in Files
    /\ header \in Headers
    /\ stage \in {"prepare", "size", "serve", "copy", "read", "done", "panicked"}
    /\ Size \in 0 .. WordSize - 1
    /\ seekOffset \in Nat
    /\ current \in {NoHash} \cup 0 .. Chunks(file) - 1
    /\ prefetched \subseteq 1 .. Chunks(file)
    /\ cached \subseteq 0 .. Chunks(file) - 1
    /\ workers \subseteq [next : Nat, end : Nat]
    /\ \A w \in workers : w.next < w.end
    /\ reply \in [code : {0, 200, 206, 416, 500}, start : Nat, length : Int]
    /\ body \in Seq(Nat)
    /\ left \in Int
    /\ faulty \in BOOLEAN

\* The bytes sent are, from the first, the bytes of the range announced:
\* none skipped, doubled or out of order, across chunk boundaries and reads
\* of any alignment, and never more of them than announced.
BodyIsRange ==
    /\ \A k \in DOMAIN body : body[k] = reply.start + k - 1
    /\ Served /\ reply.length >= 0 => Len(body) <= reply.length

\* A body falls short of its Content-Length only when a fetch or a write
\* failed, or when the claim overstates the file; and without a fault an
\* answer without a range, which may be cached for a year, is the whole file,
\* when the claim tells the size of it or none.
ShortOnlyByFault ==
    stage = "done" /\ Served /\ ~faulty /\ Honest =>
        /\ Len(body) = reply.length
        /\ reply.code = 200 /\ file.claimed \in {0, file.len} => Len(body) = file.len

\* A single range is answered with the positions RFC 7233 says it asks for.
RangeAsAsked ==
    reply.code = 206 =>
        \E k \in DOMAIN header.specs :
            /\ ~PastEnd(header.specs[k], Size)
            /\ Asked(header.specs[k], Size)
                 = reply.start .. reply.start + reply.length - 1

\* Nothing but an overstated claim or a suffix of length 0 makes GetChunk or
\* Read run out of their slices.
PanicsOnlyOnLies ==
    stage = "panicked" =>
        \/ ~Honest
        \/ \E k \in DOMAIN header.specs : Suffix(header.specs[k]) /\ header.specs[k].end = 0

\* A size that is computed, not claimed, never exceeds the file, as ServeStream
\* reads it.
SizeNotInvented ==
    file.claimed = 0 /\ stage \notin {"prepare", "size"} => Signed(Size) <= file.len

\* A prefetching goroutine stays on chunks behind the first; it never asks for
\* the terminator.
PrefetchInBounds ==
    \A w \in workers : 1 <= w.next /\ w.end <= Terminator

\* What parseRange promises, to read the header "as per RFC 7233", where a
\* suffix of length 0 is not satisfiable: a 206 has a range.  It does not hold.
PartialHasRange == reply.code = 206 => reply.length > 0

\* What GetChunk's error for an index out of bounds is there for.  It does not
\* hold: the index len(BlobInfos) is let through.
NeverPanics == stage # "panicked"

\* Every request is over at some time: no read returns nothing for ever.
RequestEnds == <>Over

-----------------------------------------------------------------------------
(* The inductive invariant behind them (StreamProofs.tla).                  *)

\* The size is the claim's, or computed, and then exact unless a fetch failed.
SizeRight ==
    /\ file.claimed # 0 \/ stage \in {"prepare", "size"} => Size = file.claimed
    /\ file.claimed = 0 => Signed(Size) <= file.len
    /\ file.claimed = 0 /\ ~faulty /\ stage \notin {"prepare", "size"} => Size = file.len

\* Nothing is read, or announced, before ServeStream has decided what to send.
UntouchedBefore ==
    /\ stage \in {"prepare", "size", "serve"} =>
          reply = NoReply /\ body = <<>> /\ seekOffset = 0 /\ current = NoHash
    /\ stage \in {"copy", "read"} => Served

\* What is announced lies within the stream, as its size has it.
ReplyRight ==
    /\ reply.code = 200 => reply.start = 0 /\ reply.length = Signed(Size)
    /\ reply.code = 206 =>
          reply.length >= 0 /\ reply.start + reply.length <= Size /\ Size = Signed(Size)

\* The position in the stream and what is left are what has been sent.
CopyRight ==
    stage \in {"copy", "read"} =>
        /\ seekOffset = reply.start + Len(body)
        /\ left = reply.length - Len(body)

\* The read in progress has consecutive bytes, from the position on.  It has
\* left its first chunk with what the chunk had for it, which is why it may go
\* on at the start of the next.
ReadRight ==
    stage = "read" =>
        LET i == reading.i
            room == Smaller(BufferSize, left)
            sr == getRange(seekOffset, room)
            first == sr.FirstChunkIdx
            got == Len(reading.bytes)
        IN  /\ left > 0 /\ got <= room
            /\ reading \in [sr : {sr}, i : first .. sr.LastChunkIdx + 1, room : {room},
                            bytes : Seq(Nat)]
            /\ \A k \in 1 .. got : reading.bytes[k] = seekOffset + k - 1
            /\ i = first => got = 0
            /\ i # first => current = i - 1 /\ (Honest => got > 0)
            /\ i = first + 1 =>
                  got = Smaller(room, Smaller(file.len, i * MaxChunkSize) - seekOffset)

Inv ==
    /\ TypeOK
    /\ SizeRight
    /\ UntouchedBefore
    /\ ReplyRight
    /\ BodyIsRange
    /\ CopyRight
    /\ ReadRight
    /\ ShortOnlyByFault
    /\ RangeAsAsked
    /\ PanicsOnlyOnLies
    /\ PrefetchInBounds
=============================================================================
