----------------------------- MODULE ChunkRange -----------------------------
(***************************************************************************)
(* player/chunk.go: which chunks a read touches, and what it takes of each *)
(* of them.  Pure arithmetic: offsets and lengths are counted in bytes of  *)
(* the stream, chunks are numbered from 0 and hold MaxChunkSize bytes, the *)
(* last one of a stream maybe fewer.                                       *)
(***************************************************************************)
EXTENDS Integers

CONSTANT MaxChunkSize  \* stream.MaxBlobSize - 1

ASSUME ChunkSizeAssumption == MaxChunkSize \in Nat \ {0}

\* The read [offset, offset + readLen), in the terms of streamRange.  The end
\* is exclusive: a read that ends on a chunk boundary names the next chunk as
\* its last one, to read nothing from.
getRange(offset, readLen) ==
    LET end == offset + readLen
        first == offset \div MaxChunkSize
        last == end \div MaxChunkSize
        lastOffset == IF first = last THEN offset - last * MaxChunkSize ELSE 0
    IN  [FirstChunkIdx |-> first,
         LastChunkIdx |-> last,
         FirstChunkOffset |-> offset - first * MaxChunkSize,
         LastChunkReadLen |-> end - last * MaxChunkSize - lastOffset,
         LastChunkOffset |-> lastOffset]

\* Where to read in chunk i, and at most how much.  A chunk strictly between
\* the first and the last is not read at all: reads are too short to have one.
ByteRangeForChunk(sr, i) ==
    CASE i = sr.FirstChunkIdx ->
            [offset |-> sr.FirstChunkOffset, len |-> MaxChunkSize - sr.FirstChunkOffset]
      [] i # sr.FirstChunkIdx /\ i = sr.LastChunkIdx ->
            [offset |-> sr.LastChunkOffset, len |-> sr.LastChunkReadLen]
      [] OTHER -> [offset |-> 0, len |-> 0]

AtMost(a, b) == IF a <= b THEN a ELSE b

\* Mutant of ReadCount below: the last byte of a chunk is left out.
ReadCountShort(size, offset, n, room) == AtMost(AtMost(n, size - offset - 1), room)

\* ReadableChunk.Read on a chunk of `size` bytes, into `room` bytes: how many
\* are copied.  The slice b[offset:offset+n] panics when offset is past the
\* end of the chunk, for then the clipped n is negative.
ReadPanics(size, offset) == offset > size
ReadCount(size, offset, n, room) == AtMost(AtMost(n, size - offset), room)
=============================================================================
