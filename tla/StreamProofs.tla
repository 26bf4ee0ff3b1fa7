---------------------------- MODULE StreamProofs ----------------------------
(***************************************************************************)
(* Proofs about Stream: what one GET of a stream is sent, for files,       *)
(* claims and Range headers of any size and form, chunks, buffers and      *)
(* words of any size, and whatever the caches do.                          *)
(***************************************************************************)
EXTENDS Stream, SequenceTheorems, WellFoundedInduction, TLAPS

-----------------------------------------------------------------------------
(* What getRange and ByteRangeForChunk of player/chunk.go compute, for      *)
(* every chunk size, offset and length.                                     *)

\* Division by the chunk size, in the form the proofs below use it.
LEMMA Division ==
    ASSUME NEW n \in Nat
    PROVE  /\ n \div MaxChunkSize \in Nat
           /\ (n \div MaxChunkSize) * MaxChunkSize <= n
           /\ n < (n \div MaxChunkSize) * MaxChunkSize + MaxChunkSize
  BY ChunkSizeAssumption

\* A quotient grows by at most one when less than one chunk size is added.
LEMMA NextQuotient ==
    ASSUME NEW a \in Nat, NEW b \in Nat,
           a <= b, b <= a + MaxChunkSize
    PROVE  b \div MaxChunkSize \in {a \div MaxChunkSize, a \div MaxChunkSize + 1}
<1> DEFINE C == MaxChunkSize
           p == a \div C
           q == b \div C
<1>1. C \in Nat /\ C > 0
  BY ChunkSizeAssumption
<1>2. p \in Nat /\ p * C <= a /\ a < p * C + C
  BY Division
<1>3. q \in Nat /\ q * C <= b /\ b < q * C + C
  BY Division
<1>4. b <= a + C
  OBVIOUS
<1> HIDE DEF C, p, q
<1>5. p < q + 1
  <2>1. p * C < (q + 1) * C
    BY <1>1, <1>2, <1>3
  <2>2. QED
    BY <1>1, <1>2, <1>3, <2>1
<1>6. q < p + 2
  <2>1. (p + 2) * C = p * C + C + C /\ p * C \in Int /\ q * C \in Int
    BY <1>1, <1>2, <1>3
  <2>2. q * C < (p + 2) * C
    BY <1>1, <1>2, <1>3, <1>4, <2>1
  <2>3. QED
    BY <1>1, <1>2, <1>3, <2>2
<1>7. q \in {p, p + 1}
  BY <1>2, <1>3, <1>5, <1>6
<1>8. QED
  BY <1>7 DEF p, q, C

\* A read of at most one chunk's length has no chunk strictly between its
\* first and its last: the default of ByteRangeForChunk, which would skip such
\* a chunk's bytes, is never taken, as its comment says.
THEOREM NoMiddleChunk ==
    ASSUME NEW offset \in Nat, NEW readLen \in Nat, readLen <= MaxChunkSize
    PROVE  LET sr == getRange(offset, readLen)
           IN  \A i \in sr.FirstChunkIdx .. sr.LastChunkIdx :
                   i = sr.FirstChunkIdx \/ i = sr.LastChunkIdx
<1>1. offset + readLen \in Nat /\ offset <= offset + readLen
      /\ offset + readLen <= offset + MaxChunkSize
  BY ChunkSizeAssumption
<1>2. (offset + readLen) \div MaxChunkSize
          \in {offset \div MaxChunkSize, offset \div MaxChunkSize + 1}
  BY <1>1, NextQuotient
<1>3. offset \div MaxChunkSize \in Nat
  BY Division
<1>4. QED
  BY <1>2, <1>3 DEF getRange

\* The parts of such a read lie end to end and add up to the read: it starts
\* inside its first chunk; within one chunk the first part has room for all of
\* it; across a boundary it takes the rest of the first chunk, and what is left
\* from the start of the next.
THEOREM PartsTileTheRead ==
    ASSUME NEW offset \in Nat, NEW readLen \in Nat, readLen <= MaxChunkSize
    PROVE  LET sr == getRange(offset, readLen)
               head == ByteRangeForChunk(sr, sr.FirstChunkIdx)
               tail == ByteRangeForChunk(sr, sr.LastChunkIdx)
           IN  /\ sr.FirstChunkIdx * MaxChunkSize + head.offset = offset
               /\ head.offset >= 0 /\ head.len > 0
               /\ head.offset + head.len = MaxChunkSize
               /\ sr.LastChunkIdx = sr.FirstChunkIdx => readLen < head.len
               /\ sr.LastChunkIdx # sr.FirstChunkIdx =>
                      /\ sr.LastChunkIdx = sr.FirstChunkIdx + 1
                      /\ tail.offset = 0
                      /\ tail.len >= 0
                      /\ head.len + tail.len = readLen
<1> DEFINE C == MaxChunkSize
           e == offset + readLen
           p == offset \div C
           q == e \div C
           sr == getRange(offset, readLen)
<1>1. C \in Nat /\ C > 0
  BY ChunkSizeAssumption
<1>2. e \in Nat /\ offset <= e /\ e <= offset + C
  BY <1>1
<1>3. p \in Nat /\ p * C <= offset /\ offset < p * C + C
  BY Division
<1>4. q \in Nat /\ q * C <= e /\ e < q * C + C
  BY <1>2, Division
<1>5. q \in {p, p + 1}
  BY <1>2, NextQuotient
<1>6. /\ sr.FirstChunkIdx = p
      /\ sr.LastChunkIdx = q
      /\ sr.FirstChunkOffset = offset - p * C
      /\ sr.LastChunkOffset = IF p = q THEN offset - q * C ELSE 0
      /\ sr.LastChunkReadLen = e - q * C - sr.LastChunkOffset
  BY DEF getRange
<1>7. ByteRangeForChunk(sr, p) = [offset |-> offset - p * C, len |-> C - (offset - p * C)]
  BY <1>6 DEF ByteRangeForChunk
<1>8. q # p => ByteRangeForChunk(sr, q) = [offset |-> 0, len |-> e - q * C]
  <2> SUFFICES ASSUME q # p
               PROVE  ByteRangeForChunk(sr, q) = [offset |-> 0, len |-> e - q * C]
    OBVIOUS
  <2>1. sr.LastChunkOffset = 0
    BY <1>6
  <2>2. sr.LastChunkReadLen = e - q * C
    BY <1>1, <1>2, <1>4, <1>6, <2>1
  <2> HIDE DEF sr, p, q, e, C
  <2>3. QED
    BY <1>6, <2>1, <2>2 DEF ByteRangeForChunk
<1> HIDE DEF sr, p, q, C
<1>9. p * C \in Int /\ q * C \in Int
  BY <1>1, <1>3, <1>4
<1>10. CASE q = p
  BY <1>1, <1>2, <1>3, <1>4, <1>6, <1>7, <1>9, <1>10 DEF sr, C
<1>11. CASE q = p + 1
  <2>1. q * C = p * C + C
    BY <1>1, <1>3, <1>11
  <2>2. q # p
    BY <1>3, <1>11
  <2>3. (C - (offset - p * C)) + (e - q * C) = readLen
    BY <1>1, <1>9, <2>1
  <2>4. QED
    BY <1>1, <1>2, <1>3, <1>4, <1>6, <1>7, <1>8, <1>9, <1>11, <2>1, <2>2, <2>3 DEF sr, C
<1>12. QED
  BY <1>5, <1>10, <1>11

-----------------------------------------------------------------------------
(* Arithmetic.                                                              *)

\* Induction over the naturals, in the form that has no operator for argument.
LEMMA LeastNatural ==
    ASSUME NEW T, T \subseteq Nat, T # {}
    PROVE  \E m \in T : \A k \in T : m <= k
<1> DEFINE R == OpToRel(<, Nat)
<1>1. IsWellFoundedOn(R, Nat)
  BY NatLessThanWellFounded
<1>2. \A x, y \in Nat : y < x => <<y, x>> \in R
  BY DEF OpToRel
<1> HIDE DEF R
<1>3. PICK m \in T : \A k \in T : ~ (<<k, m>> \in R)
  BY <1>1, WFMin
<1>4. ASSUME NEW k \in T
      PROVE  m <= k
  <2>1. ~ (k < m)
    BY <1>2, <1>3
  <2>2. k \in Int /\ m \in Int
    OBVIOUS
  <2>3. QED
    BY <2>1, <2>2
<1>5. QED
  BY <1>4

\* int64(Size) of a uint64.
LEMMA SignedWord ==
    /\ WordSize \div 2 \in Nat \ {0} /\ WordSize = 2 * (WordSize \div 2)
    /\ \A n \in 0 .. WordSize - 1 :
          /\ Signed(n) \in Int
          /\ n < WordSize \div 2 => Signed(n) = n
          /\ Signed(n) >= 0 => Signed(n) = n
<1>1. WordSize \div 2 \in Nat \ {0} /\ WordSize = 2 * (WordSize \div 2)
  BY StreamAssumption
<1>2. QED
  BY <1>1 DEF Signed

\* A file is cut into full chunks and a last one that has at least a byte.
LEMMA ChunksOfFile ==
    ASSUME file \in Files
    PROVE  /\ file.len \in Nat /\ file.len < WordSize \div 2
           /\ file.claimed \in 0 .. WordSize - 1
           /\ Chunks(file) \in Nat
           /\ file.len <= Chunks(file) * MaxChunkSize
           /\ Chunks(file) * MaxChunkSize < file.len + MaxChunkSize
           /\ Chunks(file) = 0 <=> file.len = 0
<1>1. file.len \in Nat /\ file.len < WordSize \div 2 /\ file.claimed \in 0 .. WordSize - 1
  BY StreamAssumption, SignedWord
<1> DEFINE C == MaxChunkSize
           n == file.len + C - 1
<1>2. C \in Nat /\ C > 0 /\ n \in Nat
  BY <1>1, ChunkSizeAssumption
<1>3. n \div C \in Nat /\ (n \div C) * C <= n /\ n < (n \div C) * C + C
  BY <1>2, Division
<1>4. Chunks(file) = n \div C
  BY DEF Chunks
<1> HIDE DEF n, C
<1>5. (n \div C) * C \in Nat
  BY <1>2, <1>3
<1>6. file.len <= (n \div C) * C /\ (n \div C) * C < file.len + C
  BY <1>1, <1>2, <1>3, <1>5 DEF n
<1>7. n \div C = 0 <=> file.len = 0
  <2>1. n \div C = 0 => file.len = 0
    BY <1>1, <1>2, <1>3, <1>6
  <2>2. n \div C >= 1 => (n \div C) * C >= C
    BY <1>2, <1>3
  <2>3. QED
    BY <1>1, <1>2, <1>3, <1>5, <1>6, <2>1, <2>2
<1>8. QED
  BY <1>1, <1>3, <1>4, <1>6, <1>7 DEF C

LEMMA ChunkLength ==
    ASSUME file \in Files, NEW i \in 0 .. Chunks(file) - 1
    PROVE  /\ ChunkLen(i) \in 1 .. MaxChunkSize
           /\ i < Chunks(file) - 1 => ChunkLen(i) = MaxChunkSize
           /\ i = Chunks(file) - 1 => ChunkLen(i) = file.len - i * MaxChunkSize
           /\ i * MaxChunkSize + ChunkLen(i) =
                 Smaller(file.len, i * MaxChunkSize + MaxChunkSize)
<1> DEFINE C == MaxChunkSize
           N == Chunks(file)
<1>1. C \in Nat /\ C > 0
  BY ChunkSizeAssumption
<1>2. /\ file.len \in Nat /\ N \in Nat /\ file.len <= N * C /\ N * C < file.len + C
  BY ChunksOfFile
<1>3. ChunkLen(i) = Smaller(C, file.len - i * C)
  BY DEF ChunkLen
<1>4. i \in Nat /\ i + 1 <= N
  BY <1>2
<1> HIDE DEF C, N
<1>5. i * C \in Nat /\ N * C \in Nat
  BY <1>1, <1>2, <1>4
<1>6. i + 1 = N => N * C = i * C + C
  BY <1>1, <1>4
<1>7. i + 2 <= N => N * C >= i * C + C + C
  <2>1. i + 2 <= N => (i + 2) * C <= N * C
    BY <1>1, <1>2, <1>4
  <2>2. (i + 2) * C = i * C + C + C
    BY <1>1, <1>4
  <2>3. QED
    BY <2>1, <2>2
<1>8. file.len - i * C >= 1 /\ (i + 2 <= N => file.len - i * C > C)
      /\ (i + 1 = N => file.len - i * C <= C)
  BY <1>1, <1>2, <1>4, <1>5, <1>6, <1>7
<1>9. QED
  BY <1>1, <1>2, <1>3, <1>4, <1>5, <1>8 DEF C, N, Smaller

\* getStreamSizeFromLastBlobSize is exact.
LEMMA ExactIsLen ==
    ASSUME file \in Files, Chunks(file) > 0
    PROVE  ExactSize = file.len /\ file.len > 0
<1>1. Chunks(file) \in Nat /\ file.len \in Nat /\ Chunks(file) - 1 \in 0 .. Chunks(file) - 1
  BY ChunksOfFile
<1>2. ChunkLen(Chunks(file) - 1) = file.len - (Chunks(file) - 1) * MaxChunkSize
  BY <1>1, ChunkLength
<1>3. MaxChunkSize * (Chunks(file) - 1) = (Chunks(file) - 1) * MaxChunkSize
      /\ (Chunks(file) - 1) * MaxChunkSize \in Int
  BY <1>1, ChunkSizeAssumption
<1>4. QED
  BY <1>1, <1>2, <1>3, ChunksOfFile DEF ExactSize

\* A blob is its chunk and at least a byte of padding; a full chunk has one.
LEMMA BlobLength ==
    ASSUME file \in Files, NEW i \in 0 .. Chunks(file) - 1
    PROVE  /\ BlobLen(i) \in Nat
           /\ ChunkLen(i) < BlobLen(i) /\ BlobLen(i) <= ChunkLen(i) + Padding
           /\ ChunkLen(i) = MaxChunkSize => BlobLen(i) = MaxChunkSize + 1
<1> DEFINE C == MaxChunkSize
           P == Padding
           m == ChunkLen(i)
           q == m \div P
           k == (C + 1) \div P
<1>1. C \in Nat /\ C > 0 /\ P \in Nat /\ P > 0 /\ m \in Nat
  BY ChunkSizeAssumption, StreamAssumption, ChunkLength
<1>2. q \in Nat /\ q * P <= m /\ m < q * P + P
  BY <1>1
<1>3. k \in Nat /\ k * P = C + 1
  <2>1. (C + 1) % P = 0
    BY StreamAssumption
  <2>2. \A a \in Nat : a \div P \in Nat /\ (a \div P) * P <= a
                        /\ (a % P = 0 => a <= (a \div P) * P)
    BY <1>1
  <2>3. C + 1 \in Nat /\ k \in Nat /\ k * P <= C + 1 /\ C + 1 <= k * P
    BY <1>1, <2>1, <2>2
  <2>4. k * P \in Int
    BY <1>1, <2>3
  <2>5. QED
    BY <1>1, <2>3, <2>4
<1>4. BlobLen(i) = (q + 1) * P
  BY DEF BlobLen
<1> HIDE DEF q, k, m, P, C
<1>5. (q + 1) * P = q * P + P /\ q * P \in Nat
  BY <1>1, <1>2
<1>6. ASSUME m = C
      PROVE  q + 1 = k
  <2>1. q * P < k * P /\ k * P <= (q + 1) * P
    BY <1>1, <1>2, <1>3, <1>5, <1>6
  <2>2. q < k
    BY <1>1, <1>2, <1>3, <2>1
  <2>3. k <= q + 1
    BY <1>1, <1>2, <1>3, <2>1
  <2>4. QED
    BY <1>2, <1>3, <2>2, <2>3
<1>7. QED
  BY <1>1, <1>2, <1>3, <1>4, <1>5, <1>6 DEF m, P, C

\* The loop over the blobs in setSize sums up what Counted says: by induction.
LEMMA LoopSums ==
    ASSUME file \in Files, NEW g \in [0 .. Blobs -> Int], g[0] = 0,
           \A i \in 1 .. Blobs : g[i] = Counted(i - 1) + g[i - 1]
    PROVE  CountedSize = g[Blobs]
<1> DEFINE Loop(f) == [i \in 0 .. Blobs |-> IF i = 0 THEN 0 ELSE Counted(i - 1) + f[i - 1]]
           sum == CHOOSE f : f = Loop(f)
<1>1. Blobs \in Nat
  BY ChunksOfFile DEF Blobs
<1>2. CountedSize = sum[Blobs]
  BY DEF CountedSize
<1>3. g = Loop(g)
  <2>1. \A i \in 0 .. Blobs : g[i] = IF i = 0 THEN 0 ELSE Counted(i - 1) + g[i - 1]
    BY <1>1
  <2>2. QED
    BY <2>1
<1>4. sum = Loop(sum)
  <2> HIDE DEF Loop
  <2>1. QED
    BY <1>3
<1>5. \A i \in 0 .. Blobs : sum[i] = IF i = 0 THEN 0 ELSE Counted(i - 1) + sum[i - 1]
  <2> HIDE DEF sum
  <2>1. QED
    BY <1>4
<1> HIDE DEF sum, Loop
<1> DEFINE Wrong == {i \in 0 .. Blobs : sum[i] # g[i]}
<1>6. Wrong = {}
  <2> SUFFICES ASSUME Wrong # {}
               PROVE  FALSE
    OBVIOUS
  <2>1. Wrong \subseteq Nat
    BY <1>1
  <2>2. PICK m \in Wrong : \A k \in Wrong : m <= k
    BY <2>1, LeastNatural
  <2>3. m \in 1 .. Blobs
    BY <1>1, <1>5, <2>2
  <2>4. m - 1 \in 0 .. Blobs /\ m - 1 \notin Wrong
    BY <1>1, <2>2, <2>3
  <2>5. sum[m - 1] = g[m - 1]
    BY <2>4
  <2>6. sum[m] = Counted(m - 1) + sum[m - 1]
    BY <1>1, <1>5, <2>3
  <2>7. QED
    BY <2>2, <2>3, <2>5, <2>6
<1>7. QED
  BY <1>1, <1>2, <1>6

\* All that is uncertain is the last padding, and the terminator counts for -1.
LEMMA CountedTooMuch ==
    ASSUME file \in Files, Chunks(file) > 0
    PROVE  /\ CountedSize \in Int
           /\ file.len - 1 <= CountedSize /\ CountedSize <= file.len + Padding - 2
<1> DEFINE C == MaxChunkSize
           N == Chunks(file)
           last == BlobLen(N - 1) - 1
           g == [i \in 0 .. Blobs |->
                   CASE i < N -> i * C
                     [] i = N -> (N - 1) * C + last
                     [] OTHER -> (N - 1) * C + last - 1]
<1>1. /\ N \in Nat /\ N > 0 /\ Blobs = N + 1 /\ C \in Nat /\ C > 0
      /\ file.len \in Nat /\ Padding \in Nat
  BY ChunksOfFile, ChunkSizeAssumption, StreamAssumption DEF Blobs
<1>2. N - 1 \in 0 .. Chunks(file) - 1
  BY <1>1
<1>3. /\ last \in Int /\ ChunkLen(N - 1) \in Nat /\ ChunkLen(N - 1) <= last
      /\ last <= ChunkLen(N - 1) + Padding - 1
      /\ (N - 1) * C + ChunkLen(N - 1) = file.len /\ (N - 1) * C \in Int
  <2>1. ChunkLen(N - 1) \in Nat /\ ChunkLen(N - 1) = file.len - (N - 1) * C
    BY <1>1, <1>2, ChunkLength
  <2>2. /\ BlobLen(N - 1) \in Nat /\ ChunkLen(N - 1) < BlobLen(N - 1)
        /\ BlobLen(N - 1) <= ChunkLen(N - 1) + Padding
    BY <1>2, BlobLength
  <2>3. (N - 1) * C \in Int
    BY <1>1
  <2>4. QED
    BY <1>1, <2>1, <2>2, <2>3
<1>4. ASSUME NEW i \in 0 .. N - 2
      PROVE  Counted(i) = C
  <2>1. i \in 0 .. Chunks(file) - 1 /\ i < Chunks(file) - 1 /\ i # Terminator
    BY <1>1 DEF Terminator
  <2>2. BlobLen(i) = MaxChunkSize + 1
    BY <2>1, ChunkLength, BlobLength
  <2>3. QED
    BY <2>1, <2>2 DEF Counted
<1>5. Counted(N - 1) = last /\ Counted(N) = -1
  BY <1>1, <1>3 DEF Counted, Terminator
<1> HIDE DEF C, N, last
<1>6. g \in [0 .. Blobs -> Int] /\ g[0] = 0
  <2>1. \A i \in 0 .. Blobs : i * C \in Int
    BY <1>1
  <2>2. \A i \in 0 .. Blobs : g[i] \in Int
    BY <1>1, <1>3, <2>1
  <2>3. g[0] = 0 * C
    BY <1>1
  <2>4. g \in [0 .. Blobs -> Int]
    BY <2>2
  <2>5. QED
    BY <1>1, <2>3, <2>4
<1>7. ASSUME NEW i \in 1 .. Blobs
      PROVE  g[i] = Counted(i - 1) + g[i - 1]
  <2>1. CASE i < N
    <3>1. i - 1 \in 0 .. N - 2 /\ g[i] = i * C /\ g[i - 1] = (i - 1) * C
      BY <1>1, <2>1
    <3>2. i * C = (i - 1) * C + C /\ (i - 1) * C \in Int
      BY <1>1, <3>1
    <3>3. QED
      BY <1>1, <1>4, <3>1, <3>2
  <2>2. CASE i = N
    <3>1. g[i] = (N - 1) * C + last /\ g[i - 1] = (N - 1) * C
      BY <1>1, <2>2
    <3>2. QED
      BY <1>3, <1>5, <2>2, <3>1
  <2>3. CASE i = N + 1
    <3>1. g[i] = (N - 1) * C + last - 1 /\ g[i - 1] = (N - 1) * C + last
      BY <1>1, <2>3
    <3>2. i - 1 = N
      BY <1>1, <2>3
    <3>3. QED
      BY <1>3, <1>5, <3>1, <3>2
  <2>4. QED
    BY <1>1, <2>1, <2>2, <2>3
<1>8. CountedSize = (N - 1) * C + last - 1
  <2>1. g[Blobs] = (N - 1) * C + last - 1
    BY <1>1
  <2> HIDE DEF g
  <2>2. QED
    BY <1>6, <1>7, <2>1, LoopSums
<1>9. QED
  BY <1>1, <1>3, <1>8

\* So the estimate falls short, or below zero, which the subtraction in uint64
\* makes a size that is negative in the eyes of ServeStream.
LEMMA EstimateFallsShort ==
    ASSUME file \in Files, Chunks(file) > 0
    PROVE  EstimatedSize \in 0 .. WordSize - 1 /\ Signed(EstimatedSize) <= file.len
<1> DEFINE n == CountedSize - Padding
           H == WordSize \div 2
<1>1. H \in Nat /\ H > 0 /\ WordSize = 2 * H
  BY SignedWord
<1>2. n \in Int /\ n <= file.len - 2 /\ n >= file.len - 1 - Padding
      /\ file.len \in Nat /\ file.len < H /\ file.len > 0 /\ Padding \in Nat /\ Padding < H
  BY SMTT(30), CountedTooMuch, ChunksOfFile, ExactIsLen, StreamAssumption
<1>3. EstimatedSize = n % WordSize
  BY DEF EstimatedSize
<1> HIDE DEF n, H
<1>4. n \in -WordSize .. WordSize - 1
  BY <1>1, <1>2
<1>5. n >= 0 => EstimatedSize = n
  BY <1>1, <1>2, <1>3
<1>6. n < 0 => EstimatedSize = n + WordSize
  BY <1>1, <1>2, <1>3, <1>4
<1>7. Signed(EstimatedSize) = n
  BY <1>1, <1>2, <1>5, <1>6 DEF Signed, H
<1>8. QED
  BY <1>1, <1>2, <1>4, <1>5, <1>6, <1>7

-----------------------------------------------------------------------------
(* What the header asks for.                                                *)
RangeSpecs == [start : Nat \cup {Blank, Junk}, end : Int \cup {Blank, Junk}]

\* What parseRange makes of a specification that asks for something is what
\* RFC 7233 says it asks for, unless it starts behind the end, where Seek
\* refuses to go.
LEMMA RangeWithin ==
    ASSUME NEW s \in RangeSpecs, NEW size \in Nat, ~Invalid(s, size), ~PastEnd(s, size)
    PROVE  LET r == RangeOf(s, size)
           IN  /\ r.start \in Nat /\ r.length \in Int
               /\ r.start <= size =>
                     /\ r.length >= 0 /\ r.start + r.length <= size
                     /\ Asked(s, size) = r.start .. r.start + r.length - 1
               /\ r.start = size /\ size > 0 => Suffix(s) /\ s.end = 0
<1> DEFINE r == RangeOf(s, size)
<1>1. /\ Blank \notin Int /\ Junk \notin Int /\ Blank # Junk
      /\ s.start \in Nat \cup {Blank, Junk} /\ s.end \in Int \cup {Blank, Junk}
  BY StreamAssumption DEF RangeSpecs
<1>2. CASE Suffix(s)
  <2>1. s.end \in Int
    BY <1>1, <1>2 DEF Invalid
  <2>2. r.start = size - Smaller(s.end, size) /\ r.length = Smaller(s.end, size)
    BY <1>2 DEF RangeOf
  <2>3. Asked(s, size) = {p \in 0 .. size - 1 : p >= size - s.end}
    BY <1>2 DEF Asked
  <2> HIDE DEF r
  <2>4. CASE s.end <= size
    BY <1>2, <2>1, <2>2, <2>3, <2>4 DEF Smaller, r
  <2>5. CASE s.end > size
    BY <1>2, <2>1, <2>2, <2>3, <2>5 DEF Smaller, r
  <2>6. QED
    BY <2>1, <2>4, <2>5
<1>3. CASE ~Suffix(s)
  <2>1. s.start \in Nat /\ s.start < size
    BY <1>1, <1>3 DEF Invalid, PastEnd, Suffix
  <2>2. CASE s.end = Blank
    <3>1. r.start = s.start /\ r.length = size - s.start
      BY <1>3, <2>2 DEF RangeOf
    <3>2. Asked(s, size) = {p \in 0 .. size - 1 : p >= s.start}
      BY <1>3, <2>2 DEF Asked
    <3> HIDE DEF r
    <3>3. QED
      BY <2>1, <3>1, <3>2 DEF r
  <2>3. CASE s.end # Blank
    <3>1. s.end \in Int /\ s.start <= s.end
      BY <1>1, <1>3, <2>1, <2>3 DEF Invalid
    <3>2. r.start = s.start /\ r.length = (Smaller(s.end, size - 1) + 1) - s.start
      <4>1. r = [start |-> s.start, length |-> (Smaller(s.end, size - 1) + 1) - s.start]
        BY <1>3, <2>3, Zenon DEF RangeOf
      <4> HIDE DEF r
      <4>2. QED
        BY <4>1
    <3>3. Asked(s, size) = {p \in 0 .. size - 1 : p >= s.start /\ p <= s.end}
      BY <1>3, <2>3 DEF Asked
    <3> HIDE DEF r
    <3>4. QED
      BY <2>1, <3>1, <3>2, <3>3 DEF r, Smaller
  <2>4. QED
    BY <2>2, <2>3
<1>4. QED
  BY <1>2, <1>3

\* The range that ServeStream serves is that of a specification of the header.
LEMMA RangeIsAskedFor ==
    ASSUME header \in Headers, NEW k \in OnlyRange
    PROVE  /\ k \in DOMAIN header.specs /\ header.specs[k] \in RangeSpecs
           /\ ~Invalid(header.specs[k], Signed(Size)) /\ ~PastEnd(header.specs[k], Signed(Size))
           /\ RangesServed[k] = RangeOf(header.specs[k], Signed(Size))
<1> DEFINE ranges == parseRange(header, Signed(Size)).ranges
<1>1. k \in DOMAIN RangesServed
  BY DEF OnlyRange
<1>2. RangesServed = ranges
  BY <1>1 DEF RangesServed
<1>3. /\ ~ \E j \in DOMAIN header.specs : Invalid(header.specs[j], Signed(Size))
      /\ ranges = RangesOf(header.specs, Signed(Size))
  BY <1>1, <1>2 DEF parseRange
<1>4. /\ k \in DOMAIN header.specs /\ ~PastEnd(header.specs[k], Signed(Size))
      /\ RangesServed[k] = RangeOf(header.specs[k], Signed(Size))
  BY <1>1, <1>2, <1>3 DEF RangesOf
<1>5. header.specs \in Seq(RangeSpecs)
  BY StreamAssumption DEF RangeSpecs
<1>6. QED
  BY <1>3, <1>4, <1>5

-----------------------------------------------------------------------------
(* The chunks: GetChunk, and the prefetching behind it.                     *)

\* TypeOK and PrefetchInBounds of the variables in `source`.
SourceRight ==
    /\ current \in {NoHash} \cup 0 .. Chunks(file) - 1
    /\ prefetched \subseteq 1 .. Chunks(file)
    /\ cached \subseteq 0 .. Chunks(file) - 1
    /\ workers \subseteq [next : Nat, end : Nat]
    /\ \A w \in workers : 1 <= w.next /\ w.next < w.end /\ w.end <= Terminator

\* GetChunk gives chunks of the file only; it fails without a fault, and it
\* panics, only behind them.
LEMMA ChunkOutcome ==
    ASSUME file \in Files, SourceRight, NEW i \in Nat, NEW e \in ChunkEnds(i)
    PROVE  /\ e = "chunk" => i \in 0 .. Chunks(file) - 1
           /\ e = "panic" => i = Chunks(file) + 1 \/ (i = Chunks(file) /\ current = NoHash)
           /\ e = "error" => i >= Chunks(file) \/ Fault(i, e)
<1>1. Chunks(file) \in Nat /\ Blobs = Chunks(file) + 1 /\ Terminator = Chunks(file)
  BY ChunksOfFile DEF Blobs, Terminator
<1>2. CASE i > Terminator
  BY <1>1, <1>2 DEF ChunkEnds
<1>3. CASE i = Terminator
  BY <1>1, <1>3 DEF ChunkEnds, HashOf, FetchEnds, NoHash
<1>4. CASE i < Terminator
  BY <1>1, <1>4 DEF ChunkEnds, HashOf, FetchEnds, NoHash, Fault
<1>5. QED
  BY <1>1, <1>2, <1>3, <1>4

LEMMA PrefetcherInBounds ==
    ASSUME file \in Files, NEW i \in 0 .. Chunks(file) - 1, NEW w \in Prefetcher(i + 1)
    PROVE  /\ w \in [next : Nat, end : Nat]
           /\ 1 <= w.next /\ w.next < w.end /\ w.end <= Terminator
<1>1. /\ Chunks(file) \in Nat /\ Blobs = Chunks(file) + 1 /\ Terminator = Chunks(file)
      /\ PrefetchCount \in Nat /\ i \in Nat
  BY ChunksOfFile, StreamAssumption DEF Blobs, Terminator
<1> DEFINE len == Smaller(PrefetchCount, Blobs - (i + 1) - 1)
<1>2. len \in Int /\ i + 1 + len <= Terminator
  BY <1>1 DEF Smaller
<1>3. len > 0 /\ w = [next |-> i + 1, end |-> i + 1 + len]
  <2>1. Prefetcher(i + 1) = IF len <= 0 THEN {} ELSE {[next |-> i + 1, end |-> i + 1 + len]}
    BY DEF Prefetcher
  <2> HIDE DEF len
  <2>2. QED
    BY <1>2, <2>1
<1> HIDE DEF len
<1>4. QED
  BY <1>1, <1>2, <1>3

LEMMA GotChunkRight ==
    ASSUME file \in Files, SourceRight, NEW i \in Nat, NEW e \in ChunkEnds(i),
           GotChunk(i, e), file' = file
    PROVE  /\ SourceRight'
           /\ e = "chunk" => current' = i
           /\ e # "chunk" => UNCHANGED source
<1>1. /\ Chunks(file)' = Chunks(file) /\ Terminator' = Terminator
      /\ Chunks(file) \in Nat /\ Terminator = Chunks(file)
  BY ChunksOfFile DEF Chunks, Terminator
<1>2. CASE e = "chunk" /\ HashOf(i) # current
  <2>1. i \in 0 .. Chunks(file) - 1
    BY <1>2, ChunkOutcome
  <2>2. /\ current' = i /\ cached' = cached \cup {i} /\ prefetched' = prefetched \cup {i + 1}
        /\ \A w \in workers' : w \in workers \/ w \in Prefetcher(i + 1)
    BY <1>1, <1>2, <2>1 DEF GotChunk, HashOf
  <2>3. \A w \in workers' : /\ w \in [next : Nat, end : Nat]
                            /\ 1 <= w.next /\ w.next < w.end /\ w.end <= Terminator
    BY <2>1, <2>2, PrefetcherInBounds DEF SourceRight
  <2>4. QED
    BY <1>1, <1>2, <2>1, <2>2, <2>3 DEF SourceRight
<1>3. CASE ~(e = "chunk" /\ HashOf(i) # current)
  <2>1. UNCHANGED source
    BY <1>3 DEF GotChunk
  <2>2. SourceRight'
    BY <1>1, <2>1 DEF SourceRight, source
  <2>3. e = "chunk" => current' = i
    BY <1>1, <1>3, <2>1, ChunkOutcome DEF HashOf, source
  <2>4. QED
    BY <2>1, <2>2, <2>3
<1>4. QED
  BY <1>2, <1>3

\* A goroutine stays within its slice.
LEMMA PrefetchRight ==
    ASSUME file \in Files, SourceRight, NEW w \in workers, Prefetch(w)
    PROVE  SourceRight'
<1>1. /\ Chunks(file)' = Chunks(file) /\ Terminator' = Terminator /\ file' = file
      /\ Chunks(file) \in Nat /\ Terminator = Chunks(file)
  BY ChunksOfFile DEF Chunks, Terminator, Prefetch, request
<1>2. UNCHANGED <<current, prefetched>>
  BY DEF Prefetch
<1>3. /\ w \in [next : Nat, end : Nat]
      /\ 1 <= w.next /\ w.next < w.end /\ w.end <= Terminator
  BY DEF SourceRight
<1> DEFINE rest == [w EXCEPT !.next = @ + 1]
<1>4. rest \in [next : Nat, end : Nat] /\ rest.next = w.next + 1 /\ rest.end = w.end
  BY <1>3
<1>5. /\ \A v \in workers' : v \in workers \/ (v = rest /\ rest.next # w.end)
      /\ cached' \subseteq cached \cup {w.next}
  <2>1. PICK e \in FetchEnds(w.next) :
            /\ workers' = (workers \ {w})
                             \cup (IF e = "error" \/ rest.next = w.end THEN {} ELSE {rest})
            /\ cached' = IF e = "error" THEN cached ELSE cached \cup {w.next}
    BY DEF Prefetch
  <2> HIDE DEF rest
  <2>2. QED
    BY <2>1
<1> HIDE DEF rest
<1>6. \A v \in workers' : /\ v \in [next : Nat, end : Nat]
                          /\ 1 <= v.next /\ v.next < v.end /\ v.end <= Terminator
  <2> TAKE v \in workers'
  <2>1. CASE v \in workers
    BY <2>1 DEF SourceRight
  <2>2. CASE v = rest /\ rest.next # w.end
    BY <1>3, <1>4, <2>2
  <2>3. QED
    BY <1>5, <2>1, <2>2
<1>7. cached' \subseteq 0 .. Chunks(file) - 1
  BY <1>1, <1>3, <1>5 DEF SourceRight
<1>8. QED
  BY <1>1, <1>2, <1>6, <1>7 DEF SourceRight

-----------------------------------------------------------------------------
(* Sizes and positions.                                                     *)

\* The size of an honest claim, or one that is computed, is not too large, and
\* it is right when it has been computed without a fault.
LEMMA HonestSize ==
    ASSUME TypeOK, SizeRight
    PROVE  /\ Size \in 0 .. WordSize - 1 /\ Signed(Size) \in Int
           /\ Signed(Size) >= 0 => Signed(Size) = Size
           /\ Honest => Signed(Size) <= file.len
           /\ Honest /\ ~faulty /\ stage \notin {"prepare", "size"} =>
                 Signed(Size) = Size /\ Size <= file.len
           /\ file.claimed \in {0, file.len} /\ ~faulty /\ stage \notin {"prepare", "size"} =>
                 Signed(Size) = file.len
<1>1. /\ Size \in 0 .. WordSize - 1 /\ file.len \in Nat /\ file.len < WordSize \div 2
      /\ file.claimed \in 0 .. WordSize - 1
  BY ChunksOfFile DEF TypeOK
<1>2. /\ Signed(Size) \in Int /\ (Signed(Size) >= 0 => Signed(Size) = Size)
      /\ (Size < WordSize \div 2 => Signed(Size) = Size) /\ WordSize \div 2 \in Nat
  BY <1>1, SignedWord
<1>3. CASE file.claimed = 0
  BY <1>1, <1>2, <1>3 DEF SizeRight
<1>4. CASE file.claimed # 0
  BY <1>1, <1>2, <1>4 DEF SizeRight, Honest
<1>5. QED
  BY <1>1, <1>2, <1>3, <1>4

\* What is left to send ends within the file, if the claim is honest.
LEMMA WithinFile ==
    ASSUME TypeOK, SizeRight, UntouchedBefore, ReplyRight, CopyRight, stage \in {"copy", "read"}
    PROVE  /\ seekOffset \in Nat /\ left \in Int /\ reply.start \in Nat /\ reply.length \in Int
           /\ body \in Seq(Nat) /\ Len(body) \in Nat
           /\ seekOffset = reply.start + Len(body) /\ left = reply.length - Len(body)
           /\ Honest => seekOffset + left <= file.len
<1>1. /\ seekOffset \in Nat /\ left \in Int /\ reply.start \in Nat /\ reply.length \in Int
      /\ body \in Seq(Nat) /\ Len(body) \in Nat /\ file.len \in Nat
  BY ChunksOfFile DEF TypeOK
<1>2. seekOffset = reply.start + Len(body) /\ left = reply.length - Len(body)
  BY DEF CopyRight
<1>3. reply.start + reply.length <= Signed(Size)
  BY <1>1, HonestSize DEF UntouchedBefore, Served, ReplyRight
<1>4. Signed(Size) \in Int /\ (Honest => Signed(Size) <= file.len)
  BY HonestSize
<1>5. seekOffset + left = reply.start + reply.length
  BY <1>1, <1>2
<1>6. QED
  BY <1>1, <1>2, <1>3, <1>4, <1>5

\* Consecutive bytes that follow consecutive bytes.
LEMMA Consecutive ==
    ASSUME NEW a \in Seq(Nat), NEW b \in Seq(Nat), NEW s \in Nat,
           \A k \in 1 .. Len(a) : a[k] = s + k - 1,
           \A k \in 1 .. Len(b) : b[k] = s + Len(a) + k - 1
    PROVE  /\ a \o b \in Seq(Nat) /\ Len(a \o b) = Len(a) + Len(b)
           /\ \A k \in 1 .. Len(a \o b) : (a \o b)[k] = s + k - 1
<1>1. Len(a) \in Nat /\ Len(b) \in Nat
  OBVIOUS
<1>2. /\ a \o b \in Seq(Nat) /\ Len(a \o b) = Len(a) + Len(b)
      /\ \A k \in 1 .. Len(a) + Len(b) :
            (a \o b)[k] = IF k <= Len(a) THEN a[k] ELSE b[k - Len(a)]
  BY ConcatProperties
<1>3. ASSUME NEW k \in 1 .. Len(a \o b)
      PROVE  (a \o b)[k] = s + k - 1
  <2>1. CASE k <= Len(a)
    BY <1>1, <1>2, <2>1
  <2>2. CASE k > Len(a)
    <3>1. k - Len(a) \in 1 .. Len(b) /\ (a \o b)[k] = b[k - Len(a)]
      BY <1>1, <1>2, <2>2
    <3>2. b[k - Len(a)] = s + Len(a) + (k - Len(a)) - 1
      BY <3>1
    <3>3. QED
      BY <1>1, <1>2, <3>1, <3>2
  <2>3. QED
    BY <1>1, <1>2, <2>1, <2>2
<1>4. QED
  BY <1>2, <1>3

-----------------------------------------------------------------------------
(* The handler's steps, and everybody else's.                               *)

LEMMA InitInv == Init => Inv
<1> SUFFICES ASSUME Init PROVE Inv
  OBVIOUS
<1>1. file.claimed \in 0 .. WordSize - 1 /\ file.len \in Nat
  BY ChunksOfFile DEF Init
<1>2. TypeOK
  <2>1. /\ reply \in [code : {0, 200, 206, 416, 500}, start : Nat, length : Int]
        /\ body \in Seq(Nat)
    BY DEF Init, NoReply
  <2>2. SourceRight
    BY DEF Init, SourceRight
  <2>3. /\ file \in Files /\ header \in Headers /\ stage = "prepare" /\ left \in Int
        /\ Size \in 0 .. WordSize - 1 /\ seekOffset \in Nat
    BY <1>1 DEF Init
  <2>4. faulty \in BOOLEAN
    BY DEF Init
  <2>5. QED
    BY <2>1, <2>2, <2>3, <2>4 DEF TypeOK, SourceRight
<1>3. SizeRight
  <2>1. file.claimed = 0 => Signed(Size) = 0
    BY SignedWord, <1>1 DEF Init
  <2>2. QED
    BY <1>1, <2>1 DEF Init, SizeRight
<1>4. UntouchedBefore /\ ReplyRight /\ CopyRight /\ ReadRight
  BY DEF Init, UntouchedBefore, ReplyRight, NoReply, CopyRight, ReadRight
<1>5. BodyIsRange /\ ShortOnlyByFault /\ RangeAsAsked /\ PanicsOnlyOnLies /\ PrefetchInBounds
  BY DEF Init, BodyIsRange, ShortOnlyByFault, RangeAsAsked, PanicsOnlyOnLies, PrefetchInBounds,
         Served, NoReply
<1>6. QED
  BY <1>2, <1>3, <1>4, <1>5 DEF Inv

LEMMA InvSource ==
    ASSUME Inv
    PROVE  /\ SourceRight /\ file \in Files /\ header \in Headers
           /\ TypeOK /\ SizeRight /\ UntouchedBefore /\ ReplyRight /\ BodyIsRange /\ CopyRight
           /\ ReadRight /\ ShortOnlyByFault /\ RangeAsAsked /\ PanicsOnlyOnLies
<1>1. Chunks(file) \in Nat
  BY ChunksOfFile DEF Inv, TypeOK
<1>2. QED
  BY <1>1 DEF Inv, TypeOK, PrefetchInBounds, SourceRight

\* What a step keeps of the invariant that does not touch the size, or the
\* chunks.
LEMMA SizeKept ==
    ASSUME SizeRight, UNCHANGED <<file, Size>>, faulty => faulty',
           stage' \in {"prepare", "size"} => stage \in {"prepare", "size"},
           ~faulty' /\ stage' \notin {"prepare", "size"} => stage \notin {"prepare", "size"}
    PROVE  SizeRight'
  BY DEF SizeRight

LEMMA SourceKept ==
    ASSUME SourceRight, UNCHANGED <<file, source>>
    PROVE  SourceRight'
  BY DEF SourceRight, source, Terminator

LEMMA TypesKept ==
    ASSUME TypeOK, SourceRight', UNCHANGED <<request, Size>>,
           stage' \in {"prepare", "size", "serve", "copy", "read", "done", "panicked"},
           seekOffset' \in Nat, left' \in Int, faulty' \in BOOLEAN, body' \in Seq(Nat),
           reply' \in [code : {0, 200, 206, 416, 500}, start : Nat, length : Int]
    PROVE  TypeOK' /\ PrefetchInBounds'
  BY DEF TypeOK, SourceRight, PrefetchInBounds, request

\* What the caches have, and which goroutines fetch, says nothing of the bytes.
LEMMA CachesStep ==
    ASSUME Inv, SourceRight', UNCHANGED <<request, stage, Size, seekOffset, current, reply, left,
                                          body, reading, faulty>>
    PROVE  Inv'
<1>1. TypeOK' /\ PrefetchInBounds'
  BY InvSource, TypesKept DEF TypeOK
<1>2. UNCHANGED <<file, header, stage, Size, seekOffset, current, reply, left, body, reading,
                  faulty>>
  BY DEF request
<1>3. SizeRight'
  BY <1>2, InvSource DEF SizeRight
<1>4. UntouchedBefore' /\ ReplyRight' /\ CopyRight'
  BY <1>2, InvSource DEF UntouchedBefore, ReplyRight, CopyRight, Served
<1>5. ReadRight'
  BY <1>2, InvSource DEF ReadRight, Honest
<1>6. BodyIsRange' /\ ShortOnlyByFault' /\ RangeAsAsked' /\ PanicsOnlyOnLies'
  BY <1>2, InvSource DEF BodyIsRange, ShortOnlyByFault, RangeAsAsked, PanicsOnlyOnLies, Served,
                         Honest
<1>7. QED
  BY <1>1, <1>3, <1>4, <1>5, <1>6 DEF Inv

\* A request that is answered with an error, or with nothing.
LEMMA RefusalStep ==
    ASSUME Inv, SourceRight', stage \in {"prepare", "size", "serve"}, stage' = "done",
           UNCHANGED <<request, Size, body, left>>, seekOffset' \in Nat,
           reply' \in {[NoReply EXCEPT !.code = 416], [NoReply EXCEPT !.code = 500]},
           faulty' \in BOOLEAN, faulty => faulty', stage # "serve" => faulty'
    PROVE  Inv'
<1>1. /\ reply' \in [code : {0, 200, 206, 416, 500}, start : Nat, length : Int]
      /\ reply'.code \in {416, 500} /\ body = <<>>
  BY InvSource DEF NoReply, UntouchedBefore
<1>2. TypeOK' /\ PrefetchInBounds'
  BY <1>1, InvSource, TypesKept DEF TypeOK
<1>3. SizeRight'
  BY InvSource, SizeKept DEF request
<1>4. UntouchedBefore' /\ ReplyRight' /\ CopyRight' /\ ReadRight'
  BY <1>1 DEF UntouchedBefore, ReplyRight, CopyRight, ReadRight
<1>5. BodyIsRange' /\ ShortOnlyByFault' /\ RangeAsAsked' /\ PanicsOnlyOnLies'
  BY <1>1 DEF BodyIsRange, ShortOnlyByFault, RangeAsAsked, PanicsOnlyOnLies, Served
<1>6. QED
  BY <1>2, <1>3, <1>4, <1>5 DEF Inv

LEMMA PrepareStep == Inv /\ Prepare => Inv'
<1> SUFFICES ASSUME Inv, Prepare PROVE Inv'
  OBVIOUS
<1>1. SourceRight' /\ UNCHANGED <<request, Size, seekOffset, source, left, body, reading>>
  BY InvSource, SourceKept DEF Prepare, request
<1>2. CASE stage' = "size" /\ UNCHANGED <<reply, faulty>>
  <2>1. UNCHANGED <<file, header, Size, seekOffset, current, reply, body, faulty, left>>
        /\ stage = "prepare"
    BY <1>1, <1>2 DEF Prepare, request, source
  <2>2. TypeOK' /\ PrefetchInBounds'
    BY <1>1, <1>2, InvSource, TypesKept DEF TypeOK
  <2>3. SizeRight'
    BY <1>2, <2>1, InvSource, SizeKept
  <2>4. UntouchedBefore' /\ ReplyRight' /\ CopyRight' /\ ReadRight'
    BY <1>2, <2>1, InvSource DEF UntouchedBefore, ReplyRight, CopyRight, ReadRight
  <2>5. BodyIsRange' /\ ShortOnlyByFault' /\ RangeAsAsked' /\ PanicsOnlyOnLies'
    BY <1>2, <2>1, InvSource DEF BodyIsRange, ShortOnlyByFault, RangeAsAsked, PanicsOnlyOnLies,
                                 Served
  <2>6. QED
    BY <2>2, <2>3, <2>4, <2>5 DEF Inv
<1>3. CASE stage' = "done" /\ reply' = [NoReply EXCEPT !.code = 500] /\ faulty' = TRUE
  BY <1>1, <1>3, InvSource, RefusalStep DEF Prepare, TypeOK
<1>4. QED
  BY <1>2, <1>3 DEF Prepare

LEMMA setSizeStep == Inv /\ setSize => Inv'
<1> SUFFICES ASSUME Inv, setSize PROVE Inv'
  OBVIOUS
<1>1. /\ stage = "size" /\ stage' = "serve"
      /\ UNCHANGED <<file, header, seekOffset, current, prefetched, workers, reply, left, body,
                     reading>>
  BY DEF setSize, request
<1>2. /\ Chunks(file) \in Nat /\ file.len \in Nat /\ (Chunks(file) = 0 <=> file.len = 0)
      /\ file.len < WordSize \div 2 /\ Size = file.claimed /\ Size \in 0 .. WordSize - 1
      /\ WordSize = 2 * (WordSize \div 2) /\ WordSize \div 2 \in Nat \ {0}
  BY <1>1, InvSource, ChunksOfFile, SignedWord DEF SizeRight, TypeOK
<1>3. /\ Size' \in 0 .. WordSize - 1
      /\ file.claimed # 0 => Size' = Size
      /\ file.claimed = 0 => Signed(Size') <= file.len /\ (~faulty' => Size' = file.len)
      /\ faulty' \in BOOLEAN
      /\ cached' = cached \/ (Chunks(file) > 0 /\ cached' = cached \cup {Chunks(file) - 1})
  <2>1. CASE Size > 0 /\ UNCHANGED <<Size, cached, faulty>>
    BY <1>2, <2>1, InvSource DEF TypeOK
  <2>2. CASE Size = 0 /\ Chunks(file) = 0 /\ UNCHANGED <<Size, cached, faulty>>
    <3>1. Signed(Size) = 0
      BY <1>2, <2>2, SignedWord
    <3>2. QED
      BY <1>2, <2>2, <3>1, InvSource DEF TypeOK
  <2>3. CASE /\ Size = 0 /\ Chunks(file) > 0 /\ Size' = ExactSize /\ UNCHANGED faulty
             /\ cached' = cached \cup {Chunks(file) - 1}
    <3>1. ExactSize = file.len
      BY <2>3, InvSource, ExactIsLen
    <3>2. Signed(file.len) = file.len /\ file.len \in 0 .. WordSize - 1
      BY <1>2, SignedWord
    <3>3. QED
      BY <1>2, <2>3, <3>1, <3>2, InvSource DEF TypeOK
  <2>4. CASE /\ Size = 0 /\ Chunks(file) > 0 /\ Size' = EstimatedSize /\ faulty' = TRUE
             /\ UNCHANGED cached
    <3>1. EstimatedSize \in 0 .. WordSize - 1 /\ Signed(EstimatedSize) <= file.len
      BY <2>4, InvSource, EstimateFallsShort
    <3>2. QED
      BY <1>2, <2>4, <3>1
  <2>5. QED
    BY <2>1, <2>2, <2>3, <2>4 DEF setSize
<1>4. SourceRight'
  <2>1. cached' \subseteq 0 .. Chunks(file) - 1
    BY <1>2, <1>3, InvSource DEF SourceRight
  <2>2. QED
    BY <1>1, <2>1, InvSource DEF SourceRight, Terminator
<1>5. TypeOK' /\ PrefetchInBounds'
  BY <1>1, <1>3, <1>4, InvSource DEF TypeOK, SourceRight, PrefetchInBounds
<1>6. SizeRight'
  BY <1>1, <1>2, <1>3 DEF SizeRight
<1>7. UntouchedBefore' /\ ReplyRight' /\ CopyRight' /\ ReadRight'
  BY <1>1, InvSource DEF UntouchedBefore, ReplyRight, CopyRight, ReadRight, NoReply
<1>8. BodyIsRange' /\ ShortOnlyByFault' /\ RangeAsAsked' /\ PanicsOnlyOnLies'
  BY <1>1, InvSource DEF BodyIsRange, ShortOnlyByFault, RangeAsAsked, PanicsOnlyOnLies, Served,
                         UntouchedBefore, NoReply
<1>9. QED
  BY <1>5, <1>6, <1>7, <1>8 DEF Inv

LEMMA ServeUnsatisfiableStep == Inv /\ ServeUnsatisfiable => Inv'
<1> SUFFICES ASSUME Inv, ServeUnsatisfiable PROVE Inv'
  OBVIOUS
<1>1. /\ stage = "serve" /\ stage' = "done" /\ reply' = [NoReply EXCEPT !.code = 416]
      /\ UNCHANGED <<request, Size, body, left, source, seekOffset, faulty>> /\ file' = file
  BY DEF ServeUnsatisfiable, Refuse, request
<1>2. SourceRight' /\ seekOffset' \in Nat /\ faulty' \in BOOLEAN
  BY <1>1, InvSource, SourceKept DEF TypeOK
<1>3. QED
  BY <1>1, <1>2, RefusalStep

\* These positions are the ones a specification of the header asks for.
AskedFor(start, length) ==
    \E k \in DOMAIN header.specs :
        /\ ~PastEnd(header.specs[k], Size)
        /\ Asked(header.specs[k], Size) = start .. start + length - 1

\* Nothing is sent yet: the position is the start, everything is left.
LEMMA CopyFromStart ==
    ASSUME NEW start \in Nat, NEW length \in Int, body' = <<>>, seekOffset' = start,
           left' = length, reply'.start = start, reply'.length = length
    PROVE  CopyRight'
<1>1. Len(body') = 0
  OBVIOUS
<1>2. QED
  BY <1>1 DEF CopyRight

\* What io.CopyN is to send has been decided, and nothing of it has been sent.
LEMMA BeginStep ==
    ASSUME Inv, SourceRight', stage = "serve", UNCHANGED <<request, Size, body>>,
           NEW code \in {200, 206}, NEW length \in Int, Begin(code, seekOffset', length),
           seekOffset' \in Nat, faulty' \in BOOLEAN, faulty => faulty',
           code = 200 => seekOffset' = 0 /\ length = Signed(Size),
           code = 206 =>
               /\ length >= 0 /\ seekOffset' + length <= Size /\ Size = Signed(Size)
               /\ AskedFor(seekOffset', length)
    PROVE  Inv'
<1>1. /\ stage' = "copy" /\ left' = length /\ UNCHANGED <<file, header, Size, body>>
      /\ reply' = [code |-> code, start |-> seekOffset', length |-> length]
      /\ reply' \in [code : {0, 200, 206, 416, 500}, start : Nat, length : Int]
      /\ body = <<>>
  BY InvSource DEF Begin, request, UntouchedBefore
<1>2. TypeOK' /\ PrefetchInBounds'
  BY <1>1, InvSource, TypesKept DEF TypeOK
<1>3. SizeRight'
  BY <1>1, InvSource, SizeKept
<1>4. UntouchedBefore' /\ ReplyRight' /\ CopyRight' /\ ReadRight'
  <2>1. reply'.code = code /\ reply'.start = seekOffset' /\ reply'.length = length
    BY <1>1
  <2>2. UntouchedBefore' /\ ReplyRight'
    BY <1>1, <2>1 DEF UntouchedBefore, ReplyRight, Served
  <2>3. CopyRight'
    BY <1>1, <2>1, CopyFromStart
  <2>4. ReadRight'
    BY <1>1 DEF ReadRight
  <2>5. QED
    BY <2>2, <2>3, <2>4
<1>5. BodyIsRange' /\ ShortOnlyByFault' /\ RangeAsAsked' /\ PanicsOnlyOnLies'
  <2>1. RangeAsAsked'
    BY <1>1 DEF RangeAsAsked, AskedFor
  <2>2. BodyIsRange' /\ ShortOnlyByFault' /\ PanicsOnlyOnLies'
    BY <1>1 DEF BodyIsRange, ShortOnlyByFault, PanicsOnlyOnLies, Served
  <2>3. QED
    BY <2>1, <2>2
<1>6. QED
  BY <1>2, <1>3, <1>4, <1>5 DEF Inv

LEMMA ServeWholeStep == Inv /\ ServeWhole => Inv'
<1> SUFFICES ASSUME Inv, ServeWhole PROVE Inv'
  OBVIOUS
<1>1. /\ stage = "serve" /\ Begin(200, 0, Signed(Size))
      /\ UNCHANGED <<request, Size, body, source, seekOffset, faulty>> /\ file' = file
  BY DEF ServeWhole, request
<1>2. SourceRight' /\ seekOffset' = 0 /\ faulty' \in BOOLEAN /\ Signed(Size) \in Int
  BY <1>1, InvSource, SourceKept, HonestSize DEF TypeOK, UntouchedBefore
<1>3. QED
  BY <1>1, <1>2, BeginStep

LEMMA ServeRangeStep == Inv /\ ServeRange => Inv'
<1> SUFFICES ASSUME Inv, ServeRange PROVE Inv'
  OBVIOUS
<1>1. /\ stage = "serve" /\ Signed(Size) >= 0
      /\ UNCHANGED <<request, Size, body, reading>> /\ file' = file
  BY DEF ServeRange, request
<1>2. PICK k \in OnlyRange :
        LET ra == RangesServed[k]
            i == getRange(ra.start, 1).FirstChunkIdx
        IN  IF ~CanSeek(ra.start)
            THEN Refuse /\ UNCHANGED <<seekOffset, source, faulty>>
            ELSE /\ seekOffset' = ra.start
                 /\ \E e \in ChunkEnds(i) :
                     /\ GotChunk(i, e)
                     /\ faulty' = (faulty \/ Fault(i, e))
                     /\ \/ e = "chunk" /\ Begin(206, ra.start, ra.length)
                        \/ e = "error" /\ Refuse
                        \/ e = "panic" /\ stage' = "panicked" /\ UNCHANGED <<reply, left>>
  BY DEF ServeRange
<1> DEFINE ra == RangesServed[k]
           i == getRange(ra.start, 1).FirstChunkIdx
           s == header.specs[k]
<1>3. /\ Size \in Nat /\ Signed(Size) = Size /\ file.len \in Nat /\ (Honest => Size <= file.len)
      /\ seekOffset \in Nat /\ faulty \in BOOLEAN
  BY <1>1, InvSource, HonestSize, ChunksOfFile DEF TypeOK
<1>4. /\ k \in DOMAIN header.specs /\ s \in RangeSpecs
      /\ ~Invalid(s, Size) /\ ~PastEnd(s, Size) /\ ra = RangeOf(s, Size)
  BY <1>3, InvSource, RangeIsAskedFor
<1>5. /\ ra.start \in Nat /\ ra.length \in Int
      /\ ra.start <= Size =>
            /\ ra.length >= 0 /\ ra.start + ra.length <= Size
            /\ Asked(s, Size) = ra.start .. ra.start + ra.length - 1
      /\ ra.start = Size /\ Size > 0 => Suffix(s) /\ s.end = 0
  BY <1>3, <1>4, RangeWithin
<1> HIDE DEF ra, s
<1>6. CASE ~CanSeek(ra.start)
  <2>1. Refuse /\ UNCHANGED <<seekOffset, source, faulty>>
    BY <1>2, <1>6 DEF ra
  <2>2. SourceRight'
    BY <1>1, <2>1, InvSource, SourceKept
  <2>3. QED
    BY <1>1, <1>3, <2>1, <2>2, RefusalStep DEF Refuse
<1>7. CASE CanSeek(ra.start)
  <2>1. Size > 0 /\ ra.start <= Size
    BY <1>3, <1>5, <1>7 DEF CanSeek
  <2>2. PICK e \in ChunkEnds(i) :
            /\ GotChunk(i, e)
            /\ faulty' = (faulty \/ Fault(i, e))
            /\ \/ e = "chunk" /\ Begin(206, ra.start, ra.length)
               \/ e = "error" /\ Refuse
               \/ e = "panic" /\ stage' = "panicked" /\ UNCHANGED <<reply, left>>
    BY <1>2, <1>7 DEF ra
  <2>3. seekOffset' = ra.start
    BY <1>2, <1>7 DEF ra
  <2>4. i \in Nat /\ i * MaxChunkSize <= ra.start
    BY <1>5, Division DEF getRange
  <2> HIDE DEF i
  <2>5. SourceRight' /\ faulty' \in BOOLEAN /\ (faulty => faulty')
    BY <1>1, <1>3, <2>2, <2>4, InvSource, GotChunkRight DEF Fault
  <2>6. CASE e = "chunk" /\ Begin(206, ra.start, ra.length)
    <3>1. /\ ra.length >= 0 /\ seekOffset' + ra.length <= Size /\ Size = Signed(Size)
          /\ AskedFor(seekOffset', ra.length)
      BY <1>3, <1>4, <1>5, <2>1, <2>3 DEF s, AskedFor
    <3>2. Begin(206, seekOffset', ra.length)
      BY <2>3, <2>6
    <3>3. QED
      BY <1>1, <1>5, <2>3, <2>5, <3>1, <3>2, BeginStep
  <2>7. CASE e = "error" /\ Refuse
    BY <1>1, <1>5, <2>3, <2>5, <2>7, RefusalStep DEF Refuse
  <2>8. CASE e = "panic" /\ stage' = "panicked" /\ UNCHANGED <<reply, left>>
    <3>1. UNCHANGED <<file, header, Size, body, reply, left>>
      BY <1>1, <2>8 DEF request
    \* There is no such chunk: the range starts at the end of the stream.
    <3>2. Honest => Suffix(s) /\ s.end = 0
      <4>1. i >= Chunks(file) /\ Chunks(file) \in Nat /\ file.len <= Chunks(file) * MaxChunkSize
        BY <2>2, <2>4, <2>8, InvSource, ChunkOutcome, ChunksOfFile
      <4>2. i * MaxChunkSize >= Chunks(file) * MaxChunkSize
        BY <2>4, <4>1, ChunkSizeAssumption
      <4>3. i * MaxChunkSize \in Int /\ Chunks(file) * MaxChunkSize \in Int
        BY <2>4, <4>1, ChunkSizeAssumption
      <4>4. file.len <= ra.start
        BY <1>3, <1>5, <2>4, <4>1, <4>2, <4>3
      <4>5. QED
        BY <1>3, <1>5, <2>1, <4>4
    <3>3. TypeOK' /\ PrefetchInBounds'
      BY <1>1, <1>5, <2>3, <2>5, <2>8, <3>1, InvSource, TypesKept DEF TypeOK
    <3>4. SizeRight'
      BY <1>1, <2>5, <2>8, <3>1, InvSource, SizeKept
    <3>5. UntouchedBefore' /\ ReplyRight' /\ CopyRight' /\ ReadRight'
      BY <2>8, <3>1, InvSource DEF UntouchedBefore, ReplyRight, CopyRight, ReadRight
    <3>6. BodyIsRange' /\ ShortOnlyByFault' /\ RangeAsAsked'
      BY <2>8, <3>1, InvSource DEF BodyIsRange, ShortOnlyByFault, RangeAsAsked, Served
    <3>7. PanicsOnlyOnLies'
      BY <1>4, <3>1, <3>2 DEF PanicsOnlyOnLies, Honest, s
    <3>8. QED
      BY <3>3, <3>4, <3>5, <3>6, <3>7 DEF Inv
  <2>9. QED
    BY <2>2, <2>6, <2>7, <2>8
<1>8. QED
  BY <1>6, <1>7

LEMMA CopyEndsStep == Inv /\ CopyEnds => Inv'
<1> SUFFICES ASSUME Inv, CopyEnds PROVE Inv'
  OBVIOUS
<1>1. /\ stage = "copy" /\ stage' = "done" /\ left <= 0
      /\ UNCHANGED <<file, header, Size, seekOffset, reply, left, body, faulty>>
      /\ UNCHANGED <<request, source>>
  BY DEF CopyEnds, request
<1>2. SourceRight'
  BY <1>1, InvSource, SourceKept
<1>3. TypeOK' /\ PrefetchInBounds'
  BY <1>1, <1>2, InvSource, TypesKept DEF TypeOK
<1>4. SizeRight'
  BY <1>1, InvSource, SizeKept
<1>5. UntouchedBefore' /\ ReplyRight' /\ CopyRight' /\ ReadRight'
  BY <1>1, InvSource DEF UntouchedBefore, ReplyRight, CopyRight, ReadRight
<1>6. BodyIsRange' /\ RangeAsAsked' /\ PanicsOnlyOnLies'
  BY <1>1, InvSource DEF BodyIsRange, RangeAsAsked, PanicsOnlyOnLies, Served
\* Nothing is left of a length that was not negative, so that all is sent.
<1>7. ShortOnlyByFault'
  <2> SUFFICES ASSUME ~faulty, Honest
               PROVE  /\ Len(body) = reply.length
                      /\ reply.code = 200 /\ file.claimed \in {0, file.len} =>
                            Len(body) = file.len
    BY <1>1 DEF ShortOnlyByFault, Honest
  <2>1. /\ left = reply.length - Len(body) /\ left \in Int /\ Len(body) \in Nat
        /\ reply.length \in Int
    BY <1>1, InvSource, WithinFile
  <2>2. /\ Served
        /\ Signed(Size) = Size /\ Size \in Nat
        /\ file.claimed \in {0, file.len} => Signed(Size) = file.len
    BY <1>1, InvSource, HonestSize DEF UntouchedBefore, TypeOK
  <2>3. reply.length >= 0 /\ (reply.code = 200 => reply.length = Signed(Size))
    BY <2>1, <2>2, InvSource DEF ReplyRight, Served
  <2>4. Len(body) <= reply.length
    BY <2>2, <2>3, InvSource DEF BodyIsRange
  <2>5. QED
    BY <1>1, <2>1, <2>2, <2>3, <2>4
<1>8. QED
  BY <1>3, <1>4, <1>5, <1>6, <1>7 DEF Inv

-----------------------------------------------------------------------------
(* The reads.                                                               *)

\* The chunks of a read, and what it asks of them, in terms of its position.
LEMMA ReadSpan ==
    ASSUME NEW s \in Nat, NEW room \in Nat, room <= MaxChunkSize
    PROVE  LET sr == getRange(s, room)
               p == sr.FirstChunkIdx
               q == sr.LastChunkIdx
               head == ByteRangeForChunk(sr, p)
               tail == ByteRangeForChunk(sr, q)
           IN  /\ p \in Nat /\ q \in {p, p + 1}
               /\ p * MaxChunkSize \in Nat /\ (p + 1) * MaxChunkSize = p * MaxChunkSize + MaxChunkSize
               /\ p * MaxChunkSize <= s /\ s < p * MaxChunkSize + MaxChunkSize
               /\ head.offset = s - p * MaxChunkSize
               /\ head.len = p * MaxChunkSize + MaxChunkSize - s
               /\ q = p => s + room < p * MaxChunkSize + MaxChunkSize
               /\ q = p + 1 =>
                     /\ tail.offset = 0
                     /\ tail.len = s + room - (p * MaxChunkSize + MaxChunkSize)
                     /\ tail.len >= 0
<1> DEFINE C == MaxChunkSize
           sr == getRange(s, room)
           p == sr.FirstChunkIdx
           q == sr.LastChunkIdx
           head == ByteRangeForChunk(sr, p)
           tail == ByteRangeForChunk(sr, q)
<1>1. C \in Nat /\ C > 0
  BY ChunkSizeAssumption
<1>2. p \in Nat /\ p * C <= s /\ s < p * C + C /\ sr.FirstChunkOffset = s - p * C
  BY Division DEF getRange
<1>3. head = [offset |-> s - p * C, len |-> C - (s - p * C)]
  BY <1>2 DEF ByteRangeForChunk
<1>4. /\ p * C + head.offset = s
      /\ q = p => room < head.len
      /\ q # p =>
            /\ q = p + 1 /\ tail.offset = 0 /\ tail.len >= 0
            /\ head.len + tail.len = room
  BY PartsTileTheRead
<1>5. q # p => tail.len \in Int
  <2>1. s + room \in Nat
    OBVIOUS
  <2>2. sr.LastChunkIdx \in Nat /\ sr.LastChunkReadLen \in Int
    BY <1>1, <2>1, Division DEF getRange
  <2>3. QED
    BY <2>2 DEF ByteRangeForChunk
<1> HIDE DEF C, sr, p, q, head, tail
<1>6. p * C \in Nat /\ (p + 1) * C = p * C + C
  BY <1>1, <1>2
<1>7. /\ head.offset = s - p * C /\ head.len = p * C + C - s
      /\ q = p => s + room < p * C + C
      /\ q = p + 1 => tail.offset = 0 /\ tail.len = s + room - (p * C + C) /\ tail.len >= 0
  BY <1>1, <1>2, <1>3, <1>4, <1>5, <1>6
<1>8. QED
  BY <1>2, <1>4, <1>6, <1>7 DEF C, sr, p, q, head, tail


\* A read in progress: where it is, and which chunks it still takes.
LEMMA ReadState ==
    ASSUME Inv, stage = "read"
    PROVE  LET s == seekOffset
               room == reading.room
               i == reading.i
               p == reading.sr.FirstChunkIdx
               q == reading.sr.LastChunkIdx
               got == Len(reading.bytes)
           IN  /\ s \in Nat /\ left \in Nat \ {0} /\ file.len \in Nat /\ (Honest => s + left <= file.len)
               /\ reading = [sr |-> reading.sr, i |-> i, room |-> room, bytes |-> reading.bytes]
               /\ reading.sr = getRange(s, room)
               /\ room = Smaller(BufferSize, left) /\ room \in 1 .. MaxChunkSize /\ room <= left
               /\ reading.bytes \in Seq(Nat) /\ got \in Nat /\ got <= room
               /\ \A k \in 1 .. got : reading.bytes[k] = s + k - 1
               /\ p \in Nat /\ q \in {p, p + 1} /\ i \in p .. q + 1
               /\ i = p => got = 0
               /\ i # p => current = i - 1 /\ (Honest => got > 0)
               /\ i = p + 1 => got = Smaller(room, Smaller(file.len, i * MaxChunkSize) - s)
<1> DEFINE room == Smaller(BufferSize, left)
           sr == getRange(seekOffset, room)
<1>1. /\ seekOffset \in Nat /\ left \in Int /\ file.len \in Nat
      /\ Honest => seekOffset + left <= file.len
  BY InvSource, WithinFile, ChunksOfFile
<1>2. /\ left > 0 /\ Len(reading.bytes) <= room
      /\ reading \in [sr : {sr}, i : sr.FirstChunkIdx .. sr.LastChunkIdx + 1, room : {room},
                      bytes : Seq(Nat)]
  BY InvSource DEF ReadRight
<1>3. /\ \A k \in 1 .. Len(reading.bytes) : reading.bytes[k] = seekOffset + k - 1
      /\ reading.i = sr.FirstChunkIdx => Len(reading.bytes) = 0
      /\ reading.i # sr.FirstChunkIdx =>
            current = reading.i - 1 /\ (Honest => Len(reading.bytes) > 0)
      /\ reading.i = sr.FirstChunkIdx + 1 =>
            Len(reading.bytes)
              = Smaller(room, Smaller(file.len, reading.i * MaxChunkSize) - seekOffset)
  BY InvSource DEF ReadRight
<1>4. room \in 1 .. MaxChunkSize /\ room <= left
  BY <1>1, <1>2, StreamAssumption, ChunkSizeAssumption DEF Smaller
<1>5. sr.FirstChunkIdx \in Nat /\ sr.LastChunkIdx \in {sr.FirstChunkIdx, sr.FirstChunkIdx + 1}
  BY <1>1, <1>4, ReadSpan, ChunkSizeAssumption
<1> HIDE DEF sr, room
<1>6. /\ reading.sr = sr /\ reading.room = room /\ reading.bytes \in Seq(Nat)
      /\ reading.i \in sr.FirstChunkIdx .. sr.LastChunkIdx + 1
      /\ reading = [sr |-> reading.sr, i |-> reading.i, room |-> reading.room,
                    bytes |-> reading.bytes]
  BY <1>2
<1>7. Len(reading.bytes) \in Nat
  BY <1>6
<1>8. QED
  BY <1>1, <1>2, <1>3, <1>4, <1>5, <1>6, <1>7 DEF sr, room


LEMMA ReadParts ==
    ASSUME Inv, stage = "read"
    PROVE  LET C == MaxChunkSize
               s == seekOffset
               room == reading.room
               p == reading.sr.FirstChunkIdx
               q == reading.sr.LastChunkIdx
               head == ByteRangeForChunk(reading.sr, p)
               tail == ByteRangeForChunk(reading.sr, q)
           IN  /\ p * C \in Nat /\ (p + 1) * C = p * C + C
               /\ p * C <= s /\ s < p * C + C
               /\ head.offset = s - p * C /\ head.len = p * C + C - s
               /\ q = p => s + room < p * C + C
               /\ q = p + 1 =>
                     /\ tail.offset = 0 /\ tail.len = s + room - (p * C + C) /\ tail.len >= 0
                     /\ s + room >= p * C + C
<1> DEFINE s == seekOffset
           room == reading.room
<1>1. s \in Nat /\ room \in 1 .. MaxChunkSize /\ reading.sr = getRange(s, room)
  BY ReadState
<1>2. room \in Nat /\ room <= MaxChunkSize
  BY <1>1, ChunkSizeAssumption
<1> HIDE DEF s, room
<1> DEFINE C == MaxChunkSize
           p == reading.sr.FirstChunkIdx
           q == reading.sr.LastChunkIdx
           head == ByteRangeForChunk(reading.sr, p)
           tail == ByteRangeForChunk(reading.sr, q)
<1>3. /\ p * C \in Nat /\ (p + 1) * C = p * C + C /\ p * C <= s /\ s < p * C + C
      /\ head.offset = s - p * C /\ head.len = p * C + C - s
      /\ q = p => s + room < p * C + C
      /\ q = p + 1 =>
            tail.offset = 0 /\ tail.len = s + room - (p * C + C) /\ tail.len >= 0
  BY <1>1, <1>2, ReadSpan
<1>4. C \in Nat
  BY ChunkSizeAssumption
<1> HIDE DEF C, p, q, head, tail
<1>5. q = p + 1 => s + room >= p * C + C
  BY <1>1, <1>2, <1>3, <1>4
<1>6. QED
  BY <1>3, <1>5 DEF C, s, room, p, q, head, tail

\* The offset that the turn for chunk reading.i reads at, within the chunk
\* unless the read starts behind the end of the file.
LEMMA TurnRange ==
    ASSUME Inv, stage = "read", reading.i <= reading.sr.LastChunkIdx,
           reading.i \in 0 .. Chunks(file) - 1
    PROVE  LET i == reading.i
               got == Len(reading.bytes)
               range == ByteRangeForChunk(reading.sr, i)
           IN  /\ range.offset \in Nat /\ range.len \in Nat
               /\ i * MaxChunkSize + range.offset = seekOffset + got
               /\ ChunkLen(i) \in Nat /\ reading.room - got \in Nat
               /\ ReadPanics(ChunkLen(i), range.offset) => ~Honest
               /\ i = reading.sr.FirstChunkIdx =>
                     /\ got = 0
                     /\ AtMost(range.len, ChunkLen(i) - range.offset)
                          = Smaller(file.len, (i + 1) * MaxChunkSize) - seekOffset
               /\ i # reading.sr.FirstChunkIdx =>
                     i = reading.sr.FirstChunkIdx + 1 /\ range.offset = 0
<1> DEFINE C == MaxChunkSize
           s == seekOffset
           room == reading.room
           i == reading.i
           p == reading.sr.FirstChunkIdx
           q == reading.sr.LastChunkIdx
           bytes == reading.bytes
           got == Len(bytes)
           range == ByteRangeForChunk(reading.sr, i)
<1>1. /\ s \in Nat /\ left \in Nat \ {0} /\ file.len \in Nat /\ (Honest => s + left <= file.len)
      /\ reading.sr = getRange(s, room) /\ room \in 1 .. C
      /\ got \in Nat /\ got <= room /\ p \in Nat /\ q \in {p, p + 1} /\ i \in p .. q + 1
      /\ i = p => got = 0
      /\ i = p + 1 => got = Smaller(room, Smaller(file.len, i * C) - s)
  BY ReadState
<1>2. C \in Nat /\ C > 0 /\ i \in Nat /\ i <= q
  BY <1>1, ChunkSizeAssumption
<1>3. /\ p * C \in Nat /\ (p + 1) * C = p * C + C /\ p * C <= s /\ s < p * C + C
      /\ q = p => s + room < p * C + C
      /\ LET head == ByteRangeForChunk(reading.sr, p)
         IN  head.offset = s - p * C /\ head.len = p * C + C - s
      /\ q = p + 1 =>
            LET tail == ByteRangeForChunk(reading.sr, q)
            IN  tail.offset = 0 /\ tail.len = s + room - (p * C + C) /\ tail.len >= 0
  BY ReadParts
<1>4. /\ ChunkLen(i) \in 1 .. C
      /\ i * C + ChunkLen(i) = Smaller(file.len, i * C + C)
  BY InvSource, ChunkLength
<1>5. i = p => range.offset = s - p * C /\ range.len = p * C + C - s
  BY <1>3
<1>6. i = p + 1 => /\ range.offset = 0 /\ range.len = s + room - (p * C + C)
                   /\ range.len >= 0
  <2>1. i = p + 1 => i = q /\ q = p + 1
    BY <1>1, <1>2
  <2>2. QED
    BY <1>3, <2>1
<1>7. CASE i = p
  <2> HIDE DEF C, s, room, i, p, q, bytes, got, range
  <2>1. range.offset = s - p * C /\ range.len = p * C + C - s /\ got = 0
    BY <1>1, <1>5, <1>7
  <2>2. /\ range.offset \in Nat /\ range.len \in Nat /\ p * C + range.offset = s + got
        /\ ChunkLen(i) \in Nat /\ room - got \in Nat
    BY <1>1, <1>2, <1>3, <1>4, <2>1
  <2>3. p * C + ChunkLen(p) = Smaller(file.len, p * C + C) /\ ChunkLen(p) \in 1 .. C
    BY <1>4, <1>7
  <2>4. range.offset > ChunkLen(p) => ~Honest
    BY <1>1, <1>2, <1>3, <2>1, <2>3 DEF Smaller
  <2>5. AtMost(range.len, ChunkLen(p) - range.offset) = Smaller(file.len, (p + 1) * C) - s
    BY <1>1, <1>2, <1>3, <2>1, <2>3 DEF Smaller, AtMost
  <2>6. QED
    BY <1>7, <2>1, <2>2, <2>4, <2>5 DEF C, s, room, i, p, q, bytes, got, range, ReadPanics
<1>8. CASE i = p + 1
  <2> HIDE DEF C, s, room, i, p, q, bytes, got, range
  <2>1. range.offset = 0 /\ range.len \in Nat /\ s + room >= p * C + C
    BY <1>1, <1>2, <1>3, <1>6, <1>8
  \* The file goes on in chunk i, so that the first chunk gave all it has.
  <2>2. i * C = p * C + C /\ i * C < file.len
    BY <1>1, <1>2, <1>3, <1>4, <1>8 DEF Smaller
  <2>3. got = i * C - s
    <3>1. Smaller(file.len, i * C) = i * C
      BY <1>1, <1>2, <1>3, <2>2 DEF Smaller
    <3>2. got = Smaller(room, i * C - s)
      BY <1>1, <1>8, <3>1
    <3>3. i * C - s \in Int /\ i * C - s <= room /\ room \in Int
      BY <1>1, <1>2, <1>3, <2>1, <2>2
    <3> DEFINE m == i * C - s
    <3> HIDE DEF m
    <3>4. got = m
      BY <3>2, <3>3 DEF Smaller, m
    <3>5. QED
      BY <3>4 DEF m
  <2>4. ChunkLen(i) \in Nat /\ room - got \in Nat /\ i # p
    BY <1>1, <1>2, <1>4, <1>8
  <2>5. i * C + range.offset = s + got
    BY <1>1, <1>2, <1>3, <2>1, <2>2, <2>3
  <2>6. ~ (range.offset > ChunkLen(i))
    BY <1>4, <2>1
  <2>7. QED
    BY <1>8, <2>1, <2>4, <2>5, <2>6 DEF C, s, room, i, p, q, bytes, got, range, ReadPanics
<1>9. QED
  BY <1>1, <1>2, <1>7, <1>8

\* What the turn copies: the bytes that come next, as many as the chunk has and
\* the read has room for.
LEMMA BytesInPlace ==
    ASSUME Inv, stage = "read", reading.i <= reading.sr.LastChunkIdx,
           reading.i \in 0 .. Chunks(file) - 1,
           ~ReadPanics(ChunkLen(reading.i), ByteRangeForChunk(reading.sr, reading.i).offset)
    PROVE  /\ BytesOfChunk \in Seq(Nat)
           /\ Len(BytesOfChunk) <= reading.room - Len(reading.bytes)
           /\ \A k \in 1 .. Len(BytesOfChunk) :
                 BytesOfChunk[k] = seekOffset + Len(reading.bytes) + k - 1
           /\ reading.i = reading.sr.FirstChunkIdx =>
                 Len(BytesOfChunk)
                   = Smaller(reading.room,
                             Smaller(file.len, (reading.i + 1) * MaxChunkSize) - seekOffset)
<1> DEFINE C == MaxChunkSize
           i == reading.i
           room == reading.room
           got == Len(reading.bytes)
           range == ByteRangeForChunk(reading.sr, i)
           n == ReadCount(ChunkLen(i), range.offset, range.len, room - got)
           base == i * C + range.offset
<1>1. /\ range.offset \in Nat /\ range.len \in Nat /\ base = seekOffset + got
      /\ ChunkLen(i) \in Nat /\ room - got \in Nat
      /\ i = reading.sr.FirstChunkIdx =>
            /\ got = 0
            /\ AtMost(range.len, ChunkLen(i) - range.offset)
                 = Smaller(file.len, (i + 1) * C) - seekOffset
  BY TurnRange
<1>2. got \in Nat /\ seekOffset \in Nat /\ room \in Nat
  BY ReadState
<1>3. base \in Nat
  BY <1>1, <1>2
<1>4. BytesOfChunk = [k \in 1 .. n |-> i * C + range.offset + k - 1]
  BY DEF BytesOfChunk
<1>5. ~ (range.offset > ChunkLen(i))
  BY DEF ReadPanics
<1>6. n = AtMost(AtMost(range.len, ChunkLen(i) - range.offset), room - got)
  BY DEF ReadCount
<1> HIDE DEF n
<1>7. n \in Nat /\ n <= room - got
  BY <1>1, <1>5, <1>6 DEF AtMost
<1>8. i = reading.sr.FirstChunkIdx =>
          n = Smaller(room, Smaller(file.len, (i + 1) * C) - seekOffset)
  <2> SUFFICES ASSUME i = reading.sr.FirstChunkIdx
               PROVE  n = Smaller(room, Smaller(file.len, (i + 1) * C) - seekOffset)
    OBVIOUS
  <2> DEFINE m == Smaller(file.len, (i + 1) * C) - seekOffset
  <2>1. /\ m = AtMost(range.len, ChunkLen(i) - range.offset) /\ got = 0
        /\ room - got = room
    BY <1>1, <1>2
  <2>2. AtMost(range.len, ChunkLen(i) - range.offset) \in Int
    BY <1>1 DEF AtMost
  <2> HIDE DEF m
  <2>3. n = AtMost(m, room) /\ m \in Int
    BY <1>6, <2>1, <2>2
  <2>4. n = Smaller(room, m)
    BY <1>2, <2>3 DEF AtMost, Smaller
  <2>5. QED
    BY <2>4 DEF m
<1> HIDE DEF base
<1>9. BytesOfChunk = [k \in 1 .. n |-> base + k - 1]
  BY <1>4 DEF base
<1>10. BytesOfChunk \in Seq(Nat) /\ Len(BytesOfChunk) = n
  <2>1. \A k \in 1 .. n : base + k - 1 \in Nat
    BY <1>3, <1>7
  <2>2. BytesOfChunk \in [1 .. n -> Nat]
    BY <1>9, <2>1
  <2>3. QED
    BY <1>7, <2>2, SeqDef, LenProperties
<1>11. \A k \in 1 .. n : BytesOfChunk[k] = seekOffset + got + k - 1
  BY <1>1, <1>9
<1>12. QED
  BY <1>7, <1>8, <1>10, <1>11


\* A step of a read that does not end it.
LEMMA ReadGoesOn ==
    ASSUME Inv, SourceRight', stage \in {"copy", "read"}, stage' = "read", ReadRight',
           UNCHANGED <<request, Size, seekOffset, reply, left, body, faulty>>
    PROVE  Inv'
<1>1. UNCHANGED <<file, header, Size, seekOffset, reply, left, body, faulty>>
  BY DEF request
<1>2. TypeOK' /\ PrefetchInBounds'
  BY <1>1, InvSource, TypesKept DEF TypeOK
<1>3. SizeRight'
  BY <1>1, InvSource, SizeKept
<1>4. UntouchedBefore' /\ ReplyRight' /\ CopyRight'
  BY <1>1, InvSource DEF UntouchedBefore, ReplyRight, CopyRight, Served
<1>5. BodyIsRange' /\ ShortOnlyByFault' /\ RangeAsAsked' /\ PanicsOnlyOnLies'
  BY <1>1, InvSource DEF BodyIsRange, ShortOnlyByFault, RangeAsAsked, PanicsOnlyOnLies, Served
<1>6. QED
  BY <1>2, <1>3, <1>4, <1>5 DEF Inv

\* A read that panics.
LEMMA ReadBlowsUp ==
    ASSUME Inv, SourceRight', stage = "read", stage' = "panicked", ~Honest,
           UNCHANGED <<request, Size, seekOffset, reply, left, body, faulty>>
    PROVE  Inv'
<1>1. UNCHANGED <<file, header, Size, seekOffset, reply, left, body, faulty>>
  BY DEF request
<1>2. TypeOK' /\ PrefetchInBounds'
  BY <1>1, InvSource, TypesKept DEF TypeOK
<1>3. SizeRight'
  BY <1>1, InvSource, SizeKept
<1>4. UntouchedBefore' /\ ReplyRight' /\ CopyRight' /\ ReadRight'
  BY <1>1, InvSource DEF UntouchedBefore, ReplyRight, CopyRight, ReadRight
<1>5. BodyIsRange' /\ ShortOnlyByFault' /\ RangeAsAsked'
  BY <1>1, InvSource DEF BodyIsRange, ShortOnlyByFault, RangeAsAsked, Served
<1>6. PanicsOnlyOnLies'
  BY <1>1 DEF PanicsOnlyOnLies, Honest
<1>7. QED
  BY <1>2, <1>3, <1>4, <1>5, <1>6 DEF Inv

LEMMA ReadStartsStep == Inv /\ ReadStarts => Inv'
<1> SUFFICES ASSUME Inv, ReadStarts PROVE Inv'
  OBVIOUS
<1> DEFINE room == Smaller(BufferSize, left)
           sr == getRange(seekOffset, room)
<1>1. /\ stage = "copy" /\ stage' = "read" /\ left > 0
      /\ reading' = [sr |-> sr, i |-> sr.FirstChunkIdx, room |-> room, bytes |-> <<>>]
      /\ UNCHANGED <<request, Size, seekOffset, source, reply, left, body, faulty>>
      /\ file' = file
  BY DEF ReadStarts, request
<1>2. SourceRight'
  BY <1>1, InvSource, SourceKept
<1>3. left \in Int /\ seekOffset \in Nat
  BY InvSource DEF TypeOK
<1>4. room \in 1 .. MaxChunkSize
  BY <1>1, <1>3, StreamAssumption, ChunkSizeAssumption DEF Smaller
<1>5. /\ sr.FirstChunkIdx \in Nat
      /\ sr.LastChunkIdx \in {sr.FirstChunkIdx, sr.FirstChunkIdx + 1}
  BY <1>3, <1>4, ReadSpan, ChunkSizeAssumption
<1>6. sr' = sr /\ room' = room
  BY <1>1
<1>7. ReadRight'
  <2> HIDE DEF sr, room
  <2> DEFINE new == [sr |-> sr, i |-> sr.FirstChunkIdx, room |-> room, bytes |-> <<>>]
  <2>1. new.i = sr.FirstChunkIdx /\ new.bytes = <<>> /\ Len(new.bytes) = 0
    OBVIOUS
  <2>2. new \in [sr : {sr}, i : sr.FirstChunkIdx .. sr.LastChunkIdx + 1, room : {room},
                 bytes : Seq(Nat)]
    BY <1>5
  <2>3. sr.FirstChunkIdx # sr.FirstChunkIdx + 1 /\ 0 <= room
    BY <1>4, <1>5
  <2>4. reading' = new
    BY <1>1
  <2> HIDE DEF new
  <2>5. QED
    BY <1>1, <1>6, <2>1, <2>2, <2>3, <2>4 DEF ReadRight, sr, room
<1>8. QED
  BY <1>1, <1>2, <1>7, ReadGoesOn


LEMMA ReadChunkStep == Inv /\ ReadChunk => Inv'
<1> SUFFICES ASSUME Inv, ReadChunk PROVE Inv'
  OBVIOUS
<1> DEFINE s == seekOffset
           i == reading.i
           room == reading.room
           p == reading.sr.FirstChunkIdx
           q == reading.sr.LastChunkIdx
           got == Len(reading.bytes)
           panics == ReadPanics(ChunkLen(i), ByteRangeForChunk(reading.sr, i).offset)
<1>1. /\ stage = "read" /\ i <= q /\ file' = file
      /\ UNCHANGED <<request, Size, seekOffset, reply, left, body, faulty>>
  BY DEF ReadChunk, request
<1>2. PICK e \in ChunkEnds(i) :
        /\ e = "chunk"
        /\ GotChunk(i, e)
        /\ IF panics
           THEN stage' = "panicked" /\ UNCHANGED reading
           ELSE /\ reading' = [reading EXCEPT !.i = @ + 1, !.bytes = @ \o BytesOfChunk]
                /\ UNCHANGED stage
  BY DEF ReadChunk
<1>3. /\ s \in Nat /\ left \in Nat \ {0} /\ file.len \in Nat /\ (Honest => s + left <= file.len)
      /\ reading = [sr |-> reading.sr, i |-> i, room |-> room, bytes |-> reading.bytes]
      /\ reading.sr = getRange(s, room) /\ room = Smaller(BufferSize, left) /\ room \in Nat
      /\ room >= 1
      /\ reading.bytes \in Seq(Nat) /\ got \in Nat /\ got <= room
      /\ \A k \in 1 .. got : reading.bytes[k] = s + k - 1
      /\ p \in Nat /\ q \in {p, p + 1} /\ i \in p .. q + 1
      /\ i = p => got = 0
      /\ i # p => (Honest => got > 0)
  BY <1>1, ReadState
<1>4. i \in Nat
  BY <1>3
<1>5. SourceRight' /\ current' = i /\ i \in 0 .. Chunks(file) - 1
  BY <1>1, <1>2, <1>4, InvSource, GotChunkRight, ChunkOutcome
<1>6. CASE panics
  <2>1. ~Honest
    BY <1>1, <1>5, <1>6, TurnRange
  <2>2. QED
    BY <1>1, <1>2, <1>5, <1>6, <2>1, ReadBlowsUp
<1>7. CASE ~panics
  <2> DEFINE new == BytesOfChunk
             all == reading.bytes \o new
  <2>1. /\ new \in Seq(Nat) /\ Len(new) <= room - got
        /\ \A k \in 1 .. Len(new) : new[k] = s + got + k - 1
        /\ i = p => Len(new) = Smaller(room, Smaller(file.len, (i + 1) * MaxChunkSize) - s)
    BY <1>1, <1>5, <1>7, BytesInPlace
  <2>2. reading' = [reading EXCEPT !.i = @ + 1, !.bytes = @ \o new] /\ stage' = "read"
    BY <1>1, <1>2, <1>7
  <2> HIDE DEF new, panics
  <2>3. /\ all \in Seq(Nat) /\ Len(all) = got + Len(new)
        /\ \A k \in 1 .. Len(all) : all[k] = s + k - 1
    BY <1>3, <2>1, Consecutive
  <2>4. reading' = [sr |-> reading.sr, i |-> i + 1, room |-> room, bytes |-> all]
    <3>1. ASSUME NEW old, NEW next,
                 old = [sr |-> old.sr, i |-> old.i, room |-> old.room, bytes |-> old.bytes],
                 next = [old EXCEPT !.i = old.i + 1, !.bytes = old.bytes \o new]
          PROVE  next = [sr |-> old.sr, i |-> old.i + 1, room |-> old.room,
                         bytes |-> old.bytes \o new]
      BY <3>1
    <3>2. reading' = [reading EXCEPT !.i = reading.i + 1, !.bytes = reading.bytes \o new]
      BY <2>2
    <3>3. QED
      BY <1>3, <3>1, <3>2
  <2> HIDE DEF all
  <2>5. Len(new) \in Nat /\ Len(all) <= room
    <3>1. Len(new) \in Nat
      BY <2>1
    <3>2. got \in Nat /\ room \in Int
      BY <1>3
    <3>3. Len(new) <= room - got /\ Len(all) = got + Len(new)
      BY <2>1, <2>3
    <3>4. QED
      BY <3>1, <3>2, <3>3
  <2>6. Honest => Len(all) > 0
    <3> SUFFICES ASSUME Honest PROVE Len(all) > 0
      OBVIOUS
    <3>1. CASE i = p
      <4>1. s < file.len /\ s < (p + 1) * MaxChunkSize /\ (p + 1) * MaxChunkSize \in Int
        <5>1. room <= MaxChunkSize
          BY <1>1, ReadState
        <5>2. /\ s < p * MaxChunkSize + MaxChunkSize
              /\ (p + 1) * MaxChunkSize = p * MaxChunkSize + MaxChunkSize
              /\ p * MaxChunkSize \in Nat
          BY <1>3, <5>1, ReadSpan
        <5>3. s < file.len
          BY <1>3
        <5>4. QED
          BY SMTT(30), <1>3, <5>2, <5>3, ChunkSizeAssumption
      <4>2. Smaller(file.len, (p + 1) * MaxChunkSize) - s >= 1
        BY <1>3, <4>1 DEF Smaller
      <4>3. Smaller(file.len, (p + 1) * MaxChunkSize) - s \in Int
        BY SMTT(30), <1>3, <4>1 DEF Smaller
      <4>4. Len(new) >= 1
        BY <1>3, <2>1, <3>1, <4>2, <4>3 DEF Smaller
      <4>5. QED
        BY <1>3, <2>3, <2>5, <4>4
    <3>2. CASE i # p
      BY <1>3, <2>3, <2>5, <3>2
    <3>3. QED
      BY <3>1, <3>2
  <2>7. i = p => Len(all) = Smaller(room, Smaller(file.len, (i + 1) * MaxChunkSize) - s)
    BY SMTT(30), <1>3, <2>1, <2>3, <2>5
  <2>8. i + 1 \in p .. q + 1 /\ i + 1 # p /\ (i + 1 = p + 1 => i = p)
    BY <1>1, <1>3
  <2>9. ReadRight'
    <3>1. /\ left' > 0 /\ Smaller(BufferSize, left)' = room
          /\ getRange(seekOffset, Smaller(BufferSize, left))' = reading.sr
      BY <1>1, <1>3 DEF Smaller, getRange
    <3>2. /\ reading'.i = i + 1 /\ reading'.bytes = all
          /\ reading' \in [sr : {reading.sr}, i : p .. q + 1, room : {room}, bytes : Seq(Nat)]
      BY <2>3, <2>4, <2>8
    <3>3. i + 1 # p => current' = (i + 1) - 1 /\ (Honest' => Len(all) > 0)
      BY <1>1, <1>3, <1>5, <2>6 DEF Honest
    <3>4. i + 1 = p + 1 =>
              Len(all) = Smaller(room, Smaller(file'.len, (i + 1) * MaxChunkSize) - seekOffset')
      BY <1>1, <2>7, <2>8
    <3>5. \A k \in 1 .. Len(all) : all[k] = seekOffset' + k - 1
      BY <1>1, <2>3
    <3> HIDE DEF i, p, q, room
    <3>6. QED
      BY <1>1, <2>5, <2>8, <3>1, <3>2, <3>3, <3>4, <3>5 DEF ReadRight, p, q
  <2>10. QED
    BY <1>1, <1>5, <2>2, <2>9, ReadGoesOn
<1>8. QED
  BY <1>6, <1>7


\* Whatever Read returns is the next part of the range; CopyN has it written.
LEMMA ReadDelivers ==
    ASSUME Inv, SourceRight', stage = "read", stage' \in {"copy", "done"},
           UNCHANGED <<request, Size, reply>>,
           seekOffset' = seekOffset + Len(reading.bytes),
           body' = body \o reading.bytes,
           left' = left - Len(reading.bytes),
           faulty' \in BOOLEAN, faulty => faulty',
           stage' = "done" /\ ~faulty' /\ Honest => Len(reading.bytes) = left
    PROVE  Inv'
<1> DEFINE got == Len(reading.bytes)
           all == body \o reading.bytes
<1>1. /\ UNCHANGED <<file, header, Size, reply>> /\ body' = all
  BY DEF request
<1>2. /\ seekOffset \in Nat /\ left \in Nat \ {0} /\ reading.bytes \in Seq(Nat) /\ got \in Nat
      /\ got <= left
      /\ \A k \in 1 .. got : reading.bytes[k] = seekOffset + k - 1
  <2>1. /\ seekOffset \in Nat /\ left \in Nat \ {0} /\ reading.bytes \in Seq(Nat) /\ got \in Nat
        /\ got <= reading.room /\ reading.room <= left /\ reading.room \in 1 .. MaxChunkSize
        /\ \A k \in 1 .. got : reading.bytes[k] = seekOffset + k - 1
    BY ReadState
  <2>2. got <= left
    BY <2>1, ChunkSizeAssumption
  <2>3. QED
    BY <2>1, <2>2
<1>3. /\ reply.start \in Nat /\ reply.length \in Int /\ body \in Seq(Nat) /\ Len(body) \in Nat
      /\ seekOffset = reply.start + Len(body) /\ left = reply.length - Len(body)
  BY InvSource, WithinFile
<1>4. /\ all \in Seq(Nat) /\ Len(all) = Len(body) + got
      /\ \A k \in 1 .. Len(all) : all[k] = reply.start + k - 1
  <2>1. \A k \in 1 .. Len(body) : body[k] = reply.start + k - 1
    <3>1. DOMAIN body = 1 .. Len(body)
      BY <1>3
    <3>2. \A k \in DOMAIN body : body[k] = reply.start + k - 1
      BY InvSource DEF BodyIsRange
    <3>3. QED
      BY <3>1, <3>2
  <2>2. \A k \in 1 .. got : reading.bytes[k] = reply.start + Len(body) + k - 1
    BY <1>2, <1>3
  <2> HIDE DEF got
  <2>3. QED
    BY <1>2, <1>3, <2>1, <2>2, Consecutive DEF got
<1> HIDE DEF all, got
<1>5. seekOffset + got \in Nat /\ left - got \in Int
  BY <1>2
<1>6. TypeOK' /\ PrefetchInBounds'
  <2>1. seekOffset' \in Nat /\ left' \in Int /\ body' \in Seq(Nat)
    BY <1>1, <1>4, <1>5 DEF got
  <2>2. reply' \in [code : {0, 200, 206, 416, 500}, start : Nat, length : Int]
    BY <1>1, InvSource DEF TypeOK
  <2>3. QED
    BY <2>1, <2>2, InvSource, TypesKept
<1>7. SizeRight'
  BY <1>1, InvSource, SizeKept
<1>8. UntouchedBefore' /\ ReplyRight' /\ RangeAsAsked' /\ PanicsOnlyOnLies' /\ ReadRight'
  BY <1>1, InvSource DEF UntouchedBefore, ReplyRight, Served, RangeAsAsked, PanicsOnlyOnLies,
                         ReadRight
<1>9. Len(all) <= reply.length /\ Len(all) \in Nat
  BY <1>2, <1>3, <1>4
<1>10. CopyRight'
  <2>1. seekOffset + got = reply.start + Len(all)
    BY SMTT(30), <1>2, <1>3, <1>4
  <2>4. left - got = reply.length - Len(all)
    BY <1>2, <1>3, <1>4
  <2>2. seekOffset' = reply'.start + Len(body') /\ left' = reply'.length - Len(body')
    BY <1>1, <2>1, <2>4 DEF got
  <2>3. QED
    BY <2>2 DEF CopyRight
<1>11. BodyIsRange'
  <2>1. DOMAIN all = 1 .. Len(all)
    BY <1>4
  <2>2. QED
    BY <1>1, <1>4, <1>9, <2>1 DEF BodyIsRange, Served
<1>12. ShortOnlyByFault'
  <2> SUFFICES ASSUME stage' = "done", ~faulty', Honest
               PROVE  /\ Len(all) = reply.length
                      /\ reply.code = 200 /\ file.claimed \in {0, file.len} =>
                            Len(all) = file.len
    BY <1>1 DEF ShortOnlyByFault, Honest
  <2>1. Len(all) = reply.length
    <3>1. got = left
      BY DEF got
    <3>2. QED
      BY <1>2, <1>3, <1>4, <3>1
  <2>2. file.claimed \in {0, file.len} => Signed(Size) = file.len
    BY InvSource, HonestSize
  <2>3. reply.code = 200 => reply.length = Signed(Size)
    BY InvSource DEF ReplyRight
  <2>4. QED
    BY <2>1, <2>2, <2>3
<1>13. QED
  BY <1>6, <1>7, <1>8, <1>10, <1>11, <1>12 DEF Inv

LEMMA ReadFailsStep == Inv /\ ReadFails => Inv'
<1> SUFFICES ASSUME Inv, ReadFails PROVE Inv'
  OBVIOUS
<1> DEFINE s == seekOffset
           i == reading.i
           room == reading.room
           p == reading.sr.FirstChunkIdx
           q == reading.sr.LastChunkIdx
           got == Len(reading.bytes)
           N == Chunks(file)
           C == MaxChunkSize
<1>1. /\ stage = "read" /\ i <= q /\ "error" \in ChunkEnds(i) /\ stage' = "done"
      /\ seekOffset' = seekOffset + got /\ body' = body \o reading.bytes /\ left' = left - got
      /\ faulty' = (faulty \/ Fault(i, "error"))
      /\ UNCHANGED <<request, Size, source, reply>> /\ file' = file
  BY DEF ReadFails, request
<1>2. SourceRight' /\ faulty' \in BOOLEAN /\ (faulty => faulty')
  BY <1>1, InvSource, SourceKept DEF Fault, TypeOK
\* Without a fault the chunk is behind the file, so that there is no more to
\* read, and the first chunk had all of it.
<1>3. ASSUME ~faulty', Honest
      PROVE  got = left
  <2>1. /\ s \in Nat /\ left \in Nat \ {0} /\ file.len \in Nat /\ s + left <= file.len
        /\ reading.sr = getRange(s, room)
        /\ room = Smaller(BufferSize, left) /\ room \in 1 .. C /\ room <= left
        /\ got \in Nat /\ got <= room
        /\ p \in Nat /\ q \in {p, p + 1} /\ i \in p .. q + 1
        /\ i = p + 1 => got = Smaller(room, Smaller(file.len, i * C) - s)
    BY <1>1, <1>3, ReadState
  <2>2. /\ p * C \in Nat /\ (p + 1) * C = p * C + C /\ p * C <= s /\ s < p * C + C
        /\ q = p + 1 => s + room >= p * C + C
    BY <1>1, ReadParts
  <2>3. i >= N /\ N \in Nat /\ i \in Nat
    <3>1. i \in Nat /\ N \in Nat
      BY <2>1, InvSource, ChunksOfFile
    <3>2. i >= N \/ Fault(i, "error")
      BY <1>1, <3>1, InvSource, ChunkOutcome
    <3>3. QED
      BY <1>1, <1>3, <3>1, <3>2
  <2>4. file.len <= N * C /\ N * C \in Nat /\ C \in Nat /\ C > 0
    BY <2>3, InvSource, ChunksOfFile, ChunkSizeAssumption
  <2> HIDE DEF s, i, room, p, q, got, N, C
  <2>5. N > p
    <3>1. N <= p => N * C <= p * C
      BY <2>1, <2>3, <2>4
    <3>2. QED
      BY <2>1, <2>2, <2>3, <2>4, <3>1
  <2>6. i = p + 1 /\ q = p + 1 /\ N = p + 1
    BY <1>1, <2>1, <2>3, <2>5
  <2>7. file.len <= i * C /\ i * C \in Nat /\ s + room >= i * C
    BY <2>2, <2>4, <2>6
  <2>8. Smaller(file.len, i * C) = file.len
    BY <2>1, <2>7 DEF Smaller
  <2>9. got = Smaller(room, file.len - s)
    BY <2>1, <2>6, <2>8
  <2>10. QED
    BY <2>1, <2>7, <2>9 DEF Smaller
<1>4. QED
  BY <1>1, <1>2, <1>3, ReadDelivers

LEMMA ReadReturnsStep == Inv /\ ReadReturns => Inv'
<1> SUFFICES ASSUME Inv, ReadReturns PROVE Inv'
  OBVIOUS
<1>1. /\ stage = "read" /\ reading.i > reading.sr.LastChunkIdx
      /\ seekOffset' = seekOffset + Len(reading.bytes)
      /\ UNCHANGED <<request, Size, source, reply>> /\ file' = file
  BY DEF ReadReturns, Deliver, request
<1>2. SourceRight' /\ faulty \in BOOLEAN
  BY <1>1, InvSource, SourceKept DEF TypeOK
<1>3. CASE /\ body' = body \o reading.bytes
           /\ left' = left - Len(reading.bytes)
           /\ stage' = IF EmptyReadEnds THEN "done" ELSE "copy"
           /\ UNCHANGED faulty
  \* To have read nothing takes a read behind the end of the file.
  <2>1. ~ (stage' = "done" /\ Honest)
    <3> SUFFICES ASSUME EmptyReadEnds, Honest PROVE FALSE
      BY <1>3
    <3>1. /\ reading.sr.FirstChunkIdx \in Nat
          /\ reading.sr.LastChunkIdx \in {reading.sr.FirstChunkIdx, reading.sr.FirstChunkIdx + 1}
          /\ reading.i \in reading.sr.FirstChunkIdx .. reading.sr.LastChunkIdx + 1
          /\ reading.i # reading.sr.FirstChunkIdx => Len(reading.bytes) > 0
      BY <1>1, ReadState
    <3>2. Len(reading.bytes) > 0
      BY <1>1, <3>1
    <3>3. QED
      BY <3>2 DEF EmptyReadEnds
  <2>2. stage' \in {"copy", "done"}
    BY <1>3
  <2>3. QED
    BY <1>1, <1>2, <1>3, <2>1, <2>2, ReadDelivers
<1>4. CASE stage' = "done" /\ faulty' = TRUE /\ UNCHANGED <<body, left>>
  <2>1. UNCHANGED <<file, header, Size, reply, body, left>>
    BY <1>1, <1>4 DEF request
  <2>2. seekOffset + Len(reading.bytes) \in Nat
    BY <1>1, ReadState
  <2>3. TypeOK' /\ PrefetchInBounds'
    BY <1>1, <1>2, <1>4, <2>1, <2>2, InvSource, TypesKept DEF TypeOK
  <2>4. SizeRight'
    BY <1>1, <1>4, <2>1, InvSource, SizeKept
  <2>5. UntouchedBefore' /\ ReplyRight' /\ CopyRight' /\ ReadRight'
    BY <1>4, <2>1, InvSource DEF UntouchedBefore, ReplyRight, CopyRight, ReadRight
  <2>6. BodyIsRange' /\ ShortOnlyByFault' /\ RangeAsAsked' /\ PanicsOnlyOnLies'
    BY <1>4, <2>1, InvSource DEF BodyIsRange, ShortOnlyByFault, RangeAsAsked, PanicsOnlyOnLies,
                                 Served
  <2>7. QED
    BY <2>3, <2>4, <2>5, <2>6 DEF Inv
<1>5. QED
  BY <1>3, <1>4 DEF ReadReturns, Deliver


LEMMA ReadPanickedStep == Inv /\ ReadPanicked => Inv'
<1> SUFFICES ASSUME Inv, ReadPanicked PROVE Inv'
  OBVIOUS
<1> DEFINE s == seekOffset
           i == reading.i
           p == reading.sr.FirstChunkIdx
           q == reading.sr.LastChunkIdx
           N == Chunks(file)
           C == MaxChunkSize
<1>1. /\ stage = "read" /\ i <= q /\ "panic" \in ChunkEnds(i) /\ stage' = "panicked"
      /\ UNCHANGED <<request, Size, seekOffset, source, reply, left, body, faulty>>
      /\ file' = file
  BY DEF ReadPanicked, request
\* A read that starts within the file reaches no further than the terminator,
\* and it gets there from a chunk, whose hash is not the terminator's.
<1>2. ~Honest
  <2> SUFFICES ASSUME Honest PROVE FALSE
    OBVIOUS
  <2>1. /\ s \in Nat /\ left \in Nat \ {0} /\ file.len \in Nat /\ s + left <= file.len
        /\ p \in Nat /\ q \in {p, p + 1} /\ i \in p .. q + 1
        /\ i # p => current = i - 1
    BY <1>1, ReadState
  <2>2. p * C \in Nat /\ p * C <= s
    BY <1>1, ReadParts
  <2>3. i \in Nat /\ N \in Nat
    BY <2>1, InvSource, ChunksOfFile
  <2>4. i = N + 1 \/ (i = N /\ current = NoHash)
    BY <1>1, <2>3, InvSource, ChunkOutcome
  <2>5. file.len <= N * C /\ N * C \in Nat /\ C \in Nat /\ C > 0
    BY <2>3, InvSource, ChunksOfFile, ChunkSizeAssumption
  <2> HIDE DEF s, i, p, q, N, C
  <2>6. p < N
    <3>1. N <= p => N * C <= p * C
      BY <2>1, <2>3, <2>5
    <3>2. QED
      BY <2>1, <2>2, <2>3, <2>5, <3>1
  <2>7. QED
    BY <1>1, <2>1, <2>3, <2>4, <2>6 DEF NoHash
<1>3. SourceRight'
  BY <1>1, InvSource, SourceKept
<1>4. QED
  BY <1>1, <1>2, <1>3, ReadBlowsUp

LEMMA PrefetchStep == Inv /\ (\E w \in workers : Prefetch(w)) => Inv'
<1> SUFFICES ASSUME Inv, NEW w \in workers, Prefetch(w) PROVE Inv'
  OBVIOUS
<1>1. SourceRight'
  BY InvSource, PrefetchRight
<1>2. UNCHANGED <<request, stage, Size, seekOffset, current, reply, left, body, reading, faulty>>
  BY DEF Prefetch
<1>3. QED
  BY <1>1, <1>2, CachesStep

LEMMA EvictStep == Inv /\ (\E i \in cached : Evict(i)) => Inv'
<1> SUFFICES ASSUME Inv, NEW i \in cached, Evict(i) PROVE Inv'
  OBVIOUS
<1>1. /\ UNCHANGED <<request, stage, Size, seekOffset, current, reply, left, body, reading,
                     faulty>>
      /\ UNCHANGED <<file, prefetched, workers>> /\ cached' \subseteq cached
  BY DEF Evict, request
<1>2. SourceRight'
  BY <1>1, InvSource DEF SourceRight, Terminator
<1>3. QED
  BY <1>1, <1>2, CachesStep

LEMMA StutterStep == Inv /\ UNCHANGED vars => Inv'
<1> SUFFICES ASSUME Inv, UNCHANGED vars PROVE Inv'
  OBVIOUS
<1>1. UNCHANGED <<request, stage, Size, seekOffset, current, reply, left, body, reading, faulty>>
      /\ UNCHANGED source /\ file' = file
  BY DEF vars, request, source
<1>2. SourceRight'
  BY <1>1, InvSource, SourceKept
<1>3. QED
  BY <1>1, <1>2, CachesStep

LEMMA NextInv == Inv /\ [Next]_vars => Inv'
  BY PrepareStep, setSizeStep, ServeUnsatisfiableStep, ServeWholeStep, ServeRangeStep,
     CopyEndsStep, ReadStartsStep, ReadChunkStep, ReadFailsStep, ReadPanickedStep,
     ReadReturnsStep, PrefetchStep, EvictStep, StutterStep DEF Next, Handler

-----------------------------------------------------------------------------
(* The results.                                                             *)

\* The invariant of a GET: the position, what is left, what has been sent and
\* the read in progress belong together, at every step of the handler, of the
\* prefetching goroutines and of the other users of the caches.
THEOREM Invariance == Spec => []Inv
  BY InitInv, NextInv, PTL DEF Spec

\* The types of what a GET keeps.
THEOREM TypeCorrect == Spec => []TypeOK
<1>1. Inv => TypeOK
  BY DEF Inv
<1>2. QED
  BY <1>1, Invariance, PTL

\* Stream.Read and io.CopyN: the bytes sent are the next ones of the range, none
\* skipped or repeated, and never more than the Content-Length says.
THEOREM BodyIsRight == Spec => []BodyIsRange
<1>1. Inv => BodyIsRange
  BY DEF Inv
<1>2. QED
  BY <1>1, Invariance, PTL

\* A body is short only when a fetch or a write failed, or the claim overstates
\* the file; with no range asked for, it is the whole file.
THEOREM BodyIsComplete == Spec => []ShortOnlyByFault
<1>1. Inv => ShortOnlyByFault
  BY DEF Inv
<1>2. QED
  BY <1>1, Invariance, PTL

\* parseRange and ServeStream: a 206 announces the positions that RFC 7233 says
\* a specification of the header asks for.
THEOREM RangeIsRight == Spec => []RangeAsAsked
<1>1. Inv => RangeAsAsked
  BY DEF Inv
<1>2. QED
  BY <1>1, Invariance, PTL

\* GetChunk and ReadableChunk.Read index out of their slices only for a claim
\* that overstates the file, or a suffix range of length 0.
THEOREM PanicsAreLies == Spec => []PanicsOnlyOnLies
<1>1. Inv => PanicsOnlyOnLies
  BY DEF Inv
<1>2. QED
  BY <1>1, Invariance, PTL

\* setSize: what it computes, exact or estimated with a subtraction that wraps
\* around, is never more than the file, as ServeStream reads it.
THEOREM SizeIsModest == Spec => []SizeNotInvented
<1>1. Inv => SizeNotInvented
  BY DEF Inv, SizeRight, SizeNotInvented
<1>2. QED
  BY <1>1, Invariance, PTL

\* startPrefetching: a goroutine stays on the chunks of the file, behind the
\* first.
THEOREM PrefetchStays == Spec => []PrefetchInBounds
<1>1. Inv => PrefetchInBounds
  BY DEF Inv
<1>2. QED
  BY <1>1, Invariance, PTL
=============================================================================
