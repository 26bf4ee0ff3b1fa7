----------------------------- MODULE HttpRange -----------------------------
(***************************************************************************)
(* player/server.go, parseRange and its helpers: what a Range header asks  *)
(* of a stream of a given size.                                            *)
(*                                                                         *)
(* A header is a list of range specifications after "bytes=", cut at the   *)
(* commas, with the empty ones dropped.  A specification is cut at its     *)
(* first dash into two fields.  A field is Blank, or Junk (strconv fails   *)
(* on it, or the dash is missing), or the number strconv reads there: the  *)
(* second may be negative, "5--3", the first cannot be.                    *)
(***************************************************************************)
EXTENDS Integers, Sequences, Functions

CONSTANTS
    Blank,      \* an empty field
    Junk        \* a field that is no number

\* What GetHeader("Range") gives parseRange.
NoHeader == [form |-> "none", specs |-> <<>>]
Garbage == [form |-> "garbage", specs |-> <<>>]   \* no "bytes=" prefix
Bytes(specs) == [form |-> "bytes", specs |-> specs]

Suffix(s) == s.start = Blank
Smaller(a, b) == IF a <= b THEN a ELSE b

\* Mutant of PastEnd: a range that starts just behind the content is kept.
PastEndLoose(s, size) == ~Suffix(s) /\ s.start # Junk /\ s.start > size

\* A range that starts behind the content is skipped before its end is read.
PastEnd(s, size) == ~Suffix(s) /\ s.start # Junk /\ s.start >= size

Invalid(s, size) ==
    IF Suffix(s) THEN s.end \in {Blank, Junk}
    ELSE \/ s.start = Junk
         \/ /\ ~PastEnd(s, size)
            /\ s.end # Blank
            /\ s.end = Junk \/ s.start > s.end

\* Mutant of RangeOf: the end is taken for exclusive.
RangeExclusive(s, size) ==
    IF Suffix(s)
    THEN [start |-> size - Smaller(s.end, size), length |-> Smaller(s.end, size)]
    ELSE [start |-> s.start,
          length |-> (IF s.end = Blank THEN size
                      ELSE Smaller(s.end, size - 1)) - s.start]

\* The range of a specification that is neither invalid nor skipped.
RangeOf(s, size) ==
    IF Suffix(s)
    THEN [start |-> size - Smaller(s.end, size), length |-> Smaller(s.end, size)]
    ELSE [start |-> s.start,
          length |-> (IF s.end = Blank THEN size
                      ELSE Smaller(s.end, size - 1) + 1) - s.start]

\* The ranges of a list of specifications, each under its place in the list.
RangesOf(specs, size) ==
    [k \in {j \in DOMAIN specs : ~PastEnd(specs[j], size)} |-> RangeOf(specs[k], size)]

\* parseRange: an error, or the list of the ranges asked for.
parseRange(header, size) ==
    LET bad == \E k \in DOMAIN header.specs : Invalid(header.specs[k], size)
        ranges == IF bad THEN <<>> ELSE RangesOf(header.specs, size)
    IN  [err |-> CASE header.form = "garbage" \/ bad -> "invalid"
                   [] header.form # "garbage" /\ ~bad /\ header.specs # <<>>
                        /\ DOMAIN ranges = {} -> "noOverlap"
                   [] OTHER -> "none",
         ranges |-> ranges]

sumRangesSize(ranges) == SumFunction([k \in DOMAIN ranges |-> ranges[k].length])

-----------------------------------------------------------------------------
\* What RFC 7233 means by one specification, as the set of the positions it
\* asks for in a representation of `size` bytes: independent of the above.
Asked(s, size) ==
    {p \in 0 .. size - 1 :
        IF Suffix(s) THEN p >= size - s.end
        ELSE p >= s.start /\ (s.end = Blank \/ p <= s.end)}
=============================================================================
