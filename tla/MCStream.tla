------------------------------ MODULE MCStream ------------------------------
(***************************************************************************)
(* Instances of Stream for TLC.                                            *)
(***************************************************************************)
EXTENDS Stream

\* Files of no chunk up to three, the last one full or not; claims that say
\* nothing, the truth, too little, a little too much and whole chunks too much.
MCFiles ==
    {[len |-> l, claimed |-> c] : l \in {0, 1, 4, 6, 8}, c \in {0, 1, 5, 6, 8, 14}}

Spec2(a, b) == [start |-> a, end |-> b]

OneSpec ==
    {Spec2(a, b) : a \in {Blank, 0, 2, 4, 6}, b \in {Blank, -1, 0, 3, 7, 20}}
      \cup {Spec2(1, Junk), Spec2(9, Junk), Spec2(Junk, 3), Spec2(Blank, Junk)}

MCHeaders ==
    {NoHeader, Garbage, Bytes(<<>>)}
      \cup {Bytes(<<s>>) : s \in OneSpec}
      \cup {Bytes(<<Spec2(1, 2), s>>) : s \in {Spec2(9, Junk), Spec2(3, 4), Spec2(Junk, 1)}}

\* A file of one byte, hence a chunk and the terminator, claimed to have eight;
\* a range that starts where the third blob would be.
OverstatedFile == {[len |-> 1, claimed |-> 8]}
BehindTerminator == {Bytes(<<Spec2(6, Blank)>>)}
=============================================================================
