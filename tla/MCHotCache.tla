----------------------------- MODULE MCHotCache -----------------------------
(***************************************************************************)
(* Instances of HotCache for TLC.  The readers only differ by name, and    *)
(* the safety run checks no liveness, so they may be permuted there.       *)
(***************************************************************************)
EXTENDS HotCache, TLC

CONSTANTS c, x, k1, k2

Ask(h, e) == [hash |-> h, extra |-> e]

\* A chunk c that two descriptors list with different keys, and a descriptor x
\* that another lists as a chunk.
MCNamed == {Ask(c, k1), Ask(c, k2), Ask(x, NoKey), Ask(x, k1)}

\* c does not decrypt with k2; x does with k1, but not to a descriptor.
MCAvailable == {Blob("bytes", c, k1), Blob("bytes", x, NoKey), Blob("bytes", x, k1)}
MCParsing == {Blob("bytes", x, NoKey)}

ReaderSymmetry == Permutations(Readers)
=============================================================================
