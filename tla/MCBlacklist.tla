---------------------------- MODULE MCBlacklist ----------------------------
(***************************************************************************)
(* Instances of Blacklist for TLC: a file with two contents that share     *)
(* nothing; of the addresses one is banned by its provider in the first    *)
(* and by its network in the second, the other by its network in the       *)
(* first only.                                                             *)
(***************************************************************************)
EXTENDS Blacklist, TLC

CONSTANTS n1, n2, a1, a2

TwoNetworks == {n1, n2}
TwoProviders == {a1, a2}

TwoVersions == {[ips |-> {n1}, asns |-> {a1}], [ips |-> {n2}, asns |-> {}]}

CrossAddresses == {[network |-> n1, provider |-> a2], [network |-> n2, provider |-> a1]}

AllSymmetry == Permutations(Reloaders) \cup Permutations(Checkers) \cup Permutations(Editions)
=============================================================================
