---------------------------- MODULE MCRateLimit ----------------------------
(***************************************************************************)
(* Instance of RateLimit for TLC.  Callers, endpoints and names of maps    *)
(* may be permuted, and what a map nobody can reach holds is left out of   *)
(* the state.                                                              *)
(***************************************************************************)
EXTENDS RateLimit, TLC

AllSymmetry == Permutations(Callers) \cup Permutations(Endpoints) \cup Permutations(MapIds)

ReachableView ==
    <<now, table, expiry, [m \in MapIds |-> IF m \in Live THEN tokens[m] ELSE Empty],
      pc, endpoint, mine, time, toVisit, stale, count, history>>
=============================================================================
