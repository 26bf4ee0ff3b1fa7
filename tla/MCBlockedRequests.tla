------------------------- MODULE MCBlockedRequests -------------------------
(***************************************************************************)
(* Instance of BlockedRequests for TLC: the forms of URL that the block    *)
(* list is asked about in different ways, with nothing else that tells     *)
(* requests apart.  The claim of a shortened id is found by neither look-  *)
(* up, as that of a name; of an id by both; of a fragment by the second,   *)
(* as that of speech by its id.  A whole id after a name is asked about as *)
(* an id is at the first look-up, and as a shortened one at the second.    *)
(***************************************************************************)
EXTENDS BlockedRequests

MCRequests ==
    {[route |-> r, whole |-> r # "named", download |-> FALSE, flagged |-> FALSE, fit |-> FALSE] :
        r \in {"named", "byId", "fragment"}}
=============================================================================
