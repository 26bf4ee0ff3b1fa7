-------------------------- MODULE MCRequestHandler --------------------------
(***************************************************************************)
(* Instances of RequestHandler for TLC: requests of every form, and the    *)
(* few that meet in the cache.                                             *)
(***************************************************************************)
EXTENDS RequestHandler

\* Requests of every form, with the whole claim id and without, flagged or not,
\* for a download or not; the transcoder may suit both forms of URL that
\* Handle takes apart from speech.
ManyRequests ==
    {q \in RequestType :
        /\ q.route = "fragment" \/ q.whole = (q.route = "speech") => ~q.flagged /\ ~q.download /\ ~q.fit
        /\ q.fit => q.route \in {"byId", "named"} /\ ~q.flagged
        /\ q.download => q.route # "speech" /\ (q.route = "named" => ~q.flagged)}

\* Two forms of URL under which one claim is cached.
TwoForms ==
    {q \in RequestType :
        q.route \in {"byId", "named"} /\ q.whole /\ ~q.flagged /\ ~q.download /\ ~q.fit}
=============================================================================
