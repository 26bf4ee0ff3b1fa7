----------------------------- MODULE BlobService -----------------------------
(***************************************************************************)
(* What the two blob caches of the player promise to the streams, with no  *)
(* cache in it.  A reader asks for one blob.  It is answered with a blob   *)
(* that answers its request, or it is refused.  Every refusal is due to a  *)
(* fetch of that very hash that failed, and one failed fetch refuses one   *)
(* group of readers, once: a failure is not remembered.  Only who asks for *)
(* a hash that is asked for as another kind as well may be refused because *)
(* a blob has come that is no answer to it.                                *)
(*                                                                         *)
(* HotCache.tla implements this specification (property Service there).    *)
(***************************************************************************)
CONSTANTS
    Readers,      \* goroutines that ask for blobs: http streams and prefetchers
    Requests,     \* what may be asked: records with a field hash
    Contents,     \* Contents[h]: what may come for a hash
    AnswersTo,    \* AnswersTo[q]: what of it answers a request
    None          \* no request, no answer

VARIABLES
    want,     \* want[r]: what reader r is asking for, or None
    answer,   \* answer[r]: the blob r was given, or None
    refused,  \* the readers that were given an error
    failing   \* the hashes of which a fetch has failed and refused nobody yet

vars == <<want, answer, refused, failing>>

Pending(r) == want[r] # None /\ answer[r] = None /\ r \notin refused

Init ==
    /\ want = [r \in Readers |-> None]
    /\ answer = [r \in Readers |-> None]
    /\ refused = {}
    /\ failing = {}

Ask(r, q) ==
    /\ want[r] = None
    /\ want' = [want EXCEPT ![r] = q]
    /\ UNCHANGED <<answer, refused, failing>>

\* Blob b of hash h comes to the readers of S: it answers them, except those that
\* have asked for something else under that hash.
Serve(h, b, S) ==
    LET answered == {r \in S : b \in AnswersTo[want[r]]}
    IN  /\ b \in Contents[h]
        /\ \A r \in S : Pending(r) /\ want[r].hash = h
        /\ answer' = [r \in Readers |-> IF r \in answered THEN b ELSE answer[r]]
        /\ refused' = refused \cup (S \ answered)
        /\ UNCHANGED <<want, failing>>

\* A fetch of h fails, on behalf of a reader that wants it.
Fault(h) ==
    /\ \E r \in Readers : Pending(r) /\ want[r].hash = h
    /\ failing' = failing \cup {h}
    /\ UNCHANGED <<want, answer, refused>>

\* A group S of readers that want h is given the error of a failed fetch of h.
Refuse(h, S) ==
    /\ h \in failing
    /\ \A r \in S : Pending(r) /\ want[r].hash = h
    /\ refused' = refused \cup S
    /\ failing' = failing \ {h}
    /\ UNCHANGED <<want, answer>>

\* A reader takes its answer or its error away.
Collect(r) ==
    /\ want[r] # None
    /\ ~Pending(r)
    /\ want' = [want EXCEPT ![r] = None]
    /\ answer' = [answer EXCEPT ![r] = None]
    /\ refused' = refused \ {r}
    /\ UNCHANGED failing

\* The process restarts: every ask is forgotten, and every failure with it.
Restart ==
    /\ want' = [r \in Readers |-> None]
    /\ answer' = [r \in Readers |-> None]
    /\ refused' = {}
    /\ failing' = {}

AskedHashes == {q.hash : q \in Requests}

Next ==
    \/ \E r \in Readers : Collect(r)
    \/ \E r \in Readers, q \in Requests : Ask(r, q)
    \/ \E h \in AskedHashes : Fault(h)
    \/ \E h \in AskedHashes, S \in SUBSET Readers :
          Refuse(h, S) \/ \E b \in Contents[h] : Serve(h, b, S)
    \/ Restart

Spec == Init /\ [][Next]_vars
=============================================================================
