-------------------------- MODULE BlockedRequests --------------------------
(***************************************************************************)
(* The requests of RequestHandler over the list of BlockedContent: Handle  *)
(* looks content up in the list twice, before the claim is resolved and    *)
(* after, HandleTranscodedFragment once; each time GetBlockedContent may   *)
(* give the cached list, fetch a new one or fail, and the list may change  *)
(* between the two.                                                        *)
(*                                                                         *)
(* Some of the readers of the list are requests that are followed through  *)
(* all of their checks, the others the calls of any other requests.  The   *)
(* claim is a free stream and stays one.                                   *)
(***************************************************************************)
EXTENDS BlockedContent

CONSTANTS
    Handlers,  \* the readers that are followed
    Requests,  \* what may be asked for
    Counts     \* counts the rate limit may give

ASSUME HandlersAssumption == Handlers \subseteq Readers

VARIABLES
    claim, resolved, at, req, held, depth, resp, lists, shown, count

\* History: what had been blocked for longer than any list may lag when the
\* request of h came, and still is.
VARIABLE overdue

R == INSTANCE RequestHandler WITH
        Kinds <- {"free"}, pc <- at, DownloadsEnabled <- TRUE,
        EdgeTokenSet <- FALSE, Transcoder <- TRUE, MaxDepth <- 1

\* What RequestHandler assumes of the parameters it shares with this module.
ASSUME RequestsAssumption ==
    /\ Requests \subseteq R!RequestType
    /\ Contents \subseteq {"claim", "channel"}
    /\ Counts \subseteq Nat

handling == <<claim, resolved, at, req, held, depth, resp, lists, shown, count>>
rvars == <<vars, handling, overdue>>

RInit ==
    /\ Init
    /\ R!Init
    /\ overdue = [h \in Handlers |-> {}]

\* The list changes whatever the requests do.
Block(x) ==
    /\ Change(x)
    /\ overdue' = [h \in Handlers |-> overdue[h] \ {x}]
    /\ UNCHANGED handling

Wait == Tick /\ UNCHANGED <<handling, overdue>>

Receive(h, q) ==
    /\ R!Receive(h, q)
    /\ overdue' = [overdue EXCEPT ![h] = {x \in listed : since[x] > Lag}]
    /\ UNCHANGED vars

\* A call of GetBlockedContent, at either look-up, up to its result.
Fetch(r) ==
    /\ r \in Handlers => at[r] \in {"list", "listAgain"}
    /\ Hit(r) \/ Miss(r) \/ Answer(r) \/ Fail(r) \/ Store(r)
    /\ UNCHANGED <<handling, overdue>>

\* Another request has its list, and will come again.
Leave(r) == Return(r) /\ UNCHANGED <<handling, overdue>>

\* The result is looked at; an error counts as an empty list.
LookUp(h) ==
    /\ Return(h)
    /\ \/ R!CheckList(h) /\ lists'[h].first = list[h]
       \/ R!CheckStreamBlocked(h) /\ lists'[h].second = list[h]
    /\ UNCHANGED overdue

\* All that does not concern the list.
Proceed(h) ==
    /\ at[h] \notin {"list", "listAgain"}
    /\ R!Handle(h)
    /\ UNCHANGED <<vars, overdue>>

Drop(k) == R!Expire(k) /\ UNCHANGED <<vars, overdue>>

RNext ==
    \/ \E x \in Contents : Block(x)
    \/ Wait
    \/ \E k \in R!CacheKeys : Drop(k)
    \/ \E r \in Readers : Fetch(r)
    \/ \E r \in Readers \ Handlers : Leave(r)
    \/ \E h \in Handlers :
        (\E q \in Requests : Receive(h, q)) \/ LookUp(h) \/ Proceed(h)

RSpec == RInit /\ [][RNext]_rvars

-----------------------------------------------------------------------------
\* What has been blocked for longer than the life of a list and the time of a
\* fetch when a request comes, and stays blocked, is not served if it is the
\* claim's channel, or the claim and the URL has its whole id: there is a look-
\* up that finds it, and all that do must have met with an error.  Neither the
\* cached list nor those that concurrent requests store over each other let
\* it through.  A claim is served, however long it has been blocked, to whoever
\* asks for it by a shortened id or by its name: the lists have whole ids.
OldBlocksHold ==
    \A h \in Handlers : resp[h] \in {200, 308} =>
        \A x \in overdue[h] : x = "channel" \/ req[h].whole =>
            /\ R!LookUps(req[h], x) # {}
            /\ \A n \in R!LookUps(req[h], x) : lists[h][n] = None

-----------------------------------------------------------------------------
\* The inductive invariant behind it (BlockedRequestsProofs.tla).

\* A handler that is not at a look-up calls no GetBlockedContent.
CallsAtLookUps ==
    \A h \in Handlers : at[h] \notin {"list", "listAgain"} => pc[h] = "idle" /\ list[h] = None

\* What was overdue when the request came is in every list that it is given
\* from then on, whoever fetched it.
ListsHoldOverdue ==
    \A h \in Handlers : \A x \in overdue[h] :
        /\ x \in listed /\ since[x] > Lag
        /\ list[h] # None => x \in list[h]
        /\ \A n \in {"first", "second"} : lists[h][n] # None => x \in lists[h][n]

RInv ==
    /\ Inv
    /\ R!Inv
    /\ overdue \in [Handlers -> SUBSET Contents]
    /\ CallsAtLookUps
    /\ ListsHoldOverdue
=============================================================================
