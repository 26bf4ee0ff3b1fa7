----------------------- MODULE BlockedRequestsProofs -----------------------
(***************************************************************************)
(* Proofs about BlockedRequests: the composition implements both of its    *)
(* components, and lets nothing through that has been blocked for long.    *)
(***************************************************************************)
EXTENDS BlockedRequests, BlockedContentProofs

\* The proofs about the handlers.
RP == INSTANCE RequestHandlerProofs WITH
        Kinds <- {"free"}, pc <- at, DownloadsEnabled <- TRUE,
        EdgeTokenSet <- FALSE, Transcoder <- TRUE, MaxDepth <- 1

\* What they assume of the parameters.
LEMMA HandlerAssumption ==
    /\ Requests \subseteq RP!RequestType
    /\ {"free"} \subseteq RP!KindNames
    /\ Contents \subseteq {"claim", "channel"}
    /\ Counts \subseteq Nat
    /\ TRUE \in BOOLEAN /\ FALSE \in BOOLEAN /\ TRUE \in BOOLEAN
    /\ 1 \in Nat \ {0}
  BY RequestsAssumption DEF R!RequestType, R!Routes, RP!RequestType, RP!Routes, RP!KindNames

\* The handlers of the composition are those of these proofs.
LEMMA SameInit == R!Init <=> RP!Init
  BY DEF R!Init, RP!Init, R!CacheKeys, RP!CacheKeys, R!NoLists, RP!NoLists

LEMMA SameInv == R!Inv <=> RP!Inv
  BY DEF R!Inv, RP!Inv, R!TypeOK, RP!TypeOK, R!CacheKeys, RP!CacheKeys, R!Pcs, RP!Pcs,
         R!Statuses, RP!Statuses, R!EdgeTokens, RP!EdgeTokens, R!StreamTokens, RP!StreamTokens,
         R!OnItsWay, RP!OnItsWay, R!HeldRight, RP!HeldRight, R!ListsRight, RP!ListsRight,
         R!CheckedRight, RP!CheckedRight, R!ContentIsAllowed, RP!ContentIsAllowed,
         R!Listed, RP!Listed, R!LookUps, RP!LookUps, R!Key, RP!Key, R!Streams, RP!Streams,
         R!Resolving, RP!Resolving, R!Resolved, RP!Resolved, R!Unblocked, RP!Unblocked,
         R!Counted, RP!Counted, R!Granted, RP!Granted, R!Vouched, RP!Vouched

LEMMA SameReceive ==
    ASSUME NEW h, NEW q
    PROVE  R!Receive(h, q) <=> RP!Receive(h, q)
  BY DEF R!Receive, RP!Receive, R!Respond, RP!Respond, R!Goto, RP!Goto

LEMMA SameExpire ==
    ASSUME NEW k
    PROVE  R!Expire(k) <=> RP!Expire(k)
  BY DEF R!Expire, RP!Expire

LEMMA SameCheckList ==
    ASSUME NEW h
    PROVE  R!CheckList(h) <=> RP!CheckList(h)
  BY DEF R!CheckList, RP!CheckList, R!Respond, RP!Respond, R!Goto, RP!Goto

LEMMA SameCheckStreamBlocked ==
    ASSUME NEW h
    PROVE  R!CheckStreamBlocked(h) <=> RP!CheckStreamBlocked(h)
  BY DEF R!CheckStreamBlocked, RP!CheckStreamBlocked, R!IsStreamBlocked, RP!IsStreamBlocked,
         R!Respond, RP!Respond, R!Goto, RP!Goto, R!Key, RP!Key

LEMMA SameVerifyAccess ==
    ASSUME NEW h
    PROVE  R!VerifyAccess(h) <=> RP!VerifyAccess(h)
  BY DEF R!VerifyAccess, RP!VerifyAccess, R!StreamTokensOf, RP!StreamTokensOf,
         R!ProcessStreamError, RP!ProcessStreamError,
         R!StatusOf, RP!StatusOf, R!Respond, RP!Respond, R!Goto, RP!Goto,
         R!EdgeTokens, RP!EdgeTokens, R!StreamTokens, RP!StreamTokens

LEMMA SameHandle ==
    ASSUME NEW h
    PROVE  R!Handle(h) <=> RP!Handle(h)
  BY SameCheckList, SameCheckStreamBlocked, SameVerifyAccess
     DEF R!Handle, RP!Handle, R!CheckBans, RP!CheckBans,
         R!CheckDownload, RP!CheckDownload, R!ResolveHit, RP!ResolveHit,
         R!ResolveMiss, RP!ResolveMiss, R!SdkAnswers, RP!SdkAnswers, R!SdkFails, RP!SdkFails,
         R!FollowRepost, RP!FollowRepost, R!StoreClaim, RP!StoreClaim,
         R!CheckKind, RP!CheckKind,
         R!RateLimit, RP!RateLimit, R!CheckFlagged, RP!CheckFlagged,
         R!AskTranscoder, RP!AskTranscoder, R!Serve, RP!Serve,
         R!PlayFragment, RP!PlayFragment, R!Finish, RP!Finish,
         R!ProcessStreamError, RP!ProcessStreamError, R!StatusOf, RP!StatusOf,
         R!Respond, RP!Respond, R!Goto, RP!Goto, R!Key, RP!Key, R!Streams, RP!Streams,
         R!NoLists, RP!NoLists

\* What a step of the composition does to its handlers.
LEMMA StepOfHandlers == [RNext]_rvars => [R!Next]_(R!vars)
<1> SUFFICES ASSUME [RNext]_rvars PROVE [R!Next]_(R!vars)
  OBVIOUS
<1>1. CASE UNCHANGED handling
  BY <1>1 DEF handling, R!vars
<1>2. ASSUME NEW k \in R!CacheKeys, Drop(k) PROVE R!Next
  BY <1>2 DEF Drop, R!Next
<1>3. ASSUME NEW h \in Handlers, NEW q \in Requests, Receive(h, q) PROVE R!Next
  BY <1>3 DEF Receive, R!Next
<1>4. ASSUME NEW h \in Handlers, LookUp(h) PROVE R!Next
  BY <1>4 DEF LookUp, R!Handle, R!Next
<1>5. ASSUME NEW h \in Handlers, Proceed(h) PROVE R!Next
  BY <1>5 DEF Proceed, R!Next
<1>6. QED
  BY <1>1, <1>2, <1>3, <1>4, <1>5 DEF RNext, Block, Wait, Fetch, Leave, rvars

\* What it does to the list and its readers.
LEMMA StepOfList == [RNext]_rvars => [Next]_vars
<1> SUFFICES ASSUME [RNext]_rvars PROVE [Next]_vars
  OBVIOUS
<1>1. ASSUME NEW h \in Handlers, LookUp(h) PROVE Next
  BY <1>1, HandlersAssumption DEF LookUp, Next, GetBlockedContent
<1>2. ASSUME NEW r \in Readers, Fetch(r) PROVE Next
  BY <1>2 DEF Fetch, Next, GetBlockedContent
<1>3. ASSUME NEW r \in Readers, Leave(r) PROVE Next
  BY <1>3 DEF Leave, Next, GetBlockedContent
<1>4. QED
  BY <1>1, <1>2, <1>3 DEF RNext, Block, Wait, Drop, Receive, Proceed, Next, rvars

\* What the theorems about the handlers say of the composition.
LEMMA HandlersKeepInv == R!Inv /\ [R!Next]_(R!vars) => R!Inv'
<1>1. RP!Inv /\ [RP!Next]_(RP!vars) => RP!Inv'
  BY HandlerAssumption, RP!NextInv
<1>2. R!Next <=> RP!Next
  BY SameReceive, SameExpire, SameHandle
     DEF R!Next, RP!Next, R!Publish, RP!Publish, R!CacheKeys, RP!CacheKeys
<1>3. R!Inv' <=> RP!Inv'
  BY SameInv, PTL
<1>4. [R!Next]_(R!vars) <=> [RP!Next]_(RP!vars)
  BY <1>2 DEF R!vars, RP!vars
<1>5. QED
  BY <1>1, <1>3, <1>4, SameInv

LEMMA InitRInv == RInit => RInv
<1> SUFFICES ASSUME RInit PROVE RInv
  OBVIOUS
<1>1. Inv
  BY InitInv DEF RInit
<1>2. R!Inv
  <2>1. RP!Init => RP!Inv
    BY HandlerAssumption, RP!InitInv
  <2>2. QED
    BY <2>1, SameInit, SameInv DEF RInit
<1>3. CallsAtLookUps
  BY HandlersAssumption DEF RInit, Init, CallsAtLookUps
<1>4. overdue \in [Handlers -> SUBSET Contents] /\ ListsHoldOverdue
  BY DEF RInit, ListsHoldOverdue
<1>5. QED
  BY <1>1, <1>2, <1>3, <1>4 DEF RInv

\* Content is shown by no list before the request comes, and what is shown of
\* a request is forgotten with it.
LEMMA ListsOfHandler ==
    ASSUME R!Inv, NEW h \in Handlers, NEW g \in Handlers, R!Handle(h),
           at[h] \notin {"list", "listAgain"}
    PROVE  lists'[g] \in {lists[g], R!NoLists}
  BY DEF R!Inv, R!TypeOK, R!Handle, R!CheckBans, R!CheckList, R!CheckDownload, R!ResolveHit,
         R!ResolveMiss, R!SdkAnswers, R!SdkFails, R!FollowRepost, R!StoreClaim, R!CheckKind,
         R!CheckStreamBlocked, R!RateLimit, R!VerifyAccess, R!CheckFlagged,
         R!AskTranscoder, R!Serve, R!PlayFragment, R!Finish

\* Where the handlers stand, when h takes a step.
LEMMA OthersStand ==
    ASSUME R!Inv, NEW h \in Handlers, R!Handle(h) \/ \E q \in Requests : R!Receive(h, q)
    PROVE  \A g \in Handlers \ {h} : at'[g] = at[g] /\ lists'[g] = lists[g]
  BY ZenonT(60) DEF R!Inv, R!TypeOK, R!Handle, R!CheckBans, R!CheckList, R!CheckDownload, R!ResolveHit,
         R!ResolveMiss, R!SdkAnswers, R!SdkFails, R!FollowRepost, R!StoreClaim, R!CheckKind,
         R!CheckStreamBlocked, R!RateLimit, R!VerifyAccess, R!CheckFlagged,
         R!AskTranscoder, R!Serve, R!PlayFragment, R!Finish, R!Receive,
         R!ProcessStreamError, R!Respond, R!Goto

\* The parts of RInv that tell overdue contents and lists apart: what each kind
\* of step leaves of them.
LEMMA BlockRight ==
    ASSUME RInv, NEW x \in Contents, Block(x)
    PROVE  /\ overdue' \in [Handlers -> SUBSET Contents]
           /\ CallsAtLookUps' /\ ListsHoldOverdue'
<1>1. /\ \A h \in Handlers : overdue'[h] = overdue[h] \ {x}
      /\ overdue' \in [Handlers -> SUBSET Contents]
      /\ UNCHANGED <<at, lists, pc, list>>
      /\ \A y \in Contents \ {x} : (y \in listed' <=> y \in listed) /\ since'[y] = since[y]
  BY DEF RInv, Inv, TypeOK, Block, Change, handling
<1>2. CallsAtLookUps'
  BY <1>1 DEF RInv, CallsAtLookUps
<1>3. ListsHoldOverdue'
  BY <1>1 DEF RInv, ListsHoldOverdue
<1>4. QED
  BY <1>1, <1>2, <1>3

LEMMA WaitRight ==
    ASSUME RInv, Wait
    PROVE  CallsAtLookUps' /\ ListsHoldOverdue'
<1>1. UNCHANGED <<overdue, at, lists, pc, list, listed>>
  BY DEF Wait, Tick, handling
<1>2. \A x \in Contents : since[x] > Lag => since'[x] > Lag
  BY BlockedContentAssumption DEF Wait, Tick, RInv, Inv, TypeOK, Lag
<1>3. QED
  BY <1>1, <1>2 DEF RInv, CallsAtLookUps, ListsHoldOverdue

LEMMA ReceiveRight ==
    ASSUME RInv, NEW h \in Handlers, NEW q \in Requests, Receive(h, q)
    PROVE  /\ overdue' \in [Handlers -> SUBSET Contents]
           /\ CallsAtLookUps' /\ ListsHoldOverdue'
<1>1. /\ at[h] = "idle" /\ UNCHANGED lists
      /\ UNCHANGED <<listed, since, pc, list>>
      /\ overdue'[h] = {x \in listed : since[x] > Lag}
      /\ \A g \in Handlers \ {h} : overdue'[g] = overdue[g]
      /\ overdue' \in [Handlers -> SUBSET Contents]
  BY DEF RInv, Inv, TypeOK, Receive, R!Receive, vars
<1>2. \A g \in Handlers \ {h} : at'[g] = at[g] /\ lists'[g] = lists[g]
  BY OthersStand DEF RInv, Receive
<1>3. pc[h] = "idle" /\ list[h] = None /\ lists[h].first = None /\ lists[h].second = None
  <2>1. R!ListsRight(h)
    BY DEF RInv, R!Inv
  <2>2. lists[h].first = None /\ lists[h].second = None
    BY <1>1, <2>1 DEF R!ListsRight, R!Unblocked, R!Counted, R!Granted, R!Vouched
  <2>3. QED
    BY <1>1, <2>2 DEF RInv, CallsAtLookUps
<1>4. CallsAtLookUps'
  BY <1>1, <1>2, <1>3 DEF RInv, CallsAtLookUps
<1>5. ListsHoldOverdue'
  BY <1>1, <1>2, <1>3 DEF RInv, ListsHoldOverdue
<1>6. QED
  BY <1>1, <1>4, <1>5

LEMMA FetchRight ==
    ASSUME RInv, NEW r \in Readers, Fetch(r)
    PROVE  CallsAtLookUps' /\ ListsHoldOverdue'
<1>1. /\ UNCHANGED <<overdue, at, lists, listed, since>>
      /\ \A s \in Readers \ {r} : pc'[s] = pc[s] /\ list'[s] = list[s]
      /\ r \in Handlers => at[r] \in {"list", "listAgain"}
      /\ list'[r] = list[r] \/ (pc[r] # "done" /\ pc'[r] = "done")
  BY DEF RInv, Inv, TypeOK, Fetch, handling, Hit, Miss, Answer, Fail, Store
<1>2. CallsAtLookUps'
  BY <1>1, HandlersAssumption DEF RInv, CallsAtLookUps
<1>3. ASSUME NEW h \in Handlers, NEW x \in overdue[h], list'[h] # None
      PROVE  x \in list'[h]
  <2>1. x \in Contents /\ x \in listed /\ since[x] > Lag
    BY DEF RInv, ListsHoldOverdue
  <2>2. CASE list'[h] = list[h]
    BY <1>3, <2>2 DEF RInv, ListsHoldOverdue
  <2>3. CASE list'[h] # list[h]
    <3>1. h = r /\ h \in Readers /\ pc[h] # "done" /\ pc'[h] = "done"
      BY <1>1, <2>3, HandlersAssumption
    <3>2. Inv /\ Next
      BY DEF RInv, Fetch, Next, GetBlockedContent
    <3>3. QED
      BY <1>3, <2>1, <3>1, <3>2, StepIsRecent
  <2>4. QED
    BY <2>2, <2>3
<1>4. ListsHoldOverdue'
  BY <1>1, <1>3 DEF RInv, ListsHoldOverdue
<1>5. QED
  BY <1>2, <1>4

LEMMA LeaveRight ==
    ASSUME RInv, NEW r \in Readers \ Handlers, Leave(r)
    PROVE  CallsAtLookUps' /\ ListsHoldOverdue'
<1>1. /\ UNCHANGED <<overdue, at, lists, listed, since>>
      /\ \A h \in Handlers : pc'[h] = pc[h] /\ list'[h] = list[h]
  BY HandlersAssumption DEF RInv, Inv, TypeOK, Leave, handling, Return
<1>2. QED
  BY <1>1 DEF RInv, CallsAtLookUps, ListsHoldOverdue

\* The list that was given is the one that is looked at.
LEMMA LookUpRight ==
    ASSUME RInv, NEW h \in Handlers, LookUp(h)
    PROVE  CallsAtLookUps' /\ ListsHoldOverdue'
<1>1. /\ UNCHANGED <<overdue, listed, since>>
      /\ pc'[h] = "idle" /\ list'[h] = None
      /\ \A g \in Handlers \ {h} : pc'[g] = pc[g] /\ list'[g] = list[g]
  BY HandlersAssumption DEF RInv, Inv, TypeOK, LookUp, Return
<1>2. \A g \in Handlers \ {h} : at'[g] = at[g] /\ lists'[g] = lists[g]
  <2>1. R!Handle(h)
    BY DEF LookUp, R!Handle
  <2>2. QED
    BY <2>1, OthersStand DEF RInv
<1>3. \/ lists'[h].first = list[h] /\ lists'[h].second = lists[h].second
      \/ lists'[h].second = list[h] /\ lists'[h].first = lists[h].first
  BY DEF LookUp, R!CheckList, R!CheckStreamBlocked, RInv, R!Inv, R!TypeOK
<1>4. CallsAtLookUps'
  BY <1>1, <1>2 DEF RInv, CallsAtLookUps
<1>5. ListsHoldOverdue'
  BY <1>1, <1>2, <1>3 DEF RInv, ListsHoldOverdue
<1>6. QED
  BY <1>4, <1>5

LEMMA ProceedRight ==
    ASSUME RInv, NEW h \in Handlers, Proceed(h)
    PROVE  CallsAtLookUps' /\ ListsHoldOverdue'
<1>1. at[h] \notin {"list", "listAgain"} /\ R!Handle(h)
      /\ UNCHANGED <<overdue, listed, since, pc, list>>
  BY DEF Proceed, vars
<1>2. \A g \in Handlers \ {h} : at'[g] = at[g]
  BY <1>1, OthersStand DEF RInv
<1>3. \A g \in Handlers : lists'[g] = lists[g] \/ (lists'[g].first = None /\ lists'[g].second = None)
  BY <1>1, ListsOfHandler DEF RInv, R!NoLists
<1>4. CallsAtLookUps'
  BY <1>1, <1>2 DEF RInv, CallsAtLookUps
<1>5. ListsHoldOverdue'
  BY <1>1, <1>3 DEF RInv, ListsHoldOverdue
<1>6. QED
  BY <1>4, <1>5

LEMMA NextRInv == RInv /\ [RNext]_rvars => RInv'
<1> SUFFICES ASSUME RInv, [RNext]_rvars PROVE RInv'
  OBVIOUS
<1>1. Inv' /\ R!Inv'
  BY StepOfHandlers, StepOfList, HandlersKeepInv, NextInv DEF RInv
<1> DEFINE Right == /\ overdue' \in [Handlers -> SUBSET Contents]
                    /\ CallsAtLookUps' /\ ListsHoldOverdue'
<1>2. Right
  <2>1. ASSUME NEW x \in Contents, Block(x) PROVE Right
    BY <2>1, BlockRight
  <2>2. CASE Wait
    BY <2>2, WaitRight DEF RInv, Wait
  <2>3. ASSUME NEW h \in Handlers, NEW q \in Requests, Receive(h, q) PROVE Right
    BY <2>3, ReceiveRight
  <2>4. ASSUME NEW r \in Readers, Fetch(r) PROVE Right
    BY <2>4, FetchRight DEF RInv, Fetch
  <2>5. ASSUME NEW r \in Readers \ Handlers, Leave(r) PROVE Right
    BY <2>5, LeaveRight DEF RInv, Leave
  <2>6. ASSUME NEW h \in Handlers, LookUp(h) PROVE Right
    BY <2>6, LookUpRight DEF RInv, LookUp
  <2>7. ASSUME NEW h \in Handlers, Proceed(h) PROVE Right
    BY <2>7, ProceedRight DEF RInv, Proceed
  <2>8. ASSUME NEW k \in R!CacheKeys, Drop(k) PROVE Right
    BY <2>8 DEF Drop, R!Expire, vars, RInv, CallsAtLookUps, ListsHoldOverdue
  <2>9. CASE UNCHANGED rvars
    BY <2>9 DEF rvars, handling, vars, RInv, CallsAtLookUps, ListsHoldOverdue
  <2>10. QED
    BY <2>1, <2>2, <2>3, <2>4, <2>5, <2>6, <2>7, <2>8, <2>9 DEF RNext
<1>3. QED
  BY <1>1, <1>2 DEF RInv

THEOREM RequestsInvariance == RSpec => []RInv
  BY InitRInv, NextRInv, PTL DEF RSpec

\* The types of the list and its readers, in the composition.
THEOREM RequestsTypeCorrect == RSpec => []TypeOK
<1>1. RInv => TypeOK
  BY DEF RInv, Inv
<1>2. QED
  BY <1>1, RequestsInvariance, PTL

\* The composition implements both of its components: the handlers do with the
\* list nothing that some request could not do, and the list gives the
\* handlers nothing that RequestHandler does not allow for.
THEOREM ListServed == RSpec => Spec
<1>1. RInit => Init
  BY DEF RInit
<1>2. QED
  BY <1>1, StepOfList, PTL DEF RSpec, Spec

THEOREM RequestsHandled == RSpec => R!Spec
<1>1. RInit => R!Init
  BY DEF RInit
<1>2. QED
  BY <1>1, StepOfHandlers, PTL DEF RSpec, R!Spec

\* The lists that the handlers are given are recent too.
THEOREM RequestsSeeRecent == RSpec => ListsAreRecent
  BY ListServed, Recent, PTL

\* A handler at work has a request.
LEMMA AnsweredIsRequest ==
    ASSUME RInv, NEW h \in Handlers, resp[h] \in {200, 308}
    PROVE  req[h] \in Requests /\ req[h].route \in {"named", "byId", "speech", "fragment"}
<1>1. at[h] = "answered"
  BY DEF RInv, R!Inv, R!TypeOK
<1>2. req[h] \in Requests
  BY <1>1 DEF RInv, R!Inv, R!OnItsWay
<1>3. QED
  BY <1>2, RequestsAssumption DEF R!RequestType, R!Routes

\* What has been blocked for longer than a list may lag when a request comes is
\* not served to it, unless every look-up that would have found it failed;
\* there is one unless the claim is asked for without its whole id.
THEOREM OldIsBlocked == RSpec => []OldBlocksHold
<1>1. RInv => OldBlocksHold
  <2> SUFFICES ASSUME RInv, NEW h \in Handlers, resp[h] \in {200, 308},
                      NEW x \in overdue[h], x = "channel" \/ req[h].whole
               PROVE  /\ R!LookUps(req[h], x) # {}
                      /\ \A n \in R!LookUps(req[h], x) : lists[h][n] = None
    BY DEF OldBlocksHold
  <2>1. x \in {"claim", "channel"}
    BY RequestsAssumption DEF RInv
  <2>2. ~R!Listed(h, x)
    BY <2>1 DEF RInv, R!Inv, R!ContentIsAllowed
  <2>3. ASSUME NEW n \in R!LookUps(req[h], x) PROVE lists[h][n] = None
    <3>1. lists[h][n] # None => x \in lists[h][n]
      BY DEF RInv, ListsHoldOverdue, R!LookUps
    <3>2. QED
      BY <2>2, <3>1 DEF R!Listed
  <2>4. "first" \in R!LookUps(req[h], x) \/ "second" \in R!LookUps(req[h], x)
    BY <2>1, AnsweredIsRequest DEF R!LookUps
  <2>5. QED
    BY <2>3, <2>4
<1>2. QED
  BY <1>1, RequestsInvariance, PTL
=============================================================================
