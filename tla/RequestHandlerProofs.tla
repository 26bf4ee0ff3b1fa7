------------------------ MODULE RequestHandlerProofs ------------------------
(***************************************************************************)
(* Proofs about RequestHandler, for any handlers, requests, claims, lists  *)
(* and options.  Handlers share nothing but the cache of claims, so that   *)
(* the invariant is about one of them at a time: what has been checked     *)
(* when it stands at a step.                                               *)
(***************************************************************************)
EXTENDS RequestHandler, TLAPS

\* What the invariant says of one handler.
Fine(h) == OnItsWay(h) /\ HeldRight(h) /\ ListsRight(h) /\ CheckedRight(h)

\* A step that leaves everything of handler g alone.
Spared(g) ==
    /\ pc'[g] = pc[g] /\ req'[g] = req[g] /\ held'[g] = held[g] /\ depth'[g] = depth[g]
    /\ resp'[g] = resp[g] /\ lists'[g] = lists[g] /\ shown'[g] = shown[g]
    /\ count'[g] = count[g]

\* Errors are answered with an error, but for the one that has no status.
LEMMA ErrorStatus ==
    ASSUME NEW error, NEW type
    PROVE  /\ StatusOf(error, type) \in Statuses \ {0}
           /\ error # "channelNotEnabled" => StatusOf(error, type) \notin {200, 308}
  BY DEF StatusOf, Statuses

LEMMA InitInv == Init => Inv
  BY RequestHandlerAssumption
     DEF Init, Inv, TypeOK, Pcs, Resolving, Resolved, Unblocked, Counted, Granted, Vouched,
         Statuses, NoLists, EdgeTokens, StreamTokens, CacheKeys, OnItsWay, HeldRight,
         ListsRight, CheckedRight, ContentIsAllowed

\* A step of one handler keeps the invariant if it keeps what is said of it.
LEMMA HandlerStepInv ==
    ASSUME Inv, NEW h \in Handlers, TypeOK',
           \A g \in Handlers \ {h} : Spared(g),
           Fine(h)',
           resp'[h] \notin {200, 308}
    PROVE  Inv'
<1>1. \A g \in Handlers : Fine(g)'
  BY DEF Inv, Fine, Spared, OnItsWay, HeldRight, ListsRight, CheckedRight
<1>2. ContentIsAllowed'
  BY DEF Inv, ContentIsAllowed, Spared, Listed
<1>3. QED
  BY <1>1, <1>2 DEF Inv, Fine

\* Goto and Respond keep the steps and the statuses in order.
StatusRight ==
    /\ pc \in [Handlers -> Pcs]
    /\ resp \in [Handlers -> Statuses]
    /\ \A h \in Handlers : (pc[h] = "answered") <=> (resp[h] # 0)

LEMMA Goes ==
    ASSUME Inv, NEW h \in Handlers, pc[h] # "answered",
           NEW l \in Pcs \ {"answered"}, Goto(h, l)
    PROVE  /\ StatusRight' /\ pc'[h] = l /\ resp'[h] = 0
           /\ \A g \in Handlers \ {h} : pc'[g] = pc[g] /\ resp'[g] = resp[g]
  BY DEF Inv, TypeOK, StatusRight, Goto

LEMMA Responds ==
    ASSUME Inv, NEW h \in Handlers, NEW s \in Statuses \ {0}, Respond(h, s)
    PROVE  /\ StatusRight' /\ pc'[h] = "answered" /\ resp'[h] = s
           /\ \A g \in Handlers \ {h} : pc'[g] = pc[g] /\ resp'[g] = resp[g]
  BY DEF Inv, TypeOK, StatusRight, Respond, Pcs

LEMMA ReceiveInv ==
    ASSUME Inv, NEW h \in Handlers, NEW q \in Requests, Receive(h, q)
    PROVE  Inv'
<1>1. pc[h] = "idle" /\ req' = [req EXCEPT ![h] = q]
      /\ UNCHANGED <<claim, resolved, held, depth, lists, shown, count>>
  BY DEF Receive
<1>2. /\ StatusRight' /\ resp'[h] \in {0, 404}
      /\ \A g \in Handlers \ {h} : pc'[g] = pc[g] /\ resp'[g] = resp[g]
      /\ \/ pc'[h] = "answered"
         \/ q.route = "fragment" /\ pc'[h] = "resolve"
         \/ q.route # "fragment" /\ pc'[h] = "bans"
  <2>1. CASE Respond(h, 404)
    BY <1>1, <2>1, Responds DEF Statuses
  <2>2. CASE q.route = "fragment" /\ Goto(h, "resolve")
    BY <1>1, <2>2, Goes DEF Pcs, Resolving
  <2>3. CASE q.route # "fragment" /\ Goto(h, "bans")
    BY <1>1, <2>3, Goes DEF Pcs
  <2>4. QED
    BY <2>1, <2>2, <2>3 DEF Receive
<1>3. TypeOK'
  BY <1>1, <1>2 DEF Inv, TypeOK, StatusRight
<1>4. \A g \in Handlers \ {h} : Spared(g)
  BY <1>1, <1>2 DEF Spared, Inv, TypeOK
<1>5. Fine(h)'
  BY <1>1, <1>2
     DEF Inv, TypeOK, Fine, OnItsWay, HeldRight, ListsRight, CheckedRight, Resolving, Resolved,
         Unblocked, Counted, Granted, Vouched
<1>6. QED
  BY <1>2, <1>3, <1>4, <1>5, HandlerStepInv

\* Steps that only decide where to go on.
LEMMA CheckInv ==
    ASSUME Inv, NEW h \in Handlers,
           UNCHANGED <<claim, resolved, req, held, depth, lists, shown, count>>,
           StatusRight',
           \A g \in Handlers \ {h} : pc'[g] = pc[g] /\ resp'[g] = resp[g],
           resp'[h] \notin {200, 308},
           Fine(h)'
    PROVE  Inv'
<1>1. TypeOK'
  BY DEF Inv, TypeOK, StatusRight
<1>2. \A g \in Handlers \ {h} : Spared(g)
  BY DEF Spared
<1>3. QED
  BY <1>1, <1>2, HandlerStepInv

\* The checks before the resolution.
LEMMA EarlyCheckInv ==
    ASSUME Inv, NEW h \in Handlers, CheckBans(h) \/ CheckDownload(h)
    PROVE  Inv'
<1>1. pc[h] \in {"bans", "download"}
      /\ UNCHANGED <<claim, resolved, req, held, depth, lists, shown, count>>
  BY DEF CheckBans, CheckDownload
<1>2. /\ StatusRight'
      /\ \A g \in Handlers \ {h} : pc'[g] = pc[g] /\ resp'[g] = resp[g]
      /\ \/ pc'[h] = "answered" /\ resp'[h] \in {403, 429}
         \/ pc[h] = "bans" /\ pc'[h] = "list" /\ resp'[h] = 0
         \/ /\ pc[h] = "download" /\ pc'[h] = "resolve" /\ resp'[h] = 0
            /\ req[h].download => DownloadsEnabled /\ ~req[h].flagged
  <2>1. {403, 429} \subseteq Statuses \ {0} /\ {"list", "resolve"} \subseteq Pcs \ {"answered"}
    BY DEF Statuses, Pcs, Resolving
  <2>2. CASE Respond(h, 429) \/ Respond(h, 403)
    BY <2>1, <2>2, Responds
  <2>3. CASE CheckBans(h) /\ Goto(h, "list")
    BY <1>1, <2>1, <2>3, Goes DEF CheckBans
  <2>4. CASE CheckDownload(h) /\ Goto(h, "resolve") /\ ~Respond(h, 403)
    BY <1>1, <2>1, <2>4, Goes DEF CheckDownload
  <2>5. QED
    BY <2>2, <2>3, <2>4 DEF CheckBans, CheckDownload
<1>3. Fine(h)'
  BY <1>1, <1>2
     DEF Inv, Fine, OnItsWay, HeldRight, ListsRight, CheckedRight, Resolving, Resolved,
         Unblocked, Counted, Granted, Vouched
<1>4. QED
  BY <1>1, <1>2, <1>3, CheckInv

\* The first look-up of the block list.
LEMMA CheckListInv ==
    ASSUME Inv, NEW h \in Handlers, CheckList(h)
    PROVE  Inv'
<1>1. pc[h] = "list" /\ UNCHANGED <<claim, resolved, req, held, depth, shown, count>>
  BY DEF CheckList
<1>2. 403 \in Statuses \ {0} /\ "download" \in Pcs \ {"answered"}
  BY DEF Statuses, Pcs
<1>3. CASE Goto(h, "download") /\ UNCHANGED lists
  <2>1. /\ StatusRight' /\ pc'[h] = "download" /\ resp'[h] = 0
        /\ \A g \in Handlers \ {h} : pc'[g] = pc[g] /\ resp'[g] = resp[g]
    BY <1>1, <1>2, <1>3, Goes
  <2>2. Fine(h)'
    BY <1>1, <1>3, <2>1
       DEF Inv, Fine, OnItsWay, HeldRight, ListsRight, CheckedRight, Resolving, Resolved,
           Unblocked, Counted, Granted, Vouched
  <2>3. QED
    BY <1>1, <1>3, <2>1, <2>2, CheckInv
<1>4. ASSUME NEW l \in SUBSET Contents,
             lists' = [lists EXCEPT ![h].first = l],
             IF req[h].route # "speech" /\ req[h].whole /\ "claim" \in l THEN Respond(h, 403)
             ELSE Goto(h, "download")
      PROVE  Inv'
  <2>1. /\ StatusRight'
        /\ \A g \in Handlers \ {h} : pc'[g] = pc[g] /\ resp'[g] = resp[g]
        /\ \/ pc'[h] = "answered" /\ resp'[h] = 403
           \/ /\ pc'[h] = "download" /\ resp'[h] = 0
              /\ req[h].route # "speech" /\ req[h].whole => "claim" \notin l
    BY <1>1, <1>2, <1>4, Goes, Responds
  <2>2. TypeOK'
    <3> DEFINE L == [first : {None} \cup SUBSET Contents, second : {None} \cup SUBSET Contents]
    <3>1. lists \in [Handlers -> L] /\ [lists[h] EXCEPT !.first = l] \in L
      BY DEF Inv, TypeOK
    <3>2. lists' = [lists EXCEPT ![h] = [lists[h] EXCEPT !.first = l]]
      BY <1>4
    <3> HIDE DEF L
    <3>3. lists' \in [Handlers -> L]
      BY <3>1, <3>2
    <3>4. QED
      BY <1>1, <2>1, <3>3 DEF Inv, TypeOK, StatusRight, L
  <2>3. \A g \in Handlers \ {h} : Spared(g)
    BY <1>1, <1>4, <2>1 DEF Inv, TypeOK, Spared
  <2>4. lists'[h].first = l /\ lists'[h].second = lists[h].second
    BY <1>4 DEF Inv, TypeOK
  <2>5. Fine(h)'
    BY <1>1, <2>1, <2>4
       DEF Inv, Fine, OnItsWay, HeldRight, ListsRight, CheckedRight, Resolving, Resolved,
           Unblocked, Counted, Granted, Vouched
  <2>6. QED
    BY <2>1, <2>2, <2>3, <2>5, HandlerStepInv
<1>5. QED
  BY <1>3, <1>4 DEF CheckList

\* ResolveStream, but for the store.  What it holds is what the SDK or the cache
\* has answered.
LEMMA ResolveInv ==
    ASSUME Inv, NEW h \in Handlers,
           \/ ResolveHit(h) \/ ResolveMiss(h) \/ SdkAnswers(h) \/ SdkFails(h)
           \/ FollowRepost(h) \/ CheckKind(h)
    PROVE  Inv'
<1>1. /\ pc[h] \in {"resolve", "sdk", "repost", "kind"}
      /\ UNCHANGED <<claim, resolved, req, lists, shown, count>>
  BY DEF ResolveHit, ResolveMiss, SdkAnswers, SdkFails, FollowRepost, CheckKind
<1>2. /\ {"kind", "sdk", "repost", "store", "listAgain"} \subseteq Pcs \ {"answered"}
      /\ \A e \in {"claimNotFound", "sdk", "notAStream"} :
            StatusOf(e, "resolve") \in Statuses \ {0, 200, 308}
  BY ErrorStatus DEF Pcs, Resolving, Resolved
<1>3. /\ held \in [Handlers -> Kinds \cup {None}] /\ depth \in [Handlers -> 0 .. MaxDepth]
      /\ Key(req[h]) \in CacheKeys
      /\ MaxDepth \in Nat \ {0} /\ claim \in Kinds
  BY RequestHandlerAssumption DEF Inv, TypeOK, Key, CacheKeys
<1>4. ASSUME NEW e \in {"claimNotFound", "sdk", "notAStream"}, ProcessStreamError(h, "resolve", e)
      PROVE  /\ StatusRight' /\ pc'[h] = "answered" /\ resp'[h] \notin {200, 308}
             /\ \A g \in Handlers \ {h} : pc'[g] = pc[g] /\ resp'[g] = resp[g]
  BY <1>2, <1>4, Responds DEF ProcessStreamError
<1>5. ASSUME NEW l \in {"kind", "sdk", "repost", "store", "listAgain"}, Goto(h, l)
      PROVE  /\ StatusRight' /\ pc'[h] = l /\ resp'[h] = 0
             /\ \A g \in Handlers \ {h} : pc'[g] = pc[g] /\ resp'[g] = resp[g]
  BY <1>1, <1>2, <1>5, Goes
<1>6. /\ StatusRight' /\ resp'[h] \notin {200, 308}
      /\ \A g \in Handlers \ {h} : pc'[g] = pc[g] /\ resp'[g] = resp[g]
      /\ held' \in [Handlers -> Kinds \cup {None}] /\ depth' \in [Handlers -> 0 .. MaxDepth]
      /\ \A g \in Handlers \ {h} : held'[g] = held[g] /\ depth'[g] = depth[g]
      /\ \/ pc'[h] = "answered"
         \/ pc'[h] = "sdk" /\ depth'[h] = 0
         \/ pc'[h] \in {"kind", "store", "repost"} /\ held'[h] \in Kinds \ {"missing"}
            /\ (pc'[h] = "repost" => depth'[h] < MaxDepth)
         \/ pc'[h] = "listAgain" /\ held'[h] \in Streams
  <2>1. CASE ResolveHit(h)
    <3>1. resolved[Key(req[h])].claim \in Kinds \ {"missing"}
      BY <1>3, <2>1 DEF ResolveHit, Inv, TypeOK
    <3>2. QED
      BY <1>3, <1>5, <2>1, <3>1 DEF ResolveHit
  <2>2. CASE ResolveMiss(h)
    BY <1>3, <1>5, <2>2 DEF ResolveMiss, Inv, HeldRight
  <2>3. CASE SdkAnswers(h)
    <3>1. held' = [held EXCEPT ![h] = claim] /\ depth[h] = 0 /\ UNCHANGED depth
      BY <2>3 DEF SdkAnswers, Inv, HeldRight
    <3>2. CASE claim = "missing"
      BY <1>3, <1>4, <2>3, <3>1, <3>2 DEF SdkAnswers
    <3>3. CASE claim = "repost"
      BY <1>3, <1>5, <2>3, <3>1, <3>3 DEF SdkAnswers
    <3>4. CASE claim \notin {"missing", "repost"}
      BY <1>3, <1>5, <2>3, <3>1, <3>4 DEF SdkAnswers
    <3>5. QED
      BY <3>2, <3>3, <3>4
  <2>4. CASE SdkFails(h)
    BY <1>3, <1>4, <2>4 DEF SdkFails
  <2>5. CASE FollowRepost(h)
    <3>1. depth[h] < MaxDepth /\ depth[h] + 1 \in 0 .. MaxDepth
          /\ held[h] \in Kinds \ {"missing"} /\ depth'[h] = depth[h] + 1
      BY <1>3, <2>5 DEF FollowRepost, Inv, HeldRight
    <3>2. depth' \in [Handlers -> 0 .. MaxDepth]
          /\ \A g \in Handlers \ {h} : depth'[g] = depth[g]
      BY <1>3, <2>5, <3>1 DEF FollowRepost
    <3>3. CASE depth[h] + 1 = MaxDepth
      BY <1>3, <1>5, <2>5, <3>1, <3>2, <3>3 DEF FollowRepost
    <3>4. CASE depth[h] + 1 # MaxDepth
      BY <1>3, <1>5, <2>5, <3>1, <3>2, <3>4 DEF FollowRepost
    <3>5. QED
      BY <3>3, <3>4
  <2>6. CASE CheckKind(h)
    BY <1>3, <1>4, <1>5, <2>6 DEF CheckKind
  <2>7. QED
    BY <2>1, <2>2, <2>3, <2>4, <2>5, <2>6
<1>7. TypeOK'
  BY <1>1, <1>6 DEF Inv, TypeOK, StatusRight
<1>8. \A g \in Handlers \ {h} : Spared(g)
  BY <1>1, <1>6 DEF Spared
<1>9. Fine(h)'
  BY <1>1, <1>6
     DEF Inv, Fine, OnItsWay, HeldRight, ListsRight, CheckedRight, Resolving, Resolved,
         Unblocked, Counted, Granted, Vouched
<1>10. QED
  BY <1>6, <1>7, <1>8, <1>9, HandlerStepInv

\* What is held is stored as it is.
LEMMA StoreClaimInv ==
    ASSUME Inv, NEW h \in Handlers, StoreClaim(h)
    PROVE  Inv'
<1>1. pc[h] = "store" /\ UNCHANGED <<claim, req, held, depth, lists, shown, count>>
  BY DEF StoreClaim
<1>2. "kind" \in Pcs \ {"answered"}
  BY DEF Pcs, Resolving
<1>3. /\ StatusRight' /\ pc'[h] = "kind" /\ resp'[h] = 0
      /\ \A g \in Handlers \ {h} : pc'[g] = pc[g] /\ resp'[g] = resp[g]
  BY <1>1, <1>2, Goes DEF StoreClaim
<1>4. held[h] \in Kinds \ {"missing"}
  BY <1>1 DEF Inv, HeldRight
<1>5. resolved' \in [CacheKeys -> {None} \cup [claim : Kinds \ {"missing"}, expires : BOOLEAN]]
  BY <1>4 DEF StoreClaim, Inv, TypeOK
<1>6. TypeOK'
  BY <1>1, <1>3, <1>5 DEF Inv, TypeOK, StatusRight
<1>7. \A g \in Handlers \ {h} : Spared(g)
  BY <1>1, <1>3 DEF Spared
<1>8. Fine(h)'
  BY <1>1, <1>3
     DEF Inv, Fine, OnItsWay, HeldRight, ListsRight, CheckedRight, Resolving, Resolved,
         Unblocked, Counted, Granted, Vouched
<1>9. QED
  BY <1>3, <1>6, <1>7, <1>8, HandlerStepInv

\* The second look-up of the block list.
LEMMA CheckStreamBlockedInv ==
    ASSUME Inv, NEW h \in Handlers, CheckStreamBlocked(h)
    PROVE  Inv'
<1> DEFINE next == IF req[h].route = "fragment" THEN "access" ELSE "rate"
<1>1. pc[h] = "listAgain" /\ UNCHANGED <<claim, resolved, req, held, depth, shown, count>>
  BY DEF CheckStreamBlocked
<1>2. 403 \in Statuses \ {0} /\ next \in Pcs \ {"answered"}
  BY DEF Statuses, Pcs, Resolving, Resolved, Unblocked, Counted
<1>3. CASE Goto(h, next) /\ UNCHANGED lists
  <2>1. /\ StatusRight' /\ pc'[h] = next /\ resp'[h] = 0
        /\ \A g \in Handlers \ {h} : pc'[g] = pc[g] /\ resp'[g] = resp[g]
    BY <1>1, <1>2, <1>3, Goes
  <2>2. Fine(h)'
    BY <1>1, <1>3, <2>1
       DEF Inv, Fine, OnItsWay, HeldRight, ListsRight, CheckedRight, Resolving, Resolved,
           Unblocked, Counted, Granted, Vouched
  <2>3. QED
    BY <1>1, <1>3, <2>1, <2>2, CheckInv
<1>4. ASSUME NEW l \in SUBSET Contents,
             lists' = [lists EXCEPT ![h].second = l],
             IF IsStreamBlocked(req[h], l) THEN Respond(h, 403) ELSE Goto(h, next)
      PROVE  Inv'
  <2>1. /\ StatusRight'
        /\ \A g \in Handlers \ {h} : pc'[g] = pc[g] /\ resp'[g] = resp[g]
        /\ \/ pc'[h] = "answered" /\ resp'[h] = 403
           \/ pc'[h] = next /\ resp'[h] = 0 /\ ~IsStreamBlocked(req[h], l)
    BY <1>1, <1>2, <1>4, Goes, Responds
  <2>2. TypeOK'
    <3> DEFINE L == [first : {None} \cup SUBSET Contents, second : {None} \cup SUBSET Contents]
    <3>1. lists \in [Handlers -> L] /\ [lists[h] EXCEPT !.second = l] \in L
      BY DEF Inv, TypeOK
    <3>2. lists' = [lists EXCEPT ![h] = [lists[h] EXCEPT !.second = l]]
      BY <1>4
    <3> HIDE DEF L
    <3>3. lists' \in [Handlers -> L]
      BY <3>1, <3>2
    <3>4. QED
      BY <1>1, <2>1, <3>3 DEF Inv, TypeOK, StatusRight, L
  <2>3. \A g \in Handlers \ {h} : Spared(g)
    BY <1>1, <1>4, <2>1 DEF Inv, TypeOK, Spared
  <2>4. lists'[h].first = lists[h].first /\ lists'[h].second = l
    BY <1>4 DEF Inv, TypeOK
  <2>5. Fine(h)'
    BY <1>1, <2>1, <2>4
       DEF Inv, Fine, OnItsWay, HeldRight, ListsRight, CheckedRight, Resolving, Resolved,
           Unblocked, Counted, Granted, Vouched, IsStreamBlocked, Key
  <2>6. QED
    BY <2>1, <2>2, <2>3, <2>5, HandlerStepInv
<1>5. QED
  BY <1>3, <1>4 DEF CheckStreamBlocked

\* The rate limit, with whatever it counts.
LEMMA RateLimitInv ==
    ASSUME Inv, NEW h \in Handlers, RateLimit(h)
    PROVE  Inv'
<1>1. PICK n \in Counts :
        /\ count' = [count EXCEPT ![h] = n]
        /\ IF n > 10 \/ (req[h].download /\ n > 2) THEN Respond(h, 429) ELSE Goto(h, "access")
  BY DEF RateLimit
<1>2. pc[h] = "rate" /\ UNCHANGED <<claim, resolved, req, held, depth, lists, shown>>
  BY DEF RateLimit
<1>3. 429 \in Statuses \ {0} /\ "access" \in Pcs \ {"answered"} /\ n \in Nat
  BY RequestHandlerAssumption DEF Statuses, Pcs, Resolving, Resolved, Unblocked, Counted
<1>4. /\ StatusRight'
      /\ \A g \in Handlers \ {h} : pc'[g] = pc[g] /\ resp'[g] = resp[g]
      /\ \/ pc'[h] = "answered" /\ resp'[h] = 429
         \/ pc'[h] = "access" /\ resp'[h] = 0 /\ n <= 10 /\ (req[h].download => n <= 2)
  BY <1>1, <1>2, <1>3, Goes, Responds
<1>5. TypeOK'
  BY <1>1, <1>2, <1>3, <1>4 DEF Inv, TypeOK, StatusRight
<1>6. \A g \in Handlers \ {h} : Spared(g)
  BY <1>1, <1>2, <1>4 DEF Inv, TypeOK, Spared
<1>7. count'[h] = n
  BY <1>1 DEF Inv, TypeOK
<1>8. Fine(h)'
  BY <1>2, <1>4, <1>7
     DEF Inv, Fine, OnItsWay, HeldRight, ListsRight, CheckedRight, Resolving, Resolved,
         Unblocked, Counted, Granted, Vouched
<1>9. QED
  BY <1>4, <1>5, <1>6, <1>8, HandlerStepInv

\* Whoever passes VerifyAccess has what the claim in hand demands.
LEMMA VerifyAccessInv ==
    ASSUME Inv, NEW h \in Handlers, VerifyAccess(h)
    PROVE  Inv'
<1> DEFINE l == IF req[h].route = "fragment" THEN "fragment" ELSE "flagged"
<1>1. pc[h] = "access" /\ UNCHANGED <<claim, resolved, req, held, depth, lists, count>>
  BY DEF VerifyAccess
<1>2. l \in Pcs \ {"answered"}
  BY DEF Pcs, Resolving, Resolved, Unblocked, Counted, Granted
<1>3. ASSUME NEW e, e # "channelNotEnabled", ProcessStreamError(h, "access", e)
      PROVE  /\ StatusRight' /\ pc'[h] = "answered" /\ resp'[h] \notin {200, 308}
             /\ \A g \in Handlers \ {h} : pc'[g] = pc[g] /\ resp'[g] = resp[g]
  BY <1>3, ErrorStatus, Responds DEF ProcessStreamError
<1>4. ASSUME Goto(h, l)
      PROVE  /\ StatusRight' /\ pc'[h] = l /\ resp'[h] = 0
             /\ \A g \in Handlers \ {h} : pc'[g] = pc[g] /\ resp'[g] = resp[g]
  BY <1>1, <1>2, <1>4, Goes
<1> HIDE DEF l
<1> DEFINE Decided ==
      /\ StatusRight' /\ resp'[h] \notin {200, 308}
      /\ \A g \in Handlers \ {h} : pc'[g] = pc[g] /\ resp'[g] = resp[g]
      /\ shown' \in [Handlers -> EdgeTokens \cup StreamTokens]
      /\ \A g \in Handlers \ {h} : shown'[g] = shown[g]
      /\ \/ pc'[h] = "answered"
         \/ /\ pc'[h] = l
            /\ held[h] \in {"paid", "members"} => shown'[h] = "good"
            /\ held[h] = "paid" => req[h].route = "named"
<1>5. Decided
  <2>1. shown \in [Handlers -> EdgeTokens \cup StreamTokens]
    BY DEF Inv, TypeOK
  <2>2. CASE held[h] = "free" /\ Goto(h, l) /\ UNCHANGED shown
    BY <1>4, <2>1, <2>2
  <2>3. ASSUME NEW t \in EdgeTokens, held[h] = "members",
               shown' = [shown EXCEPT ![h] = t],
               CASE t = "none" -> ProcessStreamError(h, "access", "noCredentials")
                 [] t # "none" /\ ~EdgeTokenSet -> ProcessStreamError(h, "access", "misconfigured")
                 [] t = "bad" /\ EdgeTokenSet -> ProcessStreamError(h, "access", "failed")
                 [] t = "good" /\ EdgeTokenSet -> Goto(h, l)
        PROVE  Decided
    <3>1. CASE t = "none"
      BY <1>3, <2>1, <2>3, <3>1
    <3>2. CASE t # "none" /\ ~EdgeTokenSet
      BY ZenonT(60), <1>3, <2>1, <2>3, <3>2
    <3>3. CASE t = "bad" /\ EdgeTokenSet
      BY <1>3, <2>1, <2>3, <3>3
    <3>4. CASE t = "good" /\ EdgeTokenSet
      BY <1>4, <2>1, <2>3, <3>4
    <3>5. QED
      BY <3>1, <3>2, <3>3, <3>4, RequestHandlerAssumption DEF EdgeTokens
  <2>4. ASSUME NEW t \in StreamTokensOf(req[h]), held[h] = "paid",
               shown' = [shown EXCEPT ![h] = t],
               CASE t = "none" -> ProcessStreamError(h, "access", "paidStream")
                 [] t = "good" -> Goto(h, l)
                 [] OTHER -> ProcessStreamError(h, "access", t)
        PROVE  Decided
    <3>0. t \in StreamTokens /\ (t # "none" => req[h].route = "named")
      BY <2>4 DEF StreamTokensOf, StreamTokens
    <3>1. CASE t = "none"
      BY <1>3, <2>1, <2>4, <3>0, <3>1
    <3>2. CASE t = "good"
      BY <1>4, <2>1, <2>4, <3>0, <3>2
    <3>3. CASE t \notin {"none", "good"}
      <4>1. t # "channelNotEnabled" /\ ProcessStreamError(h, "access", t)
        BY <2>4, <3>0, <3>3 DEF StreamTokens
      <4>2. QED
        BY <1>3, <2>1, <2>4, <3>0, <4>1
    <3>4. QED
      BY <3>1, <3>2, <3>3
  <2>5. QED
    <3> HIDE DEF Decided
    <3>1. QED
      BY <2>2, <2>3, <2>4 DEF VerifyAccess, l
<1>6. TypeOK'
  BY <1>1, <1>5 DEF Inv, TypeOK, StatusRight
<1>7. \A g \in Handlers \ {h} : Spared(g)
  BY <1>1, <1>5 DEF Spared
<1>8. Fine(h)'
  BY <1>1, <1>5
     DEF Inv, Fine, OnItsWay, HeldRight, ListsRight, CheckedRight, Resolving, Resolved,
         Unblocked, Counted, Granted, Vouched, l
<1>9. QED
  BY <1>5, <1>6, <1>7, <1>8, HandlerStepInv

\* A request that nothing vouches for goes no further, but for speech.
LEMMA CheckFlaggedInv ==
    ASSUME Inv, NEW h \in Handlers, CheckFlagged(h)
    PROVE  Inv'
<1>1. pc[h] = "flagged"
      /\ UNCHANGED <<claim, resolved, req, held, depth, lists, shown, count>>
  BY DEF CheckFlagged
<1>2. 401 \in Statuses \ {0} /\ "transcoder" \in Pcs \ {"answered"}
  BY DEF Statuses, Pcs, Resolving, Resolved, Unblocked, Counted, Granted, Vouched
<1>3. /\ StatusRight'
      /\ \A g \in Handlers \ {h} : pc'[g] = pc[g] /\ resp'[g] = resp[g]
      /\ \/ pc'[h] = "answered" /\ resp'[h] = 401
         \/ /\ pc'[h] = "transcoder" /\ resp'[h] = 0
            /\ req[h].flagged => req[h].route = "speech"
  BY <1>1, <1>2, Goes, Responds DEF CheckFlagged
<1>4. Fine(h)'
  BY <1>1, <1>3
     DEF Inv, Fine, OnItsWay, HeldRight, ListsRight, CheckedRight, Resolving, Resolved,
         Unblocked, Counted, Granted, Vouched
<1>5. QED
  BY <1>1, <1>3, <1>4, CheckInv

\* The steps that give content: what is known where they are taken is what it
\* takes to be allowed.
LEMMA ContentInv ==
    ASSUME Inv, NEW h \in Handlers, AskTranscoder(h) \/ Serve(h) \/ PlayFragment(h)
    PROVE  Inv'
<1>1. pc[h] \in {"transcoder", "prepare", "fragment"}
      /\ UNCHANGED <<claim, resolved, req, held, depth, lists, shown, count>>
  BY DEF AskTranscoder, Serve, PlayFragment
<1>2. {200, 308} \subseteq Statuses \ {0} /\ "prepare" \in Pcs \ {"answered"}
  BY DEF Statuses, Pcs, Resolving, Resolved, Unblocked, Counted, Granted, Vouched
<1>3. ASSUME NEW type, NEW e, ProcessStreamError(h, type, e)
      PROVE  /\ StatusRight' /\ pc'[h] = "answered"
             /\ \A g \in Handlers \ {h} : pc'[g] = pc[g] /\ resp'[g] = resp[g]
  BY <1>3, ErrorStatus, Responds DEF ProcessStreamError
<1>4. ASSUME Respond(h, 200) \/ Respond(h, 308)
      PROVE  /\ StatusRight' /\ pc'[h] = "answered"
             /\ \A g \in Handlers \ {h} : pc'[g] = pc[g] /\ resp'[g] = resp[g]
  BY <1>2, <1>4, Responds
<1>5. /\ StatusRight'
      /\ \A g \in Handlers \ {h} : pc'[g] = pc[g] /\ resp'[g] = resp[g]
      /\ pc'[h] = "answered" \/ (pc[h] = "transcoder" /\ pc'[h] = "prepare")
  <2>1. CASE AskTranscoder(h)
    BY <1>1, <1>2, <1>4, <2>1, Goes DEF AskTranscoder
  <2>2. CASE Serve(h)
    BY <1>3, <1>4, <2>2 DEF Serve
  <2>3. CASE PlayFragment(h)
    BY <1>3, <1>4, <2>3 DEF PlayFragment
  <2>4. QED
    BY <2>1, <2>2, <2>3
<1>6. TypeOK'
  BY <1>1, <1>5 DEF Inv, TypeOK, StatusRight
<1>7. Fine(h)'
  BY <1>1, <1>5
     DEF Inv, Fine, OnItsWay, HeldRight, ListsRight, CheckedRight, Resolving, Resolved,
         Unblocked, Counted, Granted, Vouched
<1>8. ContentIsAllowed'
  <2>1. /\ held[h] \in Streams
        /\ held[h] \in {"paid", "members"} => shown[h] = "good"
        /\ held[h] = "paid" => req[h].route = "named"
        /\ req[h].flagged => req[h].route \in {"speech", "fragment"}
        /\ req[h].download /\ req[h].route # "fragment" =>
              DownloadsEnabled /\ ~req[h].flagged /\ count[h] <= 2
        /\ count[h] <= 10
    BY <1>1
       DEF Inv, OnItsWay, HeldRight, CheckedRight, Resolving, Resolved, Unblocked, Counted,
           Granted, Vouched
  <2>2. ~Listed(h, "claim") /\ ~Listed(h, "channel")
    BY <1>1
       DEF Inv, OnItsWay, ListsRight, Listed, LookUps, Key, Resolving, Resolved, Unblocked,
           Counted, Granted, Vouched
  <2>3. QED
    BY <1>1, <1>5, <2>1, <2>2 DEF Inv, ContentIsAllowed, Listed
<1>9. \A g \in Handlers : Fine(g)'
  BY <1>1, <1>5, <1>7
     DEF Inv, Fine, OnItsWay, HeldRight, ListsRight, CheckedRight
<1>10. QED
  BY <1>6, <1>8, <1>9 DEF Inv, Fine

\* A handler that has answered begins anew.
LEMMA FinishInv ==
    ASSUME Inv, NEW h \in Handlers, Finish(h)
    PROVE  Inv'
<1>1. /\ pc'[h] = "idle" /\ req'[h] = None /\ held'[h] = None /\ depth'[h] = 0
      /\ resp'[h] = 0 /\ lists'[h] = NoLists /\ shown'[h] = "none" /\ count'[h] = 0
      /\ UNCHANGED <<claim, resolved>>
  BY DEF Finish, Inv, TypeOK
<1>2. TypeOK'
  <2>1. /\ pc' \in [Handlers -> Pcs] /\ req' \in [Handlers -> Requests \cup {None}]
        /\ held' \in [Handlers -> Kinds \cup {None}] /\ depth' \in [Handlers -> 0 .. MaxDepth]
        /\ resp' \in [Handlers -> Statuses] /\ count' \in [Handlers -> Nat]
        /\ shown' \in [Handlers -> EdgeTokens \cup StreamTokens]
    BY RequestHandlerAssumption
       DEF Finish, Inv, TypeOK, Pcs, Statuses, EdgeTokens
  <2>2. lists' \in [Handlers -> [first : {None} \cup SUBSET Contents,
                                 second : {None} \cup SUBSET Contents]]
    BY DEF Finish, Inv, TypeOK, NoLists
  <2>3. \A g \in Handlers : (pc'[g] = "answered") <=> (resp'[g] # 0)
    BY DEF Finish, Inv, TypeOK
  <2>4. QED
    BY <1>1, <2>1, <2>2, <2>3 DEF Inv, TypeOK
<1>3. \A g \in Handlers \ {h} : Spared(g)
  BY DEF Finish, Spared, Inv, TypeOK
<1>4. Fine(h)'
  BY <1>1
     DEF Fine, OnItsWay, HeldRight, ListsRight, CheckedRight, Resolving, Resolved,
         Unblocked, Counted, Granted, Vouched, NoLists
<1>5. QED
  BY <1>1, <1>2, <1>3, <1>4, HandlerStepInv

\* The owner and time change nothing of a handler.
LEMMA OutsideInv ==
    ASSUME Inv,
           UNCHANGED <<pc, req, held, depth, resp, lists, shown, count>>,
           claim' \in Kinds,
           resolved' = resolved \/ \E k \in CacheKeys : resolved' = [resolved EXCEPT ![k] = None]
    PROVE  Inv'
<1>1. TypeOK'
  BY DEF Inv, TypeOK
<1>2. QED
  BY <1>1
     DEF Inv, OnItsWay, HeldRight, ListsRight, CheckedRight, ContentIsAllowed, Listed

LEMMA NextInv == Inv /\ [Next]_vars => Inv'
<1> SUFFICES ASSUME Inv, [Next]_vars PROVE Inv'
  OBVIOUS
<1>1. ASSUME NEW k \in Kinds, Publish(k) PROVE Inv'
  BY <1>1, OutsideInv DEF Publish
<1>2. ASSUME NEW k \in CacheKeys, Expire(k) PROVE Inv'
  BY <1>2, OutsideInv DEF Expire, Inv, TypeOK
<1>3. ASSUME NEW h \in Handlers, Handle(h) PROVE Inv'
  BY <1>3, EarlyCheckInv, CheckListInv, ResolveInv, StoreClaimInv, CheckStreamBlockedInv,
     RateLimitInv, VerifyAccessInv, CheckFlaggedInv, ContentInv, FinishInv DEF Handle
<1>4. CASE UNCHANGED vars
  BY <1>4, OutsideInv DEF vars, Inv, TypeOK
<1>5. QED
  BY <1>1, <1>2, <1>3, <1>4, ReceiveInv DEF Next

\* The inductive invariant holds in every state of every behaviour.
THEOREM Invariance == Spec => []Inv
  BY InitInv, NextInv, PTL DEF Spec

\* Types, and that the cache never holds what the SDK did not find.
THEOREM TypeCorrect == Spec => []TypeOK
<1>1. Inv => TypeOK
  BY DEF Inv
<1>2. QED
  BY <1>1, Invariance, PTL

\* Whatever the owner publishes meanwhile, whatever the requests, the block
\* lists, the credentials and the counts: content is given for streams only, to
\* those who are vouched for and hold what the claim demands, and not when a
\* look-up of the block list has found it.
THEOREM ContentAllowed == Spec => []ContentIsAllowed
<1>1. Inv => ContentIsAllowed
  BY DEF Inv
<1>2. QED
  BY <1>1, Invariance, PTL
=============================================================================
