--------------------------- MODULE RequestHandler ---------------------------
(***************************************************************************)
(* player/http_handlers.go and player/player.go: what a request for a      *)
(* stream goes through before it gets any content.  Handle serves streams  *)
(* and redirects to the transcoder, HandleTranscodedFragment serves what   *)
(* the transcoder has made; both resolve the claim, look at the list of    *)
(* blocked content and verify the access.                                  *)
(*                                                                         *)
(* The module follows the requests for one claim, which its owner may      *)
(* change at any time.  Requests share the cache of resolved claims, keyed *)
(* by the form of the URL.  The bans, the block list, the rate limit and   *)
(* the stream have modules of their own: here they give any result they    *)
(* may give.                                                               *)
(***************************************************************************)
EXTENDS Naturals

CONSTANTS
    Handlers,          \* the requests being handled
    Requests,          \* what may be asked for: see RequestType
    Kinds,             \* what the claim may be: see KindNames
    Contents,          \* what of the claim the block list may name: "claim", "channel"
    Counts,            \* counts the rate limit may give
    DownloadsEnabled,  \* the option --allow-downloads
    EdgeTokenSet,      \* whether the option --edge-token is given
    Transcoder,        \* whether the player has a transcoder client
    MaxDepth,          \* how often a repost is followed, 5
    None               \* nothing cached, nothing asked

\* The form of a URL decides what is resolved and what the block list is
\* asked about: "named" carries a name and a claim id, "byId" a claim id,
\* "speech" a path, "fragment" goes to HandleTranscodedFragment with a claim
\* id.  What stands for the id need not be one: after a name it may be
\* shortened, elsewhere the SDK takes it for a name.
Routes == {"named", "byId", "speech", "fragment"}

RequestType ==
    [route : Routes,
     whole : BOOLEAN,     \* it has the whole claim id, 40 digits
     download : BOOLEAN,  \* ?download=
     flagged : BOOLEAN,   \* nothing in its headers or URL vouches for it
     fit : BOOLEAN]       \* the route and the type of the media suit the transcoder

\* What the SDK answers for the claim: nothing, a repost of another claim,
\* something without a playable source, or a stream that is free, has a fee,
\* or has a tag that demands the edge token.
KindNames == {"missing", "repost", "other", "free", "paid", "members"}
Streams == {"free", "paid", "members"}

ASSUME RequestHandlerAssumption ==
    /\ Requests \subseteq RequestType
    /\ Kinds \subseteq KindNames
    /\ Contents \subseteq {"claim", "channel"}
    /\ Counts \subseteq Nat
    /\ DownloadsEnabled \in BOOLEAN /\ EdgeTokenSet \in BOOLEAN /\ Transcoder \in BOOLEAN
    /\ MaxDepth \in Nat \ {0}

VARIABLES
    claim,     \* what the SDK answers now
    resolved,  \* resolveCache: for each form of URL None, or the claim and whether it expires
    pc,        \* pc[h]: where handler h stands
    req,       \* req[h]: its request
    held,      \* held[h]: the claim it has resolved
    depth,     \* depth[h]: how often it has followed the repost
    resp       \* resp[h]: the status it has answered with

\* History, for the properties: the two block lists h has seen, None after an
\* error; the credential it was shown; the count the rate limit gave it.
VARIABLES lists, shown, count

vars == <<claim, resolved, pc, req, held, depth, resp, lists, shown, count>>

NoLists == [first |-> None, second |-> None]

\* Credentials: none, a good one, and the ways in which one may be bad.
EdgeTokens == {"none", "good", "bad"}
StreamTokens == {"none", "good", "malformed", "forged", "expired", "otherStream"}

\* The keys of the cache, which are what is resolved: a claim may be cached
\* under several.
CacheKeys == {"named", "shortened", "byId", "byName"}
Key(q) ==
    IF q.route = "named" THEN IF q.whole THEN "named" ELSE "shortened"
    ELSE IF q.whole THEN "byId" ELSE "byName"

Init ==
    /\ claim \in Kinds
    /\ resolved = [k \in CacheKeys |-> None]
    /\ pc = [h \in Handlers |-> "idle"]
    /\ req = [h \in Handlers |-> None]
    /\ held = [h \in Handlers |-> None]
    /\ depth = [h \in Handlers |-> 0]
    /\ resp = [h \in Handlers |-> 0]
    /\ lists = [h \in Handlers |-> NoLists]
    /\ shown = [h \in Handlers |-> "none"]
    /\ count = [h \in Handlers |-> 0]

Goto(h, l) ==
    /\ pc' = [pc EXCEPT ![h] = l]
    /\ UNCHANGED resp

Respond(h, status) ==
    /\ pc' = [pc EXCEPT ![h] = "answered"]
    /\ resp' = [resp EXCEPT ![h] = status]

\* processStreamError.  A channel that is not enabled for transcoding ends the
\* handler without a word: the client gets 200 and nothing.
StatusOf(error, type) ==
    CASE error = "channelNotEnabled" -> 200
      [] error = "paidStream" -> 402
      [] error = "claimNotFound" -> 404
      [] error = "noCredentials" -> 401
      [] error \in {"blobNotFound", "hashMismatch"} -> 503
      [] error \in {"malformed", "forged"} -> 401
      [] error = "expired" -> 410
      [] OTHER -> IF type = "transcoder" THEN 404 ELSE 500

ProcessStreamError(h, type, error) == Respond(h, StatusOf(error, type))

-----------------------------------------------------------------------------
(* The owner of the claim, and time.                                        *)

Publish(k) ==
    /\ k # claim
    /\ claim' = k
    /\ UNCHANGED <<resolved, pc, req, held, depth, resp, lists, shown, count>>

\* Five minutes after it was stored, or earlier when the cache is full, a
\* resolved claim is dropped.
Expire(k) ==
    /\ resolved[k] # None
    /\ resolved[k].expires
    /\ resolved' = [resolved EXCEPT ![k] = None]
    /\ UNCHANGED <<claim, pc, req, held, depth, resp, lists, shown, count>>

-----------------------------------------------------------------------------
(* Handle, up to the resolution.                                            *)

\* Handle looks only at the length of what stands for a claim id, and only
\* where no name comes with it; a path of speech must not be empty.
Receive(h, q) ==
    /\ pc[h] = "idle"
    /\ req' = [req EXCEPT ![h] = q]
    /\ \/ q.route = "fragment" /\ Goto(h, "resolve")
       \/ q.route # "fragment" /\ Goto(h, "bans")
       \/ q.route \in {"byId", "speech"} /\ ~q.whole /\ Respond(h, 404)
    /\ UNCHANGED <<claim, resolved, held, depth, lists, shown, count>>

\* firewall.CheckBans, and the ban on a word in the URL.
CheckBans(h) ==
    /\ pc[h] = "bans"
    /\ Respond(h, 429) \/ Respond(h, 403) \/ Goto(h, "list")
    /\ UNCHANGED <<claim, resolved, req, held, depth, lists, shown, count>>

\* The parameter claim_id, which URLs of speech lack, is looked up in the
\* block list as it is written, if there is a list.
CheckList(h) ==
    /\ pc[h] = "list"
    /\ \/ \E l \in SUBSET Contents :
            /\ lists' = [lists EXCEPT ![h].first = l]
            /\ IF req[h].route # "speech" /\ req[h].whole /\ "claim" \in l
               THEN Respond(h, 403)
               ELSE Goto(h, "download")
       \/ Goto(h, "download") /\ UNCHANGED lists
    /\ UNCHANGED <<claim, resolved, req, held, depth, shown, count>>

CheckDownload(h) ==
    /\ pc[h] = "download"
    /\ IF req[h].download /\ (~DownloadsEnabled \/ req[h].flagged)
       THEN Respond(h, 403)
       ELSE Goto(h, "resolve")
    /\ UNCHANGED <<claim, resolved, req, held, depth, lists, shown, count>>

-----------------------------------------------------------------------------
(* ResolveStream.                                                           *)

ResolveHit(h) ==
    LET cached == resolved[Key(req[h])]
    IN  /\ pc[h] = "resolve"
        /\ cached # None
        /\ held' = [held EXCEPT ![h] = cached.claim]
        /\ Goto(h, "kind")
        /\ UNCHANGED <<claim, resolved, req, depth, lists, shown, count>>

ResolveMiss(h) ==
    /\ pc[h] = "resolve"
    /\ resolved[Key(req[h])] = None
    /\ Goto(h, "sdk")
    /\ UNCHANGED <<claim, resolved, req, held, depth, lists, shown, count>>

\* Mutant of SdkAnswers: that there is no such claim is remembered too.
SdkAnswersAll(h) ==
    /\ pc[h] = "sdk"
    /\ held' = [held EXCEPT ![h] = claim]
    /\ Goto(h, IF claim = "repost" THEN "repost" ELSE "store")
    /\ UNCHANGED <<claim, resolved, req, depth, lists, shown, count>>

SdkAnswers(h) ==
    /\ pc[h] = "sdk"
    /\ held' = [held EXCEPT ![h] = claim]
    /\ CASE claim = "missing" -> ProcessStreamError(h, "resolve", "claimNotFound")
         [] claim = "repost" -> Goto(h, "repost")
         [] OTHER -> Goto(h, "store")
    /\ UNCHANGED <<claim, resolved, req, depth, lists, shown, count>>

\* No answer within ten seconds, an error, a repost of nothing.
SdkFails(h) ==
    /\ pc[h] \in {"sdk", "repost"}
    /\ ProcessStreamError(h, "resolve", "sdk")
    /\ UNCHANGED <<claim, resolved, req, held, depth, lists, shown, count>>

\* The claim that is reposted is found.  It does not take the place of the
\* repost: it is looked up until the depth is reached, and forgotten.
FollowRepost(h) ==
    /\ pc[h] = "repost"
    /\ depth' = [depth EXCEPT ![h] = @ + 1]
    /\ Goto(h, IF depth[h] + 1 = MaxDepth THEN "store" ELSE "repost")
    /\ UNCHANGED <<claim, resolved, req, held, lists, shown, count>>

\* Mutant of StoreClaim: Set instead of SetWithExpire.
StoreForGood(h) ==
    /\ pc[h] = "store"
    /\ resolved' = [resolved EXCEPT ![Key(req[h])] = [claim |-> held[h], expires |-> FALSE]]
    /\ Goto(h, "kind")
    /\ UNCHANGED <<claim, req, held, depth, lists, shown, count>>

\* Whatever the cache holds by now is replaced, and whatever the claim is by
\* now.
StoreClaim(h) ==
    /\ pc[h] = "store"
    /\ resolved' = [resolved EXCEPT ![Key(req[h])] = [claim |-> held[h], expires |-> TRUE]]
    /\ Goto(h, "kind")
    /\ UNCHANGED <<claim, req, held, depth, lists, shown, count>>

CheckKind(h) ==
    /\ pc[h] = "kind"
    /\ IF held[h] \in Streams
       THEN Goto(h, "listAgain")
       ELSE ProcessStreamError(h, "resolve", "notAStream")
    /\ UNCHANGED <<claim, resolved, req, held, depth, lists, shown, count>>

-----------------------------------------------------------------------------
(* From the resolution to the content.                                      *)

\* IsStreamBlocked looks up what was resolved, which is the claim id in some
\* forms of the URL only, and the channel.
IsStreamBlocked(q, l) == ("claim" \in l /\ Key(q) = "byId") \/ "channel" \in l

CheckStreamBlocked(h) ==
    LET next == IF req[h].route = "fragment" THEN "access" ELSE "rate"
    IN  /\ pc[h] = "listAgain"
        /\ \/ \E l \in SUBSET Contents :
                /\ lists' = [lists EXCEPT ![h].second = l]
                /\ IF IsStreamBlocked(req[h], l) THEN Respond(h, 403) ELSE Goto(h, next)
           \/ Goto(h, next) /\ UNCHANGED lists
        /\ UNCHANGED <<claim, resolved, req, held, depth, shown, count>>

\* CheckAndRateLimitIp: a count above 10 is above 4 too, so that the address is
\* flagged.
RateLimit(h) ==
    /\ pc[h] = "rate"
    /\ \E n \in Counts :
        /\ count' = [count EXCEPT ![h] = n]
        /\ IF n > 10 \/ (req[h].download /\ n > 2)
           THEN Respond(h, 429)
           ELSE Goto(h, "access")
    /\ UNCHANGED <<claim, resolved, req, held, depth, lists, shown>>

\* Mutant of VerifyAccess: its error is dropped.
AccessAny(h) ==
    /\ pc[h] = "access"
    /\ \E t \in StreamTokens : shown' = [shown EXCEPT ![h] = t]
    /\ Goto(h, IF req[h].route = "fragment" THEN "fragment" ELSE "flagged")
    /\ UNCHANGED <<claim, resolved, req, held, depth, lists, count>>

\* The routes with a parameter for a token are among those with a name.
StreamTokensOf(q) == IF q.route = "named" THEN StreamTokens ELSE {"none"}

\* VerifyAccess.  A wrong edge token, a token for another stream, and a player
\* without an edge token are errors of the server.
VerifyAccess(h) ==
    LET Allow == Goto(h, IF req[h].route = "fragment" THEN "fragment" ELSE "flagged")
        Deny(error) == ProcessStreamError(h, "access", error)
    IN  /\ pc[h] = "access"
        /\ \/ /\ held[h] = "free"
              /\ Allow
              /\ UNCHANGED shown
           \/ /\ held[h] = "members"
              /\ \E t \in EdgeTokens :
                  /\ shown' = [shown EXCEPT ![h] = t]
                  /\ CASE t = "none" -> Deny("noCredentials")
                       [] t # "none" /\ ~EdgeTokenSet -> Deny("misconfigured")
                       [] t = "bad" /\ EdgeTokenSet -> Deny("failed")
                       [] t = "good" /\ EdgeTokenSet -> Allow
           \/ /\ held[h] = "paid"
              /\ \E t \in StreamTokensOf(req[h]) :
                  /\ shown' = [shown EXCEPT ![h] = t]
                  /\ CASE t = "none" -> Deny("paidStream")
                       [] t = "good" -> Allow
                       [] OTHER -> Deny(t)
        /\ UNCHANGED <<claim, resolved, req, held, depth, lists, count>>

CheckFlagged(h) ==
    /\ pc[h] = "flagged"
    /\ IF req[h].flagged /\ req[h].route # "speech"
       THEN Respond(h, 401)
       ELSE Goto(h, "transcoder")
    /\ UNCHANGED <<claim, resolved, req, held, depth, lists, shown, count>>

\* The transcoder may have the stream: then the client is sent there.
AskTranscoder(h) ==
    /\ pc[h] = "transcoder"
    /\ \/ /\ Transcoder /\ req[h].fit /\ ~req[h].download
          /\ Respond(h, 308)
       \/ Goto(h, "prepare")
    /\ UNCHANGED <<claim, resolved, req, held, depth, lists, shown, count>>

\* PrepareForReading and Play, or the answer to HEAD.  Stream has the details.
Serve(h) ==
    /\ pc[h] = "prepare"
    /\ \/ \E error \in {"blobNotFound", "hashMismatch", "other"} :
            ProcessStreamError(h, "retrieval", error)
       \/ Respond(h, 200)
    /\ UNCHANGED <<claim, resolved, req, held, depth, lists, shown, count>>

\* HandleTranscodedFragment, when access is verified.
PlayFragment(h) ==
    /\ pc[h] = "fragment"
    /\ \/ \E error \in {"channelNotEnabled", "other"} :
            ProcessStreamError(h, "transcoder", error)
       \/ Respond(h, 200)
    /\ UNCHANGED <<claim, resolved, req, held, depth, lists, shown, count>>

Finish(h) ==
    /\ pc[h] = "answered"
    /\ pc' = [pc EXCEPT ![h] = "idle"]
    /\ req' = [req EXCEPT ![h] = None]
    /\ held' = [held EXCEPT ![h] = None]
    /\ depth' = [depth EXCEPT ![h] = 0]
    /\ resp' = [resp EXCEPT ![h] = 0]
    /\ lists' = [lists EXCEPT ![h] = NoLists]
    /\ shown' = [shown EXCEPT ![h] = "none"]
    /\ count' = [count EXCEPT ![h] = 0]
    /\ UNCHANGED <<claim, resolved>>

Handle(h) ==
    \/ CheckBans(h) \/ CheckList(h) \/ CheckDownload(h)
    \/ ResolveHit(h) \/ ResolveMiss(h) \/ SdkAnswers(h) \/ SdkFails(h)
    \/ FollowRepost(h) \/ StoreClaim(h) \/ CheckKind(h)
    \/ CheckStreamBlocked(h) \/ RateLimit(h) \/ VerifyAccess(h)
    \/ CheckFlagged(h) \/ AskTranscoder(h) \/ Serve(h) \/ PlayFragment(h)
    \/ Finish(h)

Next ==
    \/ \E k \in Kinds : Publish(k)
    \/ \E k \in CacheKeys : Expire(k)
    \/ \E h \in Handlers : (\E q \in Requests : Receive(h, q)) \/ Handle(h)

Spec == Init /\ [][Next]_vars

\* Every call a handler makes returns: the SDK client has a timeout, the
\* others answer or fail.  Cached claims expire with time.
FairSpec ==
    /\ Spec
    /\ \A h \in Handlers : WF_vars(Handle(h))
    /\ \A k \in CacheKeys : WF_vars(Expire(k))

-----------------------------------------------------------------------------
Statuses == {0, 200, 308, 401, 402, 403, 404, 410, 429, 500, 503}

\* Where a handler may stand, from the resolution on by what has been checked.
Vouched == {"transcoder", "prepare"}
Granted == {"flagged", "fragment"} \cup Vouched
Counted == {"access"} \cup Granted
Unblocked == {"rate"} \cup Counted
Resolved == {"listAgain"} \cup Unblocked
Resolving == {"resolve", "sdk", "repost", "store", "kind"} \cup Resolved
Pcs == {"idle", "bans", "list", "download", "answered"} \cup Resolving

\* The type invariant.  What the SDK does not know is not cached.
TypeOK ==
    /\ claim \in Kinds
    /\ resolved \in [CacheKeys -> {None} \cup [claim : Kinds \ {"missing"}, expires : BOOLEAN]]
    /\ pc \in [Handlers -> Pcs]
    /\ req \in [Handlers -> Requests \cup {None}]
    /\ held \in [Handlers -> Kinds \cup {None}]
    /\ depth \in [Handlers -> 0 .. MaxDepth]
    /\ resp \in [Handlers -> Statuses]
    /\ lists \in [Handlers -> [first : {None} \cup SUBSET Contents,
                               second : {None} \cup SUBSET Contents]]
    /\ shown \in [Handlers -> EdgeTokens \cup StreamTokens]
    /\ count \in [Handlers -> Nat]
    /\ \A h \in Handlers : (pc[h] = "answered") <=> (resp[h] # 0)

\* The look-ups at which a request finds that x is blocked.  The second knows
\* the channel of the claim, but only the URL's word for the claim itself: the
\* whole id, when nothing comes with it.  The first knows the whole id in
\* the place for it.  A shortened id and a name are found by neither.
LookUps(q, x) ==
    {n \in {"first", "second"} :
        \/ n = "first" /\ x = "claim" /\ q.whole /\ q.route \in {"named", "byId"}
        \/ n = "second" /\ x = "claim" /\ q.whole /\ q.route # "named"
        \/ n = "second" /\ x = "channel"}

\* One of them has found it.
Listed(h, x) ==
    \E n \in LookUps(req[h], x) : lists[h][n] # None /\ x \in lists[h][n]

\* Content, or the way to it, is given for a stream only, with the credential
\* that the version of the claim that was resolved demands, when no look-up
\* has found claim or channel blocked, to requests that are vouched for, and
\* within the rate limit.  Fragments are neither counted nor vouched for, what
\* is paid for is served on routes with a name only, and the claim of a URL
\* without its whole id is not found however long it has been blocked: then
\* this says nothing of the list but for the channel.
ContentIsAllowed ==
    \A h \in Handlers : resp[h] \in {200, 308} =>
        /\ held[h] \in Streams
        /\ held[h] \in {"paid", "members"} => shown[h] = "good"
        /\ held[h] = "paid" => req[h].route = "named"
        /\ ~Listed(h, "claim") /\ ~Listed(h, "channel")
        /\ req[h].flagged => req[h].route \in {"speech", "fragment"}
        /\ req[h].download /\ req[h].route # "fragment" =>
              DownloadsEnabled /\ ~req[h].flagged /\ count[h] <= 2
        /\ count[h] <= 10

\* When the owner changes the claim no more, the cache agrees with the SDK for
\* good at last: no slow answer to an old request keeps an old claim alive.
CacheSettles ==
    \/ []<><<\E k \in Kinds : Publish(k)>>_vars
    \/ <>[](\A k \in CacheKeys : resolved[k] # None => resolved[k].claim = claim)

-----------------------------------------------------------------------------
\* The inductive invariant behind them (RequestHandlerProofs.tla): what is
\* known of a request where its handler stands.

\* Each form of URL has its own way through the checks.
OnItsWay(h) ==
    /\ pc[h] # "idle" => req[h] \in Requests
    /\ pc[h] \in {"bans", "list", "download", "rate", "flagged"} \cup Vouched =>
          req[h].route # "fragment"
    /\ pc[h] = "fragment" => req[h].route = "fragment"

\* The claim in hand.
HeldRight(h) ==
    /\ pc[h] \notin {"repost", "answered"} \cup Resolving => depth[h] = 0
    /\ pc[h] \in {"resolve", "sdk"} => depth[h] = 0
    /\ pc[h] = "repost" => depth[h] < MaxDepth
    /\ pc[h] \in {"repost", "store", "kind"} => held[h] \in Kinds \ {"missing"}
    /\ pc[h] \in Resolved => held[h] \in Streams

\* What the block list has not named.
ListsRight(h) ==
    /\ pc[h] \in {"idle", "bans", "list"} => lists[h].first = None
    /\ pc[h] \notin {"answered"} \cup Unblocked => lists[h].second = None
    /\ pc[h] \in {"download"} \cup Resolving /\ req[h].whole /\ req[h].route \in {"named", "byId"} =>
          lists[h].first = None \/ "claim" \notin lists[h].first
    /\ pc[h] \in Unblocked /\ lists[h].second # None =>
          /\ "channel" \notin lists[h].second
          /\ Key(req[h]) = "byId" => "claim" \notin lists[h].second

\* What the other checks have let through.
CheckedRight(h) ==
    /\ pc[h] \in Resolving /\ req[h].route # "fragment" /\ req[h].download =>
          DownloadsEnabled /\ ~req[h].flagged
    /\ pc[h] \notin {"answered"} \cup Counted => count[h] = 0
    /\ pc[h] \in Counted =>
          /\ count[h] <= 10
          /\ req[h].download /\ req[h].route # "fragment" => count[h] <= 2
    /\ pc[h] \in Granted /\ held[h] \in {"paid", "members"} => shown[h] = "good"
    /\ pc[h] \in Granted /\ held[h] = "paid" => req[h].route = "named"
    /\ pc[h] \in Vouched /\ req[h].flagged => req[h].route = "speech"

Inv ==
    /\ TypeOK
    /\ \A h \in Handlers : OnItsWay(h) /\ HeldRight(h) /\ ListsRight(h) /\ CheckedRight(h)
    /\ ContentIsAllowed
=============================================================================
