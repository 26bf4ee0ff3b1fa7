------------------------------ MODULE RateLimit ------------------------------
(***************************************************************************)
(* firewall/firewall.go, CheckAndRateLimitIp: how many different streams   *)
(* an address has asked for lately.  Every address has a map from streams  *)
(* to the time they were last asked for, in a cache of maps.               *)
(*                                                                         *)
(* The maps are sync.Maps and the cache has its own lock, but the function *)
(* as a whole has none: calls for one address interleave between any two   *)
(* of the operations below.  The module follows one address, neither empty *)
(* nor whitelisted (for those the function returns at once): addresses     *)
(* share nothing but the room in the cache.                                *)
(***************************************************************************)
EXTENDS Integers, FiniteSets, FiniteSetsExt

CONSTANTS
    Callers,          \* the requests being handled
    Endpoints,        \* the streams that are asked for
    WindowSize,  \* how long an endpoint counts
    MapLife,          \* how long a map is kept, WindowSize * 10
    MapIds,           \* names for the maps that are alive
    None,             \* no map, no endpoint
    MaxTime           \* bound of the exploration: the clock stops there

ASSUME RateLimitAssumption ==
    /\ WindowSize \in Nat /\ MapLife \in Nat
    /\ MaxTime \in Nat
    /\ None \notin MapIds \cup Endpoints
    /\ IsFiniteSet(Endpoints)

VARIABLES
    now,       \* the clock
    table,     \* the map of the address in resourcesForIPCache, or None
    expiry,    \* when the cache forgets it
    tokens,    \* tokens[m][e]: when e was asked for according to map m, or Never
    pc,        \* pc[c]: where caller c stands
    endpoint,  \* endpoint[c]: what it asks for
    mine,      \* mine[c]: the map it works on
    time,      \* time[c]: its currentTime
    toVisit,   \* toVisit[c]: the keys its Range may still come to
    stale,     \* stale[c]: the key it is about to delete
    count      \* count[c]: its resourcesCount

\* History, for the properties: the last time each endpoint was stamped; the
\* same, for the map in the table alone; whether calls have overlapped since
\* that map was created.
VARIABLES asked, askedHere, overlapped

vars == <<now, table, expiry, tokens, pc, endpoint, mine, time, toVisit, stale, count,
          asked, askedHere, overlapped>>

history == <<asked, askedHere, overlapped>>

Never == -1
Empty == [e \in Endpoints |-> Never]

Keys(m) == {e \in Endpoints : tokens[m][e] # Never}

\* Maps that somebody can still reach; the others are garbage and their names
\* are used again.
Live == ({table} \cup {mine[c] : c \in Callers}) \ {None}
FreshMaps == MapIds \ Live

Busy == {c \in Callers : pc[c] # "idle"}

Init ==
    /\ now = 0
    /\ table = None
    /\ expiry = 0
    /\ tokens = [m \in MapIds |-> Empty]
    /\ pc = [c \in Callers |-> "idle"]
    /\ endpoint = [c \in Callers |-> None]
    /\ mine = [c \in Callers |-> None]
    /\ time = [c \in Callers |-> 0]
    /\ toVisit = [c \in Callers |-> {}]
    /\ stale = [c \in Callers |-> None]
    /\ count = [c \in Callers |-> 0]
    /\ asked = Empty
    /\ askedHere = Empty
    /\ overlapped = FALSE

Tick ==
    /\ now < MaxTime
    /\ now' = now + 1
    /\ UNCHANGED <<table, expiry, tokens, pc, endpoint, mine, time, toVisit, stale,
                   count, history>>

\* Another address takes the place of this one in the cache.
Evict ==
    /\ table # None
    /\ table' = None
    /\ UNCHANGED <<now, expiry, tokens, pc, endpoint, mine, time, toVisit, stale,
                   count, history>>

\* resourcesForIPCache.Get.  A map past its expiry is not found.
Get(c, e) ==
    /\ pc[c] = "idle"
    /\ endpoint' = [endpoint EXCEPT ![c] = e]
    /\ overlapped' = (overlapped \/ Busy # {})
    /\ IF table # None /\ now <= expiry
       THEN /\ mine' = [mine EXCEPT ![c] = table]
            /\ pc' = [pc EXCEPT ![c] = "stamp"]
            /\ UNCHANGED tokens
       ELSE /\ \E m \in FreshMaps :
                /\ mine' = [mine EXCEPT ![c] = m]
                /\ tokens' = [tokens EXCEPT ![m] = Empty]
            /\ pc' = [pc EXCEPT ![c] = "create"]
    /\ UNCHANGED <<now, table, expiry, time, toVisit, stale, count, asked, askedHere>>

\* tokensMap.Store(endpoint, time.Now()) on the new map.
Create(c) ==
    /\ pc[c] = "create"
    /\ tokens' = [tokens EXCEPT ![mine[c]][endpoint[c]] = now]
    /\ time' = [time EXCEPT ![c] = now]
    /\ asked' = [asked EXCEPT ![endpoint[c]] = now]
    /\ pc' = [pc EXCEPT ![c] = "publish"]
    /\ UNCHANGED <<now, table, expiry, endpoint, mine, toVisit, stale, count, askedHere,
                   overlapped>>

\* SetWithExpire: whatever map the address had by now is replaced.  The life
\* of a map is fixed here, it is not prolonged by use.
Publish(c) ==
    /\ pc[c] = "publish"
    /\ table' = mine[c]
    /\ expiry' = now + MapLife
    /\ count' = [count EXCEPT ![c] = 1]
    /\ pc' = [pc EXCEPT ![c] = "done"]
    /\ askedHere' = tokens[mine[c]]
    /\ overlapped' = (Busy # {c})
    /\ UNCHANGED <<now, tokens, endpoint, mine, time, toVisit, stale, asked>>

\* currentTime := time.Now()
Stamp(c) ==
    /\ pc[c] = "stamp"
    /\ time' = [time EXCEPT ![c] = now]
    /\ pc' = [pc EXCEPT ![c] = "store"]
    /\ UNCHANGED <<now, table, expiry, tokens, endpoint, mine, toVisit, stale, count,
                   history>>

\* Callers in the middle of a Range over the map of c, which lacks e so far:
\* their Range may come to e when it is stored now, or not.
MayMiss(c, e) ==
    {d \in Callers \ {c} : pc[d] \in {"range", "delete"} /\ mine[d] = mine[c]
                             /\ e \notin Keys(mine[c])}

\* Store of a time that may be older than the one another caller has stored
\* meanwhile.  The Range of c begins.
Store(c) ==
    LET e == endpoint[c]
    IN  /\ pc[c] = "store"
        /\ tokens' = [tokens EXCEPT ![mine[c]][e] = time[c]]
        /\ asked' = [asked EXCEPT ![e] = Max({@, time[c]})]
        /\ askedHere' = [askedHere EXCEPT ![e] = Max({@, time[c]})]
        /\ \E missed \in SUBSET MayMiss(c, e) :
              toVisit' = [d \in Callers |->
                            CASE d = c -> Endpoints
                              [] d \in missed -> toVisit[d] \ {e}
                              [] OTHER -> toVisit[d]]
        /\ count' = [count EXCEPT ![c] = 0]
        /\ pc' = [pc EXCEPT ![c] = "range"]
        /\ UNCHANGED <<now, table, expiry, endpoint, mine, time, stale, overlapped>>

\* Mutants of Expired: the boundary is cut off; nothing expires.
ExpiredAtOnce(t, at) == at - t >= WindowSize
NeverExpired(t, at) == FALSE

\* A token of time t does not count any more for a call made at time `at`.
Expired(t, at) == at - t > WindowSize

\* Mutant of Visit: a key is come to again and again.
VisitAgain(c, e) ==
    /\ pc[c] = "range"
    /\ e \in toVisit[c] \cap Keys(mine[c])
    /\ ~Expired(tokens[mine[c]][e], time[c])
    /\ count' = [count EXCEPT ![c] = @ + 1]
    /\ UNCHANGED <<now, table, expiry, tokens, pc, endpoint, mine, time, toVisit, stale, history>>

\* Range comes to each key once, and sees the value it has just then.
Visit(c, e) ==
    /\ pc[c] = "range"
    /\ e \in toVisit[c] \cap Keys(mine[c])
    /\ toVisit' = [toVisit EXCEPT ![c] = @ \ {e}]
    /\ IF Expired(tokens[mine[c]][e], time[c])
       THEN /\ stale' = [stale EXCEPT ![c] = e]
            /\ pc' = [pc EXCEPT ![c] = "delete"]
            /\ UNCHANGED count
       ELSE /\ count' = [count EXCEPT ![c] = @ + 1]
            /\ UNCHANGED <<stale, pc>>
    /\ UNCHANGED <<now, table, expiry, tokens, endpoint, mine, time, history>>

\* The key is deleted whatever it holds by now.
Delete(c) ==
    /\ pc[c] = "delete"
    /\ tokens' = [tokens EXCEPT ![mine[c]][stale[c]] = Never]
    /\ stale' = [stale EXCEPT ![c] = None]
    /\ pc' = [pc EXCEPT ![c] = "range"]
    /\ UNCHANGED <<now, table, expiry, endpoint, mine, time, toVisit, count, history>>

\* Range has come to every key it had to.
RangeEnds(c) ==
    /\ pc[c] = "range"
    /\ toVisit[c] \cap Keys(mine[c]) = {}
    /\ pc' = [pc EXCEPT ![c] = "done"]
    /\ toVisit' = [toVisit EXCEPT ![c] = {}]
    /\ UNCHANGED <<now, table, expiry, tokens, endpoint, mine, time, stale, count, history>>

\* The verdict and the count go to the handler.
Return(c) ==
    /\ pc[c] = "done"
    /\ pc' = [pc EXCEPT ![c] = "idle"]
    /\ endpoint' = [endpoint EXCEPT ![c] = None]
    /\ mine' = [mine EXCEPT ![c] = None]
    /\ time' = [time EXCEPT ![c] = 0]
    /\ count' = [count EXCEPT ![c] = 0]
    /\ UNCHANGED <<now, table, expiry, tokens, toVisit, stale, history>>

Next ==
    \/ Tick
    \/ Evict
    \/ \E c \in Callers :
        \/ \E e \in Endpoints : Get(c, e) \/ Visit(c, e)
        \/ Create(c)
        \/ Publish(c)
        \/ Stamp(c)
        \/ Store(c)
        \/ Delete(c)
        \/ RangeEnds(c)
        \/ Return(c)

Spec == Init /\ [][Next]_vars

-----------------------------------------------------------------------------
TypeOK ==
    /\ now \in 0 .. MaxTime
    /\ table \in MapIds \cup {None}
    /\ expiry \in 0 .. MaxTime + MapLife
    /\ tokens \in [MapIds -> [Endpoints -> 0 .. MaxTime \cup {Never}]]
    /\ pc \in [Callers -> {"idle", "create", "publish", "stamp", "store", "range",
                            "delete", "done"}]
    /\ endpoint \in [Callers -> Endpoints \cup {None}]
    /\ mine \in [Callers -> MapIds \cup {None}]
    /\ time \in [Callers -> 0 .. MaxTime]
    /\ toVisit \in [Callers -> SUBSET Endpoints]
    /\ stale \in [Callers -> Endpoints \cup {None}]
    /\ count \in [Callers -> 0 .. Cardinality(Endpoints)]
    /\ asked \in [Endpoints -> 0 .. MaxTime \cup {Never}]
    /\ askedHere \in [Endpoints -> 0 .. MaxTime \cup {Never}]
    /\ overlapped \in BOOLEAN

\* The endpoints that have been asked for since `at` minus the window.
Lately(log, at) == {e \in Endpoints : log[e] # Never /\ at - log[e] <= WindowSize}

\* However calls interleave, no call counts more endpoints than the address
\* has really asked for within the window: nobody is turned away for requests
\* that have expired, or for one request counted twice.
NeverOvercounts ==
    \A c \in Callers :
        pc[c] \in {"range", "delete", "done"} =>
            count[c] <= Cardinality(Lately(asked, time[c]))

\* Calls that come one after the other are counted exactly, from the creation
\* of the map on: an address over the limit is flagged at once.
ExactInSequence ==
    \A c \in Callers :
        pc[c] = "done" /\ ~overlapped =>
            count[c] = Cardinality(Lately(askedHere, time[c]))

-----------------------------------------------------------------------------
\* The inductive invariant behind them (RateLimitProofs.tla).

\* What a caller has at hand.
BusyRight ==
    \A c \in Callers :
        /\ time[c] <= now
        /\ IF pc[c] = "idle" THEN mine[c] = None
           ELSE mine[c] \in MapIds /\ endpoint[c] \in Endpoints
        /\ pc[c] = "delete" => stale[c] \in Endpoints

\* No map knows of a later request than there has been.
ClockRight ==
    \A e \in Endpoints :
        /\ asked[e] <= now /\ askedHere[e] <= now
        /\ \A m \in MapIds : tokens[m][e] <= asked[e]

\* A new map is its creator's alone until it is published, and has one token.
Creating(c) == pc[c] \in {"create", "publish"}
PrivateRight ==
    \A c \in Callers : Creating(c) =>
        /\ mine[c] # table
        /\ \A d \in Callers \ {c} : mine[d] # mine[c]
        /\ \A e \in Endpoints : tokens[mine[c]][e] =
              IF pc[c] = "publish" /\ e = endpoint[c] THEN time[c] ELSE Never

\* What has been counted is among what Range has come to, or skipped.
CountRight ==
    \A c \in Callers :
        /\ pc[c] = "publish" => time[c] <= asked[endpoint[c]]
        /\ pc[c] \in {"range", "delete"} =>
              count[c] <= Cardinality(Lately(asked, time[c]) \ toVisit[c])
        /\ pc[c] = "done" => count[c] <= Cardinality(Lately(asked, time[c]))
        /\ pc[c] \notin {"range", "delete", "done"} => count[c] = 0

\* A map knows of every request but for those that have expired.
Agrees(m, at) ==
    \A e \in Endpoints :
        \/ tokens[m][e] = askedHere[e]
        \/ tokens[m][e] = Never /\ at - askedHere[e] > WindowSize

\* As long as calls come one after the other.
SequenceRight ==
    /\ \A c, d \in Busy : c = d
    /\ table # None /\ now <= expiry => Agrees(table, now)
    /\ \A c \in Busy :
        /\ IF Creating(c) THEN table = None \/ now > expiry ELSE table \in {None, mine[c]}
        /\ pc[c] = "stamp" => Agrees(mine[c], now)
        /\ pc[c] \in {"store", "range", "delete"} => Agrees(mine[c], time[c])
        /\ pc[c] = "store" => \A e \in Endpoints : askedHere[e] <= time[c]
        /\ pc[c] = "delete" => time[c] - askedHere[stale[c]] > WindowSize
        /\ pc[c] \in {"range", "delete"} =>
              count[c] = Cardinality(Lately(askedHere, time[c]) \ toVisit[c])
        /\ pc[c] = "done" => count[c] = Cardinality(Lately(askedHere, time[c]))

Inv ==
    /\ TypeOK
    /\ BusyRight
    /\ ClockRight
    /\ PrivateRight
    /\ CountRight
    /\ ~overlapped => SequenceRight
=============================================================================
