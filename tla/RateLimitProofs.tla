--------------------------- MODULE RateLimitProofs ---------------------------
(***************************************************************************)
(* Proofs about RateLimit, for any callers, endpoints, maps, window and    *)
(* life of a map.  No call counts too much, because no map knows of a      *)
(* later request than there has been and Range comes to a key once.  Calls *)
(* in sequence count exactly, because the map in the table then agrees     *)
(* with the requests, up to what has expired for good.                     *)
(***************************************************************************)
EXTENDS RateLimit, FiniteSetTheorems, TLAPS

\* One step of one caller.
Do(c) ==
    \/ \E e \in Endpoints : Get(c, e) \/ Visit(c, e)
    \/ Create(c) \/ Publish(c) \/ Stamp(c) \/ Store(c) \/ Delete(c) \/ RangeEnds(c)
    \/ Return(c)

\* Types without the bound of the counts, which follows from CountRight.
Sorts ==
    /\ now \in 0 .. MaxTime
    /\ table \in MapIds \cup {None}
    /\ expiry \in 0 .. MaxTime + MapLife
    /\ tokens \in [MapIds -> [Endpoints -> 0 .. MaxTime \cup {Never}]]
    /\ pc \in [Callers -> {"idle", "create", "publish", "stamp", "store", "range",
                            "delete", "done"}]
    /\ endpoint \in [Callers -> Endpoints \cup {None}]
    /\ mine \in [Callers -> MapIds \cup {None}]
    /\ time \in [Callers -> 0 .. MaxTime]
    /\ toVisit \in [Callers -> SUBSET Endpoints]
    /\ stale \in [Callers -> Endpoints \cup {None}]
    /\ count \in [Callers -> Nat]
    /\ asked \in [Endpoints -> 0 .. MaxTime \cup {Never}]
    /\ askedHere \in [Endpoints -> 0 .. MaxTime \cup {Never}]
    /\ overlapped \in BOOLEAN

-----------------------------------------------------------------------------
(* About the operators.                                                     *)

LEMMA MaxOfTwo ==
    ASSUME NEW a \in Int, NEW b \in Int
    PROVE  Max({a, b}) = IF a >= b THEN a ELSE b
<1>1. \E x \in {a, b} : \A y \in {a, b} : x >= y
  OBVIOUS
<1>2. Max({a, b}) \in {a, b} /\ \A y \in {a, b} : Max({a, b}) >= y
  BY <1>1 DEF Max
<1>3. QED
  BY <1>2

\* Subsets of the endpoints can be counted, and smaller ones count less.
LEMMA Counting ==
    ASSUME NEW S \in SUBSET Endpoints, NEW T \in SUBSET S
    PROVE  /\ IsFiniteSet(S) /\ Cardinality(S) \in Nat
           /\ Cardinality(T) \in Nat /\ Cardinality(T) <= Cardinality(S)
           /\ Cardinality(S) <= Cardinality(Endpoints) /\ Cardinality(Endpoints) \in Nat
  BY FS_Subset, FS_CardinalityType, RateLimitAssumption

LEMMA OneMore ==
    ASSUME NEW S \in SUBSET Endpoints, NEW e \in Endpoints, e \notin S
    PROVE  Cardinality(S \cup {e}) = Cardinality(S) + 1
  BY Counting, FS_AddElement

\* What a single Store, Delete or Create changes of the maps.
LEMMA TokenSet ==
    ASSUME Sorts, NEW m \in MapIds, NEW e \in Endpoints, NEW t \in 0 .. MaxTime \cup {Never},
           tokens' = [tokens EXCEPT ![m][e] = t]
    PROVE  /\ tokens' \in [MapIds -> [Endpoints -> 0 .. MaxTime \cup {Never}]]
           /\ \A n \in MapIds, f \in Endpoints :
                tokens'[n][f] = IF n = m /\ f = e THEN t ELSE tokens[n][f]
<1> DEFINE T == [Endpoints -> 0 .. MaxTime \cup {Never}]
           row == [tokens[m] EXCEPT ![e] = t]
<1>1. tokens \in [MapIds -> T] /\ row \in T
  BY DEF Sorts
<1>2. \A f \in Endpoints : row[f] = IF f = e THEN t ELSE tokens[m][f]
  BY <1>1
<1>3. tokens' = [tokens EXCEPT ![m] = row]
  OBVIOUS
<1> HIDE DEF T, row
<1>4. tokens' \in [MapIds -> T]
  BY <1>1, <1>3
<1>5. \A n \in MapIds : tokens'[n] = IF n = m THEN row ELSE tokens[n]
  BY <1>1, <1>3
<1>6. QED
  BY <1>2, <1>4, <1>5 DEF T

LEMMA InvSorts == Inv => Sorts
<1>1. Cardinality(Endpoints) \in Nat
  BY Counting
<1>2. QED
  BY <1>1 DEF Inv, TypeOK, Sorts

LEMMA SortsTyped == Sorts /\ CountRight => TypeOK
<1> SUFFICES ASSUME Sorts, CountRight PROVE TypeOK
  OBVIOUS
<1>1. \A c \in Callers : count[c] \in 0 .. Cardinality(Endpoints)
  <2> SUFFICES ASSUME NEW c \in Callers PROVE count[c] \in 0 .. Cardinality(Endpoints)
    OBVIOUS
  <2> DEFINE L == Lately(asked, time[c])
  <2>1. L \in SUBSET Endpoints /\ L \ toVisit[c] \in SUBSET L
    BY DEF Lately
  <2>2. /\ Cardinality(L) \in Nat /\ Cardinality(L \ toVisit[c]) \in Nat
        /\ Cardinality(L \ toVisit[c]) <= Cardinality(L)
        /\ Cardinality(L) <= Cardinality(Endpoints) /\ Cardinality(Endpoints) \in Nat
    BY <2>1, Counting
  <2>3. \/ count[c] <= Cardinality(L) \/ count[c] <= Cardinality(L \ toVisit[c])
        \/ count[c] = 0
    BY DEF CountRight
  <2>4. count[c] \in Nat
    BY DEF Sorts
  <2> HIDE DEF L
  <2>5. QED
    BY <2>2, <2>3, <2>4
<1>2. count \in [Callers -> 0 .. Cardinality(Endpoints)]
  BY <1>1 DEF Sorts
<1>3. QED
  BY <1>2 DEF Sorts, TypeOK

-----------------------------------------------------------------------------
LEMMA InitInv == Init => Inv
<1> SUFFICES ASSUME Init PROVE Inv
  OBVIOUS
<1>1. Sorts
  <2>1. /\ 0 \in 0 .. MaxTime /\ 0 \in 0 .. MaxTime + MapLife
        /\ Empty \in [Endpoints -> 0 .. MaxTime \cup {Never}]
    BY RateLimitAssumption DEF Empty
  <2>2. QED
    BY <2>1 DEF Init, Sorts
<1>2. BusyRight /\ ClockRight /\ PrivateRight
  BY RateLimitAssumption
     DEF Init, BusyRight, ClockRight, PrivateRight, Creating, Empty, Never
<1>3. SequenceRight
  BY DEF Init, SequenceRight, Busy
<1>4. CountRight
  BY DEF Init, CountRight
<1>5. QED
  BY <1>1, <1>2, <1>3, <1>4, SortsTyped DEF Inv

\* A caller leaves the others alone, but for the keys a Store lets them miss.
LEMMA OthersSpared ==
    ASSUME Sorts, NEW c \in Callers, Do(c), NEW d \in Callers \ {c}
    PROVE  /\ pc'[d] = pc[d] /\ endpoint'[d] = endpoint[d] /\ mine'[d] = mine[d]
           /\ time'[d] = time[d] /\ stale'[d] = stale[d] /\ count'[d] = count[d]
           /\ toVisit'[d] \subseteq toVisit[d]
<1>1. toVisit'[d] \subseteq toVisit[d]
  BY DEF Do, Get, Visit, Create, Publish, Stamp, Store, Delete, RangeEnds, Return, Sorts
<1>2. QED
  BY <1>1
     DEF Do, Get, Visit, Create, Publish, Stamp, Store, Delete, RangeEnds, Return, Sorts,
         history

LEMMA SortsStep ==
    ASSUME Inv, NEW c \in Callers, Do(c)
    PROVE  Sorts'
<1>1. Sorts
  BY InvSorts
<1>2. /\ now \in 0 .. MaxTime /\ MaxTime \in Nat /\ MapLife \in Nat
      /\ pc[c] = "idle" \/ (mine[c] \in MapIds /\ endpoint[c] \in Endpoints)
      /\ pc[c] = "delete" => stale[c] \in Endpoints
  BY <1>1, RateLimitAssumption DEF Sorts, Inv, BusyRight
<1>3. ASSUME NEW e \in Endpoints, Get(c, e) PROVE Sorts'
  <2>1. Empty \in [Endpoints -> 0 .. MaxTime \cup {Never}]
    BY DEF Empty
  <2>2. QED
    BY ZenonT(60), <1>1, <1>3, <2>1 DEF Sorts, Get, FreshMaps
<1>4. ASSUME NEW e \in Endpoints, Visit(c, e) PROVE Sorts'
  BY <1>1, <1>4 DEF Sorts, Visit, history
<1>5. CASE Create(c)
  <2>1. tokens' \in [MapIds -> [Endpoints -> 0 .. MaxTime \cup {Never}]]
    BY <1>1, <1>2, <1>5, TokenSet DEF Create
  <2>2. QED
    BY <1>1, <1>2, <1>5, <2>1 DEF Sorts, Create
<1>6. CASE Publish(c)
  <2>1. table' \in MapIds /\ expiry' \in 0 .. MaxTime + MapLife
        /\ askedHere' \in [Endpoints -> 0 .. MaxTime \cup {Never}]
    BY <1>1, <1>2, <1>6 DEF Sorts, Publish
  <2>2. QED
    BY <1>1, <1>6, <2>1 DEF Sorts, Publish
<1>7. CASE Store(c)
  <2>1. tokens' \in [MapIds -> [Endpoints -> 0 .. MaxTime \cup {Never}]]
    <3>1. time[c] \in 0 .. MaxTime \cup {Never}
      BY <1>1 DEF Sorts
    <3>2. QED
      BY <1>1, <1>2, <1>7, <3>1, TokenSet DEF Store
  <2>2. \A log \in {asked, askedHere} :
            [log EXCEPT ![endpoint[c]] = Max({@, time[c]})]
              \in [Endpoints -> 0 .. MaxTime \cup {Never}]
    <3> SUFFICES ASSUME NEW log \in {asked, askedHere}
                 PROVE  [log EXCEPT ![endpoint[c]] = Max({@, time[c]})]
                          \in [Endpoints -> 0 .. MaxTime \cup {Never}]
      OBVIOUS
    <3>1. /\ log \in [Endpoints -> 0 .. MaxTime \cup {Never}]
          /\ log[endpoint[c]] \in Int /\ time[c] \in Int /\ time[c] \in 0 .. MaxTime
          /\ log[endpoint[c]] \in 0 .. MaxTime \cup {Never}
      BY <1>1, <1>2, <1>7 DEF Sorts, Store, Never
    <3>2. Max({log[endpoint[c]], time[c]}) \in 0 .. MaxTime \cup {Never}
      BY <3>1, MaxOfTwo
    <3>3. QED
      BY <3>1, <3>2
  <2>3. toVisit' \in [Callers -> SUBSET Endpoints]
    BY <1>1, <1>7 DEF Sorts, Store
  <2>4. QED
    BY <1>1, <1>7, <2>1, <2>2, <2>3 DEF Sorts, Store
<1>8. CASE Delete(c)
  <2>1. tokens' \in [MapIds -> [Endpoints -> 0 .. MaxTime \cup {Never}]]
    BY <1>1, <1>2, <1>8, TokenSet DEF Delete
  <2>2. QED
    BY <1>1, <1>8, <2>1 DEF Sorts, Delete, history
<1>9. CASE Stamp(c)
  BY <1>1, <1>2, <1>9 DEF Sorts, Stamp, history
<1>10. CASE RangeEnds(c)
  BY <1>1, <1>2, <1>10 DEF Sorts, RangeEnds, history
<1>11. CASE Return(c)
  <2>1. 0 \in 0 .. MaxTime /\ 0 \in Nat
    BY <1>2
  <2>2. QED
    BY <1>1, <1>11, <2>1 DEF Sorts, Return, history
<1>12. QED
  BY <1>3, <1>4, <1>5, <1>6, <1>7, <1>8, <1>9, <1>10, <1>11 DEF Do

LEMMA BusyStep ==
    ASSUME Inv, NEW c \in Callers, Do(c)
    PROVE  BusyRight'
<1>1. Sorts
  BY InvSorts
<1>2. /\ now' = now /\ now \in Nat
      /\ time'[c] <= now
      /\ IF pc'[c] = "idle" THEN mine'[c] = None
         ELSE mine'[c] \in MapIds /\ endpoint'[c] \in Endpoints
      /\ pc'[c] = "delete" => stale'[c] \in Endpoints
  BY <1>1
     DEF Do, Get, Visit, Create, Publish, Stamp, Store, Delete, RangeEnds, Return, Sorts,
         FreshMaps, Inv, BusyRight
<1>3. QED
  BY <1>1, <1>2, OthersSpared DEF Inv, BusyRight

\* The log of the requests only grows, and the maps do not get ahead of it.
LEMMA ClockStep ==
    ASSUME Inv, NEW c \in Callers, Do(c)
    PROVE  ClockRight' /\ \A e \in Endpoints : asked[e] <= asked'[e]
<1>1. Sorts /\ ClockRight /\ now' = now /\ now \in Nat
  BY InvSorts
     DEF Inv, Sorts, Do, Get, Visit, Create, Publish, Stamp, Store, Delete, RangeEnds, Return
<1>2. /\ pc[c] = "idle" \/ (mine[c] \in MapIds /\ endpoint[c] \in Endpoints)
      /\ pc[c] = "delete" => stale[c] \in Endpoints
      /\ time[c] <= now /\ time[c] \in Nat
  BY <1>1 DEF Inv, BusyRight, Sorts
<1>3. \A e \in Endpoints : asked[e] \in Int /\ askedHere[e] \in Int
                           /\ \A m \in MapIds : tokens[m][e] \in Int /\ tokens[m][e] >= Never
  BY <1>1 DEF Sorts, Never
<1>4. CASE UNCHANGED <<tokens, asked, askedHere>>
  BY <1>1, <1>3, <1>4 DEF ClockRight
<1>5. ASSUME NEW e \in Endpoints, Get(c, e)
      PROVE  ClockRight' /\ \A f \in Endpoints : asked[f] <= asked'[f]
  <2>1. \A m \in MapIds, f \in Endpoints : tokens'[m][f] = tokens[m][f] \/ tokens'[m][f] = Never
    BY <1>1, <1>5 DEF Get, Empty, Sorts
  <2>2. \A f \in Endpoints : asked[f] >= Never
    BY <1>1 DEF Sorts, Never
  <2>3. UNCHANGED <<asked, askedHere>>
    BY <1>5 DEF Get
  <2>4. QED
    BY <1>1, <1>3, <2>1, <2>2, <2>3 DEF ClockRight, Never
<1>6. CASE Create(c)
  <2>1. \A m \in MapIds, f \in Endpoints :
            tokens'[m][f] = IF m = mine[c] /\ f = endpoint[c] THEN now ELSE tokens[m][f]
    BY <1>1, <1>2, <1>6, TokenSet DEF Create, Sorts
  <2>2. \A f \in Endpoints : asked'[f] = IF f = endpoint[c] THEN now ELSE asked[f]
    BY <1>1, <1>6 DEF Create, Sorts
  <2>3. UNCHANGED askedHere
    BY <1>6 DEF Create
  <2>4. QED
    BY <1>1, <1>3, <2>1, <2>2, <2>3 DEF ClockRight
<1>7. CASE Publish(c)
  <2>1. UNCHANGED <<tokens, asked>> /\ askedHere' = tokens[mine[c]] /\ mine[c] \in MapIds
    BY <1>2, <1>7 DEF Publish
  <2>2. \A f \in Endpoints : tokens[mine[c]][f] <= now
    BY <1>1, <1>3, <2>1 DEF ClockRight
  <2>3. QED
    BY <1>1, <1>3, <2>1, <2>2 DEF ClockRight
<1>8. CASE Store(c)
  <2>1. time[c] \in 0 .. MaxTime \cup {Never} /\ mine[c] \in MapIds /\ endpoint[c] \in Endpoints
    BY <1>1, <1>2, <1>8 DEF Sorts, Store
  <2>2. \A m \in MapIds, f \in Endpoints :
            tokens'[m][f] = IF m = mine[c] /\ f = endpoint[c] THEN time[c] ELSE tokens[m][f]
    BY ZenonT(60), <1>1, <1>8, <2>1, TokenSet DEF Store
  <2>3. /\ \A f \in Endpoints \ {endpoint[c]} : asked'[f] = asked[f] /\ askedHere'[f] = askedHere[f]
        /\ asked'[endpoint[c]] = Max({asked[endpoint[c]], time[c]})
        /\ askedHere'[endpoint[c]] = Max({askedHere[endpoint[c]], time[c]})
    BY <1>1, <1>8, <2>1 DEF Store, Sorts
  <2>4. /\ asked'[endpoint[c]] =
              IF asked[endpoint[c]] >= time[c] THEN asked[endpoint[c]] ELSE time[c]
        /\ askedHere'[endpoint[c]] =
              IF askedHere[endpoint[c]] >= time[c] THEN askedHere[endpoint[c]] ELSE time[c]
    BY <1>2, <1>3, <2>1, <2>3, MaxOfTwo
  <2>5. QED
    BY <1>1, <1>2, <1>3, <2>1, <2>2, <2>3, <2>4 DEF ClockRight
<1>9. CASE Delete(c)
  <2>1. \A m \in MapIds, f \in Endpoints :
            tokens'[m][f] = IF m = mine[c] /\ f = stale[c] THEN Never ELSE tokens[m][f]
    BY ZenonT(60), <1>1, <1>2, <1>9, TokenSet DEF Delete
  <2>2. UNCHANGED <<asked, askedHere>>
    BY <1>9 DEF Delete, history
  <2>3. \A f \in Endpoints : asked[f] >= Never
    BY <1>1 DEF Sorts, Never
  <2>4. QED
    BY <1>1, <1>3, <2>1, <2>2, <2>3 DEF ClockRight, Never
<1>10. QED
  BY <1>4, <1>5, <1>6, <1>7, <1>8, <1>9
     DEF Do, Visit, Stamp, RangeEnds, Return, history

\* Nobody else gets at a map before it is published.
LEMMA PrivateStep ==
    ASSUME Inv, NEW c \in Callers, Do(c)
    PROVE  PrivateRight'
<1>1. Sorts /\ PrivateRight /\ BusyRight
  BY InvSorts DEF Inv
<1>2. /\ pc[c] = "idle" \/ (mine[c] \in MapIds /\ endpoint[c] \in Endpoints)
      /\ pc[c] = "delete" => stale[c] \in Endpoints
      /\ now \in Nat /\ None \notin MapIds
  BY <1>1, RateLimitAssumption DEF BusyRight, Sorts
<1>3. /\ \A d \in Callers \ {c} : /\ pc'[d] = pc[d] /\ mine'[d] = mine[d]
                                  /\ endpoint'[d] = endpoint[d] /\ time'[d] = time[d]
      /\ \A d \in Callers : Creating(d) => mine[d] \in MapIds
  BY <1>1, OthersSpared DEF BusyRight, Creating
<1>4. ASSUME NEW e \in Endpoints, Get(c, e) PROVE PrivateRight'
  <2>1. CASE table # None /\ now <= expiry
    <3>1. /\ mine'[c] = table /\ pc'[c] = "stamp" /\ UNCHANGED <<table, tokens>>
      BY <1>1, <1>4, <2>1 DEF Get, Sorts
    <3>2. QED
      BY <1>1, <1>3, <3>1 DEF PrivateRight, Creating
  <2>2. CASE ~(table # None /\ now <= expiry)
    <3>1. PICK m \in FreshMaps :
            mine' = [mine EXCEPT ![c] = m] /\ tokens' = [tokens EXCEPT ![m] = Empty]
      BY <1>4, <2>2 DEF Get
    <3>2. /\ m \in MapIds /\ m # table /\ \A d \in Callers : mine[d] # m
          /\ mine'[c] = m /\ pc'[c] = "create" /\ table' = table
          /\ \A n \in MapIds \ {m} : tokens'[n] = tokens[n]
          /\ \A f \in Endpoints : tokens'[m][f] = Never
      BY <1>1, <1>2, <1>4, <2>2, <3>1 DEF Get, Sorts, FreshMaps, Live, Empty
    <3>3. QED
      BY <1>1, <1>3, <3>2 DEF PrivateRight, Creating
  <2>3. QED
    BY <2>1, <2>2
<1>5. CASE Create(c)
  <2>1. /\ \A m \in MapIds, f \in Endpoints :
              tokens'[m][f] = IF m = mine[c] /\ f = endpoint[c] THEN now ELSE tokens[m][f]
        /\ mine[c] \in MapIds /\ mine' = mine /\ endpoint' = endpoint /\ table' = table
        /\ time'[c] = now /\ pc'[c] = "publish" /\ pc[c] = "create"
    BY <1>1, <1>2, <1>5, TokenSet DEF Create, Sorts
  <2>2. QED
    BY <1>1, <1>3, <2>1 DEF PrivateRight, Creating
<1>6. CASE Publish(c)
  <2>1. /\ pc[c] = "publish" /\ pc'[c] = "done" /\ table' = mine[c]
        /\ UNCHANGED <<tokens, mine, endpoint, time>>
    BY <1>1, <1>6 DEF Publish, Sorts
  <2>2. QED
    BY <1>1, <1>3, <2>1 DEF PrivateRight, Creating
<1>7. CASE Store(c) \/ Delete(c)
  <2>1. /\ pc[c] \in {"store", "delete"} /\ pc'[c] = "range" /\ mine[c] \in MapIds
        /\ UNCHANGED <<table, mine, endpoint, time>>
    BY <1>1, <1>2, <1>7 DEF Store, Delete, Sorts
  <2>2. \A m \in MapIds \ {mine[c]} : tokens'[m] = tokens[m]
    BY <1>1, <1>7 DEF Store, Delete, Sorts
  <2>3. QED
    BY <1>1, <1>3, <2>1, <2>2 DEF PrivateRight, Creating
<1>8. ASSUME Stamp(c) \/ RangeEnds(c) \/ \E e \in Endpoints : Visit(c, e) PROVE PrivateRight'
  <2>1. ~Creating(c)' /\ ~Creating(c) /\ UNCHANGED <<table, tokens, mine, endpoint>>
    BY <1>1, <1>8 DEF Stamp, RangeEnds, Visit, Sorts, Creating
  <2>2. QED
    BY <1>1, <1>3, <2>1 DEF PrivateRight, Creating
<1>9. CASE Return(c)
  <2>1. pc'[c] = "idle" /\ mine'[c] = None /\ UNCHANGED <<table, tokens>>
    BY <1>1, <1>9 DEF Return, Sorts
  <2>2. QED
    BY <1>1, <1>2, <1>3, <2>1 DEF PrivateRight, Creating
<1>10. QED
  BY <1>4, <1>5, <1>6, <1>7, <1>8, <1>9 DEF Do

\* What was lately asked for at a given time stays so: time does not move.
LEMMA LatelyGrows ==
    ASSUME Sorts, \A e \in Endpoints : asked[e] <= asked'[e], Sorts', NEW at \in Nat
    PROVE  Lately(asked, at) \subseteq Lately(asked', at)
<1> SUFFICES ASSUME NEW e \in Endpoints, asked[e] # Never, at - asked[e] <= WindowSize
             PROVE  asked'[e] # Never /\ at - asked'[e] <= WindowSize
  BY DEF Lately
<1>1. /\ asked[e] \in 0 .. MaxTime \cup {Never} /\ asked'[e] \in 0 .. MaxTime \cup {Never}
      /\ WindowSize \in Nat
  BY RateLimitAssumption DEF Sorts
<1>2. QED
  BY <1>1 DEF Never

\* Larger sets count more.
LEMMA CountGrows ==
    ASSUME NEW S \in SUBSET Endpoints, NEW T \in SUBSET S, NEW n \in Nat, n <= Cardinality(T)
    PROVE  n <= Cardinality(S)
  BY Counting

\* No step makes a count exceed what has been asked for.
LEMMA CountStep ==
    ASSUME Inv, NEW c \in Callers, Do(c)
    PROVE  CountRight'
<1>1. Sorts /\ Sorts' /\ BusyRight /\ ClockRight /\ CountRight
  BY InvSorts, SortsStep DEF Inv
<1>2. \A e \in Endpoints : asked[e] <= asked'[e]
  BY ClockStep
<1>3. /\ pc[c] = "idle" \/ (mine[c] \in MapIds /\ endpoint[c] \in Endpoints)
      /\ pc[c] = "delete" => stale[c] \in Endpoints
      /\ now \in Nat /\ WindowSize \in Nat
      /\ \A d \in Callers : count[d] \in Nat /\ time[d] \in Nat
  BY <1>1, RateLimitAssumption DEF BusyRight, Sorts
<1> DEFINE Counted(d) ==
      /\ pc[d] = "publish" => time[d] <= asked[endpoint[d]]
      /\ pc[d] \in {"range", "delete"} =>
            count[d] <= Cardinality(Lately(asked, time[d]) \ toVisit[d])
      /\ pc[d] = "done" => count[d] <= Cardinality(Lately(asked, time[d]))
      /\ pc[d] \notin {"range", "delete", "done"} => count[d] = 0
\* Whoever counts on, counts from a set that has only grown.
<1>4. ASSUME NEW d \in Callers,
             pc'[d] = pc[d] \/ {pc[d], pc'[d]} \subseteq {"range", "delete"},
             endpoint'[d] = endpoint[d], time'[d] = time[d], count'[d] = count[d],
             toVisit'[d] \subseteq toVisit[d]
      PROVE  Counted(d)'
  <2>1. /\ Lately(asked', time[d]) \in SUBSET Endpoints
        /\ Lately(asked, time[d]) \in SUBSET Lately(asked', time[d])
        /\ Lately(asked', time[d]) \ toVisit'[d] \in SUBSET Endpoints
        /\ Lately(asked, time[d]) \ toVisit[d] \in SUBSET (Lately(asked', time[d]) \ toVisit'[d])
    <3>1. Lately(asked, time[d]) \subseteq Lately(asked', time[d])
      BY <1>1, <1>2, <1>3, LatelyGrows
    <3>2. QED
      BY <1>4, <3>1 DEF Lately
  <2>2. CASE pc[d] \in {"range", "delete"}
    <3>1. count[d] <= Cardinality(Lately(asked, time[d]) \ toVisit[d])
      BY <1>1, <2>2 DEF CountRight
    <3>2. count[d] <= Cardinality(Lately(asked', time[d]) \ toVisit'[d])
      BY <1>3, <2>1, <3>1, CountGrows
    <3>3. QED
      BY <1>4, <2>2, <3>2
  <2>3. CASE pc[d] = "done"
    <3>1. count[d] <= Cardinality(Lately(asked, time[d]))
      BY <1>1, <2>3 DEF CountRight
    <3>2. count[d] <= Cardinality(Lately(asked', time[d]))
      BY <1>3, <2>1, <3>1, CountGrows
    <3>3. QED
      BY <1>4, <2>3, <3>2
  <2>4. CASE pc[d] = "publish"
    <3>1. endpoint[d] \in Endpoints /\ time[d] <= asked[endpoint[d]]
      BY <1>1, <2>4 DEF BusyRight, CountRight
    <3>2. time[d] <= asked'[endpoint[d]]
      <4>1. /\ asked[endpoint[d]] \in Int /\ asked'[endpoint[d]] \in Int
            /\ asked[endpoint[d]] <= asked'[endpoint[d]]
        BY <1>1, <1>2, <3>1 DEF Sorts, Never
      <4>2. QED
        BY <1>3, <3>1, <4>1
    <3>3. count[d] = 0
      BY <1>1, <2>4 DEF CountRight
    <3>4. QED
      BY <1>4, <2>4, <3>2, <3>3
  <2>5. CASE pc[d] \notin {"range", "delete", "done", "publish"}
    BY <1>1, <1>4, <2>5 DEF CountRight
  <2>6. QED
    BY <2>2, <2>3, <2>4, <2>5
<1>5. \A d \in Callers \ {c} : Counted(d)'
  BY <1>1, <1>4, OthersSpared
<1>6. Counted(c)'
  <2>1. CASE pc'[c] \notin {"range", "delete", "done", "publish"}
    <3>1. count'[c] = 0
      BY ZenonT(60), <1>1, <2>1
         DEF Do, Get, Visit, Create, Publish, Stamp, Store, Delete, RangeEnds, Return, Sorts,
             CountRight
    <3>2. QED
      BY <2>1, <3>1
  <2>2. CASE Create(c)
    <3>1. /\ pc'[c] = "publish" /\ time'[c] = now /\ asked'[endpoint'[c]] = now
          /\ count'[c] = 0
      BY ZenonT(60), <1>1, <1>3, <2>2 DEF Create, Sorts, CountRight
    <3>2. QED
      BY <1>3, <3>1
  <2>3. CASE Publish(c)
    <3>1. /\ pc[c] = "publish" /\ pc'[c] = "done" /\ count'[c] = 1
          /\ UNCHANGED <<asked, time>> /\ endpoint[c] \in Endpoints
          /\ time[c] <= asked[endpoint[c]]
      BY <1>1, <1>3, <2>3 DEF Publish, Sorts, CountRight
    <3>2. endpoint[c] \in Lately(asked, time[c])
      <4>1. asked[endpoint[c]] \in Int
        BY <1>1, <3>1 DEF Sorts, Never
      <4>2. QED
        BY <1>3, <3>1, <4>1 DEF Lately, Never
    <3>3. /\ {endpoint[c]} \in SUBSET Lately(asked, time[c])
          /\ Lately(asked, time[c]) \in SUBSET Endpoints
          /\ Cardinality({endpoint[c]}) = 1
      BY <3>2, FS_Singleton DEF Lately
    <3>4. Cardinality({endpoint[c]}) <= Cardinality(Lately(asked, time[c]))
      BY <3>3, Counting
    <3>5. QED
      BY <3>1, <3>3, <3>4
  <2>4. CASE Store(c)
    <3>1. pc'[c] = "range" /\ count'[c] = 0 /\ time'[c] \in Nat
      BY <1>1, <1>3, <2>4 DEF Store, Sorts
    <3>2. Lately(asked', time'[c]) \ toVisit'[c] \in SUBSET Endpoints
      BY DEF Lately
    <3>3. Cardinality(Lately(asked', time'[c]) \ toVisit'[c]) \in Nat
      BY <3>2, Counting
    <3>4. QED
      BY <3>1, <3>3
  <2>5. ASSUME NEW e \in Endpoints, Visit(c, e) PROVE Counted(c)'
    <3>1. /\ pc[c] = "range" /\ e \in toVisit[c] /\ tokens[mine[c]][e] # Never
          /\ mine[c] \in MapIds
          /\ toVisit'[c] = toVisit[c] \ {e} /\ UNCHANGED <<asked, time, endpoint>>
      BY <1>1, <1>3, <2>5 DEF Visit, Sorts, Keys, history
    <3>2. CASE Expired(tokens[mine[c]][e], time[c])
      <4>1. pc'[c] = "delete" /\ count' = count
        BY <1>1, <2>5, <3>2 DEF Visit, Sorts
      <4>2. QED
        BY <1>4, <3>1, <4>1
    <3>3. CASE ~Expired(tokens[mine[c]][e], time[c])
      <4> DEFINE S == Lately(asked, time[c]) \ toVisit[c]
      <4>1. pc'[c] = "range" /\ count'[c] = count[c] + 1
        BY <1>1, <2>5, <3>1, <3>3 DEF Visit, Sorts
      <4>2. /\ tokens[mine[c]][e] \in Nat /\ asked[e] \in Int
            /\ tokens[mine[c]][e] <= asked[e]
        BY <1>1, <3>1 DEF Sorts, ClockRight, Never
      <4>3. e \in Lately(asked, time[c])
        BY <1>3, <3>3, <4>2 DEF Lately, Expired, Never
      <4>4. /\ Lately(asked, time[c]) \ toVisit'[c] = S \cup {e}
            /\ S \in SUBSET Endpoints /\ e \notin S
        BY <3>1, <4>3 DEF Lately
      <4>5. Cardinality(S \cup {e}) = Cardinality(S) + 1 /\ Cardinality(S) \in Nat
        <5> HIDE DEF S
        <5>1. QED
          BY <4>4, OneMore, Counting
      <4>6. count[c] <= Cardinality(S)
        BY <1>1, <3>1 DEF CountRight
      <4>7. count'[c] <= Cardinality(Lately(asked', time'[c]) \ toVisit'[c])
        <5>1. Lately(asked', time'[c]) \ toVisit'[c] = S \cup {e}
          BY <3>1, <4>4
        <5> HIDE DEF S
        <5>2. QED
          BY <1>3, <4>1, <4>5, <4>6, <5>1
      <4>8. QED
        BY <4>1, <4>7
    <3>4. QED
      BY <3>2, <3>3
  <2>6. CASE Delete(c)
    <3>1. /\ pc[c] = "delete" /\ pc'[c] = "range"
          /\ UNCHANGED <<endpoint, time, count, toVisit>>
      BY <1>1, <2>6 DEF Delete, Sorts
    <3>2. QED
      BY <1>4, <3>1
  <2>7. CASE RangeEnds(c)
    <3>1. pc[c] = "range" /\ pc'[c] = "done" /\ UNCHANGED <<asked, time, count>>
      BY <1>1, <2>7 DEF RangeEnds, Sorts, history
    <3>2. /\ Lately(asked, time[c]) \in SUBSET Endpoints
          /\ Lately(asked, time[c]) \ toVisit[c] \in SUBSET Lately(asked, time[c])
          /\ count[c] <= Cardinality(Lately(asked, time[c]) \ toVisit[c])
      BY <1>1, <3>1 DEF Lately, CountRight
    <3>3. count[c] <= Cardinality(Lately(asked, time[c]))
      BY <1>3, <3>2, CountGrows
    <3>4. QED
      BY <3>1, <3>3
  <2>8. CASE (\E e \in Endpoints : Get(c, e)) \/ Stamp(c) \/ Return(c)
    <3>1. pc'[c] \notin {"range", "delete", "done", "publish"}
      BY <1>1, <2>8 DEF Get, Stamp, Return, Sorts
    <3>2. QED
      BY <2>1, <3>1
  <2>9. QED
    BY <2>2, <2>3, <2>4, <2>5, <2>6, <2>7, <2>8 DEF Do
<1>7. QED
  BY <1>5, <1>6 DEF CountRight

\* What the invariant says of the one caller that is busy.
InSequence(c) ==
    /\ IF Creating(c) THEN table = None \/ now > expiry ELSE table \in {None, mine[c]}
    /\ pc[c] = "stamp" => Agrees(mine[c], now)
    /\ pc[c] \in {"store", "range", "delete"} => Agrees(mine[c], time[c])
    /\ pc[c] = "store" => \A e \in Endpoints : askedHere[e] <= time[c]
    /\ pc[c] = "delete" => time[c] - askedHere[stale[c]] > WindowSize
    /\ pc[c] \in {"range", "delete"} =>
          count[c] = Cardinality(Lately(askedHere, time[c]) \ toVisit[c])
    /\ pc[c] = "done" => count[c] = Cardinality(Lately(askedHere, time[c]))

TableRight == table # None /\ now <= expiry => Agrees(table, now)

LEMMA SequenceOfOne ==
    SequenceRight <=> /\ \A c, d \in Busy : c = d
                      /\ TableRight
                      /\ \A c \in Busy : InSequence(c)
  BY DEF SequenceRight, TableRight, InSequence

\* A caller that is alone keeps the map and the requests in step.
LEMMA AloneStep ==
    ASSUME Inv, NEW c \in Callers, Do(c), ~Publish(c), SequenceRight,
           \A d \in Callers \ {c} : pc[d] = "idle"
    PROVE  TableRight' /\ (pc'[c] # "idle" => InSequence(c)')
<1>1. Sorts /\ BusyRight /\ ClockRight /\ PrivateRight /\ now' = now /\ now \in Nat
  BY InvSorts
     DEF Inv, Sorts, Do, Get, Visit, Create, Stamp, Store, Delete, RangeEnds, Return
<1>2. /\ pc[c] = "idle" \/ (mine[c] \in MapIds /\ endpoint[c] \in Endpoints)
      /\ pc[c] = "delete" => stale[c] \in Endpoints
      /\ time[c] <= now /\ time[c] \in Nat /\ WindowSize \in Nat
      /\ None \notin MapIds /\ mine[c] \in MapIds \cup {None}
      /\ table \in MapIds \cup {None}
  BY <1>1, RateLimitAssumption DEF BusyRight, Sorts
<1>3. \A e \in Endpoints : /\ askedHere[e] \in Int /\ askedHere[e] <= now
                           /\ \A m \in MapIds : tokens[m][e] \in Int
  BY <1>1 DEF Sorts, Never, ClockRight
<1>4. TableRight /\ (pc[c] # "idle" => InSequence(c))
  BY SequenceOfOne DEF Busy
<1>5. ASSUME NEW e \in Endpoints, Get(c, e)
      PROVE  TableRight' /\ InSequence(c)'
  <2>1. CASE table # None /\ now <= expiry
    <3>1. /\ mine'[c] = table /\ pc'[c] = "stamp"
          /\ UNCHANGED <<table, expiry, tokens, askedHere, now>>
      BY <1>1, <1>5, <2>1 DEF Get, Sorts
    <3>2. Agrees(table, now) /\ Agrees(table, now)'
      BY <1>4, <2>1, <3>1 DEF TableRight, Agrees
    <3>3. QED
      BY <3>1, <3>2 DEF TableRight, InSequence, Agrees, Creating
  <2>2. CASE ~(table # None /\ now <= expiry)
    <3>1. pc'[c] = "create" /\ UNCHANGED <<table, expiry, now>>
      BY <1>1, <1>5, <2>2 DEF Get, Sorts
    <3>2. expiry \in Nat
      BY <1>1, RateLimitAssumption DEF Sorts
    <3>3. QED
      BY <1>1, <2>2, <3>1, <3>2 DEF TableRight, InSequence, Creating
  <2>3. QED
    BY <2>1, <2>2
<1>6. CASE Create(c)
  <2>1. pc[c] = "create" /\ pc'[c] = "publish" /\ UNCHANGED <<table, expiry, now>>
    BY <1>1, <1>6 DEF Create, Sorts
  <2>2. table = None \/ now > expiry
    BY <1>4, <2>1 DEF InSequence, Creating
  <2>3. expiry \in Nat
    BY <1>1, RateLimitAssumption DEF Sorts
  <2>4. QED
    BY <1>1, <2>1, <2>2, <2>3 DEF TableRight, InSequence, Creating
<1>7. CASE Stamp(c)
  <2>1. /\ pc[c] = "stamp" /\ pc'[c] = "store" /\ time'[c] = now
        /\ UNCHANGED <<table, expiry, tokens, mine, askedHere, now>>
    BY <1>1, <1>7 DEF Stamp, Sorts, history
  <2>2. Agrees(mine[c], now) /\ table \in {None, mine[c]}
    BY <1>4, <2>1 DEF InSequence, Creating
  <2>3. QED
    BY <1>3, <1>4, <2>1, <2>2 DEF TableRight, InSequence, Creating, Agrees
<1>8. CASE Store(c)
  <2> DEFINE e == endpoint[c]
  <2>1. /\ pc[c] = "store" /\ pc'[c] = "range" /\ count'[c] = 0 /\ toVisit'[c] = Endpoints
        /\ UNCHANGED <<table, expiry, mine, time, now>>
        /\ e \in Endpoints /\ mine[c] \in MapIds
    <3>1. toVisit'[c] = Endpoints
      BY <1>8 DEF Store, MayMiss
    <3>2. QED
      BY <1>1, <1>2, <1>8, <3>1 DEF Store, Sorts
  <2>2. /\ Agrees(mine[c], time[c]) /\ table \in {None, mine[c]}
        /\ \A f \in Endpoints : askedHere[f] <= time[c]
    BY <1>4, <2>1 DEF InSequence, Creating
  <2>3. \A f \in Endpoints : askedHere'[f] = IF f = e THEN time[c] ELSE askedHere[f]
    <3>1. \A f \in Endpoints : askedHere'[f] =
              IF f = e THEN Max({askedHere[e], time[c]}) ELSE askedHere[f]
      BY <1>1, <1>8 DEF Store, Sorts
    <3>2. Max({askedHere[e], time[c]}) = time[c]
      BY <1>2, <1>3, <2>1, <2>2, MaxOfTwo
    <3>3. QED
      BY <3>1, <3>2
  <2>4. \A f \in Endpoints : tokens'[mine[c]][f] = IF f = e THEN time[c] ELSE tokens[mine[c]][f]
    <3>1. time[c] \in 0 .. MaxTime \cup {Never}
      BY <1>1 DEF Sorts
    <3>2. QED
      BY ZenonT(60), <1>1, <1>8, <2>1, <3>1, TokenSet DEF Store
  <2>5. /\ \A f \in Endpoints : \/ tokens'[mine[c]][f] = askedHere'[f]
                                \/ /\ tokens'[mine[c]][f] = Never
                                   /\ time[c] - askedHere'[f] > WindowSize
    BY <2>2, <2>3, <2>4 DEF Agrees
  <2>6. TableRight'
    <3>1. \A f \in Endpoints : time[c] - askedHere'[f] > WindowSize =>
                                now - askedHere'[f] > WindowSize
      BY <1>1, <1>2, <1>3, <2>3
    <3>2. QED
      BY <2>1, <2>2, <2>5, <3>1 DEF TableRight, Agrees
  <2>7. Lately(askedHere', time[c]) \ toVisit'[c] = {}
    BY <2>1 DEF Lately
  <2>8. QED
    BY <2>1, <2>2, <2>5, <2>6, <2>7, FS_EmptySet DEF InSequence, Creating, Agrees
<1>9. ASSUME NEW e \in Endpoints, Visit(c, e) PROVE TableRight' /\ InSequence(c)'
  <2> DEFINE L == Lately(askedHere, time[c])
             S == L \ toVisit[c]
  <2>1. /\ pc[c] = "range" /\ e \in toVisit[c] /\ tokens[mine[c]][e] # Never
        /\ mine[c] \in MapIds /\ toVisit'[c] = toVisit[c] \ {e}
        /\ UNCHANGED <<table, expiry, tokens, mine, time, askedHere, now>>
    BY <1>1, <1>2, <1>9 DEF Visit, Sorts, Keys, history
  <2>2. /\ table \in {None, mine[c]} /\ Agrees(mine[c], time[c])
        /\ count[c] = Cardinality(S)
    BY <1>4, <2>1 DEF InSequence, Creating
  <2>3. tokens[mine[c]][e] = askedHere[e] /\ askedHere[e] # Never
    BY <2>1, <2>2 DEF Agrees
  <2>4. TableRight' /\ Agrees(mine[c], time[c])'
    BY <1>4, <2>1, <2>2 DEF TableRight, Agrees
  <2>5. CASE Expired(tokens[mine[c]][e], time[c])
    <3>1. pc'[c] = "delete" /\ count' = count /\ stale'[c] = e
      BY <1>1, <1>9, <2>5 DEF Visit, Sorts
    <3>2. time[c] - askedHere[e] > WindowSize /\ e \notin L
      BY <1>2, <1>3, <2>3, <2>5 DEF Expired, Lately
    <3>3. L \ toVisit'[c] = S
      BY <2>1, <3>2
    <3>4. Lately(askedHere', time'[c]) = L
      BY <2>1
    <3> HIDE DEF L, S
    <3>5. QED
      BY <2>1, <2>2, <2>4, <3>1, <3>2, <3>3, <3>4 DEF InSequence, Creating
  <2>6. CASE ~Expired(tokens[mine[c]][e], time[c])
    <3>1. pc'[c] = "range" /\ count'[c] = count[c] + 1
      BY <1>1, <1>9, <2>1, <2>6 DEF Visit, Sorts
    <3>2. e \in L
      BY <1>2, <1>3, <2>3, <2>6 DEF Expired, Lately
    <3>3. L \ toVisit'[c] = S \cup {e} /\ S \in SUBSET Endpoints /\ e \notin S
      BY <2>1, <3>2 DEF Lately
    <3>4. Lately(askedHere', time'[c]) = L
      BY <2>1
    <3> HIDE DEF L, S
    <3>5. Cardinality(S \cup {e}) = Cardinality(S) + 1
      BY <3>3, OneMore
    <3>6. QED
      BY <2>1, <2>2, <2>4, <3>1, <3>3, <3>4, <3>5 DEF InSequence, Creating
  <2>7. QED
    BY <2>5, <2>6
<1>10. CASE Delete(c)
  <2> DEFINE e == stale[c]
  <2>1. /\ pc[c] = "delete" /\ pc'[c] = "range" /\ e \in Endpoints /\ mine[c] \in MapIds
        /\ UNCHANGED <<table, expiry, mine, time, askedHere, now, toVisit, count>>
    BY <1>1, <1>2, <1>10 DEF Delete, Sorts, history
  <2>2. /\ Agrees(mine[c], time[c]) /\ table \in {None, mine[c]}
        /\ time[c] - askedHere[e] > WindowSize
        /\ count[c] = Cardinality(Lately(askedHere, time[c]) \ toVisit[c])
    BY <1>4, <2>1 DEF InSequence, Creating
  <2>3. \A f \in Endpoints : tokens'[mine[c]][f] = IF f = e THEN Never ELSE tokens[mine[c]][f]
    BY <1>1, <1>10, <2>1, TokenSet DEF Delete
  <2>4. Agrees(mine[c], time[c])'
    BY <2>1, <2>2, <2>3 DEF Agrees
  <2>5. TableRight'
    <3>1. \A f \in Endpoints : time[c] - askedHere[f] > WindowSize =>
                                now - askedHere[f] > WindowSize
      BY <1>1, <1>2, <1>3
    <3>2. QED
      BY <2>1, <2>2, <2>4, <3>1 DEF TableRight, Agrees
  <2>6. QED
    BY <2>1, <2>2, <2>4, <2>5 DEF InSequence, Creating
<1>11. CASE RangeEnds(c)
  <2>1. /\ pc[c] = "range" /\ pc'[c] = "done" /\ toVisit[c] \cap Keys(mine[c]) = {}
        /\ UNCHANGED <<table, expiry, tokens, mine, time, askedHere, now, count>>
    BY <1>1, <1>11 DEF RangeEnds, Sorts, history
  <2>2. /\ table \in {None, mine[c]} /\ Agrees(mine[c], time[c])
        /\ count[c] = Cardinality(Lately(askedHere, time[c]) \ toVisit[c])
    BY <1>4, <2>1 DEF InSequence, Creating
  <2>3. \A e \in Lately(askedHere, time[c]) : e \notin toVisit[c]
    <3> SUFFICES ASSUME NEW e \in Lately(askedHere, time[c]), e \in toVisit[c] PROVE FALSE
      OBVIOUS
    <3>1. /\ e \in Endpoints /\ askedHere[e] # Never
          /\ time[c] - askedHere[e] <= WindowSize
      BY DEF Lately
    <3>2. tokens[mine[c]][e] = Never
      BY <2>1, <3>1 DEF Keys
    <3>3. QED
      BY <1>2, <1>3, <2>2, <3>1, <3>2 DEF Agrees
  <2>4. Lately(askedHere, time[c]) \ toVisit[c] = Lately(askedHere, time[c])
    BY <2>3
  <2>5. TableRight'
    BY <1>4, <2>1 DEF TableRight, Agrees
  <2>6. QED
    BY <2>1, <2>2, <2>4, <2>5 DEF InSequence, Creating
<1>12. CASE Return(c)
  <2>1. pc'[c] = "idle" /\ UNCHANGED <<table, expiry, tokens, askedHere, now>>
    BY <1>1, <1>12 DEF Return, Sorts, history
  <2>2. QED
    BY <1>4, <2>1 DEF TableRight, Agrees
<1>13. QED
  BY <1>5, <1>6, <1>7, <1>8, <1>9, <1>10, <1>11, <1>12 DEF Do

\* A caller that publishes alone starts the sequence anew.
LEMMA PublishAlone ==
    ASSUME Inv, NEW c \in Callers, Publish(c)
    PROVE  TableRight' /\ InSequence(c)'
<1>1. Sorts /\ BusyRight /\ PrivateRight
  BY InvSorts DEF Inv
<1>2. /\ pc[c] = "publish" /\ pc'[c] = "done" /\ table' = mine[c] /\ count'[c] = 1
      /\ askedHere' = tokens[mine[c]] /\ UNCHANGED <<tokens, mine, time, endpoint>>
  BY <1>1 DEF Publish, Sorts
<1>3. /\ time[c] \in Nat /\ endpoint[c] \in Endpoints /\ WindowSize \in Nat
      /\ \A e \in Endpoints : askedHere'[e] = IF e = endpoint[c] THEN time[c] ELSE Never
  BY <1>1, <1>2, RateLimitAssumption DEF Sorts, BusyRight, PrivateRight, Creating
<1>4. Lately(askedHere', time[c]) = {endpoint[c]}
  BY <1>3 DEF Lately, Never
<1>5. Cardinality(Lately(askedHere', time[c])) = 1
  BY <1>4, FS_Singleton
<1>6. QED
  BY <1>2, <1>5 DEF TableRight, InSequence, Agrees, Creating

LEMMA SequenceStep ==
    ASSUME Inv, NEW c \in Callers, Do(c), ~overlapped'
    PROVE  SequenceRight'
<1>1. Sorts
  BY InvSorts
<1>2. CASE Publish(c)
  <2>1. Busy = {c}
    BY <1>2 DEF Publish
  <2>2. \A d \in Callers \ {c} : pc'[d] = "idle"
    BY <1>1, <2>1, OthersSpared DEF Busy
  <2>3. QED
    BY <1>2, <2>2, PublishAlone DEF SequenceRight, TableRight, InSequence, Busy
<1>3. CASE ~Publish(c)
  <2>1. ~overlapped
    BY <1>1, <1>3
       DEF Do, Get, Visit, Create, Stamp, Store, Delete, RangeEnds, Return, history, Sorts
  <2>2. \A d \in Callers \ {c} : pc[d] = "idle"
    <3>1. CASE pc[c] = "idle"
      <4>1. \E e \in Endpoints : Get(c, e)
        BY <1>3, <3>1 DEF Do, Visit, Create, Stamp, Store, Delete, RangeEnds, Return
      <4>2. QED
        BY <4>1 DEF Get, Busy
    <3>2. CASE pc[c] # "idle"
      BY <2>1, <3>2 DEF Inv, SequenceRight, Busy
    <3>3. QED
      BY <3>1, <3>2
  <2>3. \A d \in Callers \ {c} : pc'[d] = "idle"
    BY <1>1, <2>2, OthersSpared
  <2>4. TableRight' /\ (pc'[c] # "idle" => InSequence(c)')
    BY <1>3, <2>1, <2>2, AloneStep DEF Inv
  <2>5. QED
    BY <2>3, <2>4 DEF SequenceRight, TableRight, InSequence, Busy
<1>4. QED
  BY <1>2, <1>3

-----------------------------------------------------------------------------
\* Time and the cache: what they do is nobody's step.
LEMMA OutsideInv ==
    ASSUME Inv, Tick \/ Evict \/ UNCHANGED vars
    PROVE  Inv'
<1>1. Sorts /\ now \in Nat /\ now' \in Nat /\ now <= now' /\ WindowSize \in Nat
      /\ expiry \in Nat
  BY InvSorts, RateLimitAssumption DEF Sorts, Tick, Evict, vars
<1>2. /\ UNCHANGED <<expiry, tokens, pc, endpoint, mine, time, toVisit, stale, count,
                     asked, askedHere, overlapped>>
      /\ table' \in {table, None}
  BY DEF Tick, Evict, vars, history
<1>3. TypeOK'
  BY <1>2, RateLimitAssumption DEF Inv, TypeOK, Tick, Evict, vars
<1>4. BusyRight'
  BY <1>1, <1>2 DEF Inv, BusyRight, Sorts
<1>5. ClockRight'
  BY <1>1, <1>2 DEF Inv, ClockRight, Sorts, Never
<1>6. PrivateRight'
  <2>1. \A c \in Callers : Creating(c) => mine[c] \in MapIds /\ None \notin MapIds
    BY RateLimitAssumption DEF Inv, BusyRight, Creating
  <2>2. QED
    BY <1>2, <2>1 DEF Inv, PrivateRight, Creating
<1>7. CountRight'
  BY <1>2 DEF Inv, CountRight, Lately
<1>8. ASSUME ~overlapped' PROVE SequenceRight'
  <2>1. SequenceRight
    BY <1>2, <1>8 DEF Inv
  <2>2. ASSUME NEW m, m \in MapIds, Agrees(m, now) PROVE Agrees(m, now)'
    BY <1>1, <1>2, <2>2 DEF Agrees, Sorts, Never
  <2>3. \A c \in Busy : mine[c] \in MapIds
    BY DEF Inv, BusyRight, Busy
  <2>4. table' # None /\ now' <= expiry' => Agrees(table, now)' /\ table' = table
    BY <1>1, <1>2, <2>1, <2>2 DEF SequenceRight, Sorts
  <2>5. \A c \in Busy : IF Creating(c) THEN table' = None \/ now' > expiry
                        ELSE table' \in {None, mine[c]}
    <3> SUFFICES ASSUME NEW c \in Busy
                 PROVE  IF Creating(c) THEN table' = None \/ now' > expiry
                        ELSE table' \in {None, mine[c]}
      OBVIOUS
    <3>1. IF Creating(c) THEN table = None \/ now > expiry ELSE table \in {None, mine[c]}
      BY <2>1 DEF SequenceRight
    <3>2. CASE Creating(c)
      BY <1>1, <1>2, <3>1, <3>2
    <3>3. CASE ~Creating(c)
      BY <1>2, <3>1, <3>3
    <3>4. QED
      BY <3>2, <3>3
  <2>6. \A c \in Busy : pc[c] = "stamp" => Agrees(mine[c], now)'
    BY <1>2, <2>1, <2>2, <2>3 DEF SequenceRight
  <2>7. QED
    BY ZenonT(60), <1>2, <2>1, <2>4, <2>5, <2>6 DEF SequenceRight, Busy, Agrees, Lately, Creating
<1>9. QED
  BY <1>3, <1>4, <1>5, <1>6, <1>7, <1>8 DEF Inv

LEMMA NextInv == Inv /\ [Next]_vars => Inv'
<1> SUFFICES ASSUME Inv, [Next]_vars PROVE Inv'
  OBVIOUS
<1>1. ASSUME NEW c \in Callers, Do(c) PROVE Inv'
  <2>1. Sorts' /\ BusyRight' /\ ClockRight' /\ PrivateRight' /\ CountRight'
    BY <1>1, SortsStep, BusyStep, ClockStep, PrivateStep, CountStep
  <2>2. TypeOK'
    BY <2>1, SortsTyped, PTL
  <2>3. ~overlapped' => SequenceRight'
    BY <1>1, SequenceStep
  <2>4. QED
    BY <2>1, <2>2, <2>3 DEF Inv
<1>2. QED
  BY <1>1, OutsideInv DEF Next, Do

\* The inductive invariant holds in every state of every behaviour.
THEOREM Invariance == Spec => []Inv
  BY InitInv, NextInv, PTL DEF Spec

\* Types; in particular no count exceeds the number of the endpoints.
THEOREM TypeCorrect == Spec => []TypeOK
<1>1. Inv => TypeOK
  BY DEF Inv
<1>2. QED
  BY <1>1, Invariance, PTL

\* However calls interleave, no call counts more endpoints than the address has
\* asked for within the window.
THEOREM NeverTooMany == Spec => []NeverOvercounts
<1>1. Inv => NeverOvercounts
  <2> SUFFICES ASSUME Inv, NEW c \in Callers, pc[c] \in {"range", "delete", "done"}
               PROVE  count[c] <= Cardinality(Lately(asked, time[c]))
    BY DEF NeverOvercounts
  <2>1. /\ Lately(asked, time[c]) \in SUBSET Endpoints
        /\ Lately(asked, time[c]) \ toVisit[c] \in SUBSET Lately(asked, time[c])
        /\ count[c] \in Nat
    BY InvSorts DEF Lately, Sorts
  <2>2. QED
    BY <2>1, CountGrows DEF Inv, CountRight
<1>2. QED
  BY <1>1, Invariance, PTL

\* Calls that come one after the other are counted exactly, however long the
\* map has lived and whatever has been deleted from it.
THEOREM SequenceCountsExactly == Spec => []ExactInSequence
<1>1. Inv => ExactInSequence
  BY DEF Inv, SequenceRight, ExactInSequence, Busy
<1>2. QED
  BY <1>1, Invariance, PTL
=============================================================================
