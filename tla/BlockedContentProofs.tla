------------------------ MODULE BlockedContentProofs ------------------------
(***************************************************************************)
(* Proofs about BlockedContent: the invariant that relates every list to   *)
(* its age, and that no reader is given a list older than Lag.             *)
(***************************************************************************)
EXTENDS BlockedContent, TLAPS

USE BlockedContentAssumption DEF Lag

\* Nothing is kept and nothing is on its way at the start.
LEMMA InitInv == Init => Inv
BY DEF Init, Inv, TypeOK, CacheRight, AnswersRight

\* A content that changes is new: whatever list is wrong about it now may be.
LEMMA ChangeInv ==
    ASSUME Inv, NEW x \in Contents, Change(x)
    PROVE Inv'
<1>1. /\ listed' \in SUBSET Contents
      /\ \A y \in Contents \ {x} : y \in listed' <=> y \in listed
    BY DEF Inv, TypeOK, Change
<1>2. /\ since' \in [Contents -> 0 .. Lag + 1]
      /\ since'[x] = 0
      /\ \A y \in Contents \ {x} : since'[y] = since[y]
    BY DEF Inv, TypeOK, Change
<1>3. TypeOK'
    BY <1>1, <1>2 DEF Inv, TypeOK, Change
<1>4. CacheRight'
    <2> SUFFICES ASSUME cache' # None,
                        NEW y \in Contents,
                        Outdated(y, cache.list)'
                 PROVE since'[y] <= Lag - cache'.ttl
        BY DEF CacheRight
    <2>1. cache' = cache /\ cache.ttl \in 0 .. Life
        BY DEF Inv, TypeOK, Change
    <2>2. CASE y = x
        BY <1>2, <2>1, <2>2
    <2>3. CASE y # x
        BY <1>1, <1>2, <2>1, <2>3 DEF Inv, CacheRight, Outdated
    <2> QED BY <2>2, <2>3
<1>5. AnswersRight'
    <2> SUFFICES ASSUME NEW r \in Readers,
                        answer'[r] # None,
                        NEW y \in Contents,
                        Outdated(y, answer[r].list)'
                 PROVE since'[y] <= answer'[r].age
        BY DEF AnswersRight
    <2>1. answer' = answer /\ answer[r].age \in 0 .. FetchLimit
        BY DEF Inv, TypeOK, Change
    <2>2. CASE y = x
        BY <1>2, <2>1, <2>2
    <2>3. CASE y # x
        BY <1>1, <1>2, <2>1, <2>3 DEF Inv, AnswersRight, Outdated
    <2> QED BY <2>2, <2>3
<1> QED BY <1>3, <1>4, <1>5 DEF Inv

\* Lists and contents grow older together.
LEMMA TickInv ==
    ASSUME Inv, Tick
    PROVE Inv'
<1>1. since' \in [Contents -> 0 .. Lag + 1]
    BY DEF Inv, TypeOK, Tick
<1>2. \A y \in Contents : since'[y] <= since[y] + 1
    BY DEF Inv, TypeOK, Tick
<1>3. cache' \in [list : SUBSET Contents, ttl : 0 .. Life] \cup {None}
    BY DEF Inv, TypeOK, Tick, Aged
<1>4. answer' \in [Readers -> [list : SUBSET Contents, age : 0 .. FetchLimit] \cup {None}]
    <2> SUFFICES ASSUME NEW r \in Readers
                 PROVE Older(answer[r]) \in
                           [list : SUBSET Contents, age : 0 .. FetchLimit] \cup {None}
        BY DEF Tick
    <2> QED BY DEF Inv, TypeOK, Tick, Older
<1>5. TypeOK'
    BY <1>1, <1>3, <1>4 DEF Inv, TypeOK, Tick
<1>6. CacheRight'
    <2> SUFFICES ASSUME cache' # None,
                        NEW y \in Contents,
                        Outdated(y, cache.list)'
                 PROVE since'[y] <= Lag - cache'.ttl
        BY DEF CacheRight
    <2>1. /\ cache # None
          /\ cache'.list = cache.list
          /\ cache'.ttl = cache.ttl - 1
          /\ cache.ttl \in 0 .. Life
        BY DEF Inv, TypeOK, Tick, Aged
    <2>2. since[y] <= Lag - cache.ttl
        BY <2>1 DEF Inv, CacheRight, Outdated, Tick
    <2>3. since[y] \in Nat /\ since'[y] \in Nat
        BY <1>1 DEF Inv, TypeOK
    <2> QED BY <1>2, <2>1, <2>2, <2>3
<1>7. AnswersRight'
    <2> SUFFICES ASSUME NEW r \in Readers,
                        answer'[r] # None,
                        NEW y \in Contents,
                        Outdated(y, answer[r].list)'
                 PROVE since'[y] <= answer'[r].age
        BY DEF AnswersRight
    <2>1. /\ answer[r] # None
          /\ answer'[r].list = answer[r].list
          /\ answer'[r].age = answer[r].age + 1
          /\ answer[r].age \in 0 .. FetchLimit
        BY DEF Inv, TypeOK, Tick, Older
    <2>2. since[y] <= answer[r].age
        BY <2>1 DEF Inv, AnswersRight, Outdated, Tick
    <2>3. since[y] \in Nat /\ since'[y] \in Nat
        BY <1>1 DEF Inv, TypeOK
    <2> QED BY <1>2, <2>1, <2>2, <2>3
<1> QED BY <1>5, <1>6, <1>7 DEF Inv

\* A cached list is used as it is.
LEMMA HitInv ==
    ASSUME Inv, NEW r \in Readers, Hit(r)
    PROVE Inv'
<1>1. TypeOK'
    BY DEF Inv, TypeOK, Hit
<1>2. CacheRight' /\ AnswersRight'
    BY DEF Inv, CacheRight, AnswersRight, Outdated, Hit
<1> QED BY <1>1, <1>2 DEF Inv

\* An answer is right when it is made.
LEMMA AnswerInv ==
    ASSUME Inv, NEW r \in Readers, Answer(r)
    PROVE Inv'
<1>1. TypeOK'
    BY DEF Inv, TypeOK, Answer
<1>2. CacheRight'
    BY DEF Inv, CacheRight, Outdated, Answer
<1>3. AnswersRight'
    <2> SUFFICES ASSUME NEW s \in Readers,
                        answer'[s] # None,
                        NEW y \in Contents,
                        Outdated(y, answer[s].list)'
                 PROVE since'[y] <= answer'[s].age
        BY DEF AnswersRight
    <2>1. CASE s = r
        BY <2>1 DEF Inv, TypeOK, Outdated, Answer
    <2>2. CASE s # r
        <3>1. answer'[s] = answer[s] /\ listed' = listed /\ since' = since
            BY <2>2 DEF Inv, TypeOK, Answer
        <3> QED BY <3>1 DEF Inv, AnswersRight, Outdated
    <2> QED BY <2>1, <2>2
<1> QED BY <1>1, <1>2, <1>3 DEF Inv

\* A stored list has its whole life before it, and is as old as its answer.
LEMMA StoreInv ==
    ASSUME Inv, NEW r \in Readers, Store(r)
    PROVE Inv'
<1>1. /\ answer[r] \in [list : SUBSET Contents, age : 0 .. FetchLimit]
      /\ \A y \in Contents : Outdated(y, answer[r].list) => since[y] <= answer[r].age
    BY DEF Inv, TypeOK, AnswersRight, Store
<1>2. cache' = [list |-> answer[r].list, ttl |-> Life]
    BY DEF Store
<1>3. TypeOK'
    BY <1>1, <1>2 DEF Inv, TypeOK, Store
<1>4. CacheRight'
    <2> SUFFICES ASSUME NEW y \in Contents,
                        Outdated(y, cache.list)'
                 PROVE since'[y] <= Lag - cache'.ttl
        BY DEF CacheRight
    <2>1. since[y] <= answer[r].age
        BY <1>1, <1>2 DEF Outdated, Store
    <2>2. since' = since /\ since[y] \in Nat /\ answer[r].age \in 0 .. FetchLimit
        BY <1>1 DEF Inv, TypeOK, Store
    <2> QED BY <1>2, <2>1, <2>2
<1>5. AnswersRight'
    <2> SUFFICES ASSUME NEW s \in Readers,
                        answer'[s] # None,
                        NEW y \in Contents,
                        Outdated(y, answer[s].list)'
                 PROVE since'[y] <= answer'[s].age
        BY DEF AnswersRight
    <2>1. answer'[s] = answer[s] /\ listed' = listed /\ since' = since
        BY DEF Inv, TypeOK, Store
    <2> QED BY <2>1 DEF Inv, AnswersRight, Outdated
<1> QED BY <1>3, <1>4, <1>5 DEF Inv

\* The other steps of a reader take answers and lists away, and add none.
LEMMA OthersInv ==
    ASSUME Inv, NEW r \in Readers, Miss(r) \/ Fail(r) \/ Return(r)
    PROVE Inv'
<1>1. TypeOK'
    BY DEF Inv, TypeOK, Miss, Fail, Return
<1>2. /\ cache' = cache /\ listed' = listed /\ since' = since
      /\ \A s \in Readers : answer'[s] # None => answer'[s] = answer[s]
    BY DEF Inv, TypeOK, Miss, Fail, Return
<1>3. CacheRight'
    BY <1>2 DEF Inv, CacheRight, Outdated
<1>4. AnswersRight'
    BY <1>2 DEF Inv, AnswersRight, Outdated
<1> QED BY <1>1, <1>3, <1>4 DEF Inv

\* Every step preserves the invariant.
LEMMA NextInv == Inv /\ [Next]_vars => Inv'
<1> SUFFICES ASSUME Inv, [Next]_vars
             PROVE Inv'
    OBVIOUS
<1>1. ASSUME NEW x \in Contents, Change(x)
      PROVE Inv'
    BY <1>1, ChangeInv
<1>2. CASE Tick
    BY <1>2, TickInv
<1>3. ASSUME NEW r \in Readers, GetBlockedContent(r)
      PROVE Inv'
    BY <1>3, HitInv, AnswerInv, StoreInv, OthersInv DEF GetBlockedContent
<1>4. CASE UNCHANGED vars
    BY <1>4 DEF vars, Inv, TypeOK, CacheRight, AnswersRight, Outdated
<1> QED BY <1>1, <1>2, <1>3, <1>4 DEF Next

\* GetBlockedContent keeps the invariant, for any readers, contents and limits.
THEOREM Invariance == Spec => []Inv
BY InitInv, NextInv, PTL DEF Spec

\* The variables keep their types.
THEOREM TypeCorrect == Spec => []TypeOK
<1>1. Inv => TypeOK
    BY DEF Inv
<1> QED BY <1>1, Invariance, PTL

\* A step that ends a lookup with a list ends it with a recent one.
LEMMA StepIsRecent ==
    ASSUME Inv, Next,
           NEW r \in Readers, pc[r] # "done", pc'[r] = "done", list'[r] # None,
           NEW x \in Contents, since[x] > Lag
    PROVE x \in list'[r] <=> x \in listed
<1>1. Hit(r) \/ Store(r)
    BY DEF Next, Change, Tick, GetBlockedContent, Hit, Miss, Answer, Fail, Store, Return,
           Inv, TypeOK
<1>2. CASE Hit(r)
    <2>1. cache # None /\ list'[r] = cache.list /\ cache.ttl \in 0 .. Life
        BY <1>2 DEF Hit, Inv, TypeOK
    <2>2. since[x] \in Nat
        BY DEF Inv, TypeOK
    <2>3. ~Outdated(x, cache.list)
        BY <2>1, <2>2 DEF Inv, CacheRight
    <2> QED BY <2>1, <2>3 DEF Outdated
<1>3. CASE Store(r)
    <2>1. /\ answer[r] # None
          /\ list'[r] = answer[r].list
          /\ answer[r].age \in 0 .. FetchLimit
        BY <1>3 DEF Store, Inv, TypeOK
    <2>2. since[x] \in Nat
        BY DEF Inv, TypeOK
    <2>3. ~Outdated(x, answer[r].list)
        BY <2>1, <2>2 DEF Inv, AnswersRight
    <2> QED BY <2>1, <2>3 DEF Outdated
<1> QED BY <1>1, <1>2, <1>3

\* No reader of GetBlockedContent acts on a list that is behind the API by
\* more than Lag, however many fetches run and store over each other.
THEOREM Recent == Spec => ListsAreRecent
<1>1. Inv /\ [Next]_vars =>
          [\A r \in Readers : pc[r] # "done" /\ pc'[r] = "done" /\ list'[r] # None =>
              \A x \in Contents : since[x] > Lag => (x \in list'[r] <=> x \in listed)]_vars
    BY StepIsRecent
<1> QED BY <1>1, Invariance, PTL DEF Spec, ListsAreRecent
=============================================================================
