--------------------------- MODULE BlockedContent ---------------------------
(***************************************************************************)
(* internal/iapi/api.go, GetBlockedContent: the list of blocked claims and *)
(* channels that an API serves, kept for two minutes.                      *)
(*                                                                         *)
(* Nothing makes concurrent misses share a fetch: each asks the API, and   *)
(* each stores what it got, the late ones over what the early ones stored. *)
(* Time is counted in ticks.  The HTTP client sets no timeout; that an     *)
(* answer travels no longer than FetchLimit is an assumption about the     *)
(* network (see README).                                                   *)
(***************************************************************************)
EXTENDS Integers

CONSTANTS
    Readers,     \* requests that want the list
    Contents,    \* claims and channels that may be blocked
    Life,        \* ticks for which the cache keeps a list
    FetchLimit,  \* ticks an answer travels at most
    None         \* no list, no answer

ASSUME BlockedContentAssumption ==
    /\ Life \in Nat
    /\ FetchLimit \in Nat
    /\ \A l \in SUBSET Contents : l # None
    /\ None \notin [list : SUBSET Contents, age : 0 .. FetchLimit]
    /\ None \notin [list : SUBSET Contents, ttl : 0 .. Life]

VARIABLES
    listed,  \* what the API would answer now
    cache,   \* blockedCache: None, or the list and the ticks it has left
    pc,      \* pc[r]: where reader r stands
    answer,  \* answer[r]: the answer on its way to r, and its age
    list     \* list[r]: the list r acts on; None after an error

\* History: for how many ticks each content has been listed, or not listed,
\* counted up to what tells old from new.
VARIABLE since

vars == <<listed, cache, pc, answer, list, since>>

\* No list may be behind the API by more.
Lag == Life + FetchLimit

Init ==
    /\ listed \in SUBSET Contents
    /\ cache = None
    /\ pc = [r \in Readers |-> "idle"]
    /\ answer = [r \in Readers |-> None]
    /\ list = [r \in Readers |-> None]
    /\ since = [x \in Contents |-> 0]

\* A content is blocked, or unblocked.
Change(x) ==
    /\ listed' = IF x \in listed THEN listed \ {x} ELSE listed \cup {x}
    /\ since' = [since EXCEPT ![x] = 0]
    /\ UNCHANGED <<cache, pc, answer, list>>

Older(a) == IF a = None THEN None ELSE [a EXCEPT !.age = @ + 1]

\* Mutant of Aged: a list never expires.
Ageless(e) == IF e = None THEN None ELSE [e EXCEPT !.ttl = @ - 1]

\* The cache drops a list when its time is over.
Aged(e) == IF e = None \/ e.ttl = 0 THEN None ELSE [e EXCEPT !.ttl = @ - 1]

Tick ==
    /\ \A r \in Readers : answer[r] # None => answer[r].age < FetchLimit
    /\ cache' = Aged(cache)
    /\ answer' = [r \in Readers |-> Older(answer[r])]
    /\ since' = [x \in Contents |-> IF since[x] <= Lag THEN since[x] + 1 ELSE since[x]]
    /\ UNCHANGED <<listed, pc, list>>

\* Mutant of Hit: a list that is used is kept longer.
HitRenews(r) ==
    /\ pc[r] = "idle"
    /\ cache # None
    /\ list' = [list EXCEPT ![r] = cache.list]
    /\ cache' = [cache EXCEPT !.ttl = Life]
    /\ pc' = [pc EXCEPT ![r] = "done"]
    /\ UNCHANGED <<listed, answer, since>>

Hit(r) ==
    /\ pc[r] = "idle"
    /\ cache # None
    /\ list' = [list EXCEPT ![r] = cache.list]
    /\ pc' = [pc EXCEPT ![r] = "done"]
    /\ UNCHANGED <<listed, cache, answer, since>>

Miss(r) ==
    /\ pc[r] = "idle"
    /\ cache = None
    /\ pc' = [pc EXCEPT ![r] = "asking"]
    /\ UNCHANGED <<listed, cache, answer, list, since>>

\* The API looks up its list and answers.
Answer(r) ==
    /\ pc[r] = "asking"
    /\ answer[r] = None
    /\ answer' = [answer EXCEPT ![r] = [list |-> listed, age |-> 0]]
    /\ UNCHANGED <<listed, cache, pc, list, since>>

\* No connection, a status other than 200, a broken body: the caller gets an
\* error, and goes on as if nothing were blocked.
Fail(r) ==
    /\ pc[r] = "asking"
    /\ answer' = [answer EXCEPT ![r] = None]
    /\ list' = [list EXCEPT ![r] = None]
    /\ pc' = [pc EXCEPT ![r] = "done"]
    /\ UNCHANGED <<listed, cache, since>>

\* Whatever the cache holds by now is replaced.
Store(r) ==
    /\ pc[r] = "asking"
    /\ answer[r] # None
    /\ cache' = [list |-> answer[r].list, ttl |-> Life]
    /\ list' = [list EXCEPT ![r] = answer[r].list]
    /\ answer' = [answer EXCEPT ![r] = None]
    /\ pc' = [pc EXCEPT ![r] = "done"]
    /\ UNCHANGED <<listed, since>>

Return(r) ==
    /\ pc[r] = "done"
    /\ list' = [list EXCEPT ![r] = None]
    /\ pc' = [pc EXCEPT ![r] = "idle"]
    /\ UNCHANGED <<listed, cache, answer, since>>

GetBlockedContent(r) ==
    \/ Hit(r)
    \/ Miss(r)
    \/ Answer(r)
    \/ Fail(r)
    \/ Store(r)
    \/ Return(r)

Next ==
    \/ \E x \in Contents : Change(x)
    \/ Tick
    \/ \E r \in Readers : GetBlockedContent(r)

Spec == Init /\ [][Next]_vars

-----------------------------------------------------------------------------
\* The type invariant.
TypeOK ==
    /\ listed \in SUBSET Contents
    /\ cache \in [list : SUBSET Contents, ttl : 0 .. Life] \cup {None}
    /\ pc \in [Readers -> {"idle", "asking", "done"}]
    /\ answer \in [Readers -> [list : SUBSET Contents, age : 0 .. FetchLimit] \cup {None}]
    /\ list \in [Readers -> {None} \cup SUBSET Contents]
    /\ since \in [Contents -> 0 .. Lag + 1]

\* A list, kept in the cache or on its way, is wrong only about contents that
\* have changed since the API made it.
Outdated(x, l) == (x \in l) # (x \in listed)

CacheRight ==
    cache # None =>
        \A x \in Contents : Outdated(x, cache.list) => since[x] <= Lag - cache.ttl

AnswersRight ==
    \A r \in Readers : answer[r] # None =>
        \A x \in Contents : Outdated(x, answer[r].list) => since[x] <= answer[r].age

\* The inductive invariant.
Inv == TypeOK /\ CacheRight /\ AnswersRight

\* GetBlockedContent returns no list that is behind the API by more than the
\* life of a list and the time of a fetch: what has been blocked for longer is
\* in it, what has been unblocked for longer is not, whatever concurrent
\* fetches have stored over each other.
ListsAreRecent ==
    [][\A r \in Readers : pc[r] # "done" /\ pc'[r] = "done" /\ list'[r] # None =>
           \A x \in Contents : since[x] > Lag => (x \in list'[r] <=> x \in listed)]_vars
=============================================================================
