---------------------------- MODULE ServerProofs ----------------------------
(***************************************************************************)
(* Proofs about Server, for any requests, settings and limits of time.     *)
(* What the goroutines may do to each other is bounded by the order in     *)
(* which the main one starts and stops them: StartsInOrder, StopsInOrder.  *)
(***************************************************************************)
EXTENDS Server, TLAPS

-----------------------------------------------------------------------------
(* The expiry of tokens.                                                    *)

\* The quotient of an integer by a positive one is the one that fits.
LEMMA Quotient ==
    ASSUME NEW a \in Int, NEW s \in Nat \ {0}
    PROVE  /\ a \div s \in Int
           /\ s * (a \div s) <= a
           /\ a < s * (a \div s) + s
  OBVIOUS

LEMMA QuotientOfProduct ==
    ASSUME NEW n \in Nat, NEW s \in Nat \ {0}
    PROVE  (n * s) \div s = n
  OBVIOUS

LEMMA FlippedBit ==
    ASSUME NEW n \in Nat, NEW b \in {4, 16}
    PROVE  FlipBit(n, b) \in Nat /\ FlipBit(n, b) <= n + b /\ FlipBit(n, b) >= n - b
<1>1. CASE b = 4
  BY <1>1 DEF FlipBit
<1>2. CASE b = 16
  BY <1>2 DEF FlipBit
<1>3. QED
  BY <1>1, <1>2

LEMMA FlippedBits ==
    ASSUME NEW n \in Nat
    PROVE  LET f == FlipBit(FlipBit(n, 4), 16)
           IN  f \in Nat /\ f <= n + 20 /\ f >= n - 20
<1> DEFINE m == FlipBit(n, 4)
<1>1. m \in Nat /\ m <= n + 4 /\ m >= n - 4
  BY FlippedBit
<1> HIDE DEF m
<1>2. FlipBit(m, 16) \in Nat /\ FlipBit(m, 16) <= m + 16 /\ FlipBit(m, 16) >= m - 16
  BY <1>1, FlippedBit
<1>3. QED
  BY <1>1, <1>2 DEF m

\* A token has as many seconds as its stream has KB, give or take 20, unless
\* that many nanoseconds do not fit the word.
LEMMA ExpiryBounds ==
    ASSUME NEW size \in Nat
    PROVE  LET kb == size \div Kilo
           IN  /\ Expiry(size) \in Int
               /\ Expiry(size) <= kb + 20
               /\ (kb + 20) * Second < WordSize \div 2 => Expiry(size) >= kb - 20
<1> DEFINE kb == size \div Kilo
           f == FlipBit(FlipBit(kb, 4), 16)
           duration == (f * Second) % WordSize
           signed == IF duration < WordSize \div 2 THEN duration ELSE duration - WordSize
<1>1. /\ Kilo \in Nat \ {0} /\ Second \in Nat \ {0}
      /\ WordSize \in Nat \ {0} /\ WordSize \div 2 \in Nat /\ WordSize \div 2 <= WordSize
  BY PaidTokensAssumption
<1>2. kb \in Nat
  BY <1>1
<1> HIDE DEF kb
<1>3. f \in Nat /\ f <= kb + 20 /\ f >= kb - 20
  BY <1>2, FlippedBits
<1> HIDE DEF f
<1>4. f * Second \in Nat
  BY <1>1, <1>3
<1>5. duration \in Nat /\ duration <= f * Second /\ duration < WordSize
  BY <1>1, <1>4
<1>6. f * Second < WordSize => duration = f * Second
  BY <1>1, <1>4
<1> HIDE DEF duration
<1>7. signed \in Int /\ signed <= f * Second
  BY <1>1, <1>4, <1>5
<1>8. f * Second < WordSize \div 2 => signed = f * Second
  BY <1>1, <1>4, <1>6
<1> HIDE DEF signed
<1>9. Expiry(size) = signed \div Second
  BY DEF Expiry, signed, duration, f, kb
<1>10. signed \div Second \in Int /\ signed \div Second <= f
  BY <1>1, <1>3, <1>7, Quotient
<1>11. ASSUME (kb + 20) * Second < WordSize \div 2
       PROVE  signed \div Second = f
  <2>1. f * Second <= (kb + 20) * Second
    BY <1>1, <1>2, <1>3
  <2>2. f * Second < WordSize \div 2
    BY <1>1, <1>2, <1>4, <1>11, <2>1
  <2>3. QED
    BY <1>1, <1>3, <1>8, <2>2, QuotientOfProduct
<1>12. QED
  BY <1>2, <1>3, <1>9, <1>10, <1>11 DEF kb

\* The tokens that the API makes are tokens.
LEMMA TokenType ==
    ASSUME apiKey \in KeyPairs, NEW own \in BOOLEAN, NEW size \in Sizes
    PROVE  Token(own, size) \in Tokens
<1>1. size \in Nat
  BY ServerAssumption
<1>2. Expiry(size) \in Int
  BY <1>1, ExpiryBounds
<1>3. QED
  BY <1>2 DEF Token, Tokens

LEMMA AgedType ==
    ASSUME NEW t \in Tokens \cup {None, Malformed}
    PROVE  Aged(t) \in Tokens \cup {None, Malformed}
  BY DEF Aged, IsToken, Tokens

\* Time that is left grows less, and a deadline that is none stays none.
LEMMA LessType ==
    ASSUME NEW m \in Nat \cup {NoDeadline}
    PROVE  /\ Less(m) \in Nat \cup {NoDeadline}
           /\ m \in Nat => Less(m) \in Nat /\ Less(m) <= m
           /\ m > 0 => Less(m) = m - 1
           /\ ~(m > 0) => Less(m) = m
  BY DEF Less, NoDeadline

-----------------------------------------------------------------------------
(* The inductive invariant.                                                 *)

LEMMA InitInv == Init => Inv
<1>1. StopWait \in Nat /\ StreamWriteTimeout \in Nat /\ WriteTimeout \in Nat
      /\ Paid \subseteq Requests
  BY ServerAssumption
<1>2. QED
  BY <1>1 DEF Init, Inv, TypeOK, Phases, RequestPcs, Allowed, StartsInOrder, StopsInOrder,
              Stopping, PlayedRight, StreamsOutliveWriteTimeout, PaidNeedsToken

\* Whatever ends the process, nothing is left of it.
LEMMA ExitInv ==
    ASSUME Inv, Exit
    PROVE  Inv'
<1>1. StopWait \in Nat /\ StreamWriteTimeout \in Nat /\ WriteTimeout \in Nat
      /\ Paid \subseteq Requests
  BY ServerAssumption
<1>2. TypeOK'
  BY <1>1 DEF Exit, Inv, TypeOK, Phases, RequestPcs
<1>3. StartsInOrder' /\ StopsInOrder'
  BY DEF Exit, StartsInOrder, StopsInOrder, Stopping
<1>4. PlayedRight' /\ StreamsOutliveWriteTimeout' /\ PaidNeedsToken'
  BY <1>1 DEF Exit, PlayedRight, StreamsOutliveWriteTimeout, PaidNeedsToken, Allowed
<1>5. QED
  BY <1>2, <1>3, <1>4 DEF Inv

\* A step of the process that leaves the requests alone, and takes another key
\* only when there are none.
LEMMA ProcessStepInv ==
    ASSUME Inv, UNCHANGED <<requests, apiKey>>,
           phase' \in Phases,
           listener' \in {"none", "starting", "serving", "closing", "closed"},
           blobs' \subseteq {"peer", "http3", "http"},
           wait' \in 0 .. StopWait,
           pubKM' \in KeyPairs \cup {None},
           pubKM' = pubKM \/ \A r \in Requests : pc[r] = "idle",
           StartsInOrder', StopsInOrder'
    PROVE  Inv'
<1>1. TypeOK' /\ PlayedRight' /\ StreamsOutliveWriteTimeout'
  BY DEF Inv, TypeOK, requests, PlayedRight, StreamsOutliveWriteTimeout
<1>2. PaidNeedsToken'
  BY ServerAssumption DEF Inv, PaidNeedsToken, requests, Allowed
<1>3. QED
  BY <1>1, <1>2 DEF Inv

\* The main goroutine, from the start of the process to its end.
LEMMA RunInv ==
    ASSUME Inv, Run \/ Exec
    PROVE  Inv'
<1> USE DEF Inv, TypeOK, Phases, StartsInOrder, StopsInOrder, Stopping, requests, keys, Busy
<1>1. CASE Exec
  BY <1>1, ProcessStepInv DEF Exec
<1>2. CASE initPubkey
  <2>1. CASE Exit
    BY <2>1, ExitInv
  <2>2. CASE InitPubKey /\ phase' = "stores" /\ UNCHANGED <<listener, blobs, wait, requests>>
    <3>1. listener = "none" /\ \A r \in Requests : pc[r] = "idle"
      BY <1>2 DEF initPubkey
    <3>2. QED
      BY <1>2, <2>2, <3>1, ProcessStepInv DEF initPubkey, InitPubKey
  <2>3. QED
    BY <1>2, <2>1, <2>2 DEF initPubkey
<1>3. ASSUME NEW s \in Settings, Configure(s)
      PROVE  Inv'
  <2>1. CASE Exit
    BY <2>1, ExitInv
  <2>2. CASE phase' = "start" /\ UNCHANGED <<listener, blobs, wait, requests, keys>>
    BY <1>3, <2>2, ProcessStepInv DEF Configure
  <2>3. QED
    BY <1>3, <2>1, <2>2 DEF Configure
<1>4. CASE Start
  BY <1>4, ProcessStepInv DEF Start
<1>5. CASE StartBlobServer
  <2>1. CASE Exit
    BY <2>1, ExitInv
  <2>2. CASE ~Exit
    <3>1. PICK k \in DOMAIN BlobServers :
            /\ blobs' = blobs \cup {BlobServers[k]}
            /\ phase' = IF k = Len(BlobServers) THEN "notify" ELSE "blobs"
            /\ UNCHANGED <<listener, wait, requests, keys>>
      BY <1>5, <2>2 DEF StartBlobServer
    <3>2. BlobServers[k] \in {"peer", "http3", "http"}
      BY DEF BlobServers
    <3>3. QED
      BY <1>5, <3>1, <3>2, ProcessStepInv DEF StartBlobServer
  <2>3. QED
    BY <2>1, <2>2
<1>6. CASE Notify
  BY <1>6, ProcessStepInv DEF Notify
<1>7. CASE Receive
  BY <1>7, ProcessStepInv DEF Receive
<1>8. CASE BeginShutdown
  <2>1. StopWait \in 0 .. StopWait
    BY ServerAssumption
  <2>2. QED
    BY <1>8, <2>1, ProcessStepInv DEF BeginShutdown
<1>9. CASE ShutdownReturns
  BY <1>9, ProcessStepInv DEF ShutdownReturns
<1>10. CASE StopBlobServer
  BY <1>10, ProcessStepInv DEF StopBlobServer
<1>11. CASE ReturnFromRun
  BY <1>11, ExitInv DEF ReturnFromRun
<1>12. QED
  BY <1>1, <1>2, <1>3, <1>4, <1>5, <1>6, <1>7, <1>8, <1>9, <1>10, <1>11 DEF Run

\* The goroutine of the HTTP server, signals, and a new pair of keys.
LEMMA AroundRunInv ==
    ASSUME Inv,
           \/ Listen \/ ServeEnds \/ Signal
           \/ \E k \in KeyPairs : Rotate(k) /\ UNCHANGED <<main, requests>>
    PROVE  Inv'
<1> USE DEF Inv, TypeOK, Phases, StartsInOrder, StopsInOrder, Stopping, requests, keys, main, Busy
<1>1. CASE Listen
  <2>1. CASE Exit
    BY <2>1, ExitInv
  <2>2. CASE ~Exit
    BY <1>1, <2>2, ProcessStepInv DEF Listen
  <2>3. QED
    BY <2>1, <2>2
<1>2. CASE ServeEnds
  BY <1>2, ProcessStepInv DEF ServeEnds
<1>3. CASE Signal
  <2>1. CASE Exit
    BY <2>1, ExitInv
  <2>2. CASE ~Exit
    BY <1>3, <2>2, ProcessStepInv DEF Signal
  <2>3. QED
    BY <2>1, <2>2
<1>4. ASSUME NEW k \in KeyPairs, Rotate(k) /\ UNCHANGED <<main, requests>>
      PROVE  Inv'
  BY <1>4 DEF Rotate, PlayedRight, StreamsOutliveWriteTimeout, PaidNeedsToken
<1>5. QED
  BY <1>1, <1>2, <1>3, <1>4

\* A step of request r, that is in order if the listener serves whoever
\* connects, if nobody connects in a shutdown, and if r keeps its time and
\* shows its token.
LEMMA RequestStepInv ==
    ASSUME Inv, NEW r \in Requests, UNCHANGED <<main, keys>>,
           NEW l \in RequestPcs,
           NEW t \in Nat \cup {NoDeadline},
           NEW n \in 0 .. StreamWriteTimeout,
           NEW d \in BOOLEAN,
           NEW k \in Tokens \cup {None, Malformed},
           pc' = [pc EXCEPT ![r] = l],
           timer' = [timer EXCEPT ![r] = t],
           played' = [played EXCEPT ![r] = n],
           late' = [late EXCEPT ![r] = d],
           token' = [token EXCEPT ![r] = k],
           l # "idle" => pc[r] # "idle" \/ listener = "serving",
           l \notin {"idle", "cut"} => pc[r] \notin {"idle", "cut"} \/ listener = "serving",
           l \notin {"playing", "cut"} => n = 0,
           r \in Fragments /\ WriteTimeout > 0 => t \in 0 .. WriteTimeout,
           r \in Fragments => l # "preparing",
           r \notin Fragments /\ l = "playing" => t \in Nat /\ t + n >= StreamWriteTimeout,
           r \notin Fragments /\ l = "cut" => n = StreamWriteTimeout,
           r \in Paid /\ l \in Allowed =>
              /\ r \notin Fragments /\ IsToken(k)
              /\ k.own /\ k.signer = pubKM
              /\ k.left > 0 \/ d
    PROVE  Inv'
<1>1. TypeOK'
  BY DEF Inv, TypeOK, main, keys
<1>2. StartsInOrder'
  BY DEF Inv, TypeOK, StartsInOrder, main
<1>3. StopsInOrder'
  BY DEF Inv, TypeOK, StopsInOrder, Stopping, Busy, main
<1>4. PlayedRight'
  BY DEF Inv, TypeOK, PlayedRight
<1>5. StreamsOutliveWriteTimeout'
  BY DEF Inv, TypeOK, StreamsOutliveWriteTimeout
<1>6. PaidNeedsToken'
  BY ServerAssumption DEF Inv, TypeOK, PaidNeedsToken, keys
<1>7. QED
  BY <1>1, <1>2, <1>3, <1>4, <1>5, <1>6 DEF Inv

\* VerifyAccess lets the purchase through that PaidNeedsToken speaks of.
LEMMA VerifiedRight ==
    ASSUME NEW r \in Paid, VerifyAccess(r) = "ok",
           token[r] \in Tokens \cup {None, Malformed}
    PROVE  /\ r \notin Fragments /\ IsToken(token[r])
           /\ token[r].own /\ token[r].signer = pubKM /\ token[r].left > 0
<1>1. r \notin Fragments /\ token[r] # None /\ VerifyStreamAccess(token[r]) = "ok"
  BY DEF VerifyAccess
<1>2. token[r] # Malformed /\ pubKM # None
  BY <1>1 DEF VerifyStreamAccess
<1>3. token[r] \in Tokens
  BY <1>1, <1>2
<1>4. token[r].signer = pubKM /\ token[r].left > 0 /\ token[r].own
  BY <1>1, <1>2, <1>3 DEF VerifyStreamAccess, Tokens
<1>5. QED
  BY <1>1, <1>2, <1>4 DEF IsToken

LEMMA ServeInv ==
    ASSUME Inv, NEW r \in Requests, Serve(r)
    PROVE  Inv'
<1> USE DEF main, keys
<1>1. StreamWriteTimeout \in Nat /\ WriteTimeout \in Nat
  BY ServerAssumption
<1>2. /\ pc \in [Requests -> RequestPcs]
      /\ timer \in [Requests -> Nat \cup {NoDeadline}]
      /\ played \in [Requests -> 0 .. StreamWriteTimeout]
      /\ late \in [Requests -> BOOLEAN]
      /\ token \in [Requests -> Tokens \cup {None, Malformed}]
      /\ apiKey \in KeyPairs
  BY DEF Inv, TypeOK
<1>3. /\ pc[r] \notin {"playing", "cut"} => played[r] = 0
      /\ r \in Fragments /\ WriteTimeout > 0 => timer[r] \in 0 .. WriteTimeout
      /\ r \in Fragments => pc[r] # "preparing"
      /\ r \notin Fragments /\ pc[r] = "playing" =>
            timer[r] \in Nat /\ timer[r] + played[r] >= StreamWriteTimeout
      /\ r \notin Fragments /\ pc[r] = "cut" => played[r] = StreamWriteTimeout
      /\ r \in Paid /\ pc[r] \in Allowed =>
            /\ r \notin Fragments /\ IsToken(token[r])
            /\ token[r].own /\ token[r].signer = pubKM
            /\ token[r].left > 0 \/ late[r]
  BY DEF Inv, PlayedRight, StreamsOutliveWriteTimeout, PaidNeedsToken
<1>4. /\ pc = [pc EXCEPT ![r] = pc[r]]
      /\ timer = [timer EXCEPT ![r] = timer[r]]
      /\ played = [played EXCEPT ![r] = played[r]]
      /\ late = [late EXCEPT ![r] = late[r]]
      /\ token = [token EXCEPT ![r] = token[r]]
      /\ pc[r] \in RequestPcs /\ timer[r] \in Nat \cup {NoDeadline}
      /\ played[r] \in 0 .. StreamWriteTimeout /\ late[r] \in BOOLEAN
      /\ token[r] \in Tokens \cup {None, Malformed}
  BY <1>2
<1>5. /\ \A l \in Allowed : l \in RequestPcs /\ l \notin {"idle", "connected", "handling"}
      /\ {"idle", "connected", "handling"} \subseteq RequestPcs
      /\ "allowed" \in Allowed /\ "preparing" \in Allowed
      /\ "playing" \in Allowed /\ "cut" \in Allowed
  BY DEF RequestPcs, Allowed
\* Some other token, before a request.
<1>6. ASSUME NEW k \in Tokens \cup {None, Malformed}, pc[r] = "idle",
             token' = [token EXCEPT ![r] = k],
             UNCHANGED <<main, pc, timer, played, late, keys>>
      PROVE  Inv'
  <2>1. /\ "idle" \in RequestPcs /\ "idle" \notin Allowed
        /\ pc' = [pc EXCEPT ![r] = "idle"]
        /\ timer' = [timer EXCEPT ![r] = timer[r]]
        /\ played' = [played EXCEPT ![r] = played[r]] /\ played[r] = 0
        /\ late' = [late EXCEPT ![r] = late[r]]
        /\ token' = [token EXCEPT ![r] = k]
        /\ UNCHANGED <<main, keys>>
    BY <1>3, <1>4, <1>5, <1>6
  <2>2. r \in Fragments /\ WriteTimeout > 0 => timer[r] \in 0 .. WriteTimeout
    BY <1>3
  <2>3. timer[r] \in Nat \cup {NoDeadline} /\ late[r] \in BOOLEAN
        /\ played[r] \in 0 .. StreamWriteTimeout
    BY <1>4
  <2>4. k \in Tokens \cup {None, Malformed}
    BY <1>6
  <2>5. QED
    BY <2>1, <2>2, <2>3, <2>4, RequestStepInv
<1>7. ASSUME NEW own \in BOOLEAN, NEW size \in Sizes, Buy(r, own, size)
      PROVE  Inv'
  <2>1. Token(own, size) \in Tokens
    BY <1>2, TokenType
  <2>2. QED
    BY <1>6, <1>7, <2>1 DEF Buy
<1>8. CASE BringMalformed(r)
  BY <1>6, <1>8 DEF BringMalformed
\* The request goes on, on the same deadline.
<1>9. ASSUME NEW l \in RequestPcs \ {"idle"}, pc' = [pc EXCEPT ![r] = l],
             pc[r] \notin {"idle", "cut"} \/ listener = "serving",
             pc[r] = "cut" => l = "cut",
             l = "preparing" => r \notin Fragments,
             l = "playing" => r \in Fragments,
             pc[r] = "playing" => l = "cut",
             r \notin Fragments /\ l = "cut" => played[r] = StreamWriteTimeout,
             r \in Paid /\ l \in Allowed =>
                /\ r \notin Fragments /\ IsToken(token[r])
                /\ token[r].own /\ token[r].signer = pubKM
                /\ token[r].left > 0 \/ late[r],
             UNCHANGED <<main, timer, token, played, late, keys>>
      PROVE  Inv'
  <2>1. l \notin {"playing", "cut"} => played[r] = 0
    BY <1>3, <1>9
  <2>2. /\ l \in RequestPcs
        /\ timer' = [timer EXCEPT ![r] = timer[r]]
        /\ played' = [played EXCEPT ![r] = played[r]]
        /\ late' = [late EXCEPT ![r] = late[r]]
        /\ token' = [token EXCEPT ![r] = token[r]]
        /\ UNCHANGED <<main, keys>>
    BY <1>4, <1>9
  <2>3. /\ l # "idle" => pc[r] # "idle" \/ listener = "serving"
        /\ l \notin {"idle", "cut"} => pc[r] \notin {"idle", "cut"} \/ listener = "serving"
    BY <1>9
  <2>4. /\ r \in Fragments /\ WriteTimeout > 0 => timer[r] \in 0 .. WriteTimeout
        /\ r \in Fragments => l # "preparing"
        /\ r \notin Fragments => l # "playing"
        /\ r \notin Fragments /\ l = "cut" => played[r] = StreamWriteTimeout
        /\ r \in Paid /\ l \in Allowed =>
              /\ r \notin Fragments /\ IsToken(token[r])
              /\ token[r].own /\ token[r].signer = pubKM
              /\ token[r].left > 0 \/ late[r]
    BY <1>3, <1>9
  <2>5. pc' = [pc EXCEPT ![r] = l]
    BY <1>9
  <2>6. QED
    BY <1>4, <2>1, <2>2, <2>3, <2>4, <2>5, RequestStepInv
<1>10. CASE Accept(r)
  BY <1>5, <1>9, <1>10 DEF Accept
<1>11. CASE ReadRequest(r)
  <2> DEFINE t == IF WriteTimeout = 0 THEN NoDeadline ELSE WriteTimeout
  <2>1. /\ t \in Nat \cup {NoDeadline}
        /\ WriteTimeout > 0 => t \in 0 .. WriteTimeout
    BY <1>1
  <2>2. /\ pc[r] = "connected" /\ "handling" \in RequestPcs /\ "handling" \notin Allowed
        /\ pc' = [pc EXCEPT ![r] = "handling"]
        /\ timer' = [timer EXCEPT ![r] = t]
        /\ played' = [played EXCEPT ![r] = played[r]] /\ played[r] = 0
        /\ late' = [late EXCEPT ![r] = late[r]]
        /\ token' = [token EXCEPT ![r] = token[r]]
        /\ UNCHANGED <<main, keys>>
    BY <1>3, <1>4, <1>5, <1>11 DEF ReadRequest
  <2> HIDE DEF t
  <2>3. QED
    BY <1>4, <2>1, <2>2, RequestStepInv
<1>12. CASE Hangup(r) \/ Refuse(r) \/ Deny(r) \/ Dismiss(r) \/ PlayEnds(r)
  <2>1. /\ pc' = [pc EXCEPT ![r] = "idle"]
        /\ timer' = [timer EXCEPT ![r] = 0]
        /\ played' = [played EXCEPT ![r] = 0]
        /\ late' = [late EXCEPT ![r] = FALSE]
        /\ UNCHANGED <<main, token, keys>>
    BY <1>12 DEF Hangup, Refuse, Deny, Dismiss, PlayEnds, Answer
  <2>2. /\ 0 \in Nat \cup {NoDeadline} /\ 0 \in 0 .. StreamWriteTimeout
        /\ 0 \in 0 .. WriteTimeout /\ "idle" \notin Allowed
    BY <1>1, <1>5
  <2>3. QED
    BY <1>4, <1>5, <2>1, <2>2, RequestStepInv
<1>13. CASE Allow(r)
  <2>1. r \in Paid => /\ r \notin Fragments /\ IsToken(token[r])
                      /\ token[r].own /\ token[r].signer = pubKM /\ token[r].left > 0
    BY <1>4, <1>13, VerifiedRight DEF Allow
  <2>2. QED
    BY <1>5, <1>9, <1>13, <2>1 DEF Allow
<1>14. CASE Prepare(r)
  BY <1>3, <1>5, <1>9, <1>14 DEF Prepare
<1>15. CASE Play(r)
  <2>1. /\ pc[r] = "preparing" /\ r \notin Fragments
        /\ pc' = [pc EXCEPT ![r] = "playing"]
        /\ timer' = [timer EXCEPT ![r] = StreamWriteTimeout]
        /\ played' = [played EXCEPT ![r] = played[r]] /\ played[r] = 0
        /\ late' = [late EXCEPT ![r] = late[r]]
        /\ token' = [token EXCEPT ![r] = token[r]]
        /\ "playing" \in RequestPcs /\ pc[r] \in Allowed
        /\ UNCHANGED <<main, keys>>
    BY <1>3, <1>4, <1>5, <1>15 DEF Play
  <2>2. StreamWriteTimeout \in Nat /\ StreamWriteTimeout + 0 >= StreamWriteTimeout
    BY <1>1
  <2>3. QED
    BY <1>3, <1>4, <2>1, <2>2, RequestStepInv, ZenonT(60)
<1>16. CASE PlayFragment(r)
  BY <1>3, <1>5, <1>9, <1>16 DEF PlayFragment
<1>17. CASE WriteTimesOut(r)
  <2>1. r \notin Fragments => played[r] = StreamWriteTimeout
    BY <1>1, <1>3, <1>4, <1>17 DEF WriteTimesOut
  <2>2. QED
    BY <1>3, <1>5, <1>9, <1>17, <2>1 DEF WriteTimesOut
<1>18. QED
  BY <1>7, <1>8, <1>10, <1>11, <1>12, <1>13, <1>14, <1>15, <1>16, <1>17 DEF Serve

\* Time takes from what is left what it adds to what has been played.
LEMMA TickInv ==
    ASSUME Inv, Tick
    PROVE  Inv'
<1>1. /\ StreamWriteTimeout \in Nat /\ WriteTimeout \in Nat /\ StopWait \in Nat
      /\ Paid \subseteq Requests
  BY ServerAssumption
<1>2. /\ Less(wait) \in 0 .. StopWait
      /\ wait = 0 => Less(wait) = 0
  BY <1>1 DEF Inv, TypeOK, Less
<1>3. \A r \in Requests :
        /\ Aged(token[r]) \in Tokens \cup {None, Malformed}
        /\ timer[r] \in Nat \cup {NoDeadline}
        /\ Less(timer[r]) \in Nat \cup {NoDeadline}
        /\ timer[r] \in Nat => Less(timer[r]) \in Nat /\ Less(timer[r]) <= timer[r]
        /\ timer[r] > 0 => Less(timer[r]) = timer[r] - 1
        /\ ~(timer[r] > 0) => Less(timer[r]) = timer[r]
        /\ timer'[r] = Less(timer[r])
  BY AgedType, LessType DEF Inv, TypeOK, Tick
<1>4. \A r \in Requests :
        /\ pc[r] # "playing" => played'[r] = played[r]
        /\ pc[r] = "playing" /\ played[r] < StreamWriteTimeout => played'[r] = played[r] + 1
        /\ pc[r] = "playing" /\ ~(played[r] < StreamWriteTimeout) => played'[r] = played[r]
        /\ played[r] \in 0 .. StreamWriteTimeout
  BY DEF Inv, TypeOK, Tick
<1>5. TypeOK'
  <2>1. played' \in [Requests -> 0 .. StreamWriteTimeout]
    BY <1>1, <1>4 DEF Tick
  <2>2. late' \in [Requests -> BOOLEAN]
    BY DEF Tick
  <2>3. QED
    BY <1>2, <1>3, <2>1, <2>2 DEF Inv, TypeOK, Tick, keys
<1>6. StartsInOrder' /\ StopsInOrder'
  BY <1>2 DEF Inv, Tick, StartsInOrder, StopsInOrder, Stopping, Busy
<1>7. PlayedRight'
  <2> SUFFICES ASSUME NEW r \in Requests
               PROVE  /\ pc[r] \notin {"playing", "cut"} => played'[r] = 0
                      /\ r \in Fragments /\ WriteTimeout > 0 => timer'[r] \in 0 .. WriteTimeout
                      /\ r \in Fragments => pc[r] # "preparing"
                      /\ r \notin Fragments /\ pc[r] = "playing" =>
                            timer'[r] \in Nat /\ timer'[r] + played'[r] >= StreamWriteTimeout
    BY DEF Tick, PlayedRight
  <2>1. /\ pc[r] \notin {"playing", "cut"} => played'[r] = 0
        /\ r \in Fragments => pc[r] # "preparing"
    BY <1>4 DEF Inv, PlayedRight
  <2>2. ASSUME r \in Fragments, WriteTimeout > 0
        PROVE  timer'[r] \in 0 .. WriteTimeout
    <3>1. timer[r] \in 0 .. WriteTimeout
      BY <2>2 DEF Inv, PlayedRight
    <3>2. QED
      BY <1>1, <1>3, <3>1
  <2>3. ASSUME r \notin Fragments, pc[r] = "playing"
        PROVE  timer'[r] \in Nat /\ timer'[r] + played'[r] >= StreamWriteTimeout
    <3>1. timer[r] \in Nat /\ timer[r] + played[r] >= StreamWriteTimeout
      BY <2>3 DEF Inv, PlayedRight
    <3>2. QED
      BY <1>1, <1>3, <1>4, <2>3, <3>1
  <2>4. QED
    BY <2>1, <2>2, <2>3
<1>8. StreamsOutliveWriteTimeout'
  <2> SUFFICES ASSUME NEW r \in Requests
               PROVE  IF r \in Fragments
                      THEN pc[r] = "playing" /\ WriteTimeout > 0 => timer'[r] \in 0 .. WriteTimeout
                      ELSE pc[r] = "cut" => played'[r] = StreamWriteTimeout
    BY DEF Tick, StreamsOutliveWriteTimeout
  <2>1. CASE r \in Fragments
    BY <1>7, <2>1 DEF PlayedRight
  <2>2. CASE r \notin Fragments
    BY <1>4, <2>2 DEF Inv, StreamsOutliveWriteTimeout
  <2>3. QED
    BY <2>1, <2>2
\* A token that grows old stays what it is, and is late if it was seen.
<1>9. PaidNeedsToken'
  <2> SUFFICES ASSUME NEW r \in Paid, pc[r] \in Allowed
               PROVE  /\ r \notin Fragments
                      /\ IsToken(token'[r])
                      /\ token'[r].own /\ token'[r].signer = pubKM
                      /\ late'[r]
    BY DEF Tick, PaidNeedsToken, keys
  <2>1. r \in Requests
    BY <1>1
  <2>2. /\ r \notin Fragments /\ IsToken(token[r])
        /\ token[r].own /\ token[r].signer = pubKM
    BY DEF Inv, PaidNeedsToken
  <2>3. token[r] \in Tokens
    BY <2>1, <2>2 DEF Inv, TypeOK, IsToken
  <2>4. /\ Aged(token[r]) \in [signer : KeyPairs, own : BOOLEAN, left : Nat]
        /\ Aged(token[r]).own = token[r].own /\ Aged(token[r]).signer = token[r].signer
    BY <2>3 DEF Aged, Tokens
  <2>5. QED
    BY <2>1, <2>2, <2>4, NoTokenAssumption DEF Tick, IsToken, Tokens
<1>10. QED
  BY <1>5, <1>6, <1>7, <1>8, <1>9 DEF Inv

LEMMA NextInv == Inv /\ [Next]_vars => Inv'
<1> SUFFICES ASSUME Inv, [Next]_vars PROVE Inv'
  OBVIOUS
<1>1. CASE UNCHANGED vars
  BY <1>1 DEF vars, Inv, TypeOK, StartsInOrder, StopsInOrder, Stopping, Busy, PlayedRight,
              StreamsOutliveWriteTimeout, PaidNeedsToken
<1>2. ASSUME NEW r \in Requests, Serve(r) PROVE Inv'
  BY <1>2, ServeInv
<1>3. QED
  BY <1>1, <1>2, RunInv, AroundRunInv, TickInv DEF Next

-----------------------------------------------------------------------------
\* Inv holds in every reachable state, for any requests, settings and limits.
THEOREM Invariance == Spec => []Inv
  BY InitInv, NextInv, PTL DEF Spec

\* The variables keep their types.
THEOREM TypeCorrect == Spec => []TypeOK
<1>1. Inv => TypeOK
  BY DEF Inv
<1>2. QED
  BY <1>1, Invariance, PTL

\* A stream is never cut off before it has played for as long as streams may,
\* and a fragment never has more time than the server gives to a request.
THEOREM StreamsOutlive == Spec => []StreamsOutliveWriteTimeout
<1>1. Inv => StreamsOutliveWriteTimeout
  BY DEF Inv
<1>2. QED
  BY <1>1, Invariance, PTL

\* What is paid for is played, and prepared, for those only who have brought a
\* right token, which this process has found unexpired with the key it has.
THEOREM PaidIsPaid == Spec => []PaidNeedsToken
<1>1. Inv => PaidNeedsToken
  BY DEF Inv
<1>2. QED
  BY <1>1, Invariance, PTL

-----------------------------------------------------------------------------
(* The action properties.                                                   *)

\* The process ends under a request only while the servers for blobs start, or
\* when the time of a shutdown is over.
LEMMA EndIsGraceful ==
    ASSUME Inv, Next, NEW r \in Requests, Busy(r), phase # "down", phase' = "down"
    PROVE  phase \in {"blobs", "notify"} \/ (phase = "close" /\ wait = 0)
<1>1. listener \notin {"none", "starting"}
  BY DEF Inv, StartsInOrder, Busy
<1>2. phase \notin {"pubkey", "stores", "start"}
  BY <1>1 DEF Inv, StartsInOrder
<1>3. phase = "close" => wait = 0
  BY DEF Inv, StopsInOrder
<1>4. ASSUME NEW s \in Requests, Serve(s) PROVE FALSE
  BY <1>4 DEF Serve, Buy, BringMalformed, Accept, ReadRequest, Hangup, Refuse, Deny, Allow,
              Dismiss, Prepare, Play, PlayFragment, PlayEnds, WriteTimesOut, Answer, main
<1>5. ~Tick /\ ~(\E k \in KeyPairs : Rotate(k) /\ UNCHANGED <<main, requests>>)
  BY DEF Tick, main
<1>6. ~Exec
  BY DEF Exec
<1>7. ~Listen /\ ~ServeEnds
  BY <1>1 DEF Listen, ServeEnds
<1>8. CASE Signal
  BY <1>2, <1>8 DEF Signal
<1>9. CASE Run
  <2>1. ~initPubkey /\ ~Start /\ ~(\E s \in Settings : Configure(s))
    BY <1>2 DEF initPubkey, Start, Configure
  <2>2. CASE StartBlobServer
    BY <2>2 DEF StartBlobServer
  <2>3. ~Notify /\ ~Receive /\ ~BeginShutdown /\ ~ShutdownReturns /\ ~StopBlobServer
    BY DEF Notify, Receive, BeginShutdown, ShutdownReturns, StopBlobServer
  <2>4. CASE ReturnFromRun
    BY <1>3, <2>4 DEF ReturnFromRun
  <2>5. QED
    BY <1>9, <2>1, <2>2, <2>3, <2>4 DEF Run
<1>10. QED
  BY <1>4, <1>5, <1>6, <1>7, <1>8, <1>9 DEF Next

\* Once the start is over no request is cut off by the end of the process
\* before it has been given all the time there is.
THEOREM Graceful == Spec => ShutdownIsGraceful
<1>1. Inv /\ [Next]_vars =>
          [\A r \in Requests :
              Busy(r) /\ phase # "down" /\ phase' = "down" =>
                  \/ phase \in {"blobs", "notify"}
                  \/ phase = "close" /\ wait = 0]_vars
  BY EndIsGraceful
<1>2. QED
  BY <1>1, Invariance, PTL DEF Spec, ShutdownIsGraceful

\* To be served in a shutdown one must have been accepted before it.
LEMMA NobodyIsAccepted ==
    ASSUME Inv, Next, NEW r \in Requests, Stopping, ~Busy(r)
    PROVE  ~Busy(r)'
<1>1. listener # "serving"
  BY DEF Inv, StopsInOrder
<1>2. pc \in [Requests -> RequestPcs]
  BY DEF Inv, TypeOK
<1>3. ASSUME NEW s \in Requests, Serve(s) PROVE ~Busy(r)'
  BY <1>1, <1>2, <1>3
     DEF Serve, Busy, Buy, BringMalformed, Accept, ReadRequest, Hangup, Refuse, Deny, Allow,
         Dismiss, Prepare, Play, PlayFragment, PlayEnds, WriteTimesOut, Answer
<1>4. CASE Exit
  BY <1>4 DEF Exit, Busy
<1>5. CASE ~Exit /\ (Exec \/ Run)
  BY <1>2, <1>5
     DEF Run, Exec, initPubkey, Configure, Start, StartBlobServer, Notify, Receive,
         BeginShutdown, ShutdownReturns, StopBlobServer, ReturnFromRun, requests, Busy
<1>6. CASE ~Exit /\ (Listen \/ ServeEnds \/ Signal \/ Tick)
  BY <1>2, <1>6 DEF Listen, ServeEnds, Signal, Tick, requests, Busy
<1>7. CASE \E k \in KeyPairs : Rotate(k) /\ UNCHANGED <<main, requests>>
  BY <1>7 DEF requests, Busy
<1>8. QED
  BY <1>3, <1>4, <1>5, <1>6, <1>7 DEF Next

\* After Shutdown nobody is accepted, however late the server's goroutine
\* listens, and whoever was is done by the time the servers for blobs stop, or
\* has had the time there is.
THEOREM NothingNew == Spec => NothingNewAfterShutdown
<1>1. ASSUME Inv, NEW r \in Requests, phase = "close", wait > 0
      PROVE  ~Busy(r)
  BY <1>1 DEF Inv, StopsInOrder
<1>2. Inv /\ [Next]_vars =>
          [\A r \in Requests :
              /\ Stopping /\ ~Busy(r) => ~Busy(r)'
              /\ phase = "close" /\ wait > 0 => ~Busy(r)]_vars
  BY <1>1, NobodyIsAccepted
<1>3. QED
  BY <1>2, Invariance, PTL DEF Spec, NothingNewAfterShutdown

\* The expiry of a token is right within 20 seconds in what unit it is in,
\* for any size that does not overflow the word.
THEOREM ExpiryIsInKilobytes == Spec => ExpiryInKilobytes
<1>1. ASSUME Inv, NEW r \in Paid, NEW own \in BOOLEAN, NEW size \in Sizes, Buy(r, own, size)
      PROVE  LET kb == size \div Kilo
             IN  /\ token'[r].left <= kb + 20
                 /\ (kb + 20) * Second < WordSize \div 2 => token'[r].left >= kb - 20
  <2> DEFINE kb == size \div Kilo
  <2>1. size \in Nat /\ Kilo \in Nat \ {0} /\ r \in Requests
    BY ServerAssumption, PaidTokensAssumption
  <2>2. kb \in Nat
    BY <2>1
  <2>3. /\ Expiry(size) \in Int
        /\ Expiry(size) <= kb + 20
        /\ (kb + 20) * Second < WordSize \div 2 => Expiry(size) >= kb - 20
    BY <2>1, ExpiryBounds
  <2>4. token'[r].left = IF Expiry(size) > 0 THEN Expiry(size) ELSE 0
    BY <1>1, <2>1 DEF Buy, Token, Inv, TypeOK
  <2> HIDE DEF kb
  <2>5. QED
    BY <2>2, <2>3, <2>4 DEF kb
<1>2. Inv /\ [Next]_vars =>
        [\A r \in Paid : token'[r] # token[r] =>
           \A own \in BOOLEAN, size \in Sizes : Buy(r, own, size) =>
             LET kb == size \div Kilo
             IN  /\ token'[r].left <= kb + 20
                 /\ (kb + 20) * Second < WordSize \div 2 => token'[r].left >= kb - 20]_vars
  BY <1>1
<1>3. QED
  BY <1>2, Invariance, PTL DEF Spec, ExpiryInKilobytes
=============================================================================
