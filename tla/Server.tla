------------------------------- MODULE Server -------------------------------
(***************************************************************************)
(* cmd/main.go and pkg/app/app.go: the life of the process, from its start *)
(* to the end of a graceful shutdown, and what it does to the requests     *)
(* that are being served meanwhile.                                        *)
(*                                                                         *)
(* The main goroutine starts everything and then waits for a signal; the   *)
(* HTTP server has a goroutine of its own, and every request another.  A   *)
(* signal that comes before signal.Notify kills the process; one that      *)
(* comes when nobody receives from the channel, which has no buffer, is    *)
(* dropped.  Logger.Fatal, in either goroutine, kills the process as well. *)
(*                                                                         *)
(* A request is represented by the deadlines of its connection and by the  *)
(* token it has, if its stream is paid; the checks it goes through are in  *)
(* RequestHandler, the body in Stream.  Time is counted in seconds that    *)
(* are long: the constants keep the order of the code's, not their size.   *)
(***************************************************************************)
EXTENDS PaidTokens, Sequences

CONSTANTS
    Requests,            \* connections, one request each at a time
    Paid,                \* those whose stream is paid for
    Fragments,           \* those for a fragment from the transcoder
    Sizes,               \* sizes of streams that are bought
    Settings,            \* command lines: records [upstream, disk, hot]
    BlobSize,            \* bytes of a blob
    StopWait,            \* App.stopWait, 15 s
    WriteTimeout,        \* the server's, 15 s; 0 is none
    StreamWriteTimeout   \* that of a stream, a day; 0 is none at all

ASSUME ServerAssumption ==
    /\ Paid \subseteq Requests /\ Fragments \subseteq Requests
    /\ Sizes \subseteq Nat
    /\ Settings \subseteq [upstream : BOOLEAN, disk : Nat, hot : Nat]
    /\ BlobSize \in Nat \ {0}
    /\ StopWait \in Nat /\ WriteTimeout \in Nat /\ StreamWriteTimeout \in Nat

VARIABLES
    phase,     \* where the main goroutine stands
    listener,  \* the HTTP server's goroutine: none, starting, serving, closed
    blobs,     \* the servers for blobs that run
    wait,      \* what is left of the context of Shutdown
    pc,        \* pc[r]: see RequestPcs
    timer,     \* timer[r]: what is left until its connection's write deadline
    token,     \* token[r]: the token that it brings

    played,    \* history: for how long r has been playing
    late       \* history: whether time has passed since r was allowed to play

vars == <<phase, listener, blobs, wait, pc, timer, token, played, late, apiKey, pubKM>>

main == <<phase, listener, blobs, wait>>
requests == <<pc, timer, token, played, late>>

BlobServers == <<"peer", "http3", "http">>

\* VerifyAccess has let r through: Handle asks the transcoder ("allowed"),
\* prepares the stream, and plays it until the end or the deadline.
Allowed == {"allowed", "preparing", "playing", "cut"}
RequestPcs == {"idle", "connected", "handling"} \cup Allowed

\* A connection without a deadline.
NoDeadline == -1

Init ==
    /\ phase = "down"
    /\ listener = "none"
    /\ blobs = {}
    /\ wait = 0
    /\ pc = [r \in Requests |-> "idle"]
    /\ timer = [r \in Requests |-> 0]
    /\ token = [r \in Requests |-> None]
    /\ played = [r \in Requests |-> 0]
    /\ late = [r \in Requests |-> FALSE]
    /\ apiKey \in KeyPairs
    /\ pubKM = None

\* The process ends, by itself or not, and every connection with it.
Exit ==
    /\ phase' = "down"
    /\ listener' = "none"
    /\ blobs' = {}
    /\ wait' = 0
    /\ pubKM' = None
    /\ pc' = [r \in Requests |-> "idle"]
    /\ timer' = [r \in Requests |-> 0]
    /\ played' = [r \in Requests |-> 0]
    /\ late' = [r \in Requests |-> FALSE]
    /\ UNCHANGED <<token, apiKey>>

-----------------------------------------------------------------------------
(* run, up to the point at which the server is ready.                       *)

Exec ==
    /\ phase = "down"
    /\ phase' = "pubkey"
    /\ UNCHANGED <<listener, blobs, wait, requests, keys>>

\* initPubkey: without an answer it is fatal.  Neither is the status looked at
\* nor the error of loadFromBytes.
initPubkey ==
    /\ phase = "pubkey"
    /\ \/ InitPubKey /\ phase' = "stores" /\ UNCHANGED <<listener, blobs, wait, requests>>
       \/ Exit

\* getBlobSource and initHotCache.  A store of blobs is needed; a size of 0 is
\* fatal, and gcache panics when less than one blob fits a cache: that of the
\* disk, if there is one, and the hot one.
CanStart(s) ==
    /\ s.upstream
    /\ s.disk # 0 => s.disk >= BlobSize
    /\ s.hot >= BlobSize

\* run, up to app.New.  A size that does not parse, a protocol that is not known
\* and a directory that cannot be made are fatal too.
Configure(s) ==
    /\ phase = "stores"
    /\ \/ CanStart(s) /\ phase' = "start" /\ UNCHANGED <<listener, blobs, wait, requests, keys>>
       \/ Exit

\* App.Start.
Start ==
    /\ phase = "start"
    /\ phase' = "blobs"
    /\ listener' = "starting"
    /\ UNCHANGED <<blobs, wait, requests, keys>>

Stopping == phase \in {"drain", "close"}

\* Mutant of Listen: a server that has been shut down can still listen.
ListenAnyway ==
    /\ listener = "starting"
    /\ \/ /\ listener' = "serving"
          /\ UNCHANGED <<phase, blobs, wait, requests, keys>>
       \/ Exit

\* ListenAndServe, in its goroutine.  If Shutdown was faster it returns
\* ErrServerClosed; an address that is taken is fatal, whoever was faster.
Listen ==
    /\ listener = "starting"
    /\ \/ /\ listener' = IF Stopping THEN "closed" ELSE "serving"
          /\ UNCHANGED <<phase, blobs, wait, requests, keys>>
       \/ Exit

\* Mutant of ServeEnds: every error of ListenAndServe is fatal.
ServeEndsFatally == listener = "closing" /\ Exit

\* ListenAndServe returns because of Shutdown, an error that is not fatal.
ServeEnds ==
    /\ listener = "closing"
    /\ listener' = "closed"
    /\ UNCHANGED <<phase, blobs, wait, requests, keys>>

\* The servers for blobs, one after the other; a port that is taken is fatal.
StartBlobServer ==
    /\ phase = "blobs"
    /\ \E k \in DOMAIN BlobServers :
        /\ blobs = {BlobServers[j] : j \in 1 .. k - 1}
        /\ \/ /\ blobs' = blobs \cup {BlobServers[k]}
              /\ phase' = IF k = Len(BlobServers) THEN "notify" ELSE "blobs"
              /\ UNCHANGED <<listener, wait, requests, keys>>
           \/ Exit

-----------------------------------------------------------------------------
(* ServeUntilShutdown.                                                      *)

Notify ==
    /\ phase = "notify"
    /\ phase' = "receive"
    /\ UNCHANGED <<listener, blobs, wait, requests, keys>>

Receive ==
    /\ phase = "receive"
    /\ phase' = "waiting"
    /\ UNCHANGED <<listener, blobs, wait, requests, keys>>

\* SIGINT or SIGTERM.  From signal.Notify on it is received or dropped: it
\* changes nothing before the receive, and nothing when it is repeated.
Signal ==
    \/ phase = "waiting" /\ phase' = "caught" /\ UNCHANGED <<listener, blobs, wait, requests, keys>>
    \/ phase \in {"pubkey", "stores", "start", "blobs", "notify"} /\ Exit

\* Shutdown: no more connections are accepted.
BeginShutdown ==
    /\ phase = "caught"
    /\ phase' = "drain"
    /\ wait' = StopWait
    /\ listener' = IF listener = "serving" THEN "closing" ELSE listener
    /\ UNCHANGED <<blobs, requests, keys>>

Busy(r) == pc[r] \notin {"idle", "cut"}

\* Mutant of ShutdownReturns: Shutdown has no deadline.
ShutdownWaits ==
    /\ phase = "drain"
    /\ \A r \in Requests : ~Busy(r)
    /\ phase' = "close"
    /\ UNCHANGED <<listener, blobs, wait, requests, keys>>

\* Shutdown returns when all requests are over, or the time is.
ShutdownReturns ==
    /\ phase = "drain"
    /\ wait = 0 \/ \A r \in Requests : ~Busy(r)
    /\ phase' = "close"
    /\ UNCHANGED <<listener, blobs, wait, requests, keys>>

\* The servers for blobs are shut down, in the order in which they started;
\* then run returns.
StopBlobServer ==
    /\ phase = "close"
    /\ \E k \in DOMAIN BlobServers :
        /\ blobs = {BlobServers[j] : j \in k .. Len(BlobServers)}
        /\ blobs' = blobs \ {BlobServers[k]}
    /\ UNCHANGED <<phase, listener, wait, requests, keys>>

ReturnFromRun == phase = "close" /\ blobs = {} /\ Exit

-----------------------------------------------------------------------------
(* Requests.                                                                *)

\* A token is bought from the API.
Buy(r, own, size) ==
    /\ r \in Paid /\ pc[r] = "idle"
    /\ token' = [token EXCEPT ![r] = Token(own, size)]
    /\ UNCHANGED <<main, pc, timer, played, late, keys>>

BringMalformed(r) ==
    /\ r \in Paid /\ pc[r] = "idle" /\ token[r] # Malformed
    /\ token' = [token EXCEPT ![r] = Malformed]
    /\ UNCHANGED <<main, pc, timer, played, late, keys>>

Accept(r) ==
    /\ pc[r] = "idle"
    /\ listener = "serving"
    /\ pc' = [pc EXCEPT ![r] = "connected"]
    /\ UNCHANGED <<main, timer, token, played, late, keys>>

\* The request is read, also on a connection accepted before a shutdown.
ReadRequest(r) ==
    /\ pc[r] = "connected"
    /\ pc' = [pc EXCEPT ![r] = "handling"]
    /\ timer' = [timer EXCEPT ![r] = IF WriteTimeout = 0 THEN NoDeadline ELSE WriteTimeout]
    /\ UNCHANGED <<main, token, played, late, keys>>

Answer(r) ==
    /\ pc' = [pc EXCEPT ![r] = "idle"]
    /\ timer' = [timer EXCEPT ![r] = 0]
    /\ played' = [played EXCEPT ![r] = 0]
    /\ late' = [late EXCEPT ![r] = FALSE]
    /\ UNCHANGED <<main, token, keys>>

\* The connection is closed: by the client, after a time-out, or by Shutdown
\* when nothing has been read on it for some seconds.
Hangup(r) == pc[r] \in {"connected", "cut"} /\ Answer(r)

\* A check that comes before VerifyAccess refuses the request.
Refuse(r) == pc[r] = "handling" /\ Answer(r)

\* VerifyAccess, of a stream that is free or paid for.  The routes of fragments
\* have no parameter for a token.
VerifyAccess(r) ==
    IF r \notin Paid THEN "ok"
    ELSE IF r \in Fragments \/ token[r] = None THEN "paidStream"
    ELSE VerifyStreamAccess(token[r])

\* VerifyAccess refuses it; a panic is recovered from, and answered too.
Deny(r) ==
    /\ pc[r] = "handling"
    /\ VerifyAccess(r) # "ok"
    /\ Answer(r)

\* VerifyAccess lets it through, and is not asked again.
Allow(r) ==
    /\ pc[r] = "handling"
    /\ VerifyAccess(r) = "ok"
    /\ pc' = [pc EXCEPT ![r] = "allowed"]
    /\ UNCHANGED <<main, timer, token, played, late, keys>>

\* What is left to be answered without a body: nothing vouches for the request,
\* the transcoder has the stream, or no fragment; the stream cannot be
\* prepared; the method is HEAD.
Dismiss(r) == pc[r] \in {"allowed", "preparing"} /\ Answer(r)

\* The transcoder has been asked and does not have it; PrepareForReading has
\* to fetch the descriptor, as long as that takes.
Prepare(r) ==
    /\ pc[r] = "allowed" /\ r \notin Fragments
    /\ pc' = [pc EXCEPT ![r] = "preparing"]
    /\ UNCHANGED <<main, timer, token, played, late, keys>>

\* Mutant of Play: the write deadline stays what the server has set.
PlayOnServersDeadline(r) ==
    /\ pc[r] = "preparing"
    /\ pc' = [pc EXCEPT ![r] = "playing"]
    /\ UNCHANGED <<main, timer, token, played, late, keys>>

\* Handle has the connection from its context, and gives it the deadline of
\* a stream, whatever is left of the server's; then it plays.
Play(r) ==
    /\ pc[r] = "preparing"
    /\ pc' = [pc EXCEPT ![r] = "playing"]
    /\ timer' = [timer EXCEPT ![r] = StreamWriteTimeout]
    /\ UNCHANGED <<main, token, played, late, keys>>

\* HandleTranscodedFragment leaves the deadline as it is.
PlayFragment(r) ==
    /\ pc[r] = "allowed" /\ r \in Fragments
    /\ pc' = [pc EXCEPT ![r] = "playing"]
    /\ UNCHANGED <<main, timer, token, played, late, keys>>

\* The body is sent, or the client is gone.
PlayEnds(r) == pc[r] = "playing" /\ Answer(r)

\* A write after the deadline fails.
WriteTimesOut(r) ==
    /\ pc[r] = "playing"
    /\ timer[r] = 0
    /\ pc' = [pc EXCEPT ![r] = "cut"]
    /\ UNCHANGED <<main, timer, token, played, late, keys>>

Less(n) == IF n > 0 THEN n - 1 ELSE n

Tick ==
    /\ wait' = Less(wait)
    /\ timer' = [r \in Requests |-> Less(timer[r])]
    /\ token' = [r \in Requests |-> Aged(token[r])]
    /\ played' = [r \in Requests |->
                    IF pc[r] = "playing" /\ played[r] < StreamWriteTimeout
                    THEN played[r] + 1 ELSE played[r]]
    /\ late' = [r \in Requests |-> pc[r] \in Allowed]
    /\ UNCHANGED <<phase, listener, blobs, pc, keys>>

-----------------------------------------------------------------------------
Run ==
    \/ initPubkey \/ (\E s \in Settings : Configure(s)) \/ Start \/ StartBlobServer
    \/ Notify \/ Receive \/ BeginShutdown \/ ShutdownReturns \/ StopBlobServer
    \/ ReturnFromRun

Serve(r) ==
    \/ \E own \in BOOLEAN, size \in Sizes : Buy(r, own, size)
    \/ BringMalformed(r)
    \/ Accept(r) \/ ReadRequest(r) \/ Hangup(r)
    \/ Refuse(r) \/ Deny(r) \/ Allow(r) \/ Dismiss(r) \/ Prepare(r)
    \/ Play(r) \/ PlayFragment(r) \/ PlayEnds(r) \/ WriteTimesOut(r)

Next ==
    \/ Exec
    \/ Run
    \/ Listen \/ ServeEnds
    \/ Signal
    \/ \E k \in KeyPairs : Rotate(k) /\ UNCHANGED <<main, requests>>
    \/ \E r \in Requests : Serve(r)
    \/ Tick

Spec == Init /\ [][Next]_vars

\* The main goroutine is scheduled and its calls return; time passes.  No
\* request need ever end, and nobody need send a signal.
FairSpec == Spec /\ WF_vars(Run) /\ WF_vars(Tick)

-----------------------------------------------------------------------------
Phases == {"down", "pubkey", "stores", "start", "blobs", "notify", "receive",
           "waiting", "caught", "drain", "close"}

\* The type invariant.
TypeOK ==
    /\ phase \in Phases
    /\ listener \in {"none", "starting", "serving", "closing", "closed"}
    /\ blobs \subseteq {"peer", "http3", "http"}
    /\ wait \in 0 .. StopWait
    /\ pc \in [Requests -> RequestPcs]
    /\ timer \in [Requests -> Nat \cup {NoDeadline}]
    /\ token \in [Requests -> Tokens \cup {None, Malformed}]
    /\ played \in [Requests -> 0 .. StreamWriteTimeout]
    /\ late \in [Requests -> BOOLEAN]
    /\ apiKey \in KeyPairs
    /\ pubKM \in KeyPairs \cup {None}

\* A request that is being served when the process ends is cut off.  Once the
\* start is over this happens to none before ServeUntilShutdown has given them
\* all the time there is, although the servers run in goroutines any of which
\* can end the process, and may start as late as they like.
ShutdownIsGraceful ==
    [][\A r \in Requests :
           Busy(r) /\ phase # "down" /\ phase' = "down" =>
               \/ phase \in {"blobs", "notify"}
               \/ phase = "close" /\ wait = 0]_vars

\* After Shutdown nobody is accepted, even if the server's goroutine gets to
\* listen only then; and what was accepted before is over by the time the
\* servers for blobs stop, unless it takes longer than the server waits.
NothingNewAfterShutdown ==
    [][\A r \in Requests :
           /\ Stopping /\ ~Busy(r) => ~Busy(r)'
           /\ phase = "close" /\ wait > 0 => ~Busy(r)]_vars

\* A stream is cut off when it has played for as long as streams may, never by
\* the server's WriteTimeout, which the comment on it in newServer would keep
\* from all streaming endpoints; whatever the two are set to, and however much
\* of the server's was used up by the time the stream plays.  But a fragment
\* never has more time than the server gives.
StreamsOutliveWriteTimeout ==
    \A r \in Requests :
        IF r \in Fragments
        THEN pc[r] = "playing" /\ WriteTimeout > 0 => timer[r] \in 0 .. WriteTimeout
        ELSE pc[r] = "cut" => played[r] = StreamWriteTimeout

\* A token is bought for as many seconds as its stream has KB, or up to 20 more
\* or less, where the comment on ExpTenSecPer100MB has 10 for each MB; unless
\* that overflows: then for less.
ExpiryInKilobytes ==
    [][\A r \in Paid : token'[r] # token[r] =>
         \A own \in BOOLEAN, size \in Sizes : Buy(r, own, size) =>
           LET kb == size \div Kilo
           IN  /\ token'[r].left <= kb + 20
               /\ (kb + 20) * Second < WordSize \div 2 => token'[r].left >= kb - 20]_vars

\* What is paid for is played, and prepared, only for those who bring a token
\* for it, signed with the key that the API had when this process started,
\* through rotations of the key and restarts of the process; one that found
\* no key plays none.  It had not expired when it was checked; it may have
\* since, before the first byte too, as nothing looks at it again.  No
\* fragment of it is played at all.
PaidNeedsToken ==
    \A r \in Paid : pc[r] \in Allowed =>
        /\ r \notin Fragments
        /\ IsToken(token[r])
        /\ token[r].own /\ token[r].signer = pubKM
        /\ token[r].left > 0 \/ late[r]

\* Once a signal is caught the process ends, whatever the clients do and
\* however long the streams are.
SignalEndsProcess == phase = "caught" ~> phase = "down"

-----------------------------------------------------------------------------
\* The inductive invariant behind the properties above (ServerProofs.tla).
\* Nothing is accepted before the server's goroutine listens, and that is
\* started last.
StartsInOrder ==
    /\ phase \in {"down", "pubkey", "stores", "start"} => listener = "none"
    /\ listener \in {"none", "starting"} => \A r \in Requests : pc[r] = "idle"

\* Once Shutdown is called the listener is closed, and the servers for blobs
\* stop when nobody is served any more or the time is over.
StopsInOrder ==
    /\ Stopping => listener # "serving"
    /\ phase = "close" => wait = 0 \/ \A r \in Requests : ~Busy(r)

\* What a stream has played and what it has left make up the time of a stream;
\* a fragment has what the server gave the request.
PlayedRight ==
    \A r \in Requests :
        /\ pc[r] \notin {"playing", "cut"} => played[r] = 0
        /\ r \in Fragments /\ WriteTimeout > 0 => timer[r] \in 0 .. WriteTimeout
        /\ r \in Fragments => pc[r] # "preparing"
        /\ r \notin Fragments /\ pc[r] = "playing" =>
              timer[r] \in Nat /\ timer[r] + played[r] >= StreamWriteTimeout

Inv ==
    /\ TypeOK
    /\ StartsInOrder
    /\ StopsInOrder
    /\ PlayedRight
    /\ StreamsOutliveWriteTimeout
    /\ PaidNeedsToken
=============================================================================
