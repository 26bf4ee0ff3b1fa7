# A specification of the Odysee player server

TLA+ modules about the program in this repository, the model-checking runs that
TLC makes of them, and theorems that TLAPS checks. Paths are relative to the
repository's root; `tla/` is this directory.

The server answers GET and HEAD requests for media streams. A stream is a
publication ("claim") on the LBRY chain; its file is cut into encrypted blobs of
2 MiB that a descriptor ("sd blob") lists. For every request the server checks
bans and block lists, resolves the claim, checks the access to it, then fetches
the blobs from an upstream store through two caches, decrypts them, and sends
the bytes of the range that was asked for.

## 1. Inventory

| Part | Source | State | Operations | What is hard |
|---|---|---|---|---|
| Hot cache | `player/hot_cache.go` | ARC cache of parsed descriptors and decrypted chunks under their hash; the flights of a singleflight group | `GetSDBlob`, `GetChunk`, `IsCached` | concurrent misses, shared errors, one key space for two types and all keys, eviction |
| Decrypted cache | `player/decrypted_cache.go` | objects on disk | `GetSDBlob`, `GetChunk`, `IsCached`, clean-up goroutine | upstream and disk failures, clean-up at any time, survival of restarts |
| Chunk arithmetic | `player/chunk.go` | none | `getRange`, `ByteRangeForChunk`, `Read` | boundaries |
| Stream | `player/stream.go` | size, offset, current chunk, chunks already prefetched | `PrepareForReading`, `Seek`, `Read`, `GetChunk`, prefetching goroutines | claims that lie about sizes, failures in mid-stream, index bounds, `uint64` |
| Range server | `player/server.go` | none | `ServeStream`, `parseRange` | range semantics, status sent before the body |
| Request handlers | `player/http_handlers.go`, `http_routes.go` | none | `Handle`, `HandleTranscodedFragment`, `processStreamError` | a dozen checks in an order, two handlers with different sets of them |
| Player | `player/player.go` | `resolveCache` | `ResolveStream`, `VerifyAccess`, `Play` | stale claims, reposts, slow SDK answers |
| Rate limit | `firewall/firewall.go` | per address a map from streams to times, in a cache | `CheckAndRateLimitIp` | no lock around the function |
| Blacklist | `firewall/firewall.go`, `internal/config/config.go` | set of providers, table of networks, a file | `ReloadBlacklist`, `CheckBans` | no lock, reloads that cross |
| Provider database | `firewall/firewall.go` | a file that outlives the process, a lazily opened reader | `GetProviderForIP` | no lock around the start, a download in place, partial files |
| Block list | `internal/iapi/api.go` | one list, kept two minutes | `GetBlockedContent` | concurrent fetches, late answers, no time-out |
| Paid tokens | `pkg/paid` | the API's public key, fetched once | `InitPubKey`, `VerifyStreamAccess`; the API's `CreateToken` | keys that do not load or change, an expiry that overflows, errors recognised by their text |
| App, command | `pkg/app/app.go`, `cmd/main.go` | four servers, a signal channel, the deadlines of connections | `run`, `Start`, `ServeUntilShutdown` | goroutines that end the process, lost signals, a shutdown while streams play for a day |
| Throttle | `internal/config/config.go` | two globals | route `/config/throttle` | unsynchronised, partial update |
| Transcoder client | external, used in `http_handlers.go` | external | `GetPlaybackPath`, `PlayFragment` | external |
| Metrics, logging, version, media types, flags | `internal/metrics`, `pkg/logger`, `internal/version`, `pkg/mime`, `player/media_types.go`, `cmd` | counters, tables | output, wiring | nothing the properties tell apart |

How they interact. A gin goroutine runs `Handle`: `firewall.CheckBans` (reads the
blacklist that the config route may be reloading), `iapi.GetBlockedContent`,
`Player.ResolveStream` (SDK, cache), `firewall.IsStreamBlocked` (the block list
again), `firewall.CheckAndRateLimitIp`, `Player.VerifyAccess` (calls `pkg/paid`),
then a redirect to the transcoder or `Stream.PrepareForReading` and
`ServeStream`. `Stream` reads chunks through `HotCache` over `DecryptedCache` over
the upstream store, and starts goroutines that read ahead through the same
caches. Everything shared is a cache or a global: there is no queue and no
message between goroutines, so that the interesting behaviours are interleavings
of steps between two accesses to a shared structure.

What makes the parts correct:

* caches: whoever asks for a hash gets a blob of that hash in the form it expects, or an
  error; concurrent misses make one fetch; an error is not remembered; nobody waits for
  ever; what a restart finds on disk is right; who misuses a hash hurts only those who
  ask for that hash, unless it panics in a prefetching goroutine;
* stream and ranges: the body is exactly the announced range, short only for a
  fault, no matter how chunks, reads and prefetching align; requests end;
* request handlers: no path to content around a check, and none for a channel, or a claim
  asked for by its whole id, that has been blocked for longer than the list may lag;
* provider database: its reader is one of a whole file, whatever dies or meets;
* process: requests are given the time they have, whatever goroutine fails or is
  late; a shutdown that has begun ends; nothing that is paid for is played
  without the right token, valid when it was checked;
* rate limit: nobody is turned away for requests not made within the window;
* blacklist and block list: their answers follow the file, or the API, with a
  bounded delay.

The hazards of the code, at their lines, are listed in `PROJECT.json`, with the
properties that would show them going wrong.

## 2. Modules

| Module | Models | Role |
|---|---|---|
| `BlobService` | what the caches promise | abstract specification |
| `DecryptedCache` | `player/decrypted_cache.go` | look-up steps below the hot cache; extended by `HotCache` |
| `HotCache` | `player/hot_cache.go` | the two caches together; implements `BlobService` |
| `ChunkRange` | `player/chunk.go` | pure operators |
| `HttpRange` | `parseRange` of `player/server.go` | pure operators, and a reference definition of what a range asks for |
| `Stream` | `player/stream.go`, `ServeStream` | one GET, its prefetching goroutines, the caches seen from outside; extends the two above |
| `RateLimit` | `CheckAndRateLimitIp` | |
| `ProviderDB` | `GetProviderForIP` and below | steps of a look-up and the file that outlives it; extended by `Blacklist` |
| `Blacklist` | `ReloadBlacklist`, `CheckBans`, the config route | the lists and the database together, with restarts |
| `BlockedContent` | `GetBlockedContent` | |
| `RequestHandler` | `Handle`, `HandleTranscodedFragment`, `ResolveStream`, `VerifyAccess` | |
| `BlockedRequests` | the look-ups of `Handle` and `HandleTranscodedFragment` | composes `RequestHandler` and `BlockedContent` |
| `PaidTokens` | `pkg/paid` | pure operators and the two keys; extended by `Server` |
| `Server` | `pkg/app/app.go`, `run` of `cmd/main.go` | life of the process and of the requests in it |
| `HotCacheProofs`, `StreamProofs`, `RateLimitProofs`, `BlacklistProofs`, `BlockedContentProofs`, `RequestHandlerProofs`, `BlockedRequestsProofs`, `ServerProofs` | | theorems about the modules they are named after, and those they extend |
| `MC...` | | instances for TLC |

`PROJECT.json` maps each definition to its lines. In short:

**HotCache / DecryptedCache.** `pc[r]` is where a goroutine stands in a look-up;
`cache`, `disk` and `flight` are the shared structures. `Hit` and `Miss` are the
`cache.Get` that opens `GetSDBlob` and `GetChunk`; `Lead` and `Join` are
`singleflight.Do`; `DiskHit` .. `SaveFail` are the leader's call of the origin;
`Fill` is `cache.Set`; `Land` is the end of the flight, which wakes everyone
who waits under the group's lock. Between any two of them other goroutines, the clean-up and
a crash (`Restart`) may come. The caching store is a library: disk, then upstream, then
save is how `decrypted_cache.go` sets it up.
What is asked for is a hash and the key to decrypt it with, `NoKey` for a descriptor. Both come
from a claim or from a publisher's descriptor, and nothing compares two of them
(`player/stream.go:80`, `:218-225`, `:253-262`), so `Named`, what is asked for, is
any set of requests: one hash may be asked for as a descriptor and as a chunk, and
with several keys. Disk, cache and flights go by the hash alone: whoever comes first decides
what is kept, and the others get what its key made of the blob, "malformed", or a failed type
assertion ("panicked"). An sd blob that a chunk request finds on disk is returned as a
chunk, without a panic. `Panic` is what follows: gin recovers from that of a request,
nothing from that of a prefetching goroutine, which ends the process.
`OnDisk`, `InMemory` and `Answers` say what the requests for a hash can leave on disk and
in memory, and what of it answers a request: for a hash that is asked for in one way only, one
blob.

**Stream.** One action per step that another goroutine, an eviction or a failure
can come between: `Prepare`, `setSize`, the three ways in which `ServeStream`
answers, then `ReadStarts`, one `ReadChunk` per turn of the loop, `ReadReturns`.
Byte p of a file is represented by the number p, so that the body shows which
bytes were sent. Sizes are `uint64`: they wrap at `WordSize` and are read back
signed, as `int64(content.Size)` is. A list of ranges is a function from the places of the specifications in the
header (those that are not skipped) to the ranges, so that its length is that of the slice
of the code. An index out of range is the state
"panicked". The handler is the only user of its `Stream` value; prefetching goroutines
share the caches only. The prefetch option is on (turning it off removes
behaviours of the caches only, which may evict at any time). A read from
the caches yields the chunk or an error: that it is nothing else is `RightAnswers`
of `HotCache`.

**RateLimit.** One action per operation on the sync.Map or on the cache of maps.
`Range` visits each key once, in any order, and may or may not see a key
that is stored meanwhile: the guarantee of `sync.Map`. One address: others
matter only through `Evict`.

**Blacklist.** One action per operation on the shared lists. The table of
networks has no lock: of two insertions at a time one may be lost, and a look-up that races with an
insertion may go either way. `Restart` may come at any step; it keeps the two files.

**ProviderDB.** The steps between which two look-ups can meet: the test of the
global reader, `os.Stat`, the creation of the file, the writes, `maxminddb.Open` and the
assignment. The file has two blocks, written in order: the body, and the end that has the
metadata, without which it does not open. A look-up may also fail with the file whole, when the
archive goes on with an error (`WriteEnd`). Each is from one of the editions that the
download site has had. The reader maps the file, so that what another download writes
shows through. What is not one edition through and through answers anything.

**BlockedContent.** `Answer` is the moment when the API reads its list, `Store`
the moment when the answer reaches the cache; the time between is bounded by
`FetchLimit` only. `since` is a history variable.

**RequestHandler.** One action per check, in the order of the code. The results
of the modules above are nondeterministic here: each look-up of the block list may fail or give any
list, the rate limit any count, the ban check any verdict. "members" stands for all
tags that demand the edge token, scheduled ones included (time may turn them off: a
`Publish`). What a route leaves out of the checks (fragments are not rate limited, speech
URLs are not flagged and carry no claim id, only URLs with a name carry a token) is in
the model and in the property. `whole` tells whether a request has the claim's whole id: `Handle`
looks at the length only where no name comes with it (`player/http_handlers.go:117-124`),
a fragment's is not looked at, and what is no id the SDK takes for a name. The list has whole ids,
so a request by a shortened id or by a name is let through by both look-ups, whatever
is blocked, but for the channel. `LookUps` says which look-up finds what for
which request; `ContentIsAllowed` says that none of them has found what is served, and leaves open
what a look-up that failed would have found. `lists`, `shown` and `count` are history variables.

**BlockedRequests.** A reader of the list is a request that stands at one of its look-ups:
the steps of `BlockedContent` up to a result, then the step of `RequestHandler`
that looks at it, with that result for "any list". Other requests matter only by
what they do to the cached list, and are readers without checks. `overdue` is a
history variable: what had been blocked for longer than `Lag` when the request came.
`OldBlocksHold` is about channels, and about claims asked for by the whole id: for these
there is a look-up that finds them, and it must have failed if they are served.

**Server.** `phase` is where `run` stands, `listener` where the goroutine that
`App.Start` starts, `blobs` the servers for blobs that run. A request is its
connection: accepted, being handled, allowed to play, being prepared, playing, cut off. `Allow` and
`Deny` are `VerifyAccess`; the question to the transcoder, the fetch of `PrepareForReading` (`Prepare`) and
the new deadline with the body (`Play`) are steps of their own, between which time passes,
tokens expire and the process may end; `PlayFragment` goes from the check to the body. `timer` is what is left of its
write deadline (`NoDeadline` if `WriteTimeout` is 0), `token` what it brings, `late` (history) whether time has
passed since the check: `PaidNeedsToken` says that a token was right and not expired then. Nothing looks
at it again, so it may be expired by the first byte. `Exit` is any end of the process:
`Logger.Fatal` in either goroutine, a panic at the start, a signal before
`signal.Notify`, the return of `run`. The refusals of `Handle` before the check are one action
(`Refuse`), the answers without a body after it another (`Dismiss`); the token's fate is `VerifyStreamAccess` of `PaidTokens`, over the key that `InitPubKey` has
found and the one the API signs with. Seconds are long: of 10, 15 and 86400 the
order is kept.

**PaidTokens.** The expiry is computed as Go does: an exclusive or with 20, an `int64`
of nanoseconds that wraps at `WordSize`, divided again.

## 3. Runs

All runs end within some three minutes with two workers, most within seconds.

| Run | Instance | Shows |
|---|---|---|
| `hot_cache` | 3 readers, a chunk listed with 2 keys (one does not decrypt it), a descriptor that another lists as a chunk (what is kept as that does not parse), capacity 1 | panics only for a hash of both kinds, right answers, single flight, nobody stranded, both tiers right, capacity kept; **refinement** of `BlobService` (`Service`) |
| `hot_cache_live` | 2 readers, no symmetry | every look-up ends |
| `stream` | 5 files of 0 to 3 chunks, 6 claimed sizes, all forms of Range header | body, lengths, ranges, sizes, prefetching, panics only on a lying claim or an empty suffix, termination |
| `rate_limit` | 2 calls, 2 streams, 4 instants, window 1, map life 2 | never overcounts; exact when calls do not overlap |
| `blacklist` | 2 reloads, 2 checks, 2 contents of the file, 2 editions of the database, restarts | reloads in sequence give the file's content, and answers follow it; the database's reader is sound unless downloads met; a download that broke off is for good |
| `blocked_content` | 1 request by a name with a shortened id, by a whole id or for a fragment, another reader, claim and channel, life 1, fetch 1 | lists are recent; channels, and claims asked for by the whole id, that have been blocked for longer are not served |
| `request_handler` | 1 handler, claims that are missing, paid, for members or a repost (which stands for all that is no stream), every route, whole and other ids | content is allowed |
| `request_handler_live` | 2 handlers, 2 forms of URL, a claim that changes | the cache settles |
| `server` | a free fragment and a purchase, 2 pairs of keys, 3 sizes, good and bad settings, time to stop 2, write time-outs 1 and 3 | deadlines, expiry, graceful shutdown, which ends, tokens |
| `stream_empty_suffix` | as `stream` | **violated**: `bytes=-0` gives a 206 without a range |
| `stream_index` | one overstated file | **violated**: index `len(BlobInfos)` passes `GetChunk`'s check |
| `blacklist_crossed` | as `blacklist` | **violated**: crossing reloads leave a mixture |

Why the bounds are enough. *Hot cache*: a flight has a leader and waiters, and a third reader may
come between the end of one flight and the start of another; with capacity 1
every second insertion evicts; the two hashes are misused in the two ways there are, and a hash that
is asked for in one way is a special case of either. *Stream*: chunks of 3 bytes and reads of at most 2 give every
alignment of a read to a boundary; files of 0, 1, 2 and 3 chunks, with the
last full, of one byte, of two; claims that are absent, exact, short,
long by bytes and long by chunks; `Padding` 2 keeps the code's relation that a full
chunk and its padding fill a blob, so that sizes can be off and can wrap. *Rate
limit*: the races are of two calls (a Delete against a Store, two creations);
three names of maps are enough for two callers and the table; the clock passes the window,
and the life of a map, within three ticks. `Evict` and `Tick` make every
later call start from a state like these. *Blacklist*: two contents that share
nothing in their networks show any mixture; two look-ups and two editions are enough for a file that one
writes while another reads it or writes over it. *Block list*: two fetches in flight, or one and
a hit; a request makes two, between which the list may expire and change; that
lists are recent is proved for any readers and times. The claim of a
whole id after a name is found by the first look-up only; that form is in `request_handler`, and
here in the proof of `OldBlocksHold`. *Server*: requests share nothing but
the process and the API's keys, so that one of each kind is enough: a purchase, which goes
the way of any stream once it is allowed, and a fragment. A fragment of what is paid for is refused by
`VerifyAccess`; that none is played is proved, not checked. The three limits of time are
distinct, and a stream may outlast a shutdown; that the two write time-outs may be set in any order, or to none,
is the proof's. 64 KB overflow the word, 20 KB give
no second, 21 KB one; the formula itself is evaluated for every size of two words.
*Request handler*: a free stream goes the way of a paid one with a good token, so that
there is none in the safety run. The checks of one request share nothing with another's but
the resolve cache; that run therefore has one handler, and a claim and a
cache that change between its steps, the two-handler run has the races on the cache.
The limit 10 of `Handle` and 2 for downloads are checked at 2, 3, 10 and 11.

Symmetry is used for readers, callers, reloads and names in safety runs only;
no run with a liveness property has it. `RateLimit` has a view that hides what unreachable maps
hold. `Stream` stops when its request is over, hence `CHECK_DEADLOCK FALSE`
there and nowhere else: every other run checks for deadlock too.

### Fairness

* `HotCache.FairSpec`: weak fairness of each goroutine's own steps. Goroutines
  are scheduled, and a fetch ends because the upstream clients have time-outs
  (`cmd/main.go:183-191`); clean-up, calls and restarts are not forced.
* `Stream.FairSpec`: weak fairness of the handler; prefetching need not proceed.
* `Server.FairSpec`: weak fairness of the main goroutine, whose calls return or are fatal (the
  fetch of the key has no time-out: that it is answered is an assumption, which
  no property rests on, since `SignalEndsProcess` starts from a signal that was caught), and of time. No request need
  ever end, no client go on reading, nobody send a signal.
* `RequestHandler.FairSpec`: weak fairness of each handler (the SDK client has a
  time-out, `player/player.go:88`) and of the expiry of cached claims (time passes).
  `GetBlockedContent` has no time-out; that it returns is an assumption.

## 4. Proofs

TLAPS checks the theorems for every value of the constants. They are about `Spec`, the
specification without fairness; `FairSpec` implies it. Every safety invariant, action property and
refinement that a run checks is proved; what is not is named at the end of this section. In each
module `Inv` is the inductive invariant, a conjunction of named parts that TLC has checked
on the run's instance first; the module of proofs has a lemma per action or group of actions,
then `NextInv`, then `Invariance`, from which the properties follow.

* `HotCacheProofs`, from `NamedAssumption`, `BytesAssumption` and `NoneAssumption` of
  `DecryptedCache`, and the capacity's of `HotCache`; none of them restricts what is asked for. The properties are not inductive: that a reader gets the right blob
  depends on what the tiers hold, what the tiers hold on what a leader has in
  hand, and that there is one leader on the table of flights. `Inv` of
  `HotCache` adds these: `ReqRight` (a request is kept until it is answered), `FlightRight` (`flight[h]`
  is the one reader that leads h, and whoever waits has one), `InHandRight`
  (what a reader holds at each stage), `TiersRight`. `TypeCorrect`, `AnswersAreRight`,
  `FlightsAreSingle`, `NobodyIsStranded`, `TiersAreRight` and `PanicsAreMixedKinds` follow: an entry, or what a flight
  lands with, has a form in which its hash is asked for (`InMemory`), so that a reader who expects
  the other one is the second kind. `CapacityHolds` has an
  invariant of its own, `RoomRight`: cardinalities need that the entries are finitely many.
  `CachesServe` is the refinement of `BlobService`: a hit serves one reader, the step that gives a leader its error is
  a failing fetch, `Land` serves or refuses all who wait for the hash at once, and of those it serves it
  refuses whom the blob does not answer, the end of a
  call and a panic collect, `Restart` restarts, and everything else is a stutter.
* `StreamProofs`, from `ChunkSizeAssumption` and `StreamAssumption` (a buffer is no longer than a
  chunk; a full chunk and its terminator fill whole cipher blocks; files are shorter than a
  signed word; fields of ranges are numbers or one of two marks).
  `NoMiddleChunk`: a read
  no longer than a chunk touches at most two chunks, so that the default case of
  `ByteRangeForChunk`, which would skip a chunk's bytes, is not reached, as the
  comment at `player/chunk.go:80` has it. `PartsTileTheRead`: the parts taken from
  the two chunks lie end to end and add up to the read. On top of these, `Inv` of `Stream` ties
  position, remainder and body together (`CopyRight`), and says of a read in
  progress that its bytes are the consecutive ones from the position on and that it leaves its first chunk with all
  that the chunk had (`ReadRight`), which is why it may go on at the start of the next. `BodyIsRight`,
  `BodyIsComplete`, `RangeIsRight` (against RFC 7233's meaning of a specification, not
  the code's), `PanicsAreLies`, `SizeIsModest`, `PrefetchStays` and `TypeCorrect` follow. What `setSize`
  adds up is a recursive function over the blobs: `LoopSums` proves by
  a least counterexample, from the library's theorem that `<` is well-founded on the naturals, that it is the length
  of the chunks so far; `CountedTooMuch` and `EstimateFallsShort` bound the two estimates, the one that
  subtracts what wraps around included.
* `RateLimitProofs`, from `RateLimitAssumption`, which has finitely many endpoints: `count` is compared with
  a cardinality. `NeverTooMany`: no map knows of a later request than there has been (`ClockRight`), a
  map that is not yet published is its creator's alone (`PrivateRight`), and what has been
  counted is at most the recent requests among the keys that `Range` has come to or skipped (`CountRight`).
  `SequenceCountsExactly`: as long as no two calls have overlapped there is one map
  at work, and it agrees with the requests but for those that have expired for good (`SequenceRight`).
* `BlacklistProofs`, from `BlacklistAssumption` (reloads and checks are different requests) and
  `ProviderDBAssumption`. `ListsRight`: while reloads have not crossed, what the lists have
  and what the reload under way has still to add make up what it has read. `ChecksRight` follows a check past
  the two lists. `DBRight`: while downloads have not met, the file is what the one downloader has
  written of it, and a reader is open only on a file that is whole. `SequentialReloads`,
  `AnswersAreRight`, `ReaderSound`, `BrokenForGood` (an action property) and `TypeCorrect`.
* `BlockedContentProofs`, from `BlockedContentAssumption`. `Inv` relates every
  list to its age: wherever it is, it is wrong only about contents that changed
  within that age. A `Store` of an old answer over a newer one keeps this, since the age
  of what is stored is at most `FetchLimit`. `Recent` proves the action property
  `ListsAreRecent` from it.
* `RequestHandlerProofs`, from `RequestHandlerAssumption` (types of the parameters). Handlers share the cache of
  claims only, so `Inv` speaks of one handler at a time: the way its form of URL takes
  (`OnItsWay`), the claim in hand (`HeldRight`), what the look-ups have not found
  (`ListsRight`), what the other checks have let through (`CheckedRight`). `ContentAllowed` is
  what these say where content is given.
* `BlockedRequestsProofs`, from the assumptions of both components and `HandlersAssumption`,
  `RequestsAssumption` (the parameters they share). `ListServed` and `RequestsHandled`: the
  composition implements `BlockedContent` and, under the mapping of its INSTANCE, `RequestHandler`,
  so that their theorems carry over (`RequestsSeeRecent`). `OldIsBlocked` needs both: `RInv`
  joins the two invariants and adds that what was overdue when a request came is in the list it has been
  given and in those it has looked at (`ListsHoldOverdue`), the first because a list is recent when it is given, and that
  a handler asks for the list at its look-ups only (`CallsAtLookUps`). `ContentIsAllowed` of the handlers does
  the rest: a look-up of `LookUps` that gave a list has not found what is served, so what is overdue was not
  in it, so it failed. The proofs about the handlers are instantiated (`RP`); the lemmas called `Same...` say that
  its definitions are those of `R`.
* `ServerProofs`, from `PaidTokensAssumption`, `NoTokenAssumption` and `ServerAssumption`, which leaves
  the time-outs free: they are independent flags (`cmd/main.go:67-68`). `StartsInOrder` and `StopsInOrder` tie the listener and
  the servers for blobs to the phase of the main goroutine, `PlayedRight` a stream's deadline to what it has
  played. From them `StreamsOutlive`, and the action properties `Graceful` and `NothingNew`. `PaidIsPaid`
  is an invariant of all that lies between the check and the end of the stream: the key does not change while the
  process lives, and a token's time runs out only with `late` set.
  `ExpiryIsInKilobytes` is arithmetic: flipping the bits 4 and 16 moves a number by at most 20.

Only model-checked: liveness (`LookupEnds`, `RequestEnds`, `CacheSettles`, `SignalEndsProcess`), since
fairness and ENABLED are out of the prover's reach, and the three violations, which are
counterexamples. What is assumed of the libraries stays an
assumption of the models: that `sync.Map`'s `Range` comes to a key at most once, that an answer of the
API travels for `FetchLimit` at most.

## 5. Where the code and its words differ

The three violation runs, and two findings of `server`. In short: a suffix range of length 0 is served, though
`player/server.go:122` refers to RFC 7233; `player/stream.go:214` lets
the index `len(BlobInfos)` through; and crossing reloads leave a blacklist
that no content of the file has, where `internal/config/config.go:48` says the
list is reloaded from the file; the expiry of a token is in seconds per KB, not in tens of
seconds per MB as `pkg/paid/paid.go:138` has it, because `^` is no power in Go, and overflows
at 9.4 TB; and fragments have the server's `WriteTimeout`, which
`pkg/app/app.go:92` says streaming endpoints cannot have. Met on the way, and covered by the models as they are:
a provider database that is torn, or stale in half, when two first look-ups meet, and one that broke off
and is never downloaded again; a signal that is dropped because the channel has no
buffer and nobody is receiving yet; a key that does not load, with which the player starts
and panics whenever it is asked about a token; the repost
loop of `ResolveStream` never replaces the claim, so a repost is refused;
`GetFunc` loses the upstream error of a chunk, whatever it was becomes an error of the
decryption, and the client sees a 416 or a body cut short; concurrent requests can
make the rate limit count too little, never too much; a claim that is on the block list is served to
who asks for it by a shortened id or by its name, as long as its channel is not listed
(`player/http_handlers.go:199`, `:231`; nothing in the repository says otherwise); a descriptor that lists
another stream's sd hash as a chunk can make look-ups of that hash panic, and the process end
if one of them prefetches; a token may expire between its check and the first byte.

## 6. Not modelled

* Headers other than the range announced, wording of errors, metrics, logs, media
  types, flags: no property is about them. That an error of `ServeStream` keeps the
  `Cache-Control` and the length of the whole stream is left out with them. `processStreamError` recognises errors by text;
  the model has one name per text.
* The internals of the libraries: ARC's choice of what to evict (any choice),
  the caching store, singleflight (modelled from its contract), the transcoder client, the
  SDK, the upstream protocols.
* The throttle: a delay, set by two globals that nothing else reads. The set-up of
  the transcoder client in `run`. The handler that serves the public key and the
  loading of private keys: only tests call them. Deadlines for reading.
* `Seek` from the current position or the end, `DecryptedCache.Shutdown`, the
  HEAD branches of `ServeStream`: nothing calls them (`Handle` answers HEAD itself).
* A panic of a request is the end of it: in `Stream` an absorbing state, where gin's recovery
  answers with status 500. That one of a prefetching goroutine ends the process is in `HotCache`.
* Claims are signed by a channel. A claim without one skips a look-up.

## 7. Plan

Done: the caches, the stream, the firewall's parts, the handlers, alone and over the
block list, the tokens and the life of the process, in order of how much of the
server's behaviour rests on them. Next:

1. Composition of `RequestHandler` with `RateLimit`, in which the count that a request is given is the
   one its call makes, and the proof that it implements both, as `BlockedRequestsProofs` does.
2. Proofs of what the composition can say that its parts cannot: a player whose requests come one
   after the other turns nobody away for what was asked for before the window.
3. An abstract specification of a GET (a range is chosen, then sent in pieces, or cut short by a
   fault), with `Stream` shown to implement it from `Inv`.
