# Dugtrio in TLA+

Dugtrio is a load balancing proxy in front of a pool of ethereum beacon nodes.
It follows the head and the sync status of every node, sorts out the ones that
are forked off, behind, syncing or down, and forwards each request to one of the
remaining nodes, preferably the one that the same user had before.

The modules here model that core at the level of its goroutines: which accesses
to shared state happen in one critical section, which do not, and what may come
in between. TLC checks them on small instances; TLAPS proves the invariants that
matter most for every value of the constants.

All paths below are relative to the root of the repository (`src/` in the
manifest `PROJECT.json`).

## The system

### Components, their state and their operations

| component | code | state | operations |
|---|---|---|---|
| block cache | `pool/blockcache.go`, `pool/cachedblock.go` | `rootMap`, `slotMap`, `maxSlotIdx`, the header of each block; chain specs, finalized checkpoint | `AddBlock`, `SetHeader`, `EnsureHeader`, periodic `cleanupCache`, `GetBlockDistance`, `SetClientSpecs`, `SetFinalizedCheckpoint` |
| client | `pool/client.go`, `pool/clientlogic.go` | three status flags, head, finalized head, retry counter | `runPoolClientLoop` (connect, check, follow, back off), `processBlockEvent`, `pollClientHead`, `updateStatus` |
| head forks | `pool/forks.go` | `forkCache` | `GetHeadForks` (group the clients by head, mark the ready ones, sort), `resetHeadForkCache` |
| scheduler | `pool/beaconpool.go` | `rrLastIndexes` | `GetReadyEndpoint`, `IsClientReady`, `runClientScheduler` |
| event stream | `rpc/beaconstream.go`, `rpc/eventstream/eventstream.go` | channels `Events`, `Ready`, `Errors`, `EventChan`, `ReadyChan`, `killChan`; `isClosed` | subscribe, decode and emit, reconnect, `Close` |
| sessions | `proxy/session.go` | groups per address, a session per prefix, last endpoint, open calls, rate limiter | find or create, register and cancel calls, set the endpoint, expire |
| request path | `proxy/beaconproxy.go`, `proxy/clientspecificproxy.go` | none of its own | `processCall`, `getEndpointForCall` |
| proxied call | `proxy/proxycall.go` | call context, `updateChan`, `cancelled`, `streamReader` | forward request and response, push the deadline back per event, cancel |
| rebalancer | `proxy/beaconproxy.go` | totals per endpoint, during a run | `rebalanceSessions` |
| authorization | `proxy/autorization.go` | none | header check |
| node API | `rpc/beaconapi.go`, `rpc/nodeidentity.go`, `rpc/utils.go` | an HTTP client | requests to a node |
| metrics, frontend, start-up, configuration | `metrics/`, `frontend/`, `cmd/`, `types/`, `utils/` | counters, templates | no influence on the above |

### How they interact

- Each node has a **client goroutine**. It reads the two channels of the node's
  event stream, polls the head when no event came for 30 seconds, and writes the
  client's flags (no lock), its head (`headMutex`), the block cache
  (`cacheMutex`), and, last, clears the fork cache (`forkCacheMutex`).
- A **request** takes the sessions mutex to find its session, then, without it,
  asks the pool whether the session's endpoint is ready or for another one. The
  first request that finds the fork cache empty recomputes it, holding
  `forkCacheMutex` and reading heads, flags and block cache one by one.
- A request that changes its session's endpoint cancels the session's open
  calls. Each call has a **watcher goroutine** for its deadline; handler and
  watcher share a context, a channel of updates and two unprotected fields.
- The **rebalancer** wakes up periodically, takes the sessions mutex and moves
  sessions off the endpoints that have too many.
- The **event stream** of a node is a chain of two goroutines in front of the
  client's, and a third that closes the channels.

### What is hard about it

The hazards, each at its line, are in `PROJECT.json`. In short: flags that are
read while they are written, heads and blocks that change during the
computation of the forks, invalidation that comes after the change and not with
it, a cleanup between two looks at the cache; select statements that may take
the wrong case for as long as another one is ready, bounded channels whose only
reader is the one who waits, channels closed by one goroutine and sent on by
another; a rebalancing loop whose moves can undo each other, on totals that
calls make stale.

### What makes each component correct

- Block cache: the two indexes agree; a cleanup never cuts a chain inside the
  window; a block that was dropped does not come back as a second object.
- Head forks: every client is in one fork, on the chain of its root; a client
  that is not online does not stay listed; once all is quiet nothing that is
  known about the blocks contradicts what is published.
- Scheduler: nobody is passed over twice in favour of the same other client.
- Event stream: a lost connection takes the client offline; closing it returns.
- Proxied call: it ends by its deadline, a cancelled stream stops, and its
  goroutine goes away.
- Rebalancer: it makes the distribution no worse, and it ends.
- Client loop: a node that is down leaves, one that works comes back.
- Sessions and request path: a request gets an endpoint that fits it and was
  ready; a moved session leaves no call behind on its old endpoint, but for those
  that register late; a live call keeps its session.
- Rate limit: each address has one bucket, whatever happens to its group.

## The modules

| module | models | constants |
|---|---|---|
| `BlockCache` | the cache and what a walk over it finds | blocks with their slots and ancestry, follow distance |
| `BlockWalk` | the loop of `GetBlockDistance`, as a recursive function | as above |
| `HeadForks` (extends `BlockCache`) | clients, block cache and fork computation together | number of clients, maximal head distance, flag values |
| `Scheduler` | `GetReadyEndpoint` and the round robin | clients with types and custody groups, requests |
| `Rebalance` | a run of the rebalancer, and concurrent calls | sessions with prefixes, endpoints with types, thresholds, sweep limit |
| `ProxyCall` | handler and watcher of one call | capacity of `updateChan` (5 in the code) |
| `EventStream` | reader, consumer, client and closer of one stream | capacity of the channels (10 in the code) |
| `PoolClient` (extends `EventStream`) | the loop of a client around its streams, its timers and its node | as above |
| `SessionTable` | groups, sessions, rate limiters and their expiry | addresses, prefixes, rate, burst, session timeout |
| `SessionCall` (extends `ProxyCall` and `SessionTable`) | a call over the table, with a clock | the call's session and its timeout |
| `RequestPath` (extends `Scheduler`) | from a session to a registered call, with concurrent requests and a rebalancer | sessions with prefixes, sticky or not |
| `ReadyList` | abstract: a list of ready clients that lags behind the clients | clients |
| `TokenBucket` | abstract: a bucket per address | addresses, rate, burst |

`...Proofs` holds the theorems of a module, `MC...` its instances for TLC.
`PROJECT.json` maps each definition to the lines it models.

### BlockCache

`rootMap` is the domain of the map of that name and `slotMap` the second index.
`objects` are the roots for which a `CachedBlock` was ever allocated: a client
can hold a block that the cleanup has dropped and write its header, so `header`
is a set of objects and not of cached blocks. The roots form a forest, given by
the relation `Before` (strict ancestry) with slots that grow along it; this is
what parent roots in signed headers mean. `AddBlock`, `StoreHeader` and
`Cleanup` are one critical section each. Slots below zero do not occur, so that
the signed arithmetic of the window is exact here.

`Reaches` states declaratively what `GetBlockDistance` finds: the ancestor and
everything between are cached with their headers. `BlockWalk` has the loop
itself, as a function of the block it is at and of the steps it has made, and the
invariant `WalkAgrees` says that the two agree in every state.
The loop reads the cache block by block; the models take it as one step.

### HeadForks and ReadyList

Each access to shared state is a step of its own: adding the block, fetching its
header (one client per block at a time), setting the head, clearing the fork
cache, and in the computation each client of the first and of the second loop.
`updateStatus` writes three flags without a lock; `pending` holds what it is
writing, and a concurrent reader may see each flag old or new (`StatusReads`).
What a node announces is arbitrary. The failure of a request to a node is an
action (`FetchFails`), or the absence of one (`PollHead`).

`runPoolClientLoop` itself, with its timers and retries (`PoolClient`), is
represented by its effects in any order here: a client updates flags and polls
its head at any time. One
of its rules is kept, as the properties depend on it: a stream, and with it the
online flag, exists only after the head was polled once.

`ReadyList` is what requests rely on: a register of clients, which somebody who
is about to change owes a reset, and which is filled with clients that are up or
owe one. `HeadForks` implements it: `up` is the clients whose status is online,
`owing` those with a reset due, `listed` those that a published fork has as ready
(`ListsReady`).

### Scheduler

A request reads the ready clients and picks later, under the scheduler mutex, so
that it may work from an old list. `waited` is a history variable that counts
overtakings.

### Rebalance

The run is split at its accesses to `lastPoolClient`, which calls change without
a lock. The count looks at the endpoint of each session twice: `CheckSession`
finds it among the ready clients, `CountSession` increments the total of the
endpoint that the session has by then. When a call has changed it in between, the
totals get a key (`DOMAIN totals`) that is not ready, or nil; the code sorts it
and compares with it like the others, takes a nil target of a main session for
no target, and panics where it dereferences nil (`ApplyPanics`). Then come choose,
apply and check. A choice reads the endpoints of all sessions in one step; the
code goes over them one by one, with the order of the totals fixed (`Orders`).
Main sessions (no prefix) are preferred and may go anywhere; prefixed ones need
an endpoint of their type. The code compares floating point quotients; the model
compares the integers they come from. `lastRebalance` is never updated, so that
"the session with the oldest one" is the oldest session, and sessions are
numbered by age.
`QuietSpec` is the rebalancer by itself, on sessions that calls
have placed anywhere.

### ProxyCall

Handler and watcher as two automata over the context (`done`), the flag
`cancelled`, the response body and the number of updates in the channel. The
node may answer at any time or never. Data written to the client is left out;
writes are taken to return or fail.

### EventStream

`reader` is the goroutine of `eventstream.go`, `consumer` the one of
`startStream`. The unbuffered channels `Events` and `Ready` are joint steps.
Errors and events are counted, the reports in `ReadyChan` are kept in order.
`Close` of the inner stream starts the closer, which needs `closeMutex`; the
reader holds it where it reports an error (`reader = "fail"`). A connection is
made with `http.DefaultClient` and no context, the first one by the consumer with
`runMutex` held: it may return or not, whether the stream is closed or not
(`consumer = "subscribe"`, `reader = "connect"`).

### PoolClient

`loop` is where the goroutine is: checking the node, polling the head, following
a stream, sleeping after an error; `client` of `EventStream` is what it does with
its stream. `node` changes at any time, and each request to it has the outcome
that its value gives it: it works, cannot be reached, accepts connections without
answering (`"silent"`), is syncing, is behind the pool's finalized checkpoint, or
sends an identity without data, on which `updateMetaData` panics. The requests of
the loop have timeouts, so that they fail on a silent node; a connection of the
stream may be lost on it (`Hang`) and then need not return even when the node
recovers (`hung`). `HandleSubroutinePanic` restarts the loop without
touching the status; `panicked` remembers that. The timers of the select are
actions (`SyncCheck`, `TimersFail`, `FollowPanics`); a metadata request that fails
is logged and changes nothing. Each stream has channels of its own, so that
`OpenStream` starts with fresh ones; a reader of an earlier stream can still
panic (`leftover`).

### SessionTable, SessionCall and TokenBucket

Time is a tick; a time stamp is known by its age, which saturates past the
session timeout. `Request` is one step, although `getSessionForRequest` returns
the sessions mutex before `checkCallLimit` asks the limiter: that comes less than
a tick later, an assumption like the one of `Prompt` below, and a group that has
just been seen outlives any cleanup of that tick, so that what others do in between
makes no difference but to which of two requests is refused. `StreamEvent` marks group and session as seen without a lock. A
group or session that has left the table lives on in the call that holds it, and
the table does not see its events (`held`). `TokenBucket` is the promise in the
comment of `SessionGroup`: one limit per address; the table implements it with
`level <- tokens`, an address without a group having the full bucket that its
next group will start with.

`SessionCall` puts `ProxyCall` over the table. A tick brings the deadline closer
and ages the table; it does not come while an update or a passed deadline waits
to be noticed, as ticks are long compared to a step (`Prompt`).

### RequestPath

`lastPoolClient` of a session is read twice by `getEndpointForCall` (`Read`,
`Take`), with the look at the ready clients in between (`Look`), and compared, and
written, by `setLastPoolClient` (`Compare`, `CancelCalls`, `Assign`), each a step
of its own, as there is no lock. The rebalancer does the latter with the sessions
mutex, which keeps requests from arriving (`Arrive`) but not the ones that have
arrived from going on. It moves sessions between the keys of its totals, which a
session that changes during the count adds to (`CheckSession`, `CountSession`);
which of these moves the totals allow is left open here. `since` and `late` are
history variables.

## The runs

| run | question | distinct states |
|---|---|---|
| `forks_blocks` | two clients, a chain of three blocks, everything interleaved: are the published forks right? | 747,000 |
| `forks_status` | two clients and all changes of status: is a client that is down listed, and how long? | 164,000 |
| `forks_settled` | five blocks: is the cache right by itself? Three clients on any cache: is the computation? | 313,000 |
| `scheduler` | two clients of two types, two requests of a session, a rebalancer: is the round robin fair, is each request answered with a client that fits and was ready, does a move leave calls behind? | 2.7 million |
| `rebalance_calls` | three sessions of two kinds with concurrent calls, also during the count: does a run do harm? | 569,000 |
| `rebalance_quiet` | five main sessions anywhere on three endpoints: does a run end, balanced? | 329,000 |
| `proxy_calls` | one call of either kind over the sessions of its address: does everything end, does the call keep its session, is the address limited? | 179,000 |
| `stream_reports` | one client and its streams: does it learn of a loss, does `Close` return, does a dead node leave and a good one return, also when a connection never does? | 82,000 |
| `rebalance_endless` | does a run end with prefixed sessions and no sweep limit? **No.** | |
| `proxy_stuck` | does a cancelled call end? **No.** | |
| `stream_close` | does closing a stream return? **No.** | |
| `stream_panic` | is closing safe for the reader? **No.** | |

### What holds

- `ReadyAreOnline`, `DropNoticed`: a client that is not online is listed as
  ready only between its own change of status and the reset that it owes, and
  the reset comes.
- `MembersOnChain`, `ForksPartition`, `ForksUnrelated`, `NoKnownLaggard`: a fork
  has only clients on its chain (or about to reset), every client has one fork;
  when nobody is in the middle of anything no two forks are known to be one and
  no ready client is known to be too far behind. These hold in spite of the
  reads of the computation that are stale when it publishes, because whoever
  changes something resets the cache afterwards and waits for the computation.
- `HeadHasHeader`: a head that is cached has a header, so that a walk can start
  from it. A failed header request drops the announcement.
- `IndexesAgree`, `NewestIsCached`, `OneObjectPerRoot`, `KnownChainsKept`.
- `NoDoubleOvertaking`: round robin stays round robin with changing lists, stale
  lists and several requests at once.
- `SpreadShrinks`, `MainToUnderloaded`: even on totals that are stale, or have
  keys that are not ready, a move goes downhill. `TotalsTrue`, `RunEnds`, `RunBalances`: without concurrent calls and
  prefixes a run ends with endpoints balanced. `MovesSeparate` says why it ends:
  each move leaves fewer pairs of sessions on a common endpoint. This hangs on the
  truncation of the absolute difference: if a difference below one session counted,
  moves could undo each other.
- `FewLateEvents`, `PlainCallEnds`, `WatcherEnds`, `EndsOrStuck`: a cancelled
  stream forwards at most one more event; only the channel can hold a call, if
  writes to its client return or fail.
- `ListsReady`: the forks implement `ReadyList`, resets included.
- `FitsRequest`: an endpoint that is read a second time after the check, or that
  somebody else has just given to the session, is still looked at for its type
  and custody groups. `AnsweredFromReady`: it also was ready at some time since
  the request came, or since the one that it was taken over from began, or was
  counted by the rebalancer for a session that was just changing.
- `StraysAreLate`: after a move the only calls on the old endpoint are those that
  had chosen it and were not registered when the session was given the new one.
- `LiveCallKeepsSession`, `BucketPerAddress`: the cleanup never takes the session
  of a live call, and no sequence of prefixes, streams and expiries gives an
  address more than its bucket.
- `NotOnlineWhenLost`, `LossNoticed`, `ReturnsOrStuck`: in whatever order the
  consumer takes reports from its two channels, the last one about a stream that
  is down is that it is down; only a full channel, and a first connection that
  is never answered, keep `Close` from returning.
- `OnlineIsFollowed`, `DownNodeLeaves`, `GoodNodeReturns`: unless it panics, the
  loop has a stream while its client is online; a node that stays down goes
  offline for good, one that stays good comes back or is at least connected. The
  exceptions that the properties name are the panic, a goroutine stuck on its
  stream, a connection of the stream that never returns, and a late error report
  (below).

### What does not

- `RunEnds` with prefixed sessions and `rebalanceMaxSweep: 0`. Two endpoints of
  a type with an odd number of sessions, and a third of another type: one
  session goes to and fro, its streams are cancelled each time, and the sessions
  mutex, which every request needs, is never returned.
- `CancelledCallEnds`. The handler of an event stream sends to `updateChan`
  without a look at the context. If five updates wait when the watcher takes the
  cancelled context instead, the sixth blocks for ever.
- `CloseAlwaysReturns`. The client closes its stream from the goroutine that
  reads `EventChan`; a consumer that waits for room in `EventChan` never sees
  `killChan`, and `Close` waits for the consumer. The node is never checked again.
- `NoPanic`. The reader sends on `Events` after it gave back the mutex under
  which it looked at `isClosed`. When the closer comes in between, the send
  panics in a goroutine without a recover, and the process ends.

### Known limits of the code that no run states

- A walk that does not find a path yields distance zero, and zero counts as
  close. A lagging client whose head was dropped from the cache between the two
  loops of `GetHeadForks` is listed as ready. `NoKnownLaggard` therefore speaks
  of the distance that is known.
- A block that nobody announced splits a chain in two forks for as long as it is
  missing. With as many ready clients the older half can be sorted first and get
  the requests.
- The comment above the constrained targets of the rebalancer calls them
  underloaded; the code only asks for fewer sessions than the source has.
- A total for the nil endpoint, from a session that lost its endpoint while it was
  counted, makes the run panic when it asks the nil client for its type or name;
  `HandleSubroutinePanic` starts the loop of the rebalancer again. A total for a
  client that is not ready can make that client the target of a move.
- Streams connect without a timeout and without a context
  (`rpc/eventstream/eventstream.go:143`). A node that accepts the first connection
  and sends no headers holds the consumer, which holds `runMutex`, so that `Close`
  waits with the goroutine of the client: the node is not checked again until the
  connection breaks. A reconnect that is held up leaves the client offline,
  although its node may be good again.
- `Close` leaves `Ready` open: a reader that announces a connection to a consumer
  that has left waits for ever, with its connection open.
- A reconnect can be reported before the error of the connection before it; the
  client then stays offline while its stream works, until the next report. This is
  the second case of `GoodNodeReturns`.
- An identity without data makes the loop of a client panic, online or not. It is
  restarted, but the client stays online meanwhile, for as long as its stream takes
  to close: for ever, when the consumer is stuck.
- A metadata request that fails does not move its timer on: the select finds it
  due again at once, and the loop spins until the node answers or another case
  ends the stream.
- A custody group count that is a JSON number is read as zero
  (`rpc/nodeidentity.go:19`).
- When no client is ready the session is given the nil endpoint, which cancels its
  calls. Parallel first requests of a session, or requests with
  `stickyEndpoint: false`, cancel each other's calls.
- A header that asks for another client type moves the session, not only the
  request.
- `CallRateBurst: 0`, a session timeout shorter than the refill of a bucket or than
  two call timeouts are accepted; `RefillAssumption` and `TimeoutAssumption` say
  what the properties need.
- A request that stalls between `getSessionForRequest` and `checkCallLimit` for
  longer than the session timeout asks the limiter of a group that has been
  removed, so that it is not counted against the address.
- Requests for blobs and others share the last index of their type. A client that
  only the others may use can be passed over whenever the two alternate;
  `NoDoubleOvertaking` counts requests that could have picked it.

### Bounds, and why they suffice

- Blocks: for the interleavings a chain of three. Its middle may be unknown, so
  that the chain is split in two forks until somebody brings it, and its ends are
  too far apart to be ready together; the newest is so late that the cleanup
  drops the oldest while a client may still have it as its head. A client whose
  head goes back to an older block is on another fork until its reset. For the
  cache and the computation by themselves a second fork of two blocks next to it,
  so that there is an ancestor on both forks, and a slot with two blocks. The
  window has two slots in both.
- Clients: two for the interleavings, as each property relates one client, or a
  pair, to the computation; three for the computation alone, where a third
  client can belong to both forks of the others.
- `RequestPath`: two clients, of different types, of which one has too few custody
  groups, so that each filter leaves none, one or both; two requests of one main
  session, so that one is late for the other, and the rebalancer as a third actor.
  Fairness of the round robin over more clients is left to the proof
  (`RoundRobinIsFair`, `PathIsFair`); with two, one client can be passed over twice
  for the other. Sessions share nothing but the round robin. `late` and `since` need
  no bound.
  A total for a client that is not ready needs a third client next to the two that
  a run asks for; with two a race of the count only adds nil. `AnswersWereReady`
  covers any number of clients.
- Rebalancer: three endpoints of two types, with two of the same type, and a main
  session and two prefixed ones: enough for a session to be counted for an endpoint
  that is ready, that is not, or nil, and to be moved next to the others. Without
  calls three endpoints and five sessions, where the average is no integer.
- `ProxyCall` has no bound but the capacity: five as in the code for
  `proxy_stuck`, one for `proxy_calls`, where the channel is empty or full: the
  watcher takes any update that waits, however many there are.
- `SessionCall`: one address with two prefixes, as addresses share nothing; a burst
  of two, as with one token every gain is a refill, and a rate and a call timeout of
  one and a session timeout of two ticks, the smallest that the assumptions then
  allow, where an expiry and a refill, a deadline and an expiry coincide.
- `EventStream`: channels of two places instead of ten. A channel is empty, full
  or in between, and the theorems hold for every capacity. `PoolClient` has one
  place, as its streams follow one another.
- Symmetry is used for the requests of `scheduler` and for the two endpoints
  of one type in `rebalance_calls`. Both check invariants and action properties
  only, which treat the permuted values alike.
- `waited`, `late` stop counting at two, where the properties are violated;
  `count` is not counted where no limit is set.
- Deadlock is checked, but for `ProxyCall`, `SessionCall`, `EventStream` and
  `PoolClient`, which end (with a call, a stream, a panic of the process), and
  `forks_settled`, which stops with the forks published.

### Fairness

- Goroutines are scheduled: weak fairness of what a goroutine does by itself.
- A Go `select` chooses at random among the ready cases, so that it does not pass
  over one of them for ever: strong fairness of that case.
- A Go mutex is handed to a waiter that has starved for a millisecond: strong
  fairness of `Reset`, which competes with recomputations.
- Nothing is assumed of nodes in `ProxyCall`: they need not answer. A cancelled
  context ends the request and its reads, as `net/http` documents. Writes to the
  client are taken to return or fail: the server's timeouts, which would see to
  it, are none by default, so that this rests on the client or its connection.
- Nothing is assumed of nodes in `EventStream`: a connection need not return, and
  one that is open need not bring anything (no fairness of `consumer = "subscribe"`,
  `reader = "connect"`, `reader = "decode"`).
- `PoolClient`: the loop goes on, and one of the timers fires again and again, as
  each of them is due every 30 seconds; requests of the loop have timeouts, so that
  they return. A connection of the stream returns unless it was lost on a silent
  node (`hung`). The node is only assumed good, or unreachable, for good where a
  property says so.
- `SessionCall`: ticks go on. The cleanup and other requests need not come.

## The proofs

All theorems hold for every value of the constants that satisfies the named
assumptions of the module (`ChainAssumption`: blocks form a forest;
`FollowAssumption`, `PoolAssumption`, `SchedulerAssumption`,
`RebalanceAssumption`, `CapacityAssumption`, `StreamAssumption`, `PathAssumption`,
`LimitAssumption`, `OwnerAssumption`: ranges; `RefillAssumption`: an idle bucket is
full when its group expires; `TimeoutAssumption`: two call timeouts fit into a
session timeout).

- `BlockCacheProofs`. Inductive invariant `CacheInv`: types, `IndexesAgree`,
  `NewestIsCached`, plus `EvictedAreOld` (an allocated block is cached or too old
  to be added) and `WindowBounds`. `EvictedAreOld` is what forbids a second
  object: the window only moves forward. Proved: `CacheTypes`, `IndexAgreement`,
  `NewestKept`, `SingleObject`, `ChainsKept`. `WalkAgreesAlways` is about a recursive
  function. That it satisfies its equation follows from exhibiting a function that
  does: `Answer`, what the loop should find (`AnswerOfTurn`, `WalkTurns`). That it is
  no other function follows from the oldest block where the two would differ, as its
  parent is older still (`ParentIsNearest`, `WalkFinds`).
- `HeadForksProofs`. `PoolUsesCache` shows that the pool implements `CacheSpec`,
  so that the invariants of the cache carry over. `ForksInv` says of the forks
  under construction what the properties say of the published ones; a change
  during a computation makes a reset due, which waits for it. `HeadInv` says
  that a head has its header or was dropped for good. Proved: `Types`,
  `ReadyAreOnlineAlways`, `MembersOnChainAlways`, `HeadHasHeaderAlways`.
  `PartitionInv` follows the first loop: a client that has been placed is in one
  fork only, and sorting permutes the forks (`PublishPermutes`), which gives
  `ForksPartitionAlways`. `ForksUnrelatedAlways` and `NoKnownLaggardAlways` speak of
  settled states but cannot be proved from them, as the cache changes between two
  reads of a computation. `NewsInv` bounds what the computation can have missed: a
  step that makes a walk succeed is one of a client that now owes a reset
  (`BringsNews`), so that while nobody owes one what was read is what is known.
  `ReachesTransitive` and `ReachesLinear` say that walks compose.
  `ImplementsReadyList` is the refinement: the invariant says that a computation
  lists only clients that are up or owe a reset, so that `Publish` is a `Fill`.
- `SchedulerProofs`. `FairInv`: whoever has overtaken a client comes after it in
  the next scan. Proved: `SchedulerTypes`, `RoundRobinIsFair`.
- `RebalanceProofs`. `RunInv`: types, the totals and the sessions that are yet to be
  counted are at most all sessions, a chosen move is downhill, the sweep limit is
  not reached where a move is to come. Proved: `RebalanceTypes`,
  `SpreadNeverGrows`. `SumInv` counts one token per session that the totals claim:
  the number of tokens stays the number of sessions that the run has counted,
  whatever key each was counted for and however wrong single totals become, and
  there are at least as many keys as ready clients, so that the least loaded key is
  below the ideal (`MainMovesGoBelowIdeal`). For the rebalancer by itself:
  `QuietTotalsTrue`, with `CountTrue` (the totals are those of the sessions that the
  count has seen) and `MoveIsCurrent`; `QuietRunsBalance`, for main sessions and any sweep limit, as an
  overloaded endpoint always has a session to give and a place for it; and
  `QuietMovesSeparate`, for main sessions, as a run that goes on has an endpoint a
  whole session off the ideal (`OffByOne`), so that its next move goes two sessions
  down (`MoveIsSteep`). Together with the fairness of the goroutine this measure is
  what makes `RunEnds` true. For prefixed sessions the measure need not fall, which
  is the endless run above, but never rises (`QuietMovesNeverCrowd`).
- `ProxyCallProofs`. `CallInv`: types, and where the handler can be once an event
  was forwarded late. Proved: `CallTypes`, `LateEventsAreFew`.
- `EventStreamProofs`. `StreamInv`: types, and where the last report about a lost
  stream is. Proved: `StreamTypes`, `LostMeansOffline`; and, as the loop of a
  client starts each stream afresh, `PoolTypes`, `PoolLostMeansOffline` and
  `OnlineMeansFollowed`.
- `SessionProofs`. A tick, a request and a cleanup of the table are steps of the
  bucket, because a limiter's missing tokens are bounded by the age of its group:
  `TableIsOneBucketPerAddress`. `SystemRunsCall` and `SystemIsOneBucketPerAddress`
  carry the theorems of both parts over to their composition. For
  `LiveCallsKeepSessions` the age of the session and the ticks left until the
  deadline are bounded together, with one timeout more before the first event.
  Proved too: `SystemTypes`.
- `RequestPathProofs`. `PathRunsScheduler` makes the fairness of the scheduler that
  of the requests (`PathIsFair`). `RequestsFit` needs that the pick admits what it
  returns; `CallsFollowTheSession` that whoever registers between two steps of
  `setLastPoolClient` is marked late. Proved too: `PathTypes`. `AnswersWereReady`
  needs `SinceInv`: the endpoint of a session belongs to the `since` of every request
  that may still take it over, or is the one that the request has yet to look at
  (`MayTake`), and what a count adds is learned by all of them
  (`LearningKeepsSince`).

Only model-checked: liveness (`DropNoticed`, the liveness of `ListsReady`,
`RunEnds`, `PlainCallEnds`, `WatcherEnds`, `EndsOrStuck`, `LossNoticed`,
`ReturnsOrStuck`, `DownNodeLeaves`, `GoodNodeReturns`). These need fairness, and
with it `ENABLED`, which TLAPS does not support. Every other property of a run that
passes is stated by a theorem.

## Not modelled

Formatting and headers of HTTP messages, JSON and server-sent-event parsing,
authorization and blocked paths (checks of a request before it gets its session),
metrics, the frontend, start-up, logging and configuration. The result of a
request to a node is an input. The chain specs and the finalized checkpoint of
the block cache, and the list of clients that have seen a block, are left for
later; that a node is behind the checkpoint, or has other specs, is a state of the
node in `PoolClient`.

## Plan

The order followed the request: which nodes are usable (`BlockCache`,
`HeadForks`), which one is picked (`Scheduler`), who else moves sessions
(`Rebalance`), how a call runs (`ProxyCall`), where heads and losses come from
(`EventStream`); then what connects them (`PoolClient`, `SessionTable`,
`SessionCall`, `RequestPath`) and what they promise (`ReadyList`, `TokenBucket`).
Next:

1. Proofs: for the other liveness properties, too, the measure that their steps
   decrease, as `MovesSeparate` is for `RunEnds`; what a run over prefixed sessions
   with a sweep limit reaches.
2. The chain specs and the finalized checkpoint (`ClientState`), with the check
   in `runPoolClient` that a node is not behind it.
3. `RequestPath` over `ReadyList` instead of arbitrary ready clients: a load
   balancer that answers each request from a list that lags by one reset.
