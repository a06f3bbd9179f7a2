# A verification project for tonic-iroh-transport

tonic-iroh-transport carries gRPC over iroh's peer-to-peer QUIC connections. This
directory holds TLA+ models of its concurrent parts, TLC configurations that
check them on small instances, and TLAPS proofs of their main safety properties.
Source files are named relative to `src/src/`; the chat example is `src/examples/chat`.

## 1. The system

| part | state it keeps | operations | what makes it correct |
|---|---|---|---|
| connection pool (`pool.rs`) | slot table, idle list, generation counter; per connection a mailbox, a lease counter, an idle timer; a shutdown flag | `get_or_connect`, `open_stream`, `channel`, drop of a lease, `invalidate`, drop of the last handle; messages `Request`, `Idle`, `Shutdown` | a leased connection is not closed by the pool; leases are counted exactly; every request is answered; slots stay within `max_connections`; stale messages hurt nobody; unused connections get closed |
| swarm engine (`swarm/engine.rs`) | merged feeds, set of seen peers | `poll_next` | each remote peer once, never the local endpoint, errors passed on |
| locator (`swarm/locator.rs`) | attempts in flight, `stream_exhausted`, bounded channel of outcomes | `first`, stream, drop; the task's `select!` | bounded work, no outcome lost, `first` fails only when nobody is reachable, no task left behind |
| server transport (`server.rs`, `transport.rs`) | accept loops, bounded queue to tonic, shutdown broadcast, task set, router | `spawn`, `accept`, `shutdown`, drop of the guard | every stream queued or rejected; graceful order of shutdown; all tasks end |
| DHT publisher (`swarm/dht/publisher.rs`) | services, interval | `run`, `publish_shard` | stops when told; concurrent publishers do not erase each other |
| DHT records (`swarm/record.rs`) | a bucket of signed ads | `verify`, `merge_valid`, `upsert`, `trim_to_size` | newest ad per node wins, expired ads disappear, own ad survives trimming |
| DHT resolver and namespace (`swarm/dht/{resolver,mod,backend}.rs`) | none | `query_shard`, `replica_shards`, key derivation | resolver and publisher look at the same buckets |
| peer feeds (`swarm/peers.rs`) | `dht_feed`: scanned minutes, poll interval | streams | a published peer is found |
| discovery backends (`swarm/discovery.rs`, `user_data.rs`) | static groups, mDNS events, peer-exchange broadcast channel | `feeds`, `ingest`, drop of a stream | a peer's source vouches for it; a lagging receiver recovers and loses only the oldest |
| service registry (`swarm/registry.rs`) | cache of pools by ALPN and options, shared by clones | `pool`, `find`, builder, options, clone and drop of registries and of pool handles | one pool per key; a pool in use is never shut down; an unused one is |
| client connect helpers (`client.rs`) | the future of `connect` | `connect` with options and timeout | it ends, and a failure leaves no connection open |
| client channel (`channel.rs`) | HTTP/2 send half, response body state, driver task | `call`, `pump_body`, `poll_frame`, drops | flow control respected, no message truncated unnoticed, calls return |
| chat example (`examples/chat/src/main.rs`) | history, subscriber map behind an `RwLock`, counters, shutdown broadcast | `send_message`, `chat_stream`, `subscribe_messages`, `shutdown`, benchmark | subscribers hear every message once; nobody is locked out; the node stops when told |
| the rest (`stream.rs`, `alpn.rs`, `error.rs`, `otel.rs`, `lib.rs`, `swarm/mod.rs`) | none | wrappers, encodings, telemetry | - |

How they interact. The registry gives the locator a pool and the feeds of every
discovery backend. The locator's task pulls peers from the engine and races
`pool.channel` for several of them; each attempt is a caller of the pool. The pool
actor and the connection actors exchange messages through bounded channels, and
callers wait on oneshot replies. On the server the router calls `accept`, whose
loops share one bounded queue with tonic; `shutdown` talks to tonic and to the DHT
publisher through a broadcast channel. An `IrohChannel` from `connect` or from the pool
owns an HTTP/2 send handle; a driver task owns the connection and lives as long as the
handles, calls and response bodies do.

What is hard: everything in the pool is a race between a message under way and a
later decision of its receiver (an idle report and a new request, a shutdown
report and a replaced slot, a lease being dropped and the actor's turn of its
loop); bounded channels make tasks wait for one another; cancellation can strike at
every `await`; a `Notify` wake-up can be missed; timeouts drop futures in the
middle of what they do. PROJECT.json lists these hazards at their lines, with the
properties that cover them.

## 2. The modules

| module | role |
|---|---|
| `ConnectionPool` | pool actor, connection actors, callers |
| `LeaseService` | what the pool promises, abstractly; `ConnectionPool` implements it |
| `ConnectionPoolProofs` | leases are counted and kept; the refinement; requests, retries, the slot table and the idle list |
| `MCConnectionPool` | symmetry for TLC |
| `Registry` | cache of pools, pool handles and their drop, the locator's builder |
| `MCRegistry` | symmetry |
| `RegistryProofs` | its theorems |
| `SwarmEngine` | the merged stream of peers |
| `Locator` | extends `SwarmEngine` with the locator's task and handle |
| `LocatorProofs` | its theorems |
| `MCLocator` | all short feeds, symmetry |
| `Transport` | accept loops, queue, tonic, publisher loop, guard |
| `TransportProofs` | its theorems |
| `DhtBucket` | what the operations on buckets of ads compute |
| `DhtShard` | extends `DhtBucket`: publishers and resolvers of one bucket |
| `MCDhtShard` | sizes and clocks of the publishers |
| `DhtProofs` | what sorting, merging and trimming compute; racing publishers |
| `DhtFeed` | the publisher's timetable against the feed's, over minutes and shards |
| `Backends` | static, mDNS and peer-exchange backends, merged per stream |
| `MCBackends` | static groups and user data |
| `DiscoveryProofs` | of `Backends`: where a yielded peer comes from, what a slow stream may lose; of `DhtFeed`: publisher and feed meet, what the burst finds |
| `Connect` | `connect` and its errors |
| `Channel` | extends `Connect` with one RPC: `call`, `pump_body`, the response body |
| `MCChannel` | request bodies around the size of the windows |
| `ChannelProofs` | failed connects, back-pressure, whole requests and responses |
| `ChatServer` | the chat node: handlers, forwarders, lock, benchmark, shutdown |
| `ChatProofs` | who hears which message; the deadlock of the lock and a full channel lasts |

A definition whose comment starts with "Mutant of" is a deliberately wrong version of
the definition after it. It is not part of any specification: putting it in place
of the original must break the property it is paired with in PROJECT.json.

### ConnectionPool

`closed`, `pool`, `queue`, `connections`, `idle`, `nextGen` are the fields of
`Shutdown` and `PoolActor`; `connections[p]` is the generation in the slot of peer
p, or 0. `actor[g]` holds the locals of the `run_connection` task of generation g
(its position, mailbox, connection, lease count, stored `Notify` permit, idle timer,
`shutdown_pending`), `caller[c]` those of a task in `get_or_connect` or
`open_stream`.

An action is what a task does between two points at which another can overtake it.
Each branch of the `select!`s is an action (`SeeShutdown`, `SeeClosed`, `Serve`,
`ServeError`, `Refuse`, `Notified`, `IdleExpired`), with the bias of the code as
guards; each `send(..).await` on the pool's queue is an action of its own
(`ReportFailure`, `Refused`, `ReportIdle`, `ReportDone`, `SendRequest`,
`Invalidate`) because the queue may be full. `PoolActor::handle` is one action per
path through it (`Forward`, `RejectBusy`, `RejectTooMany`, `SpawnConnection`,
`EvictAndSpawn`, `HandleIdle`, `HandleShutdown`). A oneshot reply and its receipt are one
step. Timers may fire whenever they are armed. The environment may lose a
connection (`Lose`), cancel a caller at any await (`Cancel`) and drop the last
handle (`Close`). `notify_waiters` wakes only tasks that have created their future;
an actor or the pool actor that is between its check and its wait misses it.

`LeaseService` forgets peers, slots, queues, actors and timers: connections are opened,
leased while open, lost by the network, and closed only when nobody leases them.
`ImplementsService` maps a connection to a generation, its state to the `conn` of
the generation's actor (`StateOf`) and a lease to the generation of the `ConnectionRef` a
caller owns (`LeaseOf`).

### Registry

`options` are the registries that exist with their `pool_options`, `pools` the pools made
so far, `arc` the handles of pools: those in the cache, named by their key, and those
that `pool`, `find`, `ConnectionPool::new` and `clone` gave out. `PoolOptions` are
the `connect_timeout`, which the builder can set on its own, and the rest. A
handle's drop is `DropBegin` (`Drop::drop` reads `strong_count` and may shut the pool
down) and `DropEnd` (the decrement), and other threads run in between. A `LocatorBuilder`
borrows its registry; `TimeoutEach` sets the timeout in the options it was given,
`BuilderPoolOptions` replaces them. Their other half, the locator's own `timeout_each`, is in
`Locator` a bound that may strike at any time. A pool that was shut down is `ConnectionPool` after `Close`.

### SwarmEngine and Locator

A feed is the sequence of items it will yield: peers, the local endpoint, errors.
It then ends or, if it is in `endless`, stays pending. SelectAll's order is left open.
`Complete`, `Discover`, `DiscoverError` and `DiscoverNone` are the branches of the
`select!`; the task then waits in `Send` until the channel has room. Attempts are
futures inside the task, so none completes while it waits. The `biased` order of the
branches is not modelled: which attempt is ready is the environment's choice, so
either branch may come first. `Receive` is `recv` in `first` and `poll_next` of the
stream; `DropHandle` also stands for a cancelled `first`.

### Transport

One accept loop per connection, `buffer` for the `IrohIncoming` queue, `stream[s]` for
the fate of each stream. The router and tonic are libraries, modelled by what the
code asks of them: tonic takes streams until it sees the signal, ends when the RPCs in
service have ended, and drops the queue then. Both outcomes of
`shutdown_rx.recv()` count as the signal (a message, or an error because the
sender is gone). The model has at least one service, hence a tonic task; with none,
`spawn` starts no accept loop either and only the publisher remains.

### DhtBucket and DhtShard

`DhtBucket` has `verify`, `merge_valid`, `upsert` and `trim_to_size` as operators on
sequences of ads. An ad is a node and two times. Signatures and the version number of the
encoding are abstract: the ads of a bucket are signed by their nodes for that bucket. A
node's tags are fixed and only decide the size of its ad.

`DhtShard` is one bucket, that is one service, minute and shard. `publish_shard` is
`Begin` (the clock is read once), `Read` or `TooLarge` (read, merge, upsert, trim), and
then the put with its outcomes `Stored`, `QueryFails`, `Retry` and `GiveUp`.
`publish_all` goes through the services and shards one by one, and
buckets do not touch each other, so one is enough. Times count from the start of the
minute, and each node's clock has an offset. A publisher looks at the clock only in
`Begin`: the merge in every attempt uses that `published_at` too.

The mainline DHT is external. `versions` is everything that was ever stored under the
key. A read is answered with any subset of it, so replicas may be stale, silent, or all
gone (which also stands for the panicked read task). A put is decided against the newest
version: with `cas`, its sequence number must match; a lower one is refused, an
equal one may go either way. A stored put may still report a failure, which the
publisher treats like any other outcome that ends the call. `query_shard` changes
nothing and is an operator, quantified over all replies in `ResolveIsNewest`. The fields
`since`, `misread`, `by`, `cas` are history for the properties only.

The read that finds nothing puts with `cas` None and sequence number 1. Two publishers
that both do so at the start of a minute are not protected from one another: one of the
two ads may be lost until its node's next publication. `UpdateKeepsAds` excludes exactly
this race (`item.seq = 1`, and two versions with the same number) and trimming. An ad that is
trimmed away has to be no newer than all that stays, and there has to be a valid stored ad,
not older than it, for which there is no room either: the first one that trimming drops. The
trimmed ad itself may well be small enough for the room that is left, because trimming stops
at the first that does not fit.

### DhtFeed

One publisher and one feed with their own phases. `PubStart`, `PubTick`, `Put` are the
interval and `publish_all` with its shards one after another; `PubStop` is the shutdown
branch. `FeedStart`, `QueryShard`, `NextPass`, `Poll` are `dht_feed`: a burst over the
current minute and the one before, then polling of the current minute. A pass reads the
clock once. Time is in ticks; a timer that is due fires and a DHT operation that has used
up its bound ends before the clock goes on. That every put succeeds and is seen at once
is the best case: what contention does to a bucket is `DhtShard`. An ad lives two minutes
or more (`DHT_AD_TTL_SECS` is 120). The specification is called `FeedSpec`, because
`DiscoveryProofs` extends this module and `Backends`.

### Backends

`Feeds` makes a stream for a service as `discover` and `find` do: the static groups whose
scope matches, a subscription to the broadcast channel, mDNS events filtered by the user
data. `Receive` and `Lagged` are the two outcomes of the receiver; `seen` is the engine's
deduplication with the source of the first mention. The user data's text is abstract, but
not what its classification decides: no user data at all, or the set of services whose tokens it holds.

### Connect and Channel

`Connect` is `connect_impl` and `connect_inner`: the awaits of `connect`, `open_bi` and
the handshake, a timeout around each, and the mapping of errors. iroh closes a connection when its
last handle is dropped, so the model follows who owns one (`owners`): the local `connection` of
`connect_inner`; from `open_bi` on also the stream, whose `IrohContext` has a clone; from the
handshake on the driver task, which got the stream. An error, a timeout and a
future that the caller drops (`CancelConnect`) drop the locals of `connect_inner`, a stream that is
inside the handshake included, and no more than these (`Drop`, `Locals`); whether that closes the
connection depends on who else owns a handle, and is what `FailedConnectCleans` is about.

`Channel` adds one RPC. A frame of the request is a number of units of the flow
control window; `pump_body` waits for capacity, which may be one unit, and hands the whole
frame over. The code does not look at the amount that `poll_capacity` reports: that it is at least
one unit is h2's contract, and `BackPressure` relies on it. h2 (windows, buffers, resets) and the handler are external. A handler
collects the request, echoes it, or answers early; a request body ends, ends with
trailers, fails, or waits for the response (`interactive`). `CancelCall`, `DropBody`,
`DropHandle`, `Lose` and `ServerFails` may strike at every step.

### ChatServer

`task` holds the handlers of `send_message` and `chat_stream`, `sub` each subscriber's
handler, forwarder and channels. tokio's `RwLock` is a first-come-first-served queue
(`waiting`) in front of the set of `readers`: `add_message` stays a reader while it awaits
room in each subscriber's channel. Main waits for a signal, drains and stops; with it every task ends.
The list of all messages is only appended to, under a lock that is not held across an await, and is
left out.

Nothing of what clients do is used up: calls and stream messages keep coming, because the number of a
message that everybody has read is given out again, and so do subscribers, because one
that has been removed may subscribe again. `owed` is history: what a subscriber was in the map for and has
not read yet. `Crowds` says which of the clients occur together. The client of a chat
stream is any gRPC client of the service: `interactive_chat` of the same file awaits its call before it
feeds the body, which is the case of `channel_interactive`, and never takes a response.

## 3. The runs

| run | bounds | shows |
|---|---|---|
| `pool_contention` | 2 callers, 2 peers, 1 slot, 2 connections, all channels of capacity 1, no losses | exact lease counts (`CountIsHolders`), `SlotsConsistent`; `ImplementsService`; `GetOrConnectReturns`, `UnleasedIsClosed` |
| `pool_loss` | 2 callers, 1 peer, 3 connections, 2 losses | `RetryAvoidsDead`, `RequestNeverLost`, `SlotLossJustified` |
| `pool_leased_limit` | 2 callers, 2 peers, 1 slot, queue of 2 | violation of `LeasedWithinLimit` |
| `registry` | 2 registries, 2 handles, 1 service, 2 timeouts, 2 values of the other options, 3 pools | `OnePoolPerKey`, `LiveNotDown`, `DownAtLast` |
| `locator` | every pair of feeds of at most 2 items over 2 peers, the local endpoint and an error, any subset of them endless, for this or another service; `max_inflight` 2, `limit` 1; with and without the overall timeout | `EachPeerOnce`, `BackPressure`, `OutcomesConserved`, `ErrMeansUnreached`; `FirstReturns`, `DropStopsTask` |
| `transport` | 2 connections, 3 streams, queue of 1 | `QueueIsExact`, `ShutdownIsGraceful`; `TasksEnd` |
| `dht_shard` | 4 publishers, at most 4 versions, 3 instants, a bucket that holds 3 units, 2 attempts | `BucketsWellFormed`, `ResolveIsNewest`, `UpdateKeepsAds`, `ContendedMeansOvertaken` |
| `dht_feed` | minutes of 6 ticks, lifetime 12, 2 shards, publish intervals 2 and 3, poll intervals 3 and 6, both begin within the first 11 ticks, 29 ticks | `FeedFinds`, `BurstCovers` |
| `backends` | 2 streams, 2 services, 2 peers, broadcast channel of 1, 3 announcements | `Provenance`, `NewestKept`; `NewestArrives` |
| `channel` | windows of 2, echo buffer of 1, requests of 0 to 6 units in up to 3 frames, replies of 0 or 3 units, three kinds of handler, all connect options | `FailedConnectCleans`, `BackPressure`, `NoTruncatedRequest`, `NoTruncatedResponse`; `CallReturns`, `ResponseEnds`, `PeerSeesFailure`, `DroppedIsClosed` |
| `channel_interactive` | requests of 1 or 2 units, an echoing handler | violation of `EveryCallReturns` |
| `chat` | 1 benchmark call at a time, 1 chat stream, 2 subscribers, three of these four at a time; channels of capacity 1, at most 2 messages on their way, any number in all; `--max-requests` 2 | `EveryoneHears`; `LockPassesOn`, `SignalStops` |

Types, where they are stated, are proved (section 5).

Why the bounds are enough to be interesting. One slot and two peers make every
request of the second peer meet the limit, so that rejection, eviction and
replacement all happen; two generations, and in `pool_loss` three, let a slot be replaced
while messages of the old generation are under way. Capacity 1 makes every channel full as soon as it is
used. Two losses exhaust `OPEN_STREAM_RETRIES` (2 in the code too). Two feeds of two
items suffice for a peer announced twice by one feed, once by each, and an
error before, between and after. The four publishers have ads of size 1, 2, 1 and 4, so
that trimming has to choose and one ad never fits, and the third one's clock is ahead, so
that its ads come from the future for the others; in four versions a reader can miss
a version between two it sees. Two attempts instead of the code's four keep "an attempt is
left" and "none is left" apart. Three pools, two of them of the same registry, and two handles let two
drops of one pool overlap while another pool lives. Requests of six units are the largest
echo that windows of two, and a buffer of one, let through if the last frame has two
units, and the smallest that they do not if it has one. A minute of six ticks
gives every order of publication, poll and turn of the minute, with intervals that fit into
a minute together (`RoomInMinute`) and intervals that do not; 29 ticks are what `FeedFinds`
needs when the feed begins at the last moment. A broadcast channel of one is overrun by
the second announcement. Two subscribers let one be added, or removed, while `add_message` waits for
room in the channel of the other. Two messages on their way are one in a channel and one that waits for
room in it; as their numbers are used again, a reader can come before a waiting
subscriber as often as the lock allows, which is what `LockPassesOn` must exclude: with a lock that
prefers readers it fails.
`MaxGeneration`, `MaxLosses` and `Reserve` bound the environment
only: a caller starts an operation when the generations left suffice for
it and for those in progress, so no operation is cut short by a bound.

All runs say `CHECK_DEADLOCK FALSE`: each of these systems may stop for good (the pool
when its handles are gone or its bound is used up, the locator when its task and
handle are done, the server after shutdown, a bucket when its minute is over, the RPC when
it is over, the chat node when it has stopped). That nobody is stuck before
that is what the liveness properties say.

### Fairness

- Pool: weak fairness of the pool actor, of every connection actor's moves and of
  every caller's next step inside an operation, because the runtime polls a task that is
  ready; strong fairness of the sends on the pool's queue, because tokio's `mpsc` hands
  permits out in the order of arrival. Armed timers fire; `connect_timeout`
  bounds a connect. No fairness for losing connections, cancelling,
  releasing leases or dropping the pool.
- Locator: weak fairness of the task, of the overall timeout if set, and of `first`'s
  receive loop. An attempt ends because `timeout_each` bounds it. The owner of a stream
  need not receive.
- Transport: weak fairness of tonic, the publisher's publications and `shutdown`;
  strong fairness of the publisher's shutdown branch, because its unbiased `select!`
  chooses at random among ready branches. That RPCs end is an
  assumption on peers and handlers: a graceful shutdown waits for them.
- Channel: weak fairness of the call, of the response body's reader, of h2's
  transmission, of the handler's reading and answering, and of the driver's end. None for
  the connect, losses, failures, cancellation and drops.
- Chat: weak fairness of handlers, forwarders, the benchmark's joins and main; strong fairness of the
  sends to the subscribers' channels, because tokio's `mpsc` hands permits out in the order of
  arrival; clients that stay read. Nobody has to leave, nothing has to fail, no call has to come. `SignalStops` assumes, as its premise, that the clients leave in the end.
- Backends: a stream that somebody polls is polled when an item is ready; a dropped one is not.
- DhtFeed needs none: its clock does not pass a deadline, so `FeedFinds` is an invariant.

## 4. What the code does differently from what it says

Shown by a run:

- An `Idle` message queued behind a request for the same peer puts a leased
  connection on the idle list. It can then be evicted, and more than
  `max_connections` are in use at once (`pool_leased_limit`).
- `IrohChannel` is meant as a drop-in transport for tonic clients, but `call` sends the
  whole request body before it awaits the response headers: a bidirectional stream whose
  next request waits for a response never returns (`channel_interactive`). `CallReturns`
  says which calls do return: those whose body does not wait, and, for a handler that
  echoes, those of which all but the last frame's rest fits the windows.

Stated by the properties as exceptions that the code does not handle:

- `add_message` of the chat node holds the subscriber lock while it waits for room in the
  channel of a subscriber whose forwarder waits for that lock to remove it (`Wedged`).
  From then on nobody sends or subscribes. A node that is told to stop waits as long as a
  call or a chat stream with a client is held up; it does stop when the lock is held by a chat stream
  whose client has left and nobody else is being served, because tonic does not wait for that
  stream's task. `WedgeStays` proves that the deadlock is no delay: only the failure of the call that holds
  the lock ends it, and nothing but the end of the process does if a chat stream holds it.
- Two handles of a pool dropped at once on two threads both see a `strong_count` of two,
  and the pool is never shut down (`raced` in `DownAtLast`).
- A DHT burst during which the minute turns looks at the same minute twice
  (`turned` in `BurstCovers`). The default intervals, 60 s for polling and 30 s for
  publishing, do not satisfy `RoomInMinute`: a peer that begins to publish after the burst
  may be published late and polled early in every minute, and never be found.

Seen while modelling, without a run of its own:

- `PoolError::Shutdown` ("The connection pool has been shut down") is returned by a
  live pool when a request sits in the mailbox of an actor that leaves its loop on
  idle expiry or remote close.
- `max_connections` ("Maximum concurrent connections") bounds the slots, not the
  connections: an evicted connection stays open until its idle timer fires.
- `run_connection` keeps a sender of its own mailbox, so `rx.recv()` never returns
  `None`. An actor that failed to connect while the pool was being dropped
  waits for ever, and the pool actor's join with it.
- `Locator::first` "returns an error if no peer could be reached", but an overall
  timeout that fires while a channel waits behind buffered errors drops that channel.
- Unless a timeout is set on the builder, `timeout_each` (2 s) is shorter than the pool's
  `connect_timeout` (5 s), and the attempt is dropped before the pool's own timeout.

## 5. What is proved

All theorems hold for arbitrary constants under the named assumptions of the modules
(positive capacities, finitely many callers, distinct names).

| theorem | statement | argument |
|---|---|---|
| `ConnectionPoolProofs!CounterCorrect` | `Spec => []CountIsHolders` | conjunct of `IInv` |
| `ConnectionPoolProofs!LeaseSafe` | `Spec => []LeaseKeepsConnection` | from `CountIsHolders` and `Unleased` |
| `ConnectionPoolProofs!Refinement` | `Spec => ImplementsService` | each action is a step of `LeaseService` or not seen by it |
| `ConnectionPoolProofs!TypeCorrect` | `Spec => []TypeOK` | `IInv` and the types of the idle list |
| `ConnectionPoolProofs!RequestsKept` | `Spec => []RequestNeverLost` | `CallerInv`: one place for each request |
| `ConnectionPoolProofs!RetriesMoveOn` | `Spec => []RetryAvoidsDead` | `Avoids`: the Shutdown message is ahead of the retry |
| `ConnectionPoolProofs!SlotsAgree` | `Spec => []SlotsConsistent` | `SlotsInv`: inductive with the types, and finitely many slots in use |
| `ConnectionPoolProofs!SlotsLostForAReason` | `Spec => SlotLossJustified` | from `ShutdownsTrue` and `SlotsInv` |
| `LocatorProofs!TypeCorrect` | `Spec => []TypeOK` | four groups of variables, one lemma each |
| `LocatorProofs!PeersTriedOnce` | `Spec => []EachPeerOnce` | strengthened by `TriedAreSeen` |
| `LocatorProofs!PressureBounded` | `Spec => []BackPressure` | strengthened by `SendingBound`, `BufferBound` |
| `LocatorProofs!OutcomeOnce` | `Spec => []OutcomesConserved` | `OnePlace`: sets instead of counts; `OutcomesKnown`, `AbortedIsDropped` |
| `LocatorProofs!ErrIsHonest` | `Spec => []ErrMeansUnreached` | from `OnePlace`, `Truthful`, `DoneAtEnd`, `EndIsEnd` |
| `TransportProofs!TypeCorrect` | `Spec => []TypeOK`, the queue's bound included | inductive as it stands |
| `TransportProofs!ShutdownGraceful` | `Spec => []ShutdownIsGraceful` | strengthened by `StoppedIsQuiet` |
| `TransportProofs!QueueExact` | `Spec => []QueueIsExact` | strengthened by `Distinct`, `Buffered`; counted by `ExactCounts` |
| `RegistryProofs!TypeCorrect` | `Spec => []TypeOK` | part of `IInv` |
| `RegistryProofs!CacheIsExact` | `Spec => []OnePoolPerKey` | strengthened by `CacheOK` |
| `RegistryProofs!UsablePoolIsUp` | `Spec => []LiveNotDown` | a handle sees a count of one only if it is the only one |
| `RegistryProofs!LastDropShutsDown` | `Spec => []DownAtLast` | strengthened by `DownWhenUnused` |
| `ChannelProofs!ConnectCleans` | `Spec => []FailedConnectCleans` | strengthened by `ConnectOK`: who owns the connection at each await |
| `ChannelProofs!PumpBounded` | `Spec => []BackPressure` | strengthened by `RequestOK` |
| `ChannelProofs!RequestWhole` | `Spec => []NoTruncatedRequest` | strengthened by `UnitsOK`, `FreshOK` |
| `ChannelProofs!ResponseWhole` | `Spec => []NoTruncatedResponse` | strengthened by `InOrder` |
| `DiscoveryProofs!TypeCorrect` | `Spec => []TypeOK`, the receiver's place included | `PlaceOK` |
| `DiscoveryProofs!SourceVouches` | `Spec => []Provenance` | strengthened by `PlaceOK`, `LostOK`, `StaticOK` |
| `DiscoveryProofs!OnlyOldestLost` | `Spec => []NewestKept` | strengthened by `PlaceOK` |
| `DiscoveryProofs!FeedFindsPeer` | `FeedSpec => []FeedFinds` | `FeedInv`: `MinutesCovered`, `NonePassed` |
| `DiscoveryProofs!BurstCoversTwoMinutes` | `FeedSpec => []BurstCovers` | `FeedInv`: `BurstOK` |
| `ChatProofs!StayersHearAll` | `Spec => []EveryoneHears` | `ChatInv`: `Hears`, `TasksOK`, `OwedOK` |
| `ChatProofs!WedgeStays` | a `WedgedBy(t, s)` stays, or the call t fails | one step per action, from the types in `ChatInv` |
| `DhtProofs!BucketsAreWellFormed` | `Spec => []BucketsWellFormed` | `BucketOK` of what is stored and of what is about to be put |
| `DhtProofs!ResolvesNewest` | `Spec => []ResolveIsNewest` | `MergeNewest` and `SortSorts`, with the types only |
| `DhtProofs!UpdatesKeepAds` | `Spec => UpdateKeepsAds` | strengthened by `MadeOf` |
| `DhtProofs!ContentionIsReal` | `Spec => ContendedMeansOvertaken` | `PubOK`: every attempt so far was overtaken |

`LeaseKeepsConnection` says nothing about where an actor is, so it is not inductive: an
actor with a lease outstanding whose idle timer is armed would close the connection
next. `IInv` adds `Unleased`: an armed timer, a connection not made, an idle or expiry
report each imply a count of zero, and an actor leaves its loop with a positive
count only when the connection is lost. It adds `OwnsLease`: a caller has
a generation exactly in the states in which the code holds a `ConnectionRef`. Then `CountIsHolders`
turns "count is zero" into "nobody leases it". Each action either changes one actor
and no lease (`ActorStep`), spawns a generation nobody holds (`SpawnStep`), hands out
one lease (`ServeIInv`) or ends one (`LeaseEnds`).

For the locator, a new attempt is of a new peer because the engine remembers every peer
that was tried (`TriedAreSeen`); the bound on undelivered outcomes needs that an
outcome waits for room only while an attempt's place is free (`SendingBound`). No
outcome is lost because every step moves it from one of four places to the next
(`OnePlace`), and the steps that drop it abort the task, which only the end of the handle
does (`AbortedIsDropped`), or are the timeout. `ErrMeansUnreached` then follows at the
moment first() finds the channel closed and empty: the task has ended at the end of the stream
(`DoneAtEnd`, `EndIsEnd`), so every outcome was received, all of them failures as first()
would have returned otherwise (`FirstGoesOn`), and a failure is never reported of an attempt
that made a channel (`Truthful`).

The refinement needs three things of a step. A new generation is not yet a connection
(`SpawnUnseen`, with the conjunct of `Unleased` that a connecting actor has none), and it is
one of the service's (`GenBound`). A lease is handed out by an actor whose connection is
up, as the actor of a lost one has left its loop or refuses (`ServeLeases`). And an actor
that closes its connection has a count of zero, so that by `CountIsHolders` nobody leases
it (`ExitCloses`). All other actions leave `StateOf` and `LeaseOf` alone (`Unseen`).

`LeaseKeepsConnection` follows from the refinement as well; its own proof shows the
inductive invariant without the mapping.

The second half of `ConnectionPoolProofs` follows the requests. Where the request of a waiting caller is does not
suffice as an invariant, because each step that moves it relies on what the place says:
`CallerInv` says for every caller that its request is in one queue or mailbox, once, or in
the hands of one actor that refuses (`Placed`), and that the mailbox is of an actor of the
caller's own peer (`RightPeer`). `Avoids` is why a retry does not meet the connection that the
caller gave up on: that generation is not in its peer's slot any more, or a message in the
queue that will remove it is ahead of the caller's request. It holds because an
actor reports itself before it answers what is left in its mailbox, and `invalidate` is
sent by the caller itself before it asks again. `ShutdownsTrue`
says of every Shutdown message in the queue that its connection is over, and `ClosedOK` that nobody has an operation in
progress when the pool is closed; `SlotIds` that a slot's generation was
made for this peer. With them `SlotLossJustified` is a matter of the four actions that change the table.
`SlotsInv` says that the idle list has a peer once, with the generation in its slot;
`RemoveIdle` is followed entry by entry, and an eviction that is necessary frees a slot because
the entry it pops is in the table.

`DhtProofs` has two halves. The first says what the algorithms of `DhtBucket` compute, for
every sequence of ads: `Precedes` is a strict total order on ads (`PrecedesOrder`); the sort
returns the same ads, in order (`SortSorts`); merging returns of every node the newest ad
offered, and one only (`Newest`, `MergeNewest`); trimming returns the longest prefix that fits, with the
preferred node first (`FittingFits`, `TrimKeeps`). `UpdateSurvives` puts them together: after
merge, upsert and trim, every valid ad of the replies is in the new bucket, or a newer one of its node
is, or there is no room (`Survives`). The second half is the race. A publisher about to put
holds a bucket that was made of some replies, and one of those has the number that the put
compares (`MadeOf`), or there was none. The version that the put replaces has that number too;
so it is the version the bucket was made of, unless two have the same number.
`PubOK` counts the attempts: either the number a publisher read is still the newest,
and then its put cannot be refused, or another version was stored or missed in this attempt
too. Nothing is assumed about the replies, the clocks or the sizes.

What is computed by recursion is written as a recursive function, not with `SelectSeq`, a fold or
`SortSeq`, in the modules with proofs. The library's induction takes an operator, which the
provers cannot instantiate. The proofs do without: they form the set of the numbers for
which the claim holds and show that it has 0 and every successor of its elements
(`NatSetInduction`, from the well-foundedness of `<`).

For the registry, `DownAtLast` is not inductive, because a pool is shut down before its last
handle is gone; what each step keeps is that a pool is down once no handle to it can be
used (`DownWhenUnused`). The last such handle begins its drop either alone, and then sees
a count of one, or next to another one, and then the pool is in `raced`. `OnePoolPerKey`
needs that every pool a registry made stays in the cache while a registry exists
(`CacheOK`).

For the backends the invariant is one of each stream (`StreamOK`), because a step changes
one stream or adds an announcement at the end of the channel. `Provenance` is not inductive:
a later gap could cover the announcement a peer came from. `SeenOK` keeps that this
announcement is behind the receiver, and a gap begins at the receiver; `LostOK` and
`PlaceOK` keep what was lost behind it as well.

`FailedConnectCleans` is not inductive: a failing step closes the connection only if nobody outside of
`connect_inner` owns a handle. `ConnectOK` has a table of the owners at each await (`Owned`), and one lemma
for all the steps that give up (`GiveUp`): what is owned at any await is among the locals that they drop, so that
the last handle goes with them.

For the channel, `NoTruncatedResponse` looks back at an end that was taken from the buffer
long after it was sent. `InOrder` keeps the buffer's shape (`Shape`): the headers if call
has not taken them, then exactly the units that were sent and not delivered, and an end only
behind them and only from a handler that is done; an error may follow. So an end at the front
means that nothing is undelivered. One lemma per way of extending or shortening the buffer
(`ShapeData`, `ShapeTakeEnd`, ...) carries the proof. `BackPressure` is inductive once the
frame that waits for capacity is known to exist.

`NoTruncatedRequest` compares what the handler has been given with the sum of all frames. Each
step keeps that what the handler has, what it has yet to read and what is buffered are the units
of the frames that `pump_body` has taken, as long as the stream is not reset (`UnitsOK`); the end
is sent only behind the last frame, and seen only behind the last unit.

`FeedFinds` relates two timetables that know nothing of each other. `PubOK` keeps the
publisher's: a round begins when it is due, each put takes its time at most, and all are over
before the next round. Hence every minute that began after the first round gets an ad
in its own first round (`MinutesCovered`), from `CoveredBy(m)` on. `FeedOK` keeps the feed's: the next pass
is due an interval after the last at the latest. `NonePassed` joins them: as long as the
peer is not found, the last pass began before the ad of minute m was certain, or it is
the first one after, still in that minute because of `RoomInMinute`, and has a shard with the ad
ahead of it; the ad does not expire before. So no minute that begins after both can be passed by, and such
a minute is over two minutes later. The proof showed what an earlier form of the
property left out: a plain bound of two minutes is false when passes are slow (with a minute of 16 ticks,
intervals 11 and 3 and passes of 10 the burst delays the first polls, and the last pass ends late),
which the small run did not reach. `FeedFinds` now adds the passes. `BurstOK` follows one burst: an ad that was known when it began
and does not expire in it was found, or is in a shard that is still to be asked.

For the chat node `EveryoneHears` counts messages by their number, and what each step keeps is
`Hears`, its form without cardinalities: what a subscriber is owed is in its channels or
coming from a handler, not both, and nothing is there twice. Numbers are used again, so what has to be
kept is that a number in use is in use once: messages of different handlers differ (`TasksOK`), nobody is
owed the message of a handler that still waits for the lock (`OwedOK`), and a subscriber that has left is owed
nothing (`SubsOK`); then one handler's send does not disturb what is coming from
another. `SubsOK` also says that a subscriber's place that is free holds nothing, and that no handler is about to send to
it, so that whoever takes it next does not get a message of the one before: a handler that has the
subscriber in its list is a reader (`TasksOK`), and the removal waits for the readers. The length
follows by counting (`OnceCount`). `WedgeStays` needs little more than the types: the handler that holds the lock
can go on only when the channel has room or is closed, its forwarder only when it gets the
lock, and no other task touches either.

Only model-checked: the liveness properties (reasoning under fairness is outside the prover), that is
`GetOrConnectReturns`, `UnleasedIsClosed`, `FirstReturns`, `DropStopsTask`, `TasksEnd`,
`NewestArrives`, `CallReturns`, `ResponseEnds`, `PeerSeesFailure`, `DroppedIsClosed`,
`LockPassesOn` and `SignalStops`. Every invariant and every action property of a passing run is a theorem.

## 6. The plan

Done, in this order: `ConnectionPool` with the lease proofs; `SwarmEngine` and `Locator`;
`Transport`; `DhtBucket` and `DhtShard`; `DhtFeed`; `Connect` and `Channel` with their proofs;
`Registry` with its proofs; `Backends` with its proofs; `LeaseService` and the refinement;
`ChatServer`. Then the proofs that looked further: requests and slots in `ConnectionPoolProofs`,
`NoTruncatedRequest`, `DhtProofs`, the timetables of `DhtFeed`, `ChatProofs`.

What would extend it: several calls that share the window of one channel, and an abstract
specification of the channel that they implement.

## 7. What is not modelled

- `stream.rs` forwards reads and writes to the QUIC streams: pure I/O.
- `alpn.rs` and the text format of `user_data.rs` are stateless encodings; what the
  classification of user data decides is in `Backends`.
- The choice of shards and the keys in `dht/mod.rs` are hashing, and signatures are
  cryptography; which node publishes to which shards is left open in `DhtFeed`.
- `error.rs`, `otel.rs`, `lib.rs`, `swarm/mod.rs`: conversions, telemetry, re-exports.
- The generated protocol code, the echo example (one call), and of the chat example the
  command line, the prompt and the getters without state.
- One RPC per channel: several calls of one connection share its window, which `Channel`
  leaves out.
- Time is abstract except in the DHT modules: durations are not compared, a timer that is
  armed may fire. Hence nothing is said about attempts of the locator whose timeout
  runs on while its task waits for room in the channel.
- `limit = 0` and `max_inflight = 0` of the locator, which its assumptions exclude.
