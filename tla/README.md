# A TLA+ verification project for helix-rpc

helix-rpc compiles one IDL to clients and servers in several languages and
ships a runtime per language. This project models the Go runtime
(`src/runtimes/go`), the compiler's IDL tools and the code it emits
(`src/compiler`), and the Kubernetes control loops (`src/compiler/k8s`,
`src/integrations/helix-operator`). TLC checks small instances with every
interleaving; proofs checked by TLAPS cover every value of the constants.

## The system's parts

Paths are under `src/runtimes/go` unless they begin with another directory.

| part | source | what is hard | module |
|---|---|---|---|
| circuit breaker | `retry.go` 11-123 | every method is several atomic operations | `CircuitBreaker` |
| hedge token bucket | `retry.go` 125-205 | two compare-and-swap loops around one clock read | `TokenBucket` |
| retries and hedging | `retry.go` 207-372 | loser cancelled, late results, shared breaker, policies nobody validates | `HedgedCalls` |
| batch scheduler | `batching.go` | timer against arrivals, cancelled callers, failing handler | `BatchScheduler`, `BatchContract` |
| least-connections balancer | `balancer.go` | counts read one by one, index replaced meanwhile | `LeastConnBalancer` |
| resolvers, round robin, consistent hash | `resolver*.go`, `client_pool.go`, `consistent_hash.go` | the ring changes between registration and search | `TargetSelection` |
| connection pool | `client_pool.go` | Close against Get and Put | `ClientPool` |
| per-client rate limiter | `ratelimit.go` 15-184 | creation race, clock read before swap | `RateLimiter` |
| Redis rate limiter | `ratelimit.go` 186-334 | delayed scripts, expiring keys | `RedisBucket` |
| request pipeline | `grpc_handler.go`, `auth.go`, `metrics.go`, `telemetry.go`, `logging.go`, `tenant_gateway.go`, `websocket.go`, `errors.go`, adaptive limiter of `ratelimit.go` | formats, errors, panics, shared buffers and slots | `Gateway` |
| server life cycle | `grpc_handler.go` 665-882, `sniffer.go`, `thrift_handler.go` | Shutdown against connections in every stage | `ServerLifecycle` |
| shared-memory transport | `shm_transport.go` | one file for both directions | `ShmTransport` |
| datagram transport | `quic_transport.go` | channel send under a lock, two closers | `QuicTransport` |
| configuration, keys, `generate --watch` | `config.go`, `crypto/vault.go`, `compiler/main.go` | a read in the middle of a save | `Reloads` |
| IDL tools | `compiler/parser`, `linter`, `compat`, routes of the generators | six tools read one schema | `SchemaTools` |
| emitted codecs | `compiler/codegen/*_generator.go` | six languages, three formats, old and new contracts | `WireCodec` |
| emitted TypeScript client and hooks | `compiler/codegen/node_generator.go` | overlapping calls, bodies cut anywhere | `NodeClient` |
| schema controller | `compiler/k8s/controller.go` | a stopped loop beside the next | `SchemaController` |
| operator | `integrations/helix-operator` | resource and Deployment read at different times | `HelixOperator` |

How they interact. A client call resolves its service, lets a balancer pick the
target, takes a connection from the pool, asks the circuit breaker, runs its
operation with retries and possibly a hedge that the token bucket admits, and
reports to the breaker. A server's listener routes each connection by its first
bytes to net/http (gRPC over h2c, REST) or to a Thrift processor. A request then
passes the HTTP middlewares, routing, decoding and the chain of interceptors
(authentication, limiters, metrics) before its handler, which may be a batch
scheduler; its answer goes back through the same chain. The messages are those
the emitted codecs write and read, and the schemas behind them are what the IDL
tools parse, compare and document; the controller and the operator run these
tools and servers in a cluster.

`Gateway` composes the parts a request passes inside one server: it contains the
interceptors, the adaptive limiter, the tenants' limiters and the pool of buffers,
and takes from the rate limiters only their verdict. `HedgedCalls` likewise has an
atomic breaker and takes the bucket's verdict as an input; the modules of the
breaker and of the buckets have the detail.

Three modules put parts of a kind side by side, so that one run speaks of all of
them and the proofs share a context: `Buckets` (`TokenBucket`, `RateLimiter`, `RedisBucket`),
`Retries` (`HedgedCalls`, and `CircuitBreaker` for one caller) and `Connections`
(`ClientPool`, `ShmTransport`, `QuicTransport`). Their parts share no state: a behaviour
is one of the part that `which` names in its initial state, the variables of the others
are `Off`, and a property that says `which = "redis" => ...` is about that part's behaviours.

## How the modules correspond to the code

A module of concurrent code has one variable per word, channel or local, one action
per atomic step (an atomic operation, a channel operation, a `select` branch, a lock
region) and a `pc` per goroutine; `map` in `PROJECT.json` gives the lines of every
definition. An operator with the comment "Mutant" before the definition it
changes is a plausible bug of that definition, which a property must notice; no
specification uses it.

* **CircuitBreaker.** `Allow`, `RecordSuccess`, `RecordFailure`, `ForceOpen` and
  `ForceClose` at the grain of single atomic operations. A time stamp is its age
  up to `OpenTimeout`; counters stop at their thresholds. Both are exact, since the
  code compares with `>=` only. `openFor` and `probesPassed` are history variables.
* **TokenBucket.** `Consume` with its refill loop and its take loop. Amounts are in
  parts of a token, and the rate is truncated as `int64(...)` does. `taken` and
  `credited` are history variables.
* **HedgedCalls.** `ExecuteWithRetry`, `executeRetriesOnly` in one or two workers
  per call, the result channel of capacity two, the cancels deferred to the
  return of the call. A policy is any record of numbers, as in the code, which
  validates none. The product of a backoff and its multiplier is truncated to whole
  nanoseconds and then capped; a product past 2^63 becomes the
  largest or the least duration, as the build converts it. A backoff that is not positive makes `rand.Int63n` panic, which ends the
  process, and with `MaxAttempts` below one the loop is skipped: the call returns the
  zero value and no error without having called anything.
* **BatchScheduler / BatchContract.** `Invoke` (blocking send, then a `select` on answer
  and context) and `run` (collect, arm the timer, flush, fan out). `BatchContract` says
  what callers are promised, with no channel, timer or goroutine; `ImplementsContract`
  is the refinement.
* **LeastConnBalancer.** `Register` under its mutex up to the publication of a new
  index, `Next` (ensure every address, scan the counters, increment) and `Done`, each
  on the index it loaded.
* **TargetSelection.** A client resolves (static list, DNS or Consul, the last two
  external), then takes a target in turn or by a key. `NextWithKey` registers under
  the write lock and searches under the read lock; `Add` and `Remove` run in between.
  The hash is a function chosen in the initial state, with or without collisions.
* **ClientPool.** `Get` and `Put` are one channel operation each; `Close` closes the
  channel and then drains it. A `Put` on the closed channel panics, a `Get` yields nil.
* **RateLimiter.** The `sync.Map` of buckets (`Load`, then `LoadOrStore`), `allow`
  with its swap of `lastSeen` and its two loops, and the answer of the interceptor
  or the middleware. int64 sums wrap at `IntHalf`.
* **RedisBucket.** A server reads its clock, then Redis runs the script atomically on
  a key that may have expired, or fails, which refuses the request.
* **Gateway.** One goroutine per request: middleware, path and REST matching, the
  branch its content type selects (JSON, gRPC, gRPC-Web and its text form, SSE,
  WebSocket, FlatBuffers bodies), decompression and decoding, the interceptors
  inwards, the handler (a result, an error, a panic, messages of a stream), the
  interceptors outwards, the encoding through a pooled buffer, status and trailer. The
  adaptive limiter is modelled operation by operation; its round-trip times are
  abstracted to the queue they estimate. A body is a message, a codec, the compressed
  flag of its frame and the encoding its headers name; a flagged frame whose encoding
  is not gzip is decoded as it is, which fails, yields garbage or, where the bytes
  were not compressed after all, the message. The verdict on a token is an attribute
  of the request.
* **ServerLifecycle.** `Start` field by field, the sniffing accept loop, routing to the
  channel listener or to Thrift handlers, which are added to `activeConns` one processor at a
  time after the look at `inShutdown`, an `Accept` that fails at any time, and `Shutdown` from
  any number of goroutines and at any stage of `Start`.
  net/http and h2c are external: `Server.Shutdown` stops `Serve` and waits for the
  connections it tracks, and a hijacked connection is no longer tracked.
* **ShmTransport.** `Write` copies, then signals; `Read` waits for the signal, then
  copies, from the one file that both directions and all connections share; `Accept`
  blanks it, in one step: that an access between the truncation of the file and its
  extension faults is left out. A byte is the number of the message it is of.
* **QuicTransport.** `readLoop` with `l.mu` and its channel sends, `Accept`, `Read` with
  leftovers, and both ways of closing a stream, step by step.
* **WireCodec.** The emitted encoders, decoders, lazy getters, Thrift Compact readers
  and writers, transpilers and FlatBuffers codecs over real bytes, reduced in word
  size only. A message hops between runtimes, some of which know only its first
  fields. A lazy view has getters only, and a getter answers with the value or with the
  error or exception of a field that is not on the wire. The *domain* of a codec says
  for which messages it is meant to be exact (below). The emitted Go `Read` has one closing brace too many (`go_generator.go`
  500-501) and does not compile as it stands; `GoRead` models it without that brace.
* **NodeClient.** The effect, its cleanup and the reading loop of a hook, and the `async`
  calls it makes, over a body cut into parts.
* **SchemaTools.** Both parsers over tokens, the linter, `DiffASTs`, the
  Thrift-to-proto transpiler, and the routes and OpenAPI paths derived from one AST.
* **Reloads, SchemaController, HelixOperator.** The loops against whoever writes, publishes,
  edits, deletes or creates again; reads that fall into a save, compilations and API calls
  that fail; the cluster's collection of Deployments whose owner is gone.

## Runs

Components that share no state are checked in one run, in the way of `Buckets`:
`MCClient` has the balancer beside `Retries`, `MCAdmission` the pipeline beside `Buckets`,
and `MCComponents` the remaining parts beside `Connections`.

| run | instance | checks | result |
|---|---|---|---|
| `cb_concurrent` | 2 request goroutines, 1 debug handler, 2 failures, 1 probe | `NoMissedTrip`, `LeavesOpen`, `RecoversWhenHealthy` | holds |
| `cb_overlap` | 2 goroutines | `DocumentedTransitions` when calls overlap | violated |
| `batch_calls` | 3 calls, batches of 2, channel of 2 | `OwnAnswer`, `NoLostCall`, `SendsNeverBlock`, `CallTracking`, `ImplementsContract`, `EveryCallReturns` | holds |
| `batch_deadline` | 3 calls, batches of 1, channel of 1 | `DeadlineEndsCall` | violated |
| `srv_shutdown` | an HTTP and a Thrift connection, 2 Shutdowns, 2 processors | `ShutdownDrains`, `ShutdownEndsWithCtx`, `ShutdownCompletes` | holds |
| `srv_grpc` | a gRPC connection | `GrpcDrained` | violated |
| `client` | balancer: 2 clients, 2 targets; hedging: a hedged and an unhedged call, steady, shrinking, overflowing and attemptless policies; breaker: 1 goroutine, 3 failures, 2 probes | `CountsInFlight`, `SlotsAreStable`, `CallsReturn`; `HedgeOutcome`, `HedgesEnd`; `SerialTransitions` | holds |
| `admission` | hedge bucket: 2 goroutines, rate 3/2; client bucket: 2 goroutines, burst 2; Redis: 2 servers; pipeline: 2 requests, 26 forms, 6 deployments | `HedgeTokensConserved`, `HedgeRefillsBounded`, `HedgeRefillTimeAdvances`, `HedgeLockFree`; `ClientBucket`, `ClientSustainedRate`; `SharedRate`; `ClientLearnsOutcome`, `HandlerInsideChain`, `SlotAccounting`, `OneLimiterPerTenant`, `RequestsEnd` | holds |
| `components` | see below | `OneOwner`, `KeyAffinity`, `PingPongIntact`, `StreamInOrder`, `ListenerStops`, `WireFaithful`, `HookShowsLatest`, `SchemasFaithful`, `UpgradesCompatible`, `LoopsCatchUp` | holds |
| `rl_fraction` | 1 client, rate 1/2 | `SustainedRate` for a rate below one | violated |
| `wire_transpile` | the `UserProfile` of the tests | `GoTranspileDecodes` | violated |
| `gateway_errors` | the pipeline of `admission` | `ErrorsMapped` | violated |

What the properties say that their names do not, and what they leave open:

* **`ShutdownDrains`**: after a `Shutdown` that returned nil and had found the listener, the
  listener is closed and net/http runs no request that it tracks, also where `Start` had not
  stored the HTTP server yet. A `Shutdown` before `Start` stored the listener returns nil as
  well, and the server runs on, with every later `Shutdown` returning at once: nothing is
  claimed of HTTP then. A Thrift request outlives a successful `Shutdown` only on a connection
  that had passed the look at `inShutdown` and was not yet in `activeConns` when `Wait` returned.
* **`HedgeOutcome`**: a call returns a success only if a worker succeeded, an error of the backend
  only if every worker it started failed, and the zero value without an error only if its
  policy allows no attempt. A worker panics on its backoff only under a policy that is not
  *steady* (`Steady`: one that lets the backoff shrink, reach zero or overflow).
* **`ClientLearnsOutcome`**: a unary client is told success exactly when its own message was
  decoded, passed every interceptor and was answered; bytes from the pool of buffers are
  those of its own request. Two exceptions. It is silent about a request whose handler
  panicked, which net/http ends by closing the connection. And a path that no method serves is
  answered with status 200, an empty body and grpc-status 12 (`grpc_handler.go` 272-276): the
  property says that no handler ran and that the answer is just this, which a JSON client
  cannot tell from an empty success. Of a flagged frame in an encoding the server does
  not know the handler may see garbage, and the property allows it.
* **`HandlerInsideChain`, `SlotAccounting`, `OneLimiterPerTenant`, `RequestsEnd`**: no unary
  handler runs outside its chain; what a request took (slot, span, buffer) is given back on
  every path but one (a panic keeps the slot of the adaptive limiter: `leaked` counts it); a
  tenant has one limiter, however its first requests interleave.
* **`HedgeRefillsBounded`**: a failed swap of `lastRefill` is ignored, so calls of `Consume` that
  race refill the bucket for one moment more than once; `n` goroutines do so at most
  `n * (n + 1) / 2` times (three times for the two goroutines of the run).
* **`ClientBucket`**: a delayed request turns `lastSeen` back, and the same period is refilled
  again, but at most once per goroutine.
* **`SharedRate`**: servers admit at most the burst and what was refilled, never find more than
  a burst, and, where their clocks agree, refill a moment at most once per server and once
  by expiry (scripts that arrive late turn the time stamp back).
* **`OneOwner`**: a connection is in the pool once, or with one client, also while `Close` runs.
* **`KeyAffinity`**: the answer is one of the targets given, and, where no two virtual nodes
  collide and the targets are registered, the one nearest to the key.
* **`PingPongIntact`, `StreamInOrder`**: what nobody overwrote is read as written; a stream's bytes
  come in the order in which the listener received its datagrams. Neither transport
  promises more: a second `Write` before the `Read` overwrites, a full `readChan` drops.
* **`ListenerStops`**: `Close` returns and `readLoop` ends, except where a stream of an earlier
  datagram finds the channel full with nobody accepting, or two closers of one stream
  made the process panic. The property names both exceptions.
* **`WireFaithful`**: fields that every hop knows arrive unchanged while each codec is used in its
  domain, a lazy getter fails exactly on the fields that are not on the wire (absent, or zero
  and so not written), and Go's `ProtoSize` is exact for every message. The domains (`MarshalDomain` to
  `TranspileDomain`) record where the emitted code is not exact: Go field numbers from 16 on
  in `MarshalTo`, fields not numbered by position in Python, negative numbers in the Node, C++
  and Python transpilers and for int64 in Rust's, int32 fields in Node's, a non-zero
  field after a string in Go's, the long form of the Thrift header (numbers that go back or
  jump), and null strings in Java's Thrift writer, which emits a header without a value
  (`java_generator.go` 245-252).
* **`HookShowsLatest`**: a hook shows its latest request, whatever the order of the answers.
* **`SchemasFaithful`, `UpgradesCompatible`**: both parsers recover the AST that a file states; a
  documented operation is served by the method it names; releases that each passed
  `helix-gen diff` against the one before still serve the oldest clients.
* **`LoopsCatchUp`**: a reload loop ends with the version saved last. The controller ends the
  processing of every event, of each once, and its output is that of the newest event
  compiled; where compilations of a stopped loop and of the next one overlapped, an older
  output may stay, until a compilation that overlaps no other has written. The operator ends with a
  Deployment that the present resource owns, built as a whole from one spec it has had, with
  the eBPF mount if the present spec asks for it; it does not promise the image or the
  number of replicas of the present spec, since `Reconcile` compares the mount only.

`CallTracking` is the inductive invariant of the proof below and contains further properties
(`WaitEnds`). `HedgeOutcome`, `ClientBucket` and `OneOwner` include parts of the inductive
invariants of their proofs (`CallTracked`, `Charged`, `Ownership`), the first two also the
type invariants.

The violated properties are the findings:

1. **The first probe may come at once** (`cb_overlap`). `RecordFailure` swaps the state
   to Open before it stores `lastOpenTime`; an `Allow` in between measures the timeout from
   the previous stamp (the epoch on the first trip), although the comment on
   `OpenTimeout` (`retry.go:47`) reads "how long to stay Open before probing".
2. **A deadline does not end a call that waits for room** (`batch_deadline`). `Invoke`
   sends to the channel outside any `select`, although the developer guide
   (`docs/developer-guide.md:479`) says that the deadline terminates long-running requests
   early.
3. **Shutdown does not drain gRPC** (`srv_grpc`). h2c has hijacked the connection, and
   `httpServer.Shutdown` does not wait for it, although `docs/features.md:34` says
   that connection handlers drain.
4. **A rate below one request per second is no rate** (`rl_fraction`). The conversion to
   `int64` makes it zero, and the bucket is never refilled, although `ratelimit.go:20` calls
   it the sustained rate per client.
5. **The Go transpiler misnumbers fields after a string** (`wire_transpile`). The emitted string
   case does not set `lastFieldID` (`go_generator.go` 619-647). The test that decodes the bytes
   (`tests/go/production_features_test.go:475`) passes because the checked-in
   `tests/go/generated/test.pb.go` sets it; the generator no longer emits that.
6. **Error codes do not reach the client** (`gateway_errors`). `ServeHTTP` answers a handler's
   error with 500 or grpc-status 13 whatever its code, although `docs/features.md:43` says that
   the runtime maps the code to the HTTP status.

### Bounds, and why they are enough

Races between methods of one object need two actors in the middle of a call, and one
more to observe or disturb: hence two goroutines (and an operator) for the breaker, the
buckets and the balancer, three calls for a batch of two with one more waiting, three
users of the pool of one idle connection. Channels are as small as lets them fill: the
scheduler's holds one batch, `StreamCap` and `ReadCap` are 1, the controller's `Capacity` 2.
`MaxTime` bounds the clocks: three to six units are enough for a refill to be repeated,
capped and overtaken, for a key of Redis to expire, and for a save to begin and end between
two polls. With three attempts a backoff grows, exceeds its cap and is capped, or halves to
nothing; `DurationLimit` 8 stands for 2^63 and is passed by one product. The
code starts one goroutine per registered Thrift processor on the same connection: two
processors show that. One HTTP and one Thrift connection do not fill the sniffer's channel
(`QueueSize` 1); the proof is for any number of connections and any capacity. In the pipeline one request takes every form (each content type, good and
bad bodies, credentials, tenants and encodings, REST paths that shadow one another) beside
a second of a common form, which is what they need to share a slot, a limiter or a
buffer; `MaxSends` 1 lets a stream end before and after a message.
Two hops (`MaxHops`) are an old reader between two new ones; `IntBits` 14 and `LongBits` 28 keep the
multi-byte varints and the sign bits of 32 and 64. `MCSchemas` and `MCDrafts` have each kind of
field, gaps and disorder in the numbers, required and optional fields alone and beside
another. `MaxRing` stops the growth of the ring that colliding hashes cause, and
`MaxDials`, `MaxMessages`, `MaxDatagrams`, `MaxCalls`, `MaxEvents`, `MaxStarts` and `MaxChanges` the number of
operations in a run, at values that let a first operation be overtaken by a
second and a third. `IntHalf` stands for 2^63 and is above what the bounded clock can reach.
The counters of the breaker need no bound: they are capped by an exact abstraction.

### Fairness

Goroutines that can run do run (weak fairness of every step inside a call) and timers
fire. Strong fairness is assumed where Go gives a starved waiter its turn: `sync.Mutex`
(`Lock` of the balancer, `Close` of the datagram listener) and the queue of senders of a full
channel (`Enqueue`). The breaker's fairness speaks of its environment as well: time passes,
requests keep arriving (strong fairness of `AllowLoad`) and, as often as they may, some
succeed (of `SuccessLoad`). The code cannot promise that; without traffic an Open circuit
stays Open, and `LeavesOpen` and `RecoversWhenHealthy` are about a circuit with traffic. In the
same way `ListenerStops` is about an application that calls `Accept` until it fails,
`RequestsEnd` of the pipeline about handlers that return, and `LoopsCatchUp` about a writer that ends a
save it began, a work queue that repeats a failed pass and a cluster that collects
Deployments without an owner. Everywhere else, what the
code does not guarantee is a premise of the property: `HandlerEnds` for the batch handler,
`RequestsEnd` for server requests, `HedgeOperationsEnd` for client operations, `OperatorsRest` for
the debug handler. A client operation is assumed to return once its context is cancelled.
In `HedgesEnd` nothing is asked of a process that a panic has ended.
`CHECK_DEADLOCK FALSE` is set where a system stops for good when it is done: the server and
the composed runs, whose components are bounded in the operations they perform.

## Proofs

| module | theorems | for every |
|---|---|---|
| `RetryProofs` | `HedgesDecideRightly`, `SerialCallsFollowTheStateMachine` | set of calls, choice of the hedged ones, policies, width of a duration, thresholds, timeout |
| `HedgeBucketProofs` | `HedgeTypeCorrect`, `HedgeTokensAreConserved`, `HedgeRefillTimeNeverGoesBack`, `HedgeRefillsAreBounded` | finite set of goroutines, burst, rate, bound on the clock |
| `BucketProofs` | `ClientTokensConserved`, `ClientsBucket`, `ClientsSustainTheirRate`; `ServersShareRate` | finite set of goroutines or servers, clients, burst, rate, integer width, bound on the clock |
| `BatchSchedulerProofs` | `TrackingHolds`, `AnswersReachTheirCallers`, `NoCallIsLost`, `NoWakeUpIsLost`, `FlushNeverBlocks`, `SchedulerKeepsContract` | set of requests, batch size, channel capacity |
| `LeastConnBalancerProofs` | `AccountingHolds`, `CountsAreExact`, `CountersAreSeparate`, `NextKnowsItsTargets`, `SlotsNeverMove` | finite set of clients, targets, address lists |
| `GatewayProofs` | `SlotsAccounted`, `HandlersInsideChain`, `TenantsShareLimiter`, `ClientsLearnOutcome` | finite set of requests, forms of a request, methods, routes, chains, limits |
| `ServerLifecycleProofs` | `ShutdownDrainsServer` | set of connections and callers, number of processors, channel capacity |
| `ConnectionProofs` | `TypeCorrect`, `TripAlwaysPending`, `TripsNeverMissed` (breaker); `ConnectionsHaveOneOwner`; `MessagesReadAsWritten`; `StreamsAreReadInOrder` | set of goroutines and operators, thresholds; set of clients, connections or streams, capacities, sizes of file, messages and slices |

The assumptions are the `ASSUME`s of the modules, which TLC evaluates in the runs of these
modules: sizes, rates and thresholds are numbers, positive where a division or a threshold needs
it; sets that are counted are finite; goroutines and operators are disjoint; address lists
are not empty; no clock of a server is before the epoch; a chain of interceptors has the adaptive
limiter at most once and starts with a limit up to `MaxLimit`, and no message is
one of the words the model uses for "none" and "error". Two theorems about the per-client limiter
have hypotheses of their own, as the code needs them: `NoOverflow` (the capacity and what the
clock's range refills stay below 2^63) for `ClientsBucket`, and `WholeRate` besides
(`RequestsPerSecond` is a whole number) for `ClientsSustainTheirRate`. The run `rl_fraction` shows
what happens without the second. `ClientTokensConserved` needs neither.

* **Breaker.** `NoMissedTrip` speaks of quiescent states only. `TripPending` is inductive:
  a Closed circuit that shows `MaxFailures` failures owes its caller a swap to Open or a
  reset. Every operation that makes the premise true is followed, in its own goroutine, by
  the operation that discharges it, and a failed swap shows that the state was not Closed.
  For one caller, `SerialInv` adds what the state is at each label and that the stamp
  compared with `OpenTimeout` is no older than the time spent in Open: the swap to Open
  and the store of `lastOpenTime` are not seen apart, as they are in `cb_overlap`.
* **Hedging.** `CallTracked` says, for each position of a call, which results the channel holds
  and in which order: what its workers that ended have sent and it has not received. The
  call waits for a second result only after an error, so the last one decides. `Settled`
  adds when a call may return before its workers, on which `OnlyLosersFail` rests. `Policed`
  ties the labels of a worker to its policy: without an attempt it never operates, and
  under a steady policy its backoff stays positive and within its bounds, so that it does not
  panic.
* **Hedge bucket.** Conservation holds step by step once `tokens` is known to stay between 0 and
  the capacity. That `lastRefill` never goes back needs the times a goroutine holds: `last` is
  before its `now`, `now` is not ahead of the clock, and the swap succeeds only on `last`.
  How often a moment `m` is refilled is an amortised count, and the state does not say who
  refilled what. `HedgePaid` says that a set of marks exists, no larger than the bound
  allows, that pays for all refills. A goroutine pays for a refill of `m` with its own mark.
  It can come back to `m` only when its swap of `lastRefill` failed because another goroutine
  had moved it, though not up to `m`; it then exchanges its own mark for that of the pair of
  the two, and no pair is used in both directions (`OneWay`). There are `n` own marks and
  `n * (n - 1) / 2` pairs for each moment.
* **Client buckets.** `Charged` adds that a goroutine past the lookup has a bucket, and that a
  client without one was charged nothing, so that the bucket stored first starts the account.
  For the refills, `ClientPaid` has a set of pairs of a goroutine and a moment in the same way:
  a swap of `lastSeen` forward uses up pairs, one that turns it back owes the moments
  between, and a request between its swap and its addition owes its own refill. `Lone` says
  what a request finds that came as late as `Retry-After` asks and alone.
* **Redis bucket.** `RedisPaid` is the same argument with one more debtor: a key that expired for
  `X` moments gives these away, which is why the bound has one refill more than there are servers.
  It is conditional on clocks that agree; that grants stay within burst and refills is not.
* **Scheduler.** None of the callers' properties is inductive, since an answer is right only
  if the batch, the channel and the caller's position agree. `CallTracking` adds that a call
  is in one place only (channel, batch or neither), that a caller's position says
  where its request and its answer may be, and what `run` has at each point. The refinement
  maps the state to `BatchContract` by `ExecOf`, reading how a batch ended off the answers
  still around; every step is a contract step or a stutter.
* **Balancer.** Exact counts need three more facts: published and unpublished indexes
  only grow, on separate slots within `eps`, fresh ones at zero (`IndexesGrow`);
  each client's way through its list (`ListTracked`), so that `Next` increments the slot of a
  registered target (`KnowsItsTargets`); and that what a client loaded earlier agrees
  with the published index where it is defined (`Extends`).
* **Pipeline.** `ChainInv` ties, for each request, its place to its depth in the chain (`Placed`), to
  what it holds (`Holding`: slot, span, buffer) and to the verdicts it passed (`Passed`); the
  count of the limiter is then the number of holders and of slots lost to panics. `AnswerInv`
  builds on it: what was decoded, what was written so far, that a buffer between `Encode` and
  `WriteOut` holds its own request's answer, and that no two requests have one buffer.
  `Learned` says of a finished request what its client was told, and has a part for the path
  that nothing serves.
* **Shutdown.** `ShutdownInv`: one caller only does the work. Until `Start` accepts there is no
  connection (`ListenerInv`), and a worker that found the listener closed it for good. Past
  `httpServer.Shutdown`, either the server was there and net/http tracks no request and accepts
  none, or it was not stored yet, and with the listener closed no connection will come
  (`HttpQuiet`). Past `Wait` every Thrift handler is of a connection in `late`.
* **Pool.** `OneOwner` speaks of sets; `Ownership` says the same of the positions of the channel,
  which `Get` and `Put` change one at a time, and adds that a new dial differs from all others.
* **Shared memory.** `ShmInv`: a message still clean, wherever it is on its way (being written,
  signalled, being read), is what the file holds from its first byte on.
* **Datagrams.** `QuicInv`, for each stream: what waits in `readChan` is whole, numbered upwards and
  later than what was read; what is left over is the rest of the datagram read last.

Model-checked only:

* liveness, which TLAPS does not prove under fairness: `LeavesOpen`, `RecoversWhenHealthy`,
  `EveryCallReturns`, `ShutdownEndsWithCtx`, `ShutdownCompletes`, `CallsReturn`, `HedgesEnd`,
  `HedgeLockFree`, `RequestsEnd`, `ListenerStops`, `LoopsCatchUp`;
* what recursive operators compute over data (no installed prover can do the induction):
  `WireFaithful`, `SchemasFaithful`, `UpgradesCompatible`;
* `KeyAffinity` and `HookShowsLatest`, which rest on sorting a ring and on decoding a body cut
  anywhere, again inductions over sequences.

## Not modelled

* **Lexers.** They cut text into tokens; `SchemaTools` starts from tokens. Templates of
  declarations, comments and project scaffolding in the generators and the command line
  are text without behaviour.
* **Health checks.** A map under one mutex, every operation a single step.
* **Response cache, RabbitMQ, event, database and compression helpers, telemetry exporters,
  debug pages, eBPF agent.** They pass their arguments to a library or print state.
* **Kafka bridge and gateway plugin.** The bridge reads a message, rewraps and logs it; the
  plugin calls its host. Neither keeps state.
* **Rust, Python, Node, Java and C++ runtimes.** The same components over other primitives,
  each of which needs a translation of its own. What the compiler *emits* for these
  languages is in `WireCodec` and `NodeClient`.
* **`HasFallback` branches of the generators.** Structs with fields that a format does not
  support get other bodies, which decode eagerly, answer with zero or null, or refuse to transpile
  (`go_generator.go` 511-524, `java_generator.go` 114-133, `cpp_generator.go` 98-118,
  `python_generator.go` 289-301, `node_generator.go` 240-284, `rust_generator.go` 91-110 and
  400-423). `WireCodec` has the branches of structs without a fallback.
* **The Rust FlatBuffers codec** (`rust_generator.go` 177-325). What it emits are methods
  outside an `impl` block, which do not compile.
* **In modelled parts.** In the pipeline: the deadline of a request, its metadata, the bytes of
  frames and headers, signatures and claims of tokens. In the transports: the Windows
  file without shared memory, and sending datagrams. In the vault: `GetKey`. A connection of
  `ServerLifecycle` carries one request; keep-alive is a later request on a connection
  that net/http tracks in the same way.
* **Time and width.** The wall clock is assumed not to go back, though Go's `UnixNano` is not
  monotonic. int64 width is modelled where the code can reach it (`RateLimiter`,
  `WireCodec`); the product in `TokenBucket` reaches 2^63 only after 29 idle years at 10
  hedges per second. Every write of a watched file is assumed to change its modification time.

`PROJECT.json` gives the status of every part.

## Observations

Facts met while translating, which the modules reproduce or name as exceptions:

* A half-open breaker admits every caller, although the comment at `retry.go` 80-82 speaks of one
  concurrent probe.
* A panicking handler skips `Release`, and the adaptive limiter loses the slot
  (`ratelimit.go:422`).
* Streaming handlers are called directly, outside the interceptors, and the status of a gRPC
  stream is set in the headers after these were flushed (`grpc_handler.go` 406-438).
* `NewJWTMiddleware` looks for the token in the metadata of `r.Context()`, which a plain HTTP
  request does not have, and so refuses it with the default extractor.
* The writer of `HTTPMetricsMiddleware` hides `Flusher` and `Hijacker`: behind it events are not
  flushed one by one and a connection cannot become a WebSocket.
* After `ClientConnPool.Close`, `Get` returns nil and `Put` and a second `Close` panic. A second
  `HelixVault.StopPolling` panics too.
* A datagram stream closed by its application and by the listener at once may panic
  (`quic_transport.go:176`), and `readLoop` blocks on a full `streams` channel while it holds `l.mu`.
* The shared-memory file serves both directions, `Accept` blanks it, and `Close` may unmap it
  under a `Read`.
* A hook whose request becomes null while it loads goes on showing `loading`.
* The OpenAPI document and the Node client use the path of package `v1` for a method without a
  REST option, and the Node client always sends POST.
* In the proto parser any `name: "string"` of a `google.api.http` option sets verb and path, `body: "*"`
  included. The Thrift parser refuses `namespace * x`, which its own message allows.
* A `SchemaController` whose parent context is cancelled still counts as running, and after `Stop` and
  `Start` two compilations can overlap.
* The operator creates Deployments and adds a missing eBPF mount; a changed image or
  number of replicas is not rolled out.
* A retry policy is not validated: a multiplier below one shrinks the backoff to zero, at which
  `rand.Int63n` panics (`retry.go:288`), and `MaxAttempts` 0 reports success without a call
  (`retry.go` 305-306).
* A `Shutdown` before `Start` has stored its listener returns nil, and the server serves on.
* A JSON request for a path that no method serves is answered 200 with an empty body
  (`grpc_handler.go` 272-276).
