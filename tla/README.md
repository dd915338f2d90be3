# FluxMesh: TLA+ models and proofs

FluxMesh is a service mesh of equal processes.  Each process is a *server*
(which embeds an etcd member) or an *agent* (which uses the etcd of others).
etcd holds what must not be lost: node registrations under leases, and service
configurations.  Measurements that may be lost travel by gossip between
in-memory stores.  Every process also runs a traffic plane that follows the
service configurations and opens listeners for them.

This directory holds the specifications of that system (TLA+), their model
checking configurations (TLC) and proofs (TLAPS).  `PROJECT.json` maps every
definition to the source lines it stands for and lists runs, mutants, hazards
and theorems.

## 1. Inventory

| Part | State | Operations | Talks to | Hard because | Correct when | Module |
|---|---|---|---|---|---|---|
| Soft-state store, bus, gossip (`internal/softkv`, `runSoftKVBus`, `gcSoftState`, `updateNodeMetrics` in `internal/app`) | entries and sequence counters per process; a bounded channel; messages under way | Put, Publish, Merge, DeleteExpired, broadcast, push/pull, loopback, restart | memberlist; clocks | messages lost, repeated, late; Merge checks expiry before it locks; restarts lose the counters; clocks differ | readers see no sample go back; a store only moves up the merge order; gossiping nodes agree in the end | `SoftKV` |
| Traffic plane: refresh and listeners (`internal/traffic/server.go`, `BuildPlan` in `runtime.go`) | plan and snapshot, watch revision, listener maps, sockets | Start, watch loop, fallback loop, refresh, bind/close, Shutdown | etcd List and Watch; the kernel | two goroutines refresh at once and list outside the lock; HTTP listeners bind and close asynchronously | listener maps match the plan in force; a watch never resumes past an unseen change; the plan becomes what is stored | `TrafficRefresh` |
| Life of a process (`internal/app`, `internal/etcd`, `internal/reconcile`, `internal/registry/nodes.go`, `cmd/fluxmesh`) | etcd member, lease, node key; current lease and keep-alive channel; reconciler tasks | join, embedded etcd, rollback and its retry, register, recover the lease, revoke, evict | etcd | every call may be applied without being acknowledged; crash between any two calls; eviction from another node; cancellation racing recovery | a healthy lease means a registered node; a lost registration comes back; a dead process is forgotten | `NodeLifecycle` |
| Service registry and API (`internal/registry/services.go`, service handlers of `internal/httpapi`, `internal/model/service.go`) | configurations and their ModRevisions | GET, POST, PUT (compare-and-swap), DELETE | etcd | several clients at once; PUT answers by a second read; retry after a lost answer | no PUT overwrites a version it did not name; the status tells whether it was made | `ServiceRegistry`, abstractly `ConfigStore` |
| Route matching, target selection, balancers (`runtime.go`, `balancer.go`) | round-robin counters and latency averages, shared by all requests and kept across refreshes | BuildPlan's routes and groups, Match, ResolveDestination, ResolveDestinationsForAttempts, Pick, ObserveLatency | refresh; the HTTP, TCP and UDP proxies | routes are found through buckets by host and first byte; requests of an old plan turn the counters of a new one | the best match is found; every target once before any again, direct before relay; round robin is fair | `Routing` |
| HTTP proxy (`server.go`, from `newListenerHandler`) | handlers waiting for each other across nodes, the hop header, counters, the metrics channel | serve, retry, relay, forward, record, aggregate, Stats | upstreams, other nodes' listeners | relays in a circle; three bounds on retries; bodies consumed by a failed attempt; full channel; counters read one by one | loops end; every attempt carries the client's body; an answer is not followed by another attempt; the counters agree | `RequestProxy` |
| UDP sessions (`server.go`) | session map, upstream sockets, a mutex per session | receive, look up or dial, round trip, reap, Shutdown | clients, upstreams | two packets dial one session; the reaper closes what a packet uses; late answers; Shutdown takes another lock | no socket leaks; a client gets answers to its own packets only; idle sessions are closed; packets end | `UDPSession` |
| TCP proxy (`server.go`) | none that is shared | dial the candidates in turn, copy two streams | clients, upstreams | | | not modelled |
| Cluster status, node and traffic queries | none | read only | etcd | | | not modelled |
| Configuration loading, system metrics, logging, addresses | none | read once, or I/O | operating system | | | not modelled |

How the parts interact: the API of any process writes configurations to etcd;
the traffic planes of all of them see the change through a watch or a 30 s
fallback.  `ConfigStore` is the contract between the two: `ServiceRegistry` is
shown to implement it and `TrafficRefresh` uses it as its environment.  The
node key that `NodeLifecycle` keeps in etcd is what `discoverGossipPeers` reads
once, at start-up, to find the peers that `SoftKV` then takes as given.  The plan
that `TrafficRefresh` puts in force is what `Routing`, `RequestProxy` and
`UDPSession` work under; there it changes at any time, and a request or packet
goes on with the one it has loaded.  `Routing` says which candidates a request
gets, `RequestProxy` and `UDPSession` what becomes of it given any candidates.

## 2. Modules

### SoftKV

One key per node: the only writer in the program, `updateNodeMetrics`, writes
`metrics/nodes/<id>` with itself as source.  `data` and `seq` are the two maps
of `Store`; `bus` is the channel of `Bus`; `pending` is the entry between the
`Put` and the `Publish` of `Writer.Write`; `checked` holds the entries that
`Merge` has found unexpired and not yet applied, because that check is made
before the lock is taken.  `net` keeps every message ever sent, so a message may
be delivered never, once or often, and in any order.  Clocks differ between
nodes and do not go back on one node.  `sample`, `restarts` and `high` are
history variables.

### TrafficRefresh

`pc[t]` says where each of the two goroutines is in `refresh`: before `List`,
before the comparison under the read lock, before one of the two critical
sections under the write lock.  `plan` stands for `Server.plan`, `planValue` and
`lastServiceSnapshot`, which change together.  An HTTP server in the map is
*starting*, *bound* or *failed*; one taken out of the map is in `leaving` until
its own goroutine has shut it down.  `foreign` are sockets that other processes
hold, so that a bind can fail.

### NodeLifecycle

The main goroutine (`pc`: Run, then Shutdown), the reconciler (`rec`), the
keep-alive goroutine (`loop`) and an `EvictNode` call from another node (`evict`)
run side by side.  Each call to etcd is one step with two outcomes, *applied* and
*acked*; acked implies applied.  A server's own etcd stops answering once its
member is removed.  Back-off times are left out: a retry may come at any time.

### ServiceRegistry and ConfigStore

A handler takes as many steps as it makes calls to etcd; only PUT makes two.  A
client may name any version that was ever readable, which covers both old
readers and repeated requests.  `log` records each write and the version it was
conditional on.  Of a configuration the proxy layer, the listener port and the
backend group are kept: what `ApplyDefaults` completes, what `Validate` refuses,
and what makes two configurations differ.  `ConfigStore` is the abstract store:
valid configurations, each write under the next revision.

### Routing

One listener, several services.  `plan` holds the configurations in force, and
`table` the routes as `BuildPlan` has sorted them (`Compiled`); a place in the sort
is a service and the number of a route of it.  `Bucket` is what
`buildListenerMatcher` files under a host and a first byte.  Every sort is written
once (`Ascending`): a member comes at the number of members before it.  `rr` and
`latency` are `planState`, which `refresh` hands from plan to plan.  A request takes
one step to load the plan and match, one to order the direct targets and one to order the relays (or
one `Pick`, with a single attempt), because the counters are locked for each of
these alone.  `served` and `stale` are history: whom the counters have favoured
since the target list was last changed, and how often requests of an older list
have turned them.

### RequestProxy

A request and the handlers it is going through form a stack: a candidate may be
the listener of another node or of the same node, whose handler is put on top and
whose answer pops it.  Each frame holds what `serveRequest` has in its local
variables.  Which service a handler matches is left open (any `Policy`), so that
nodes may well have different plans.  `good` is history: an answer below 502 is on
its way back.  An answer is handed to the caller before its handler records it,
so that several handlers record at once; `recs` holds where each of them is in
`recordTrafficMetrics`: before the sample sequence, before `requestsTotal`, before
`errorTotal`, before the event.  `ended` is history: how many requests have taken the
first of these steps.

### UDPSession

The goroutine of each packet (`pc`) takes one step per critical section or
system call.  A socket is named by the packet and the try that dialled it.  Time
is kept as ages (`idle`, `asked`), which stop at the first value beyond every TTL.
`flight` and `inbox` are the network: a datagram may be answered late, after
others, or never.

## 3. Runs

| Run | Instance | Shows |
|---|---|---|
| `softkv_safety` | two nodes, three samples, one restart of the writer, clocks 0..2, TTL 2, bus of 1, one merge at a time per node | `TypeOK`, `MonotonicReads`, `StoreMovesUp` |
| `softkv_live` | the same with two samples and fairness | `Convergence` |
| `traffic_refresh` | two services, one listener shared by HTTP, TCP and UDP configurations and contended by another process, two writes | `TypeOK`, `ListenersMatchPlan`, `ResumeCoversUnseen`, `Converges` |
| `node_lifecycle` | a server or an agent, three leases, two members, crashes | `TypeOK`, `HealthyIsRegistered`, `StaysRegistered`, `GoneIsForgotten` |
| `service_registry` | two clients, one service, five writes, configurations with and without defaults and an invalid one | `TypeOK`, `NoSilentOverwrite`, `StatusIsHonest`, `ConflictIsNews`, `StoreSpec` |
| `routing` | three services whose routes shadow each other (by host, `*`, prefix, weight, name), two requests at once, a group of two targets and a relay under round-robin or of two targets under latency-first, three turns of the counters | `TypeOK`, `MatchIsBest`, `EveryTargetOnceDirectFirst`, `RoundRobinFair` |
| `request_proxy` | one node whose listener is also a target (a loop); policies with two attempts on half a budget, with one attempt to a relay, to an upstream, to an address that cannot be parsed, and with no destination; hop limits 1 and 2, sampling rates 2 and 4; hop headers 0 and unreadable; a queue of 1 | `TypeOK`, `LoopsEnd`, `WholeBody`, `NoRepeatAfterAnswer`, `CountersAgree`, `EstimateIsClose`, `StatsHonest`, `RequestsEnd` |
| `udp_session` | two packets, of one client or of two, a shared upstream and a second candidate, TTL 0 | `TypeOK`, `SessionsAreOpen`, `AnswersStayWithClient`, `IdleIsClosed`, `PacketsEnd` |
| `softkv_new_time`, `traffic_stale_plan`, `traffic_bind_retry`, `node_rollback_retry` | as above | what a document or comment says and the code does not do (section 6) |

Why the bounds are enough for the cases of interest:

* SoftKV: three samples and a restart let a new incarnation meet an entry of the
  old one with a larger, an equal and a smaller number.  A TTL of 2 on clocks
  0..2 lets entries expire between Merge's check and its lock.  A bus of one
  event is full as soon as two are written.  The bounds `MaxTime`, `MaxSample`,
  `MaxRestarts` and `MaxMerging` are not used by the proofs, which hold for any
  number of nodes.
* TrafficRefresh: two writes give "created, changed", "created, deleted" and two
  services that clash, each in between any two steps of either goroutine; one
  listener makes every change of protocol a conflict over one socket.  `MaxRev`
  bounds the writes, `Contended` the sockets that others may take.
* NodeLifecycle: three leases are the current one, one left behind by an attempt
  that was applied and not acknowledged, and the next.  Identifiers are reused
  once nothing refers to them, so that runs are not cut short.
* ServiceRegistry: five writes hold "create, read, delete, re-create, write with
  the old version" by two clients.  `MaxRev` is the bound.
* Routing: `MaxPicks` bounds the turns of all counters together; three are one
  more than the longest list of direct targets.  The queries hold the empty
  path, `/`, a path that two prefixes match and a host no route names.
* RequestProxy: hop limits of 1 and 2 give stacks of up to four handlers, with
  retries at each of them, and nodes that disagree about the limit.  `MaxSends` = 1:
  requests meet only in the counters, and the handlers of one looping request
  already record at the same time.  With rates 2 and 4 the four records of such a
  request take the sequence to the first common multiple.  This is the largest run
  (550,000 states, about 90 s).
* UDPSession: two packets make every race over one session (dial and dial, use
  and expiry, reaper and both); two candidates the step from one try to the next.
  With a TTL of 0 one tick tells a live session from an expired one.

Deadlock is checked except in TrafficRefresh, where a stopped process with no
writes left has nothing to do, and in RequestProxy and UDPSession, where all
requests or packets may have been dealt with.

### Fairness

* SoftKV: memberlist repeats push/pull for as long as it runs, so each state is
  offered and delivered again and again (strong fairness, because the bound
  `MaxMerging` can keep a delivery waiting, which nothing in the code does);
  `gcSoftState` has a ticker; a Merge that has begun ends.  Nothing is assumed of broadcasts, writes, the bus or
  clocks.
* TrafficRefresh: a refresh that has begun continues, the fallback ticker keeps
  firing, and a List that is tried for ever succeeds some time (strong
  fairness).  Nothing is assumed of the watch.
* NodeLifecycle: goroutines that can go on do so; the reconciler's ticker fires;
  the etcd client notices a lost lease; leases that nobody keeps alive expire;
  `recoverLease` retries without limit, and one of infinitely many possible
  attempts succeeds (strong fairness).  No process has to be started or to stay up.
* UDPSession: goroutines run, since dial, write and read have deadlines and the
  mutex of a session is handed on; the clock ticks, the reaper has a ticker.
  Nothing is assumed of upstreams, clients or configuration.
* RequestProxy: handlers run and record.  The code sets no limit to the time of an
  upstream's answer, so that an upstream answers, or its connection breaks, is an
  assumption about the upstreams.  Nothing is assumed of the aggregator: no
  handler waits for it.

## 4. Proofs

TLAPS proves the following for every value of the constants that satisfies the
named `ASSUME`s (node IDs are naturals, bounds are positive, the "none" values
are not real values); TLC evaluates those assumptions in every run.

**`SoftKVProofs`**: `TypeCorrect`, `MonotonicReadsTheorem`,
`StoreMovesUpTheorem`.  None of the last two is inductive: whether a merge may
take a reader back depends on every entry anywhere in the system, including
those in messages and on buses.  The inductive invariant `IInv` says that

* every entry that exists was written by the owner of its key, not after what the
  owner's clock reads now, and until the owner restarts its number is the number
  of the sample (`KnownWellFormed`); later samples carry later times
  (`KnownOrdered`);
* until it restarts a node's counter for itself equals its number of samples, so
  no entry that comes back can raise it (`CounterCounts`);
* entries are filed under their key (`Filed`) and the counters cover them
  (`SeqCoversData`): so `Put`, which overwrites without comparing, overwrites
  only what `Merge` would have let it;
* the latest sample a store has held is expired or still held (`HighHeld`): an
  older one that slips in after the collector ran has expired as well and is not
  visible.

The proof first shows that only `Put` makes an entry (`KnownStep`), then what
one step can do to one cell (`CellStep`), and derives each conjunct from these.

**`ServiceRegistryProofs`**: `TypeCorrect`, `NoSilentOverwriteTheorem`,
`StatusIsHonestTheorem`, `ConflictIsNewsTheorem`, `ImplementsStore`.
`NoSilentOverwrite` speaks of the history; it follows with `RevisionIsLast`,
which says that the revision on a stored configuration is that of the last write
to its service.  `EtcdStep` shows once that a step of any handler makes no write
or exactly one write of a valid configuration; it carries the types, the
invariant and the refinement of `ConfigStore` (`INSTANCE ConfigStore WITH`, the
stored configurations and their revisions mapped to themselves).  The two
properties of answers are not inductive, because an answer is made of what a
second call finds.  `AnswerInv` says what that call may rely on: between the two
calls of a PUT, what is stored is no older than the PUT's own write, or, after a
refusal, later than the version it named, whatever other clients do meanwhile
(`Between`); and of the answers already given, what the properties say
(`Answered`).

**`RequestProxyProofs`**: `RelaysAreBounded` (`LoopsEnd`), `BodiesAreWhole`
(`WholeBody`), `AnswersAreFinal` (`NoRepeatAfterAnswer`), `TypeCorrect`,
`CountersAgreeTheorem`, `StatsHonestTheorem`, `EstimateTheorem`
(`EstimateIsClose`), for any set of policies, so that nodes may disagree about
every one of them, any listeners and any hop headers from clients.  For the first
three the inductive invariant `StackInv` says that all handlers but the innermost
wait, that the handler at depth *j* was entered with a hop count of at least *j* -
1, that every frame still has the body the client sent, and that an answer below
502 on its way back is held by the innermost handler.  The others need
`CountersInv`, which adds

* `FramesInv`: a handler is at a candidate it has, and has no more candidates than
  its service allows attempts, whatever the budget's percentage (`AttemptsBound`);
  so no recorded request has more retries than that either;
* `Books`: on each node requests = successes + errors + the weight of the records
  that are between the two counters (`Due`, a sum over the bag of records).
  `errors <= requests` follows, and with `Loaded` (the first value `Stats` loaded
  is at most the counter) `StatsHonest`;
* `Ledger`: one cannot bound relay hits and retries by what the queue holds, because
  events are dropped, delayed and lost.  `Covered` says that relay hits, retries and
  the events still queued can be given disjoint shares of the requests counted so
  far, of which the records still to be emitted have theirs (`Limit`).  Emitting
  takes a record's share to the queue, or drops it; the aggregator moves the first
  share of the queue to the counters.

For the estimate, what is sampled and still to be added to `requestsTotal` is counted
along with it (`InHand`), because other handlers record between the two
(`server.go:1013`, `1019`).  `EstimateIsClose` bounds it by a number of rates times a
sequence, which one more request can exceed for all an induction knows.  `Estimate`
is exact instead: when the sequence is at *s*, each rate *k* has had *s* div *k* turns,
and at most the weight of all these turns has been counted (`Most`, a sum over the
rates); and at every common multiple of the rates the request was counted whatever
its rate (`Lower`, with the least rate).  Each turn is at most *s*, hence the factor in
the property (`SumBound` of `CountingTheorems`).  `PolicyAssumption` says that the
policies are finitely many, without which there is no such sum.

**`UDPSessionProofs`**: `TypeCorrect`, `AnswersStayTheorem`
(`AnswersStayWithClient`), `SessionsOpenTheorem` (`SessionsAreOpen`), for any
packets, clients, upstreams and TTLs (of which one has to be the largest).  For
the second, `ClientInv` gives every socket an owner, the client it was dialled
for, and says that the map, the goroutines, the datagrams under way and the
answers waiting in a socket all belong to its owner: so a late answer may reach
another packet, and never another client.  For the third, `OpenInv` adds to the
property that a try dials a socket nobody has (the tries of a packet are
numbered, `Fresh`) and that a socket just dialled is open and not yet in the map
(`Dialled`); without it two entries could share a socket and the closing of one
would close the other's.

**`NodeLifecycleProofs`**: `TypeCorrect`, `HealthyTheorem`
(`HealthyIsRegistered`).  The types need `KnowsMember`: where `Run` may roll back,
it knows the member it has joined as.  `HealthyIsRegistered` is not inductive:
storing a lease makes the process healthy, so the lease about to be stored must
hold the key already, if it still lives and nobody was evicted (`StoredNext`); and
of the two goroutines that register, the main one and the keep-alive loop, only one
may be at it (`OneRegisters`).

**`TrafficRefreshProofs`**: `TypeCorrect`, `ResumeCoversTheorem`,
`ListenersMatchTheorem`, for any services, ports, configurations and number of
writes.  `RevInv` says that a list of configurations contains no revision later than
that of etcd when the list was made, and that no list is newer than etcd; the
revision to resume from, one after the greatest in the list, is then at most one
after it (`NextRevision`).  `TypeOK` rests on it, which says that no watch is opened
or moved beyond the next write to come.
`ListenerInv` adds to `ListenersMatchPlan` that a plan in force compiles, without
which an HTTP and a TCP service could claim one socket (`LayersApart`).  The proof
uses `UnsetAssumption`: the value for "no plan yet" is not a plan.

**`RoutingProofs`**: `TypeCorrect`, `MatchAlwaysBest` (`MatchIsBest`),
`AllTargetsTried` (`EveryTargetOnceDirectFirst`), `RoundRobinStaysFair`
(`RoundRobinFair`), for any services, routes, groups, target lists, latencies,
requests and number of refreshes.  `OfferedAssumption` says of a configuration what
`Validate` and `ApplyDefaults` make sure of, `NameAssumption` that names are finitely
many and their order is total.  The argument has four parts:

* Sorting.  `ListedOrder`: for a strict total order, `Ascending` is a bijection from
  places to members that respects the order.  `KeyedOrder` gives such an order from
  five numbers compared one after the other; the order of routes (`PlaceKey`) and
  those of targets (`TargetKey`) are of this kind, the last number being the old
  place, since the sorts are stable.
* Matching.  `SearchFinds`: the loop over a bucket ends with the first of the routes
  with the highest score.  `MatcherFinds`: a prefix of a path with a first byte has
  that first byte or none, so the two buckets together hold every route that fits
  (`Fitting`).  With the table sorted, the first of the highest score is a best one
  (`ForemostIsBest`): the score orders by length before weight because weights are
  at most 100 (`ScoreOrder`).
* Candidates.  Every strategy's order is a permutation of the list (`OrdersArrange`),
  direct and relay targets are parts of the list that do not meet (`SplitLengths`), and
  one permutation of each makes one of the whole (`TriedAll`).  The invariant keeps,
  between the two steps of a request, that the first part has been ordered
  (`PartOrdered`), and that a request under latency-first looks only at addresses
  whose latency is kept (`LooksAt`).
* Turns.  `RoundRobinFair` is not inductive, since it forgets whose turn it is.
  `EvenlyServed` says that there is a number from which the counter has been going
  round the present list, and that what each target has been served, with what stale
  picks have taken from it, is exactly its number of turns since (`Turns`).  A pick
  adds to the one or to the other (`EvenStep`, `EvenStale`); a new list starts with
  the counter where it is (`EvenReset`).

**`CountingTheorems`** has what these proofs need of numbers: the greatest member of
a bounded set, quotients and remainders of the number after and of multiples, and
sums over finite sets (`SumFunction`) and their bounds.  The library states induction with a predicate as parameter, which
the provers cannot instantiate.  These lemmas therefore argue from a least
counterexample (`LeastNat`) and from a smallest subset without the property
(`MinimalSet`), where the predicate is given as a set.

## 5. Only model-checked

* Liveness (`Convergence`, `Converges`, `StaysRegistered`, `GoneIsForgotten`,
  `IdleIsClosed`, `PacketsEnd`, `RequestsEnd`) depends on fairness and ENABLED,
  which the prover does not support.

Every safety property that a passing run checks is also stated by a theorem.

## 6. Where documents and code differ

1. `soft-kv-and-gossip.md` says that after a restart the newer time lets a new
   entry replace the old one.  `shouldAccept` compares numbers first when the
   source is the same, so the new entry is refused as long as its number is
   smaller (run `softkv_new_time`).  `Convergence` holds all the same: the
   restarted node gets its old entry back, and its counter with it.
2. The comment on `refresh` says that it follows the latest configuration.  Of
   two concurrent refreshes the one that listed earlier can be applied last
   (`traffic_stale_plan`); `Converges` shows that the fallback repairs it.
3. `traffic-plane-design.md` says that a listener that failed to bind is tried
   again when the configuration changes.  For HTTP the failed server stays in the
   map and is skipped (`traffic_bind_retry`).
4. `control-plane-design.md` says that the reconciler retries a failed rollback.
   Its only caller cancels it right after adding the task
   (`node_rollback_retry`).

Differences and weaknesses met while modelling that have no run, because no
property of the models states them or no document contradicts them:

* With a single attempt, `serveRequest` picks one target of the whole group
  (`server.go:865`), so a relay may be used while a direct target exists;
  `traffic-plane-design.md:144` says that direct targets always come first.
  `EveryTargetOnceDirectFirst` is stated for several attempts.
* With several attempts, an informational status (1xx) of the upstream is taken by
  `retryBufferWriter` for the final one (`server.go:1240`), and an answer that
  should be retried is then passed on as it is.  `RequestProxy` has it (`hint`).
* When an upstream's body breaks off, the reverse proxy aborts the handler in the
  retrying path, and the request is never recorded; in the single-attempt path the
  client keeps status 200 with an error text appended while 502 is recorded.
* `sampleSeq` is shared by all services: with different rates the estimate of one
  depends on the traffic of the others, and may be too large by as many times as
  there are rates.  `EstimateIsClose` says how far, and no further.
* A late UDP answer is given to the next packet of the same session, as its answer.
* `Shutdown` reads and replaces the UDP session map under `Server.mu`, while packets
  and the reaper use it under `udpSessionMu`.

## 7. Abstractions

* Statistics, logging, `IngestedAt`, audit fields and the wording of errors are
  left out.
* `shouldAccept` is not transitive across sources; no key of the program has two
  sources, and the model has none.
* A call to etcd that is not acknowledged takes effect at once or never.
* memberlist is external: gossiping nodes are assumed to reach each other.
  Whether peers found at start-up are enough is not modelled.
* `DeleteExpired` is one step, as it holds the lock.  `refresh` has one step per
  call to etcd and per critical section.
* Listener keys stand for different sockets; addresses that overlap
  (`0.0.0.0:80` and `127.0.0.1:80`) are not modelled.
* A leader's eviction needs force; the caller is assumed to give it.
* ServiceRegistry: a PUT names a version under which its service could once be read.
  The API takes any positive number (`httpapi/server.go:531`); one that is still to
  come is refused too, but `ConflictIsNews` does not hold for it.
* Requests that the API refuses before it reads a configuration (unreadable
  body, names that differ) change nothing and are left out.
* Routing: paths are sequences of characters, names and addresses values with an
  order; letter case, trimming and the probabilities of `random` (any order) are
  left out, and with letter case two relay tags of one target.  `MaxPicks` bounds the
  turns of all counters together; it stands for any number below 2^64, at which the
  code's counters would start again.
* RequestProxy: which policy a handler finds is open for each handler anew.  The
  retry budget is an exact number of percent, where the code multiplies and rounds
  floating-point numbers.  A hop header that is no number is -1.  An answer is handed to
  the caller before the handler records it.  The load of the metrics switch and
  the send on the channel are one step; so are the two additions of
  `applyMetricsEvent`.  A client that lists the hop header in `Connection` makes
  `httputil.ReverseProxy` drop it once, behind the first handler with several attempts
  (`server.go:960-964`); clients are assumed not to, and `LoopsEnd` is exact for them.
  The caches of proxies and parsed addresses are left out: what they return is what
  `parseDestination` would.  Upstreams give a status, with or without
  an early hint or a broken body, or cannot be reached.
* UDPSession: ages stop at the first value beyond every TTL.  A loss is decided at
  the time an answer would come.  An address that cannot be dialled counts as a
  failed dial.  One listener: sessions of different listeners have different keys.
  The run has one TTL, which is the default too; that a configuration may change it is
  covered by the proofs, and not by the run of `IdleIsClosed`.

### Not modelled

* The TCP proxy: a connection dials its candidates in turn and copies two streams;
  it shares nothing with other connections, and its stopping with the listener is
  part of TrafficRefresh's sockets.
* The read-only API (cluster status, nodes, traffic statistics): it changes no state.
* Configuration loading (flags and environment, read once), system metrics, logging
  and address discovery: input and output.

## 8. Plan

Done: SoftKV, TrafficRefresh, NodeLifecycle, ConfigStore, ServiceRegistry, Routing,
RequestProxy and UDPSession with their runs, and the proofs of their safety
properties.

Next: the composition of registration and gossip.  Peers are read once, at start-up,
so whether the gossip group stays connected depends on the order in which nodes
register.
