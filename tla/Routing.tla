------------------------------ MODULE Routing -------------------------------
(***************************************************************************)
(* How one node chooses where a request goes: the route table BuildPlan    *)
(* compiles for an HTTP listener, Plan.Match, the resolution of its        *)
(* destination and the balancers (internal/traffic/runtime.go and          *)
(* balancer.go).                                                           *)
(*                                                                         *)
(* Requests run concurrently and each works on the plan it loaded when it  *)
(* came; refreshes replace the plan but hand on its planState, so that the *)
(* round-robin counters and the latencies are shared by all of them.       *)
(*                                                                         *)
(* A path or prefix is a sequence of characters, "/" first.  Names and     *)
(* addresses are values whose string order is given by Rank; trimming and  *)
(* letter case are left out.                                               *)
(***************************************************************************)
EXTENDS Integers, Sequences, FiniteSets, SequencesExt

CONSTANTS
    Service,    \* service names
    Group,      \* backend group names
    Addr,       \* addresses: of targets, of listeners, direct destinations
    ListenerOf, \* the listener of each service, as ResolveDestination gives it
    Offered,    \* Offered[s]: configurations s may have
    Rank,       \* string order of services, destinations and addresses
    Query,      \* <<host, path>> of the requests
    Request,    \* requests under way at a time
    MaxLatency, \* bound: latencies that are told apart
    MaxPicks,   \* bound: how far the round-robin counters count together
    None        \* not configured, not measured, no route

\* Targets and routes; Validate accepts no others (model/service.go).
Target == [addr : Addr, weight : 1..100, relay : BOOLEAN]
RouteRule ==
    [hosts : SUBSET STRING, prefix : Seq(STRING), dest : DOMAIN Rank, weight : 1..100]

Strategy == {"load-first", "latency-first", "round-robin", "random", "custom"}

\* The counters of a group: orderedBackendTargets has one each for direct and
\* relay targets, the balancer's Pick another.
Counter == Group \X {"all", "direct", "relay"}

ASSUME OfferedAssumption ==
    \A s \in Service :
        /\ None \notin Offered[s]
        /\ \A c \in Offered[s] :
               /\ c.strategy \in Strategy
               /\ c.attempts \in Nat \ {0}
               /\ c.routes \in Seq(RouteRule)
               /\ DOMAIN c.groups \subseteq Group
               /\ c.groups \in [DOMAIN c.groups -> Seq(Target) \ {<<>>}]

ASSUME NameAssumption ==
    /\ IsFiniteSet(Service) /\ IsFiniteSet(Group)
    /\ Service \cup Addr \subseteq DOMAIN Rank
    /\ \A x \in DOMAIN Rank : Rank[x] \in Int
    /\ \A x, y \in DOMAIN Rank : Rank[x] = Rank[y] => x = y
    /\ \A s \in Service : ListenerOf[s] \in Addr
    /\ None \notin [service : Service, route : RouteRule]
    /\ Query \subseteq STRING \X Seq(STRING)

\* The configurations that a plan may be built from.
Plans ==
    {p \in [Service -> (UNION {Offered[s] : s \in Service}) \cup {None}] :
        \A s \in Service : p[s] \in Offered[s] \cup {None}}

\* The addresses whose latency somebody may look at.
Watched ==
    UNION {UNION {{c.groups[g][i].addr : i \in DOMAIN c.groups[g]} : g \in DOMAIN c.groups} :
              c \in {d \in UNION {Offered[s] : s \in Service} : d.strategy = "latency-first"}}

ASSUME BoundAssumption == MaxLatency \in Nat \ {0} /\ MaxPicks \in Nat

VARIABLES
    plan,    \* plan[s]: the configuration of s that the current plan has
    table,   \* the plan's routes as they are compiled
    rr,      \* planState.rrCounters
    latency, \* planState.latencyEWMA, of the addresses in Watched
    req,     \* req[r]: the request, with what it keeps of the plan it loaded
    served,  \* history: served[k][i], how often counter k put target i first
    stale    \* history: picks by k from another target list than the plan's

vars == <<plan, table, rr, latency, req, served, stale>>

----------------------------------------------------------------------------
WithRank(ranked, n) == (CHOOSE z \in ranked : z[1] = n)[2]

\* The members of S in the order of before, which has to be strict and total.
Ascending(S, before(_, _)) ==
    LET ranked == {<<Cardinality({y \in S : before(y, x)}), x>> : x \in S}
    IN  [n \in 1..Cardinality(S) |-> WithRank(ranked, n - 1)]

\* BuildPlan: the routes of all services on the listener, in the order in
\* which they are compiled.  A place is a service and a number.

Stored(p) == {s \in Service : p[s] # None}

Places(p) == UNION {{s} \X DOMAIN p[s].routes : s \in Stored(p)}

RouteAt(p, x) == [service |-> x[1], route |-> p[x[1]].routes[x[2]]]

CompiledBefore(a, b) ==
    LET x == a.route
        y == b.route
    IN  \/ Len(x.prefix) > Len(y.prefix)
        \/ /\ Len(x.prefix) = Len(y.prefix)
           /\ \/ x.weight > y.weight
              \/ /\ x.weight = y.weight
                 /\ \/ Rank[a.service] < Rank[b.service]
                    \/ a.service = b.service /\ Rank[x.dest] < Rank[y.dest]

\* The sort is stable.
PlaceBefore(p, x, y) ==
    \/ CompiledBefore(RouteAt(p, x), RouteAt(p, y))
    \/ ~CompiledBefore(RouteAt(p, y), RouteAt(p, x)) /\ x[2] < y[2]

Compiled(p) ==
    LET places == Ascending(Places(p), LAMBDA x, y : PlaceBefore(p, x, y))
    IN  [n \in 1..Cardinality(Places(p)) |-> RouteAt(p, places[n])]

\* Mutant: the last byte of a path in place of the one after the slash, which
\* files "/" under its own.
pathFirstByteShort(path) == IF path = <<>> THEN "" ELSE path[Len(path)]

\* pathFirstByte (runtime.go:402)
pathFirstByte(path) == IF Len(path) < 2 \/ path[1] # "/" THEN "" ELSE path[2]

\* buildListenerMatcher (runtime.go:369): the bucket of a host and a first byte
\* has its routes in the order in which they are compiled.
Bucket(host, byte) ==
    {n \in DOMAIN table : /\ host \in table[n].route.hosts
                          /\ pathFirstByte(table[n].route.prefix) = byte}

Score(a) == Len(a.route.prefix) * 100 + a.route.weight

\* bestRouteMatchSeed (runtime.go:349), a loop over the bucket; the score of the
\* host is the same for all routes of a bucket.
bestRouteMatchSeed(bucket, path, seed) ==
    LET best[n \in 0..Len(table)] ==
            IF n = 0 THEN seed
            ELSE LET prev == best[n - 1]
                     a == table[n]
                 IN  IF n \in bucket /\ IsPrefix(a.route.prefix, path) /\ Score(a) > prev.score
                     THEN [score |-> Score(a), match |-> a]
                     ELSE prev
    IN  best[Len(table)]

\* matchPathMatcher (runtime.go:333): the bucket of the path's first byte, then
\* the bucket of the prefixes that have none.
matchPathMatcher(host, path) ==
    LET seed == [score |-> -1, match |-> None]
        byte == pathFirstByte(path)
        first == IF byte = "" THEN seed
                 ELSE bestRouteMatchSeed(Bucket(host, byte), path, seed)
    IN  bestRouteMatchSeed(Bucket(host, ""), path, first).match

\* Plan.Match (runtime.go:258)
Match(host, path) ==
    LET exact == matchPathMatcher(host, path)
    IN  IF exact # None THEN exact ELSE matchPathMatcher("*", path)

----------------------------------------------------------------------------
\* Orders of targets.

Heavier(t, u) ==
    \/ t.weight > u.weight
    \/ t.weight = u.weight /\ Rank[t.addr] < Rank[u.addr]

\* sortTargetsByLatencyThenWeight (balancer.go:222)
Faster(t, u) ==
    LET x == latency[t.addr]
        y == latency[u.addr]
    IN  \/ x # None /\ y = None
        \/ x # None /\ y # None /\ x < y
        \/ x = y /\ Heavier(t, u)

\* sort.SliceStable
Sorted(ts, before(_, _)) ==
    LET ahead(i, j) == before(ts[i], ts[j]) \/ (~before(ts[j], ts[i]) /\ i < j)
        places == Ascending(DOMAIN ts, ahead)
    IN  [n \in DOMAIN ts |-> ts[places[n]]]

Rotate(ts, n) == [i \in DOMAIN ts |-> ts[((n + i - 1) % Len(ts)) + 1]]

\* Mutant: direct and relay targets are taken for one list.
splitTargetsNot(ts, relay) == IF relay THEN <<>> ELSE ts

\* splitDirectAndRelayTargets (runtime.go:536)
splitTargets(ts, relay) ==
    LET of == {i \in DOMAIN ts : ts[i].relay = relay}
        places == Ascending(of, <)
    IN  [n \in 1..Cardinality(of) |-> ts[places[n]]]

\* The orders orderTargetsByStrategy (runtime.go:502) may give ts; a strategy
\* it does not know counts as load-first.
Orders(ts, strategy, n) ==
    CASE strategy = "round-robin" -> {Rotate(ts, n)}
      [] strategy = "random" ->
             {[i \in DOMAIN ts |-> ts[f[i]]] : f \in Bijection(DOMAIN ts, DOMAIN ts)}
      [] strategy = "latency-first" -> {Sorted(ts, Faster)}
      [] OTHER -> {Sorted(ts, Heavier)}

Addrs(ts) == [i \in DOMAIN ts |-> ts[i].addr]

----------------------------------------------------------------------------
Groups(p) ==
    {x \in Service \X Group : p[x[1]] # None /\ x[2] \in DOMAIN p[x[1]].groups}

\* The target list of a group in a plan; <<>> if it has none.
TargetsIn(p, g) ==
    IF \E s \in Service : <<s, g>> \in Groups(p)
    THEN p[CHOOSE s \in Service : <<s, g>> \in Groups(p)].groups[g]
    ELSE <<>>

\* The targets that a counter goes round.
Turned(p, k) ==
    CASE k[2] = "all" -> TargetsIn(p, k[1])
      [] k[2] = "direct" -> splitTargets(TargetsIn(p, k[1]), FALSE)
      [] OTHER -> splitTargets(TargetsIn(p, k[1]), TRUE)

\* BuildPlan refuses two services with the same group.
Compiles(p) ==
    \A x, y \in Groups(p) : x[2] = y[2] => x = y

Idle == [pc |-> "idle"]

Init ==
    /\ plan \in Plans
    /\ Compiles(plan)
    /\ table = Compiled(plan)
    /\ rr = [k \in Counter |-> 0]
    /\ latency = [a \in Watched |-> None]
    /\ req = [r \in Request |-> Idle]
    /\ served = [k \in Counter |-> [i \in DOMAIN Turned(plan, k) |-> 0]]
    /\ stale = [k \in Counter |-> 0]

\* Mutant: the new plan starts with a planState of its own.
KeepStateNot == rr' = [k \in Counter |-> 0] /\ latency' = [a \in Watched |-> None]

\* refresh keeps the counters and latencies (server.go:302).
KeepState == UNCHANGED <<rr, latency>>

\* A service is changed, and refresh replaces the plan.
Refresh(s, c) ==
    /\ c # plan[s]
    /\ Compiles([plan EXCEPT ![s] = c])
    /\ plan' = [plan EXCEPT ![s] = c]
    /\ table' = Compiled(plan')
    /\ KeepState
    /\ LET changed == {k \in Counter : TargetsIn(plan, k[1]) # TargetsIn(plan', k[1])}
       IN  /\ served' = [k \in Counter |->
                            IF k \in changed THEN [i \in DOMAIN Turned(plan', k) |-> 0]
                            ELSE served[k]]
           /\ stale' = [k \in Counter |-> IF k \in changed THEN 0 ELSE stale[k]]
    /\ UNCHANGED req

\* serveRequest loads the plan and matches; what the request needs of the plan
\* from here on is the policy of the service and where its destination leads.
\* Groups come before services, services before addresses.
Route(r, q) ==
    LET m == Match(q[1], q[2])
        dest == m.route.dest
        owner == CHOOSE s \in Service : <<s, dest>> \in Groups(plan)
    IN  /\ req[r].pc = "idle"
        /\ m # None
        /\ req' = [req EXCEPT ![r] =
               IF dest \in Group /\ TargetsIn(plan, dest) # <<>>
               THEN [pc |-> "routed", attempts |-> plan[m.service].attempts,
                     group |-> dest, strategy |-> plan[owner].strategy,
                     targets |-> TargetsIn(plan, dest)]
               ELSE [pc |-> "chosen", attempts |-> plan[m.service].attempts,
                     targets |-> <<>>,
                     cands |-> CASE dest \in Stored(plan) ->
                                        [i \in 1..plan[m.service].attempts |-> ListenerOf[dest]]
                                 [] dest \in Addr \ Stored(plan) ->
                                        [i \in 1..plan[m.service].attempts |-> dest]
                                 [] OTHER -> <<>>]]
        /\ UNCHANGED <<plan, table, rr, latency, served, stale>>

\* nextRoundRobinIndex (balancer.go:119): the counter stays where there is nothing
\* to choose.
Count(r, k, ts) ==
    IF req[r].strategy = "round-robin" /\ Len(ts) > 1
    THEN /\ SumFunction(rr) < MaxPicks
         /\ rr' = [rr EXCEPT ![k] = @ + 1]
         /\ IF req[r].targets = TargetsIn(plan, k[1])
            THEN /\ served' = [served EXCEPT ![k][(rr[k] % Len(ts)) + 1] = @ + 1]
                 /\ UNCHANGED stale
            ELSE /\ stale' = [stale EXCEPT ![k] = @ + 1]
                 /\ UNCHANGED served
    ELSE UNCHANGED <<rr, served, stale>>

\* ResolveDestination and the Pick of the strategy's balancer: one attempt.
\* Pick looks at all targets; random takes any (their weights are positive), a
\* strategy without a balancer is an error.
Pick(r) ==
    LET ts == req[r].targets
        k == <<req[r].group, "all">>
        choices == CASE req[r].strategy = "custom" -> {<<>>}
                     [] req[r].strategy = "random" -> {<<t.addr>> : t \in ToSet(ts)}
                     [] OTHER -> {<<Head(o).addr>> : o \in Orders(ts, req[r].strategy, rr[k])}
    IN  /\ req[r].pc = "routed"
        /\ req[r].attempts = 1
        /\ Count(r, k, ts)
        /\ \E c \in choices :
               req' = [req EXCEPT ![r] = [pc |-> "chosen", attempts |-> 1,
                                          targets |-> ts, cands |-> c]]
        /\ UNCHANGED <<plan, table, latency>>

\* orderedBackendTargets for several attempts: the direct targets, and then, by
\* another counter and after another look at the latencies, the relays.
OrderDirect(r) ==
    LET ts == splitTargets(req[r].targets, FALSE)
        k == <<req[r].group, "direct">>
    IN  /\ req[r].pc = "routed"
        /\ req[r].attempts > 1
        /\ Count(r, k, ts)
        /\ \E o \in Orders(ts, req[r].strategy, rr[k]) :
               req' = [req EXCEPT ![r] = [pc |-> "direct", attempts |-> @.attempts,
                                          group |-> @.group, strategy |-> @.strategy,
                                          targets |-> @.targets, ordered |-> Addrs(o)]]
        /\ UNCHANGED <<plan, table, latency>>

\* Mutant: the list is not repeated beyond its end.
AttemptsOfOnce(s, n) == SubSeq(s, 1, IF n < Len(s) THEN n ELSE Len(s))

\* backendCandidatesForAttempts (runtime.go:478): the list over and over.
AttemptsOf(s, n) == [i \in 1..n |-> s[((i - 1) % Len(s)) + 1]]

OrderRelay(r) ==
    LET ts == splitTargets(req[r].targets, TRUE)
        k == <<req[r].group, "relay">>
    IN  /\ req[r].pc = "direct"
        /\ Count(r, k, ts)
        /\ \E o \in Orders(ts, req[r].strategy, rr[k]) :
               req' = [req EXCEPT ![r] =
                          [pc |-> "chosen", attempts |-> @.attempts,
                           targets |-> @.targets,
                           cands |-> AttemptsOf(@.ordered \o Addrs(o), @.attempts)]]
        /\ UNCHANGED <<plan, table, latency>>

\* The request ends without an answer, or with one of an address whose latency
\* makes no difference.
End(r) ==
    /\ req[r].pc = "chosen"
    /\ req' = [req EXCEPT ![r] = Idle]
    /\ UNCHANGED <<plan, table, rr, latency, served, stale>>

\* An answer of one of the candidates: its latency goes into the moving average,
\* which comes to lie between what it was and the new sample (ObserveLatency).
EndObserved(r) ==
    /\ req[r].pc = "chosen"
    /\ req' = [req EXCEPT ![r] = Idle]
    /\ \E a \in ToSet(req[r].cands) \cap Watched, ms, avg \in 1..MaxLatency :
           /\ CASE latency[a] = None -> avg = ms
                [] latency[a] # None /\ latency[a] <= ms -> avg \in latency[a]..ms
                [] OTHER -> avg \in ms..latency[a]
           /\ latency' = [latency EXCEPT ![a] = avg]
    /\ UNCHANGED <<plan, table, rr, served, stale>>

Next ==
    \/ \E s \in Service : \E c \in Offered[s] \cup {None} : Refresh(s, c)
    \/ \E r \in Request, q \in Query : Route(r, q)
    \/ \E r \in Request :
           \/ Pick(r)
           \/ OrderDirect(r)
           \/ OrderRelay(r)
           \/ End(r)
           \/ EndObserved(r)

Spec == Init /\ [][Next]_vars

----------------------------------------------------------------------------
(***************************************************************************)
(* The types; in particular no request is given more or fewer candidates   *)
(* than it has attempts, an unknown destination apart (runtime.go:478).    *)
(***************************************************************************)
TypeOK ==
    /\ plan \in Plans
    /\ rr \in [Counter -> 0..MaxPicks]
    /\ latency \in [Watched -> 1..MaxLatency \cup {None}]
    /\ \A r \in Request :
           req[r].pc = "chosen" =>
               /\ req[r].cands \in Seq(Addr)
               /\ req[r].cands # <<>> => Len(req[r].cands) = req[r].attempts
    /\ DOMAIN served = Counter
    /\ \A k \in Counter : served[k] \in [DOMAIN Turned(plan, k) -> 0..MaxPicks]
    /\ stale \in [Counter -> 0..MaxPicks]

\* What the documents promise of a match: exact hosts before "*", then the
\* longest prefix, then the heaviest route; what is left is decided by the name
\* of the service.
BestRoutes(host, path) ==
    LET all == {RouteAt(plan, x) : x \in Places(plan)}
        fits(h) == {a \in all : h \in a.route.hosts /\ IsPrefix(a.route.prefix, path)}
        found == IF fits(host) # {} THEN fits(host) ELSE fits("*")
        longest == {a \in found : \A b \in found : Len(b.route.prefix) <= Len(a.route.prefix)}
        heaviest == {a \in longest : \A b \in longest : b.route.weight <= a.route.weight}
    IN  {a \in heaviest : \A b \in heaviest : Rank[a.service] <= Rank[b.service]}

(***************************************************************************)
(* Match with its buckets by host and first byte finds what a search of    *)
(* all routes for the best one finds, and nothing only if there is nothing *)
(* (runtime.go:258).  Match reads nothing but the plan, so that it is      *)
(* enough to look where no request is under way.                           *)
(***************************************************************************)
MatchIsBest ==
    (\A r \in Request : req[r].pc = "idle") =>
        \A q \in Query :
            LET m == Match(q[1], q[2])
                best == BestRoutes(q[1], q[2])
            IN  IF m = None THEN best = {} ELSE m \in best

(***************************************************************************)
(* With several attempts a request tries every target before it tries one  *)
(* again, and relays only after all direct targets (runtime.go:485), on    *)
(* whichever plan it works and whatever other requests do in between.      *)
(***************************************************************************)
EveryTargetOnceDirectFirst ==
    \A r \in Request :
        (req[r].pc = "chosen" /\ req[r].attempts > 1 /\ req[r].targets # <<>>) =>
            LET ts == req[r].targets
                cands == req[r].cands
            IN  \E p \in Bijection(DOMAIN ts, DOMAIN ts) :
                    /\ \A i \in DOMAIN ts \cap DOMAIN cands : cands[i] = ts[p[i]].addr
                    /\ \A i, j \in DOMAIN ts : i < j /\ ts[p[i]].relay => ts[p[j]].relay

(***************************************************************************)
(* Round-robin is fair under concurrency and across refreshes that leave   *)
(* the group as it is: of the targets a counter goes round, none has been  *)
(* first more than once more than another; each pick by a request on an    *)
(* older target list may set this off by one (balancer.go:119,             *)
(* server.go:302).                                                         *)
(***************************************************************************)
RoundRobinFair ==
    \A k \in Counter : \A i, j \in DOMAIN served[k] :
        served[k][i] <= served[k][j] + 1 + stale[k]

=============================================================================
