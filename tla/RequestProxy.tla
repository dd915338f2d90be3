---------------------------- MODULE RequestProxy ----------------------------
(***************************************************************************)
(* An HTTP request on its way through the mesh, and the statistics the     *)
(* nodes keep of it (internal/traffic/server.go, from newListenerHandler   *)
(* to the end).                                                            *)
(*                                                                         *)
(* A target, or the listener of a service named as destination, may be a   *)
(* traffic listener again, of another node or of the same.  The handlers   *)
(* of one request are therefore a stack: each waits for the answer of the  *)
(* one above it.  Which service a handler matches, and with which          *)
(* configuration, is up to the plan its node has at that moment: any       *)
(* Policy.  In which order the plan gives the candidates is the subject of *)
(* module Routing.                                                         *)
(*                                                                         *)
(* Requests meet only in the counters; several handlers of one request     *)
(* record at the same time here, because an answer can reach the caller    *)
(* before the handler has returned.                                        *)
(***************************************************************************)
EXTENDS Integers, Sequences, FiniteSets, Bags, Functions

CONSTANTS
    Node,
    Policy,       \* what the matched service says about its requests
    Upstream,     \* addresses of servers outside of the mesh
    ListenerNode, \* the node of each traffic listener's address
    Relay,        \* addresses that are targets with the relay tag
    ClientHops,   \* hop headers of clients; one that is no number counts as -1
    FallbackRate, \* Server.metricsSampleRate
    QueueCap,     \* capacity of metricsEvents
    MaxSends,     \* bound: requests of the client
    None          \* not known yet

Listener == DOMAIN ListenerNode

\* A policy is the configured number of attempts, the retry budget in percent,
\* the hop limit, the sample rate and the addresses the destination leads to,
\* <<>> if it cannot be resolved.
ASSUME PolicyAssumption ==
    /\ IsFiniteSet(Policy)
    /\ \A p \in Policy :
           /\ p.attempts \in Int /\ p.budget \in Int /\ p.maxHops \in Int
           /\ p.rate \in Nat
           /\ p.dest \in Seq(STRING)

ASSUME NodeAssumption == \A a \in Listener : ListenerNode[a] \in Node

ASSUME HopsAssumption == ClientHops \subseteq Int

ASSUME BoundAssumption ==
    FallbackRate \in Nat \ {0} /\ QueueCap \in Nat \ {0} /\ MaxSends \in Nat

VARIABLES
    stack,      \* the handlers of the client's request, the client's own first
    ask,        \* the body the client has sent: "none", "length" or "chunked"
    sends,      \* how many requests the client has sent
    good,       \* history: an upstream's answer below 502 is on its way back
    recs,       \* bag of handlers that have answered and record
    seq,        \* metricsSampleSeq
    requests,   \* requestsTotal
    errors,     \* errorTotal
    retries,    \* retryAttemptsTotal
    relayHits,  \* relayHitTotal
    queue,      \* metricsEvents
    aggregator, \* "new", "running", "stopping", "gone"
    stats,      \* a call of Stats
    ended,      \* history: requests the node has come to record
    ok          \* history: weight of those below 500

request == <<stack, ask, sends, good>>
counters == <<seq, requests, errors, retries, relayHits>>
metrics == <<counters, queue, aggregator, stats, ended, ok>>
vars == <<request, recs, metrics>>

----------------------------------------------------------------------------
\* effectiveMaxAttempts, effectiveMaxHops (server.go:1121)
effectiveMaxAttempts(n) == IF n <= 0 THEN 1 ELSE n

effectiveMaxHops(n) == IF n <= 0 THEN 2 ELSE n

\* Mutant: the budget comes on top of the attempts.
applyRetryBudgetExtra(n, budget) == IF n <= 1 THEN 1 ELSE n + (n * budget) \div 100

\* applyRetryBudget (server.go:1135), the budget in percent.
applyRetryBudget(n, budget) ==
    LET allowed == ((n - 1) * budget) \div 100
    IN  CASE n <= 1 \/ budget <= 0 -> 1
          [] n > 1 /\ budget >= 100 -> n
          [] OTHER -> 1 + (IF allowed = 0 THEN 1 ELSE allowed)

\* Mutant: every server error is tried again.
shouldRetryStatusError(status) == status >= 500
shouldRetryStatus(status) == status >= 502

\* effectiveMetricsSampleRate (server.go:1083), and what recordTrafficMetrics
\* makes of the 0 of a request without a route.
effectiveMetricsSampleRate(rate) == IF rate > 0 THEN rate ELSE FallbackRate

Rates == {effectiveMetricsSampleRate(p.rate) : p \in Policy} \cup {FallbackRate}

\* Mutant: only bodies of known length are kept.
maybeReadLength(body) == body = "length"

\* maybeReadRequestBodyForRetry (server.go:1181): whether the body is kept.
maybeRead(body) == body \in {"length", "chunked"}

----------------------------------------------------------------------------
\* What a caller sees of an answer: its status, whether the body broke off, and
\* whether an informational response (100 to 199) came before it.
Answer(status) == [status |-> status, cut |-> FALSE, hint |-> FALSE]
Hinted(ans) == [ans EXCEPT !.hint = TRUE]
Cut(ans) == [ans EXCEPT !.cut = TRUE]
Refused == Answer(0)

NewFrame(n, hops, body) ==
    [pc |-> "serve", node |-> n, hops |-> hops, body |-> body, rate |-> 0,
     cands |-> <<>>, i |-> 1, relay |-> FALSE, sent |-> None, ans |-> None]

top == stack[Len(stack)]
Waiting == SubSeq(stack, 1, Len(stack) - 1)

\* The handler's turn has come.
At(pc) == stack # <<>> /\ top.pc = pc

SetTop(f) == stack' = [stack EXCEPT ![Len(stack)] = f]

\* The handler ends, and its caller sees ans, or a connection that broke before
\* or during the answer.
Return(ans) ==
    \E seen \in IF ans = Refused THEN {Refused} ELSE {ans, Cut(ans), Refused} :
        /\ stack' = IF Len(stack) = 1 THEN <<>>
                    ELSE [Waiting EXCEPT ![Len(stack) - 1] =
                              [@ EXCEPT !.pc = "got", !.ans = seen]]
        /\ good' = (good /\ seen = ans /\ ~ans.cut /\ Len(stack) > 1)

\* serveRequest returns status, attempts and relayHit, having written ans;
\* recordTrafficMetrics will follow.
Reply(ans, status, attempts, relay, rate) ==
    /\ Return(ans)
    /\ recs' = recs (+) SetToBag({[pc |-> "sample", node |-> top.node,
                                   error |-> status >= 500,
                                   retries |-> IF attempts > 1 THEN attempts - 1 ELSE 0,
                                   relay |-> relay,
                                   rate |-> effectiveMetricsSampleRate(rate)]})
    /\ UNCHANGED <<ask, sends, metrics>>

\* A reply of the node's own, before any attempt.
Refuse(status, rate) == Reply(Answer(status), status, 0, FALSE, rate)

Init ==
    /\ stack = <<>>
    /\ ask = "none"
    /\ sends = 0
    /\ good = FALSE
    /\ recs = EmptyBag
    /\ seq = [n \in Node |-> 0]
    /\ requests = [n \in Node |-> 0]
    /\ errors = [n \in Node |-> 0]
    /\ retries = [n \in Node |-> 0]
    /\ relayHits = [n \in Node |-> 0]
    /\ queue = [n \in Node |-> <<>>]
    /\ aggregator = [n \in Node |-> "new"]
    /\ stats = [loads |-> <<>>, node |-> None]
    /\ ended = [n \in Node |-> 0]
    /\ ok = [n \in Node |-> 0]

\* The client sends a request to a node.
Send(n, body, hops) ==
    /\ stack = <<>>
    /\ sends < MaxSends
    /\ sends' = sends + 1
    /\ ask' = body
    /\ stack' = <<NewFrame(n, hops, body)>>
    /\ UNCHANGED <<good, recs, metrics>>

----------------------------------------------------------------------------
\* serveRequest (server.go:833), up to the candidates.

NoRoute == At("serve") /\ Refuse(404, 0)

BadHops(p) == At("serve") /\ top.hops < 0 /\ Refuse(400, p.rate)

Within(p) == At("serve") /\ top.hops \in 0..effectiveMaxHops(p.maxHops)

LoopDetected(p) ==
    /\ At("serve")
    /\ top.hops > effectiveMaxHops(p.maxHops)
    /\ Refuse(508, p.rate)

Unresolved(p) == Within(p) /\ p.dest = <<>> /\ Refuse(502, p.rate)

Attempts(p) == applyRetryBudget(effectiveMaxAttempts(p.attempts), p.budget)

\* The candidates are the addresses over and over, from one of them on.  With
\* more than one the body is read.
Resolve(p) ==
    /\ Within(p)
    /\ p.dest # <<>>
    /\ \E k \in DOMAIN p.dest :
           SetTop([top EXCEPT !.pc = "send", !.rate = p.rate,
                              !.cands = [i \in 1..Attempts(p) |->
                                            p.dest[((i + k - 2) % Len(p.dest)) + 1]]])
    /\ UNCHANGED <<ask, sends, good, recs, metrics>>

BodyFails(p) ==
    /\ Within(p)
    /\ p.dest # <<>>
    /\ Attempts(p) > 1
    /\ maybeRead(top.body)
    /\ Refuse(400, p.rate)

----------------------------------------------------------------------------
\* An attempt.

Candidate == top.cands[top.i]
RelayHit == top.relay \/ Candidate \in Relay

\* targetForDestination or proxyForDestination cannot parse the address.
BadAddress ==
    /\ At("send")
    /\ Candidate \notin Upstream \cup Listener
    /\ Reply(Answer(502), 502, top.i, RelayHit, top.rate)

\* The first attempt has the body; the others what has been kept of it.
BodyOfAttempt == IF top.i = 1 \/ maybeRead(top.body) THEN top.body ELSE "none"

\* Mutant: the hop header is handed on as it came.
NextHopsSame == top.hops
NextHops == top.hops + 1

Calling == [top EXCEPT !.pc = "wait", !.relay = RelayHit, !.sent = BodyOfAttempt]

CallUpstream ==
    /\ At("send")
    /\ Candidate \in Upstream
    /\ SetTop(Calling)
    /\ UNCHANGED <<ask, sends, good, recs, metrics>>

CallListener ==
    /\ At("send")
    /\ Candidate \in Listener
    /\ stack' = [stack EXCEPT ![Len(stack)] = Calling]
                    \o <<NewFrame(ListenerNode[Candidate], NextHops, BodyOfAttempt)>>
    /\ UNCHANGED <<ask, sends, good, recs, metrics>>

\* The upstream answers, breaks off, or cannot be reached.
UpstreamAnswers ==
    /\ At("wait")
    /\ \E ans \in {Answer(s) : s \in {200, 500, 503}}
                  \cup {Hinted(Answer(503)), Cut(Answer(200)), Refused} :
           /\ SetTop([top EXCEPT !.pc = "got", !.ans = ans])
           /\ good' = (~ans.cut /\ ans.status \in 1..501)
    /\ UNCHANGED <<ask, sends, recs, metrics>>

\* One attempt, forwardDirect (server.go:1294): the answer is handed on as it
\* comes, without informational responses.  If the upstream breaks it off the
\* error text goes into the body after it: the caller sees a body that is too
\* short or, none the wiser, one that ends well.  The copy also fails when the
\* caller's connection does; either way 502 is recorded.
ForwardDirect ==
    /\ At("got")
    /\ Len(top.cands) = 1
    /\ IF top.ans = Refused
       THEN Reply(Answer(502), 502, 1, top.relay, top.rate)
       ELSE \E ans \in {Answer(top.ans.status), Cut(Answer(top.ans.status))} :
                Reply(ans, IF ans.cut \/ top.ans.cut THEN 502 ELSE ans.status,
                      1, top.relay, top.rate)

\* Several attempts: the answer of a ReverseProxy is buffered; its ErrorHandler
\* makes a 502 of a refused one.  The buffer keeps the first status it is given
\* (server.go:1240), that of an informational response if there is one.
Status == CASE top.ans.hint -> 103
            [] top.ans = Refused -> 502
            [] OTHER -> top.ans.status
Last == top.i = Len(top.cands)

\* Mutant: the loop does not come to the next candidate.
NextAttemptSame == [top EXCEPT !.pc = "send"]
NextAttempt == [top EXCEPT !.pc = "send", !.i = @ + 1]

Retry ==
    /\ At("got")
    /\ Len(top.cands) > 1
    /\ ~top.ans.cut
    /\ shouldRetryStatus(Status) /\ ~Last
    /\ SetTop(NextAttempt)
    /\ UNCHANGED <<ask, sends, good, recs, metrics>>

\* writeRetryBufferedResponse: a body after an informational response makes the
\* server send 200.
Deliver ==
    /\ At("got")
    /\ Len(top.cands) > 1
    /\ ~top.ans.cut
    /\ ~shouldRetryStatus(Status) \/ Last
    /\ Reply(IF top.ans.hint THEN Hinted(Answer(200)) ELSE Answer(Status),
             Status, top.i, top.relay, top.rate)

\* An answer that breaks off makes ReverseProxy panic with ErrAbortHandler: the
\* connection is closed and nothing recorded.
Abort ==
    /\ At("got")
    /\ Len(top.cands) > 1
    /\ top.ans.cut
    /\ Return(Refused)
    /\ UNCHANGED <<ask, sends, recs, metrics>>

Handle ==
    \/ NoRoute
    \/ \E p \in Policy :
           BadHops(p) \/ LoopDetected(p) \/ Unresolved(p) \/ Resolve(p) \/ BodyFails(p)
    \/ BadAddress \/ CallUpstream \/ CallListener
    \/ ForwardDirect \/ Retry \/ Deliver \/ Abort

----------------------------------------------------------------------------
\* recordTrafficMetrics (server.go:1006)

\* Mutant: the first of every rate requests is counted.
SampledFirst(s, rate) == rate <= 1 \/ s % rate = 1
Sampled(s, rate) == rate <= 1 \/ s % rate = 0

\* Mutant: the counted request stands for itself only.
WeightOne(rate) == 1
Weight(rate) == rate

\* What is left to record of r after the step at which it is.
Event(r) == r.retries > 0 \/ r.relay
Rest(r) ==
    LET to(pc) == SetToBag({[r EXCEPT !.pc = pc]})
    IN  CASE r.pc = "sample" -> to("request")
          [] r.pc = "request" /\ r.error -> to("error")
          [] (r.pc = "error" \/ (r.pc = "request" /\ ~r.error)) /\ Event(r) -> to("event")
          [] OTHER -> EmptyBag

Recording(r, pc) == BagIn(r, recs) /\ r.pc = pc
Done(r) == recs' = (recs (-) SetToBag({r})) (+) Rest(r)
Skip(r) == recs' = recs (-) SetToBag({r})

\* The sample sequence.  Other handlers record between it and requestsTotal.
Sample(r) ==
    LET n == r.node
        s == seq[n] + (IF r.rate > 1 THEN 1 ELSE 0)
    IN  /\ Recording(r, "sample")
        /\ seq' = [seq EXCEPT ![n] = s]
        /\ ended' = [ended EXCEPT ![n] = @ + 1]
        /\ IF Sampled(s, r.rate) THEN Done(r) ELSE Skip(r)
        /\ UNCHANGED <<request, requests, errors, retries, relayHits, queue, aggregator,
                       stats, ok>>

\* requestsTotal
CountRequest(r) ==
    LET n == r.node
    IN  /\ Recording(r, "request")
        /\ requests' = [requests EXCEPT ![n] = @ + Weight(r.rate)]
        /\ ok' = [ok EXCEPT ![n] = @ + (IF r.error THEN 0 ELSE Weight(r.rate))]
        /\ Done(r)
        /\ UNCHANGED <<request, seq, errors, retries, relayHits, queue, aggregator,
                       stats, ended>>

CountError(r) ==
    /\ Recording(r, "error")
    /\ errors' = [errors EXCEPT ![r.node] = @ + Weight(r.rate)]
    /\ Done(r)
    /\ UNCHANGED <<request, seq, requests, retries, relayHits, queue, aggregator,
                   stats, ended, ok>>

\* applyMetricsEvent (server.go:1073)
applyMetricsEvent(n, e) ==
    /\ retries' = [retries EXCEPT ![n] = @ + e.retries * e.rate]
    /\ relayHits' = [relayHits EXCEPT ![n] = @ + (IF e.relay THEN e.rate ELSE 0)]

\* The event goes to the aggregator, if there is one; it is dropped if the queue
\* is full.
Emit(r) ==
    LET n == r.node
        e == [retries |-> r.retries, relay |-> r.relay, rate |-> r.rate]
    IN  /\ Recording(r, "event")
        /\ IF aggregator[n] = "running"
           THEN /\ queue' = [queue EXCEPT ![n] =
                                 IF Len(@) < QueueCap THEN Append(@, e) ELSE @]
                /\ UNCHANGED <<retries, relayHits>>
           ELSE applyMetricsEvent(n, e) /\ UNCHANGED queue
        /\ Done(r)
        /\ UNCHANGED <<request, seq, requests, errors, aggregator, stats, ended, ok>>

\* startMetricsAggregator, its loop, and stopMetricsAggregator: between two
\* cases that are ready the loop may choose either.
StartAggregator(n) ==
    /\ aggregator[n] = "new"
    /\ aggregator' = [aggregator EXCEPT ![n] = "running"]
    /\ UNCHANGED <<request, recs, counters, queue, stats, ended, ok>>

Aggregate(n) ==
    /\ aggregator[n] \in {"running", "stopping"}
    /\ queue[n] # <<>>
    /\ applyMetricsEvent(n, Head(queue[n]))
    /\ queue' = [queue EXCEPT ![n] = Tail(@)]
    /\ UNCHANGED <<request, recs, seq, requests, errors, aggregator, stats, ended, ok>>

StopAggregator(n) ==
    /\ aggregator[n] = "running"
    /\ aggregator' = [aggregator EXCEPT ![n] = "stopping"]
    /\ UNCHANGED <<request, recs, counters, queue, stats, ended, ok>>

AggregatorEnds(n) ==
    /\ aggregator[n] = "stopping"
    /\ aggregator' = [aggregator EXCEPT ![n] = "gone"]
    /\ UNCHANGED <<request, recs, counters, queue, stats, ended, ok>>

\* Mutant: the errors are loaded first.
LoadOrderErrors == <<"errors", "requests">>

\* Stats (server.go:1094) loads one counter after the other.
LoadOrder == <<"requests", "errors">>

Load(n) ==
    /\ stats.loads = <<>> \/ (stats.node = n /\ Len(stats.loads) < 2)
    /\ stats' = [loads |-> Append(stats.loads,
                             IF LoadOrder[Len(stats.loads) + 1] = "requests"
                             THEN requests[n] ELSE errors[n]),
                 node |-> n]
    /\ UNCHANGED <<request, recs, counters, queue, aggregator, ended, ok>>

\* The call returns.
StatsEnds ==
    /\ Len(stats.loads) = 2
    /\ stats' = [loads |-> <<>>, node |-> None]
    /\ UNCHANGED <<request, recs, counters, queue, aggregator, ended, ok>>

Record ==
    \E r \in BagToSet(recs) : Sample(r) \/ CountRequest(r) \/ CountError(r) \/ Emit(r)

Next ==
    \/ \E n \in Node, body \in {"none", "length", "chunked"}, hops \in ClientHops :
           Send(n, body, hops)
    \/ Handle
    \/ UpstreamAnswers
    \/ Record
    \/ \E n \in Node : \/ StartAggregator(n) \/ Aggregate(n)
                       \/ StopAggregator(n) \/ AggregatorEnds(n)
                       \/ Load(n)
    \/ StatsEnds

\* A handler that can go on does.  An upstream answers, or its connection breaks:
\* the code sets no limit to its time, so this is assumed of the upstreams.
Fairness == WF_vars(Handle) /\ WF_vars(UpstreamAnswers) /\ WF_vars(Record)

Spec == Init /\ [][Next]_vars

LiveSpec == Spec /\ Fairness

----------------------------------------------------------------------------
Statuses == {200, 400, 404, 500, 502, 503, 508}

\* The largest number of attempts that is configured.
MostAttempts(n) == \E p \in Policy : n <= effectiveMaxAttempts(p.attempts)

(***************************************************************************)
(* The types; in particular no handler has more candidates than a service  *)
(* allows attempts, whatever the budget (server.go:1135).                  *)
(***************************************************************************)
TypeOK ==
    /\ \A j \in DOMAIN stack :
           LET f == stack[j]
           IN  /\ f.pc \in {"serve", "send", "wait", "got"}
               /\ f.node \in Node
               /\ f.hops \in Int
               /\ f.body \in {"none", "length", "chunked"}
               /\ f.pc # "serve" => f.i \in DOMAIN f.cands /\ MostAttempts(Len(f.cands))
               /\ f.pc = "got" => f.ans.status \in Statuses \cup {0}
    /\ sends \in 0..MaxSends
    /\ good \in BOOLEAN
    /\ IsABag(recs)
    /\ \A n \in Node : Len(queue[n]) <= QueueCap
    /\ Len(stats.loads) <= 2

(***************************************************************************)
(* A request that is sent round in a circle is stopped by the hop header:  *)
(* no more handlers wait for each other than the largest hop limit allows, *)
(* which passes on a request that has reached the limit once more, to one  *)
(* that answers 508 (server.go:860).                                       *)
(***************************************************************************)
LoopsEnd == \/ Len(stack) <= 1
            \/ \E p \in Policy : Len(stack) <= effectiveMaxHops(p.maxHops) + 2

(***************************************************************************)
(* However often and on however many nodes a request is tried again, every *)
(* upstream is sent the body of the client (server.go:925, 1169, 1194).    *)
(***************************************************************************)
WholeBody ==
    \A j \in DOMAIN stack :
        /\ stack[j].body = ask
        /\ stack[j].pc = "wait" => stack[j].sent = ask

(***************************************************************************)
(* Once an upstream has answered with a status below 502, no node on the   *)
(* way sends the request to anybody else: it comes back to the client,     *)
(* unless a connection between the nodes breaks (server.go:970).           *)
(***************************************************************************)
NoRepeatAfterAnswer == good => At("got")

\* The weight that the handlers at pc are about to count: "request" for those
\* that are sampled and not yet in requestsTotal, "error" for the errors that are
\* there and not yet in errorTotal.
Uncounted(n, pc) ==
    LET of == {r \in BagToSet(recs) : r.node = n /\ r.pc = pc}
    IN  SumFunction([r \in of |-> Weight(r.rate) * recs[r]])

(***************************************************************************)
(* The success_total that Stats works out is never more than the requests  *)
(* that ended well, those apart whose error is just being counted: a       *)
(* failure that is recorded while Stats reads does not show up as a        *)
(* success (server.go:1094).                                               *)
(***************************************************************************)
StatsHonest ==
    [][Len(stats.loads) = 1 /\ Len(stats'.loads) = 2 =>
           LET at(name) == stats'.loads[CHOOSE i \in 1..2 : LoadOrder[i] = name]
               success == IF at("requests") >= at("errors")
                          THEN at("requests") - at("errors") ELSE 0
           IN  success <= ok[stats.node] + Uncounted(stats.node, "error")]_vars

(***************************************************************************)
(* The counters that come through the aggregator agree with those that are *)
(* counted at once: dropped events, a queue that is behind and the end of  *)
(* the aggregator may leave relay hits and retries out, but never make     *)
(* them more than the requests allow (server.go:1006, 1073).               *)
(***************************************************************************)
CountersAgree ==
    \A n \in Node :
        /\ relayHits[n] <= requests[n]
        /\ errors[n] <= requests[n]
        /\ retries[n] = 0 \/ \E p \in Policy :
               retries[n] <= (effectiveMaxAttempts(p.attempts) - 1) * requests[n]

(***************************************************************************)
(* The estimate of requests_total with sampling, the weight apart that is  *)
(* sampled and just being counted (server.go:1013, 1019).  All services of *)
(* a node take their turns from one sequence, so with several rates it can *)
(* be wrong, but only so far: it is at most as many times too large as     *)
(* there are rates, and one more request is counted each time the sequence *)
(* passes a common multiple of them.  With one rate it is never too large  *)
(* and less than one period behind.                                        *)
(***************************************************************************)
EstimateIsClose ==
    \A n \in Node :
        LET Shared == Rates \ {1}
            whole == ended[n] - seq[n]    \* requests that need no sampling
            counted == requests[n] + Uncounted(n, "request") - whole
        IN  /\ counted \in 0..(Cardinality(Shared) * seq[n])
            /\ \A m \in 1..seq[n] :
                   (\A rate \in Shared : m % rate = 0) =>
                       \E rate \in Shared : counted >= rate * (seq[n] \div m)

(***************************************************************************)
(* Every request is answered in the end and its handlers are gone: neither *)
(* relays in a circle nor retries nor a full queue of events, with the     *)
(* aggregator running or not, keep them (server.go:833, 1037).             *)
(***************************************************************************)
RequestsEnd == <>[](stack = <<>> /\ recs = EmptyBag)

=============================================================================
