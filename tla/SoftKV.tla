------------------------------- MODULE SoftKV -------------------------------
(***************************************************************************)
(* The soft-state store that every FluxMesh node keeps in memory and       *)
(* gossips with memberlist: internal/softkv and the goroutines of          *)
(* internal/app that drive it.                                             *)
(*                                                                         *)
(* The only writer in the program is updateNodeMetrics, which writes the   *)
(* key "metrics/nodes/"+n with source n.  The model therefore names keys   *)
(* by the node that owns them, and all of an entry's value that matters is *)
(* which sample of its owner it is: the owner's samples are numbered in    *)
(* the order in which it takes them, across its restarts.                  *)
(*                                                                         *)
(* Left out: IngestedAt (no code reads it), the statistics counters, and   *)
(* the argument checks of Put and Merge (key "" and ttl <= 0), which the   *)
(* only writer never fails.                                                *)
(***************************************************************************)
EXTENDS Integers, Sequences, FiniteSets

CONSTANTS
    Node,          \* node IDs; they are ordered, because SourceID is compared
    TTL,           \* lifetime of an entry (30 s in updateNodeMetrics)
    BusCap,        \* capacity of the channel in Bus
    MaxTime,       \* bound: highest reading of any clock
    MaxSample,     \* bound, per node: samples it writes
    MaxRestarts,   \* bound, per node: restarts of its process
    MaxMerging,    \* bound: merges a node may be in the middle of at once
    NoEntry        \* "the map has no such key"

(***************************************************************************)
(* An Entry (store.go:16).                                                 *)
(***************************************************************************)
Entry ==
    [key : Node, source : Node, seq : Nat,
     updatedAt : Nat, expiresAt : Nat, value : Nat]

ASSUME NodeAssumption == Node \subseteq Nat
ASSUME BoundAssumption ==
    /\ TTL \in Nat \ {0}
    /\ BusCap \in Nat \ {0}
    /\ MaxTime \in Nat
    /\ MaxSample \in [Node -> Nat]
    /\ MaxRestarts \in [Node -> Nat]
    /\ MaxMerging \in Nat \ {0}
ASSUME NoEntryAssumption == NoEntry \notin Entry

VARIABLES
    now,      \* now[n]: the wall clock of node n; clocks are not synchronised
    data,     \* data[n][k]: Store.data of node n
    seq,      \* seq[n][s]: Store.seq of node n
    pending,  \* pending[n]: the entry Write has Put and not yet Published
    bus,      \* bus[n]: the channel between Writer and the gossip goroutine
    mode,     \* mode[n]: what runSoftKVBus is doing on node n
    net,      \* gossip messages sent; it only grows, see Deliver
    checked,  \* checked[n]: entries between Merge's expiry check and its lock
    sample,   \* history: samples node n has written, over all its restarts
    restarts, \* history: restarts of node n
    high      \* history: high[n][k], the latest sample of k stored by n since
              \* n started, as an entry

vars == <<now, data, seq, pending, bus, mode, net, checked,
          sample, restarts, high>>

Mode == {"starting", "memberlist", "loopback"}

\* "put" carries one event (gossipMessage), "state" one entry of a push/pull
\* state (gossipState, whose entries are merged one at a time).
Message == [kind : {"put", "state"}, sender : Node, entry : Entry]

(***************************************************************************)
(* The types, and that the bus (bus.go:32) never holds more events than    *)
(* its channel has room for.                                               *)
(***************************************************************************)
TypeOK ==
    /\ now \in [Node -> 0..MaxTime]
    /\ data \in [Node -> [Node -> Entry \cup {NoEntry}]]
    /\ seq \in [Node -> [Node -> Nat]]
    /\ pending \in [Node -> Entry \cup {NoEntry}]
    /\ bus \in [Node -> Seq(Entry)]
    /\ \A n \in Node : Len(bus[n]) <= BusCap
    /\ mode \in [Node -> Mode]
    /\ net \subseteq Message
    /\ checked \in [Node -> SUBSET Entry]
    /\ sample \in [Node -> Nat]
    /\ restarts \in [Node -> Nat]
    /\ high \in [Node -> [Node -> Entry \cup {NoEntry}]]

----------------------------------------------------------------------------
\* Mutant: ties and order decided by wall-clock time alone.
shouldAcceptByTime(current, incoming) ==
    incoming.updatedAt >= current.updatedAt

\* shouldAccept (store.go:229): does incoming replace current?
shouldAccept(current, incoming) ==
    IF current.source = incoming.source /\ incoming.seq # current.seq
    THEN incoming.seq > current.seq
    ELSE IF incoming.updatedAt # current.updatedAt
    THEN incoming.updatedAt > current.updatedAt
    ELSE IF incoming.source # current.source
    THEN incoming.source > current.source
    ELSE incoming.seq > current.seq

Expired(n, e) == e.expiresAt <= now[n]

\* What Get and List return for key k at node n (store.go:103, 127).
Visible(n, k) == data[n][k] # NoEntry /\ ~Expired(n, data[n][k])

\* The latest of the samples h and e of one key.
Later(h, e) == IF h = NoEntry THEN e ELSE IF e.value > h.value THEN e ELSE h

----------------------------------------------------------------------------
Init ==
    /\ now \in [Node -> 0..MaxTime]
    /\ data = [n \in Node |-> [k \in Node |-> NoEntry]]
    /\ seq = [n \in Node |-> [s \in Node |-> 0]]
    /\ pending = [n \in Node |-> NoEntry]
    /\ bus = [n \in Node |-> <<>>]
    /\ mode = [n \in Node |-> "starting"]
    /\ net = {}
    /\ checked = [n \in Node |-> {}]
    /\ sample = [n \in Node |-> 0]
    /\ restarts = [n \in Node |-> 0]
    /\ high = [n \in Node |-> [k \in Node |-> NoEntry]]

\* Time passes at one node.
Tick(n) ==
    /\ now[n] < MaxTime
    /\ now' = [now EXCEPT ![n] = @ + 1]
    /\ UNCHANGED <<data, seq, pending, bus, mode, net, checked,
                   sample, restarts, high>>

\* The entry Put builds for node n's own key.
NewEntry(n) ==
    [key |-> n, source |-> n, seq |-> seq[n][n] + 1,
     updatedAt |-> now[n], expiresAt |-> now[n] + TTL,
     value |-> sample[n] + 1]

\* Writer.Write, first half: Store.Put overwrites whatever is there.
Put(n) ==
    /\ pending[n] = NoEntry
    /\ sample[n] < MaxSample[n]
    /\ seq' = [seq EXCEPT ![n][n] = @ + 1]
    /\ data' = [data EXCEPT ![n][n] = NewEntry(n)]
    /\ high' = [high EXCEPT ![n][n] = Later(@, NewEntry(n))]
    /\ pending' = [pending EXCEPT ![n] = NewEntry(n)]
    /\ sample' = [sample EXCEPT ![n] = @ + 1]
    /\ UNCHANGED <<now, bus, mode, net, checked, restarts>>

\* Mutant: the capacity check is off by one.
PublishPastCap(n) ==
    /\ pending[n] # NoEntry
    /\ bus' = IF Len(bus[n]) <= BusCap
              THEN [bus EXCEPT ![n] = Append(@, pending[n])]
              ELSE bus
    /\ pending' = [pending EXCEPT ![n] = NoEntry]
    /\ UNCHANGED <<now, data, seq, mode, net, checked,
                   sample, restarts, high>>

\* Writer.Write, second half: Publish never blocks; a full bus drops the
\* event, and nothing rolls the Put back.
Publish(n) ==
    /\ pending[n] # NoEntry
    /\ bus' = IF Len(bus[n]) < BusCap
              THEN [bus EXCEPT ![n] = Append(@, pending[n])]
              ELSE bus
    /\ pending' = [pending EXCEPT ![n] = NoEntry]
    /\ UNCHANGED <<now, data, seq, mode, net, checked,
                   sample, restarts, high>>

\* runSoftKVBus: memberlist either starts, or fails and loopback runs for the
\* rest of the process's life.
StartGossip(n) ==
    /\ mode[n] = "starting"
    /\ \E m \in {"memberlist", "loopback"} : mode' = [mode EXCEPT ![n] = m]
    /\ UNCHANGED <<now, data, seq, pending, bus, net, checked,
                   sample, restarts, high>>

\* The gossip goroutine takes an event off the bus and queues it for
\* broadcast (RunMemberlist).
Broadcast(n) ==
    /\ mode[n] = "memberlist"
    /\ bus[n] # <<>>
    /\ bus' = [bus EXCEPT ![n] = Tail(@)]
    /\ net' = net \cup {[kind |-> "put", sender |-> n, entry |-> Head(bus[n])]}
    /\ UNCHANGED <<now, data, seq, pending, mode, checked,
                   sample, restarts, high>>

\* The loopback goroutine merges the event into its own store (RunLoopback);
\* this step is Merge's expiry check.
Loopback(n) ==
    /\ mode[n] = "loopback"
    /\ bus[n] # <<>>
    /\ Cardinality(checked[n]) < MaxMerging
    /\ bus' = [bus EXCEPT ![n] = Tail(@)]
    /\ checked' = IF Expired(n, Head(bus[n]))
                  THEN checked
                  ELSE [checked EXCEPT ![n] = @ \cup {Head(bus[n])}]
    /\ UNCHANGED <<now, data, seq, pending, mode, net,
                   sample, restarts, high>>

\* Mutant: the snapshot leaves out what the node learnt from its peers.
LocalStateOwn(n) ==
    /\ mode[n] = "memberlist"
    /\ net' = net \cup {[kind |-> "state", sender |-> n, entry |-> data[n][k]] :
                            k \in {j \in {n} : Visible(n, j)}}
    /\ UNCHANGED <<now, data, seq, pending, bus, mode, checked,
                   sample, restarts, high>>

\* LocalState: the snapshot node n offers in a push/pull exchange, which is
\* what List returns.
LocalState(n) ==
    /\ mode[n] = "memberlist"
    /\ net' = net \cup {[kind |-> "state", sender |-> n, entry |-> data[n][k]] :
                            k \in {j \in Node : Visible(n, j)}}
    /\ UNCHANGED <<now, data, seq, pending, bus, mode, checked,
                   sample, restarts, high>>

\* A gossip message reaches node n: NotifyMsg, which drops n's own broadcasts,
\* or one round of the loop in MergeRemoteState.  Both call Merge; this step
\* is its expiry check, made before the lock is taken.  A message may be
\* delivered never, once or many times, and in any order.
Deliver(n, m) ==
    /\ mode[n] = "memberlist"
    /\ m \in net
    /\ Cardinality(checked[n]) < MaxMerging
    /\ m.kind = "put" => m.sender # n
    /\ ~Expired(n, m.entry)
    /\ checked' = [checked EXCEPT ![n] = @ \cup {m.entry}]
    /\ UNCHANGED <<now, data, seq, pending, bus, mode, net,
                   sample, restarts, high>>

\* Mutant: an accepted entry leaves the counters alone.
RaiseSeqNever(n, e) == seq

\* The store's sequence counters after it accepted e (store.go:167, 177).
RaiseSeq(n, e) ==
    [seq EXCEPT ![n][e.source] = IF e.seq > @ THEN e.seq ELSE @]

\* Does Merge accept e, now that it holds the lock?
Accepts(n, e) ==
    \/ data[n][e.key] = NoEntry
    \/ shouldAccept(data[n][e.key], e)

\* Merge, under the lock.
ApplyMerge(n, e) ==
    /\ e \in checked[n]
    /\ checked' = [checked EXCEPT ![n] = @ \ {e}]
    /\ IF Accepts(n, e)
       THEN /\ data' = [data EXCEPT ![n][e.key] = e]
            /\ seq' = RaiseSeq(n, e)
            /\ high' = [high EXCEPT ![n][e.key] = Later(@, e)]
       ELSE UNCHANGED <<data, seq, high>>
    /\ UNCHANGED <<now, pending, bus, mode, net, sample, restarts>>

\* DeleteExpired, once a second (gcSoftState).
DeleteExpired(n) ==
    /\ data' = [data EXCEPT ![n] =
                   [k \in Node |-> IF Visible(n, k) THEN data[n][k]
                                                    ELSE NoEntry]]
    /\ UNCHANGED <<now, seq, pending, bus, mode, net, checked,
                   sample, restarts, high>>

\* Node n's process dies and starts again with an empty store; what it sent
\* is still in the network.  A restart takes time, so the clock moves.
Restart(n) ==
    /\ restarts[n] < MaxRestarts[n]
    /\ now[n] < MaxTime
    /\ now' = [now EXCEPT ![n] = @ + 1]
    /\ data' = [data EXCEPT ![n] = [k \in Node |-> NoEntry]]
    /\ seq' = [seq EXCEPT ![n] = [s \in Node |-> 0]]
    /\ pending' = [pending EXCEPT ![n] = NoEntry]
    /\ bus' = [bus EXCEPT ![n] = <<>>]
    /\ mode' = [mode EXCEPT ![n] = "starting"]
    /\ checked' = [checked EXCEPT ![n] = {}]
    /\ restarts' = [restarts EXCEPT ![n] = @ + 1]
    /\ high' = [high EXCEPT ![n] = [k \in Node |-> NoEntry]]
    /\ UNCHANGED <<net, sample>>

Next ==
    \E n \in Node :
        \/ Tick(n)
        \/ Put(n)
        \/ Publish(n)
        \/ StartGossip(n)
        \/ Broadcast(n)
        \/ Loopback(n)
        \/ LocalState(n)
        \/ \E m \in net : Deliver(n, m)
        \/ \E e \in checked[n] : ApplyMerge(n, e)
        \/ DeleteExpired(n)
        \/ Restart(n)

Spec == Init /\ [][Next]_vars

(***************************************************************************)
(* Fairness.  runSoftKVBus runs as soon as the node is up; memberlist      *)
(* repeats push/pull exchanges for as long as it runs, so what a node      *)
(* holds is offered and reaches each peer again and again; a Merge that    *)
(* has begun ends; the collector runs every second.  Exchanges are         *)
(* strongly fair because other merges may fill MaxMerging in between,      *)
(* which holds up no merge in the code.  Nothing is assumed about          *)
(* broadcasts, which may all be lost, or about the bus.                    *)
(***************************************************************************)
Exchange(n, m, k) ==
    /\ data[m][k] # NoEntry
    /\ Deliver(n, [kind |-> "state", sender |-> m, entry |-> data[m][k]])

Fairness ==
    \A n \in Node :
        /\ WF_vars(StartGossip(n))
        /\ WF_vars(LocalState(n))
        /\ WF_vars(DeleteExpired(n))
        /\ WF_vars(\E e \in checked[n] : ApplyMerge(n, e))
        /\ \A m \in Node \ {n}, k \in Node : SF_vars(Exchange(n, m, k))

LiveSpec == Spec /\ Fairness

----------------------------------------------------------------------------
(***************************************************************************)
(* A store's counter for a source is never below an entry of that source   *)
(* that the store holds, so Put, which overwrites without comparing, can   *)
(* only hand out a sequence number that beats what it overwrites.          *)
(***************************************************************************)
SeqCoversData ==
    \A n, k \in Node :
        data[n][k] # NoEntry => data[n][k].seq <= seq[n][data[n][k].source]

(***************************************************************************)
(* What a process holds for a key is only ever replaced by an entry that   *)
(* Merge would have accepted over it, or removed once it has expired.  For *)
(* Put this is not checked by the code: it must follow from the counters,  *)
(* also when a restarted node gets its own old entries back from a peer.   *)
(***************************************************************************)
StoreMovesUp ==
    [][\A n, k \in Node :
          data[n][k] # NoEntry /\ data'[n][k] # data[n][k]
             /\ restarts'[n] = restarts[n]
          => IF data'[n][k] = NoEntry
             THEN Expired(n, data[n][k])
             ELSE shouldAccept(data[n][k], data'[n][k])]_vars

(***************************************************************************)
(* As long as the owner of a key has not restarted, no reader of a running *)
(* node sees the key go back to an earlier sample: not by messages out of  *)
(* order, repeated or late, not by a merge overtaken by another, and not   *)
(* because the collector removed the newer entry in between.               *)
(***************************************************************************)
MonotonicReads ==
    \A n, k \in Node :
        restarts[k] = 0 /\ Visible(n, k) /\ high[n][k] # NoEntry
        => data[n][k].value >= high[n][k].value

(***************************************************************************)
(* Once clocks and writers are quiet, gossiping nodes agree: an entry that *)
(* a node shows and a peer's clock has not expired is shown by the peer    *)
(* too, unless the peer shows an entry the node's clock has expired.       *)
(* Whatever messages were lost and whoever restarted on the way.           *)
(***************************************************************************)
Agree(n, m, k) ==
    Visible(n, k) /\ ~Expired(m, data[n][k])
    => Visible(m, k) /\ (data[m][k] = data[n][k] \/ Expired(n, data[m][k]))

Convergence ==
    <>[](\A n, m, k \in Node :
            mode[n] = "memberlist" /\ mode[m] = "memberlist" => Agree(n, m, k))

(***************************************************************************)
(* docs/zh/design/soft-kv-and-gossip.md:127: after a source restarts its   *)
(* sequence numbers start from zero, and the newer time lets the new entry *)
(* replace the old one.                                                    *)
(***************************************************************************)
NewTimeReplacesOld ==
    [][\A n \in Node : \A e \in checked[n] :
          data[n][e.key] # NoEntry /\ ApplyMerge(n, e)
             /\ e.updatedAt > data[n][e.key].updatedAt
          => data'[n][e.key] = e]_vars

----------------------------------------------------------------------------
(***************************************************************************)
(* The inductive invariant behind StoreMovesUp and MonotonicReads.         *)
(***************************************************************************)

\* The entries at one node: in its store, on its bus, or in the middle of a
\* Write or a Merge.
HeldBy(n) ==
    {data[n][k] : k \in Node} \cup {high[n][k] : k \in Node} \cup {pending[n]}
       \cup checked[n] \cup {bus[n][i] : i \in DOMAIN bus[n]}

\* Every entry that exists, at a node or in the network.
Known ==
    ((UNION {HeldBy(n) : n \in Node}) \cup {m.entry : m \in net}) \ {NoEntry}

\* An entry is one its owner wrote: on its own key, not later than its clock
\* reads, and, until the owner restarts, numbered like its sample.
WellFormed(e) ==
    /\ e.key = e.source
    /\ e.updatedAt <= now[e.key]
    /\ e.expiresAt = e.updatedAt + TTL
    /\ e.value <= sample[e.key]
    /\ restarts[e.key] = 0 => e.seq = e.value

KnownWellFormed == \A e \in Known : WellFormed(e)

\* Later samples of a key carry later times, so they expire later.
KnownOrdered ==
    \A e, f \in Known :
        e.key = f.key /\ e.value <= f.value => e.updatedAt <= f.updatedAt

\* Until it restarts, a node's counter for itself counts its samples: no
\* entry that comes back to it can raise it.
CounterCounts == \A n \in Node : restarts[n] = 0 => seq[n][n] = sample[n]

\* A store files an entry under its key.
Filed ==
    \A n, k \in Node :
        /\ data[n][k] # NoEntry => data[n][k].key = k
        /\ high[n][k] # NoEntry => high[n][k].key = k

\* The latest sample stored has expired, or the store holds one as late.
HighHeld ==
    \A n, k \in Node :
        restarts[k] = 0 /\ high[n][k] # NoEntry
        => \/ Expired(n, high[n][k])
           \/ data[n][k] # NoEntry /\ data[n][k].value >= high[n][k].value

IInv ==
    /\ TypeOK
    /\ KnownWellFormed
    /\ KnownOrdered
    /\ CounterCounts
    /\ Filed
    /\ SeqCoversData
    /\ HighHeld

============================================================================
