---------------------------- MODULE SoftKVProofs ----------------------------
(***************************************************************************)
(* Proofs about SoftKV for every set of nodes, lifetime, bus capacity and  *)
(* bound.                                                                  *)
(***************************************************************************)
EXTENDS SoftKV, TLAPS

----------------------------------------------------------------------------
\* Types.

\* The entry Put builds is an Entry.
LEMMA NewEntryType ==
    ASSUME TypeOK, NEW n \in Node
    PROVE  NewEntry(n) \in Entry
BY NodeAssumption, BoundAssumption DEF TypeOK, NewEntry, Entry

\* Setting one cell of a table keeps the table's type.
LEMMA CellType ==
    ASSUME NEW S, NEW T, NEW f \in [S -> [S -> T]],
           NEW a \in S, NEW b \in S, NEW v \in T
    PROVE  [f EXCEPT ![a][b] = v] \in [S -> [S -> T]]
OBVIOUS

\* Later picks one of its arguments.
LEMMA LaterChoice ==
    ASSUME NEW h, NEW e
    PROVE  Later(h, e) = h \/ Later(h, e) = e
BY DEF Later

\* Every action of a node leaves every variable in its type.
LEMMA TypeStep == TypeOK /\ [Next]_vars => TypeOK'
<1> SUFFICES ASSUME TypeOK, [Next]_vars
             PROVE  TypeOK'
  OBVIOUS
<1> USE NodeAssumption, BoundAssumption
<1>1. CASE UNCHANGED vars
  BY <1>1 DEF TypeOK, vars
<1>2. CASE Next
  <2>0. PICK n \in Node :
          \/ Tick(n) \/ Put(n) \/ Publish(n) \/ StartGossip(n) \/ Broadcast(n)
          \/ Loopback(n) \/ LocalState(n)
          \/ \E m \in net : Deliver(n, m)
          \/ \E e \in checked[n] : ApplyMerge(n, e)
          \/ DeleteExpired(n) \/ Restart(n)
    BY <1>2 DEF Next
  <2>1. CASE Tick(n)
    <3>1. now[n] + 1 \in 0..MaxTime
      BY <2>1 DEF Tick, TypeOK
    <3>2. now' \in [Node -> 0..MaxTime]
      BY <2>1, <3>1 DEF Tick, TypeOK
    <3> QED
      BY <2>1, <3>2 DEF Tick, TypeOK
  <2>2. CASE Put(n)
    <3>1. NewEntry(n) \in Entry
      BY NewEntryType
    <3>2. high' \in [Node -> [Node -> Entry \cup {NoEntry}]]
      BY <2>2, <3>1, LaterChoice DEF Put, TypeOK
    <3>3. /\ data' \in [Node -> [Node -> Entry \cup {NoEntry}]]
          /\ pending' \in [Node -> Entry \cup {NoEntry}]
      BY <2>2, <3>1 DEF Put, TypeOK
    <3>4. seq' \in [Node -> [Node -> Nat]] /\ sample' \in [Node -> Nat]
      BY <2>2, SMTT(30) DEF Put, TypeOK
    <3> QED
      BY <2>2, <3>2, <3>3, <3>4 DEF Put, TypeOK
  <2>3. CASE Publish(n)
    <3>1. pending' \in [Node -> Entry \cup {NoEntry}]
      BY <2>3 DEF Publish, TypeOK
    <3>2. /\ bus[n] \in Seq(Entry) /\ pending[n] \in Entry
          /\ Append(bus[n], pending[n]) \in Seq(Entry)
          /\ Len(Append(bus[n], pending[n])) = Len(bus[n]) + 1
          /\ Len(bus[n]) \in Nat
      BY <2>3 DEF Publish, TypeOK
    <3>3. CASE Len(bus[n]) < BusCap
      <4>1. bus' = [bus EXCEPT ![n] = Append(bus[n], pending[n])]
        BY <2>3, <3>3 DEF Publish
      <4>2. bus' \in [Node -> Seq(Entry)]
        BY <4>1, <3>2 DEF TypeOK
      <4>3. \A p \in Node : Len(bus'[p]) <= BusCap
        BY <4>1, <3>2, <3>3 DEF TypeOK
      <4> QED
        BY <2>3, <3>1, <4>2, <4>3 DEF Publish, TypeOK
    <3>4. CASE ~(Len(bus[n]) < BusCap)
      <4>1. bus' = bus
        BY <2>3, <3>4 DEF Publish
      <4> QED
        BY <2>3, <3>1, <4>1 DEF Publish, TypeOK
    <3> QED
      BY <3>3, <3>4
  <2>4. CASE StartGossip(n)
    BY <2>4 DEF StartGossip, TypeOK, Mode
  <2>5. CASE Broadcast(n)
    <3>1. Head(bus[n]) \in Entry /\ Tail(bus[n]) \in Seq(Entry)
             /\ Len(Tail(bus[n])) <= BusCap
      BY <2>5 DEF Broadcast, TypeOK
    <3>2. net' \subseteq Message
      BY <2>5, <3>1 DEF Broadcast, TypeOK, Message
    <3> QED
      BY <2>5, <3>1, <3>2 DEF Broadcast, TypeOK
  <2>6. CASE Loopback(n)
    <3>1. Head(bus[n]) \in Entry /\ Tail(bus[n]) \in Seq(Entry)
             /\ Len(Tail(bus[n])) <= BusCap
      BY <2>6 DEF Loopback, TypeOK
    <3> QED
      BY <2>6, <3>1 DEF Loopback, TypeOK
  <2>7. CASE LocalState(n)
    <3>1. net' \subseteq Message
      BY <2>7 DEF LocalState, TypeOK, Message, Visible
    <3> QED
      BY <2>7, <3>1 DEF LocalState, TypeOK
  <2>8. CASE \E m \in net : Deliver(n, m)
    <3>1. PICK m \in net : Deliver(n, m)
      BY <2>8
    <3>2. m.entry \in Entry
      BY DEF TypeOK, Message
    <3>3. checked' \in [Node -> SUBSET Entry]
      BY <3>1, <3>2 DEF Deliver, TypeOK
    <3> QED
      BY <3>1, <3>3 DEF Deliver, TypeOK
  <2>9. ASSUME NEW e \in checked[n], ApplyMerge(n, e)
        PROVE  TypeOK'
    <3>1. e \in Entry /\ e.key \in Node /\ e.source \in Node /\ e.seq \in Nat
      BY DEF TypeOK, Entry
    <3>2. checked' \in [Node -> SUBSET Entry]
      BY <2>9 DEF ApplyMerge, TypeOK
    <3>3. CASE Accepts(n, e)
      <4>0. /\ data' = [data EXCEPT ![n][e.key] = e]
            /\ seq' = RaiseSeq(n, e)
            /\ high' = [high EXCEPT ![n][e.key] = Later(@, e)]
        BY <2>9, <3>3 DEF ApplyMerge
      <4>1. data' \in [Node -> [Node -> Entry \cup {NoEntry}]]
        BY <3>1, <4>0, CellType DEF TypeOK
      <4>2. seq' \in [Node -> [Node -> Nat]]
        <5> DEFINE v == IF e.seq > seq[n][e.source] THEN e.seq
                                                    ELSE seq[n][e.source]
        <5>0. seq \in [Node -> [Node -> Nat]]
          BY DEF TypeOK
        <5>1. v \in Nat
          BY <3>1, <5>0
        <5>2. seq' = [seq EXCEPT ![n][e.source] = v]
          BY <4>0 DEF RaiseSeq
        <5> HIDE DEF v
        <5> QED
          BY <3>1, <5>1, <5>2, CellType DEF TypeOK
      <4>3. high' \in [Node -> [Node -> Entry \cup {NoEntry}]]
        <5> DEFINE v == Later(high[n][e.key], e)
        <5>0. high \in [Node -> [Node -> Entry \cup {NoEntry}]]
          BY DEF TypeOK
        <5>1. v \in Entry \cup {NoEntry}
          BY <3>1, <5>0 DEF Later
        <5>2. high' = [high EXCEPT ![n][e.key] = v]
          BY <4>0
        <5> HIDE DEF v
        <5> QED
          BY <3>1, <5>1, <5>2, CellType DEF TypeOK
      <4> QED
        BY <2>9, <3>2, <4>1, <4>2, <4>3 DEF ApplyMerge, TypeOK
    <3>4. CASE ~Accepts(n, e)
      BY <2>9, <3>2, <3>4 DEF ApplyMerge, TypeOK
    <3> QED
      BY <3>3, <3>4
  <2>10. CASE DeleteExpired(n)
    <3>1. data' \in [Node -> [Node -> Entry \cup {NoEntry}]]
      BY <2>10 DEF DeleteExpired, TypeOK
    <3> QED
      BY <2>10, <3>1 DEF DeleteExpired, TypeOK
  <2>11. CASE Restart(n)
    <3>1. now' \in [Node -> 0..MaxTime]
      BY <2>11 DEF Restart, TypeOK
    <3>2. /\ data' \in [Node -> [Node -> Entry \cup {NoEntry}]]
          /\ seq' \in [Node -> [Node -> Nat]]
          /\ high' \in [Node -> [Node -> Entry \cup {NoEntry}]]
      BY <2>11 DEF Restart, TypeOK
    <3>3. /\ bus' \in [Node -> Seq(Entry)]
          /\ \A p \in Node : Len(bus'[p]) <= BusCap
      BY <2>11 DEF Restart, TypeOK
    <3>4. /\ pending' \in [Node -> Entry \cup {NoEntry}]
          /\ mode' \in [Node -> Mode]
          /\ checked' \in [Node -> SUBSET Entry]
          /\ restarts' \in [Node -> Nat]
      BY <2>11, SMTT(30) DEF Restart, TypeOK, Mode
    <3> QED
      BY <2>11, <3>1, <3>2, <3>3, <3>4 DEF Restart, TypeOK
  <2> QED
    BY <2>0, <2>1, <2>2, <2>3, <2>4, <2>5, <2>6, <2>7, <2>8, <2>9, <2>10, <2>11
<1> QED
  BY <1>1, <1>2

\* The store's variables keep their types, and the bus its capacity
\* (bus.go:32), however the writer, gossip and the collector interleave.
THEOREM TypeCorrect == Spec => []TypeOK
<1>1. Init => TypeOK
  BY NodeAssumption, BoundAssumption DEF Init, TypeOK, Mode
<1> QED
  BY <1>1, TypeStep, PTL DEF Spec

----------------------------------------------------------------------------
\* What the steps do, cell by cell.

\* The value of a table after one of its cells was set.
LEMMA CellValue ==
    ASSUME NEW S, NEW T, NEW f \in [S -> [S -> T]],
           NEW a \in S, NEW b \in S, NEW v, NEW p \in S, NEW k \in S
    PROVE  [f EXCEPT ![a][b] = v][p][k] =
              IF p = a /\ k = b THEN v ELSE f[p][k]
OBVIOUS

\* Dropping the head of a bus leaves the events that were behind it.
LEMMA TailEvents ==
    ASSUME NEW s \in Seq(Entry), s # <<>>
    PROVE  \A i \in DOMAIN Tail(s) :
              i + 1 \in DOMAIN s /\ Tail(s)[i] = s[i + 1]
OBVIOUS

\* Taking the head off a bus (Broadcast, Loopback) adds no event to any bus.
LEMMA ConsumedBus ==
    ASSUME TypeOK, NEW n \in Node, bus[n] # <<>>,
           bus' = [bus EXCEPT ![n] = Tail(@)]
    PROVE  \A p \in Node : \A i \in DOMAIN bus'[p] :
              \E j \in DOMAIN bus[p] : bus'[p][i] = bus[p][j]
<1> SUFFICES ASSUME NEW p \in Node, NEW i \in DOMAIN bus'[p]
             PROVE  \E j \in DOMAIN bus[p] : bus'[p][i] = bus[p][j]
  OBVIOUS
<1>1. bus[n] \in Seq(Entry) /\ bus \in [Node -> Seq(Entry)]
  BY DEF TypeOK
<1>2. CASE p = n
  <2>1. bus'[p] = Tail(bus[n])
    BY <1>1, <1>2
  <2> QED
    BY <1>1, <1>2, <2>1, TailEvents
<1>3. CASE p # n
  BY <1>1, <1>3
<1> QED
  BY <1>2, <1>3

\* Merge under the lock.
LEMMA MergeCells ==
    ASSUME TypeOK, NEW n \in Node, NEW e \in checked[n], ApplyMerge(n, e),
           NEW p \in Node, NEW k \in Node
    PROVE  /\ data'[p][k] = IF p = n /\ k = e.key /\ Accepts(n, e)
                            THEN e ELSE data[p][k]
           /\ high'[p][k] = IF p = n /\ k = e.key /\ Accepts(n, e)
                            THEN Later(high[p][k], e) ELSE high[p][k]
           /\ seq'[p][k] = IF p = n /\ k = e.source /\ Accepts(n, e)
                              /\ e.seq > seq[p][k]
                           THEN e.seq ELSE seq[p][k]
<1>0. e \in Entry
  BY DEF TypeOK
<1>1. e \in Entry /\ e.key \in Node /\ e.source \in Node
  BY <1>0 DEF Entry
<1>2. /\ data \in [Node -> [Node -> Entry \cup {NoEntry}]]
      /\ high \in [Node -> [Node -> Entry \cup {NoEntry}]]
      /\ seq \in [Node -> [Node -> Nat]]
  BY DEF TypeOK
<1>3. CASE Accepts(n, e)
  <2> DEFINE v == Later(high[n][e.key], e)
             w == IF e.seq > seq[n][e.source] THEN e.seq ELSE seq[n][e.source]
  <2>1. /\ data' = [data EXCEPT ![n][e.key] = e]
        /\ high' = [high EXCEPT ![n][e.key] = v]
        /\ seq' = [seq EXCEPT ![n][e.source] = w]
    BY <1>3 DEF ApplyMerge, RaiseSeq
  <2>2. data'[p][k] = IF p = n /\ k = e.key THEN e ELSE data[p][k]
    BY <1>1, <1>2, <2>1, CellValue
  <2>3. high'[p][k] = IF p = n /\ k = e.key THEN v ELSE high[p][k]
    <3> HIDE DEF v
    <3> QED BY <1>1, <1>2, <2>1, CellValue
  <2>4. seq'[p][k] = IF p = n /\ k = e.source THEN w ELSE seq[p][k]
    <3> HIDE DEF w
    <3> QED BY <1>1, <1>2, <2>1, CellValue
  <2> QED
    BY <1>3, <2>2, <2>3, <2>4
<1>4. CASE ~Accepts(n, e)
  <2>1. data' = data /\ high' = high /\ seq' = seq
    BY <1>4 DEF ApplyMerge
  <2> QED
    BY <1>4, <2>1
<1> QED
  BY <1>3, <1>4

----------------------------------------------------------------------------
\* Where entries come from.

\* Membership in Known, one place at a time.
LEMMA KnownPlaces ==
    ASSUME NEW e
    PROVE  e \in Known <=>
             /\ e # NoEntry
             /\ \/ \E n, k \in Node : e = data[n][k] \/ e = high[n][k]
                \/ \E n \in Node : \/ e = pending[n]
                                   \/ e \in checked[n]
                                   \/ \E i \in DOMAIN bus[n] : e = bus[n][i]
                \/ \E m \in net : e = m.entry
BY DEF Known, HeldBy

\* The same, in the next state.
LEMMA KnownPlacesPrime ==
    ASSUME NEW e
    PROVE  e \in Known' <=>
             /\ e # NoEntry
             /\ \/ \E n, k \in Node : e = data'[n][k] \/ e = high'[n][k]
                \/ \E n \in Node : \/ e = pending'[n]
                                   \/ e \in checked'[n]
                                   \/ \E i \in DOMAIN bus'[n] : e = bus'[n][i]
                \/ \E m \in net' : e = m.entry
BY DEF Known, HeldBy

\* Every entry that exists is an Entry.
LEMMA KnownType == TypeOK => Known \subseteq Entry
<1> SUFFICES ASSUME TypeOK, NEW e \in Known
             PROVE  e \in Entry
  OBVIOUS
<1> QED
  <2>1. \A n, k \in Node : /\ data[n][k] \in Entry \cup {NoEntry}
                            /\ high[n][k] \in Entry \cup {NoEntry}
    BY DEF TypeOK
  <2>2. \A n \in Node : /\ pending[n] \in Entry \cup {NoEntry}
                         /\ checked[n] \subseteq Entry
    BY DEF TypeOK
  <2>3. \A n \in Node : \A i \in DOMAIN bus[n] : bus[n][i] \in Entry
    BY DEF TypeOK
  <2>4. \A m \in net : m.entry \in Entry
    BY DEF TypeOK, Message
  <2> QED
    BY <2>1, <2>2, <2>3, <2>4, KnownPlaces

\* Only Put makes an entry; every other step moves or drops entries.
LEMMA KnownStep ==
    ASSUME TypeOK, NEW n \in Node, NEW e \in Known',
           \/ Tick(n) \/ Publish(n) \/ StartGossip(n) \/ Broadcast(n)
           \/ Loopback(n) \/ LocalState(n)
           \/ \E m \in net : Deliver(n, m)
           \/ \E f \in checked[n] : ApplyMerge(n, f)
           \/ DeleteExpired(n) \/ Restart(n)
    PROVE  e \in Known
<1>0. TypeOK'
  BY TypeStep DEF Next
<1>1. CASE Tick(n)
  BY <1>1, KnownPlaces, KnownPlacesPrime DEF Tick
<1>2. CASE Publish(n)
  <2>1. \A p \in Node : \A i \in DOMAIN bus'[p] :
            \/ i \in DOMAIN bus[p] /\ bus'[p][i] = bus[p][i]
            \/ bus'[p][i] = pending[p]
    BY <1>2 DEF Publish, TypeOK
  <2>2. \A p \in Node : pending'[p] = NoEntry \/ pending'[p] = pending[p]
    BY <1>2 DEF Publish, TypeOK
  <2> QED
    BY <1>2, <2>1, <2>2, KnownPlaces, KnownPlacesPrime DEF Publish
<1>3. CASE StartGossip(n)
  BY <1>3, KnownPlaces, KnownPlacesPrime DEF StartGossip
<1>4. CASE Broadcast(n)
  <2>1. \A p \in Node : \A i \in DOMAIN bus'[p] :
            \E j \in DOMAIN bus[p] : bus'[p][i] = bus[p][j]
    BY <1>4, ConsumedBus DEF Broadcast
  <2>2. \A m \in net' : m \in net \/ m.entry = bus[n][1]
    BY <1>4 DEF Broadcast, TypeOK
  <2>3. 1 \in DOMAIN bus[n]
    BY <1>4 DEF Broadcast, TypeOK
  <2> QED
    BY <1>4, <2>1, <2>2, <2>3, KnownPlaces, KnownPlacesPrime DEF Broadcast
<1>5. CASE Loopback(n)
  <2>1. \A p \in Node : \A i \in DOMAIN bus'[p] :
            \E j \in DOMAIN bus[p] : bus'[p][i] = bus[p][j]
    BY <1>5, ConsumedBus DEF Loopback
  <2>2. \A p \in Node : \A f \in checked'[p] :
            f \in checked[p] \/ (p = n /\ f = bus[n][1])
    BY <1>5 DEF Loopback, TypeOK
  <2>3. 1 \in DOMAIN bus[n]
    BY <1>5 DEF Loopback, TypeOK
  <2> QED
    BY <1>5, <2>1, <2>2, <2>3, KnownPlaces, KnownPlacesPrime DEF Loopback
<1>6. CASE LocalState(n)
  <2>1. \A m \in net' : m \in net \/ \E k \in Node : m.entry = data[n][k]
    BY <1>6 DEF LocalState
  <2> QED
    BY <1>6, <2>1, KnownPlaces, KnownPlacesPrime DEF LocalState
<1>7. ASSUME NEW m \in net, Deliver(n, m)
      PROVE  e \in Known
  <2>1. \A p \in Node : \A f \in checked'[p] :
            f \in checked[p] \/ f = m.entry
    BY <1>7 DEF Deliver, TypeOK
  <2> QED
    BY <1>7, <2>1, KnownPlaces, KnownPlacesPrime DEF Deliver
<1>8. ASSUME NEW f \in checked[n], ApplyMerge(n, f)
      PROVE  e \in Known
  <2>1. \A p \in Node : checked'[p] \subseteq checked[p]
    BY <1>8 DEF ApplyMerge, TypeOK
  <2>2. \A p, k \in Node : data'[p][k] = data[p][k] \/ data'[p][k] = f
    BY <1>8, MergeCells
  <2>3. \A p, k \in Node : high'[p][k] = high[p][k] \/ high'[p][k] = f
    BY <1>8, MergeCells DEF Later
  <2> QED
    BY <1>8, <2>1, <2>2, <2>3, KnownPlaces, KnownPlacesPrime DEF ApplyMerge
<1>9. CASE DeleteExpired(n)
  <2>1. \A p, k \in Node : data'[p][k] = data[p][k] \/ data'[p][k] = NoEntry
    BY <1>9 DEF DeleteExpired, TypeOK
  <2> QED
    BY <1>9, <2>1, KnownPlaces, KnownPlacesPrime DEF DeleteExpired
<1>10. CASE Restart(n)
  <2>1. \A p, k \in Node :
            /\ data'[p][k] = data[p][k] \/ data'[p][k] = NoEntry
            /\ high'[p][k] = high[p][k] \/ high'[p][k] = NoEntry
    BY <1>10 DEF Restart, TypeOK
  <2>2. \A p \in Node :
            /\ pending'[p] = pending[p] \/ pending'[p] = NoEntry
            /\ checked'[p] \subseteq checked[p]
    BY <1>10 DEF Restart, TypeOK
  <2>3. \A p \in Node : bus'[p] = bus[p] \/ bus'[p] = <<>>
    BY <1>10 DEF Restart, TypeOK
  <2> QED
    BY <1>10, <2>1, <2>2, <2>3, KnownPlaces, KnownPlacesPrime DEF Restart
<1> QED
  BY <1>1, <1>2, <1>3, <1>4, <1>5, <1>6, <1>7, <1>8, <1>9, <1>10

----------------------------------------------------------------------------
\* The inductive invariant.

\* The actions of one node.
NodeStep(n) ==
    \/ Tick(n) \/ Put(n) \/ Publish(n) \/ StartGossip(n) \/ Broadcast(n)
    \/ Loopback(n) \/ LocalState(n)
    \/ \E m \in net : Deliver(n, m)
    \/ \E e \in checked[n] : ApplyMerge(n, e)
    \/ DeleteExpired(n) \/ Restart(n)

\* Clocks and history counters only grow.
LEMMA ClocksGrow ==
    ASSUME TypeOK, NEW n \in Node, NodeStep(n), NEW k \in Node
    PROVE  /\ now[k] \in Nat /\ now'[k] \in Nat /\ now[k] <= now'[k]
           /\ sample[k] \in Nat /\ sample'[k] \in Nat
           /\ sample[k] <= sample'[k]
           /\ restarts'[k] = 0 => restarts[k] = 0
<1>1. /\ now \in [Node -> 0..MaxTime] /\ MaxTime \in Nat
      /\ sample \in [Node -> Nat] /\ restarts \in [Node -> Nat]
  BY BoundAssumption DEF TypeOK
<1>2. now' = now \/ now' = [now EXCEPT ![n] = @ + 1]
  BY DEF NodeStep, Tick, Put, Publish, StartGossip, Broadcast, Loopback,
         LocalState, Deliver, ApplyMerge, DeleteExpired, Restart
<1>3. sample' = sample \/ sample' = [sample EXCEPT ![n] = @ + 1]
  BY DEF NodeStep, Tick, Put, Publish, StartGossip, Broadcast, Loopback,
         LocalState, Deliver, ApplyMerge, DeleteExpired, Restart
<1>4. restarts' = restarts \/ restarts' = [restarts EXCEPT ![n] = @ + 1]
  BY DEF NodeStep, Tick, Put, Publish, StartGossip, Broadcast, Loopback,
         LocalState, Deliver, ApplyMerge, DeleteExpired, Restart
<1> QED
  BY <1>1, <1>2, <1>3, <1>4

\* An entry that exists stays well formed while clocks and counters grow.
LEMMA StaysWellFormed ==
    ASSUME TypeOK, NEW n \in Node, NodeStep(n), NEW e \in Known,
           WellFormed(e)
    PROVE  WellFormed(e)'
<1>1. e \in Entry
  BY KnownType
<1>2. e.key \in Node /\ e.updatedAt \in Nat /\ e.value \in Nat
  BY <1>1 DEF Entry
<1> QED
  BY <1>2, ClocksGrow DEF WellFormed

\* The entry Put makes is well formed, and later than all others of its key.
LEMMA FreshEntry ==
    ASSUME IInv, NEW n \in Node, Put(n), NEW f, f = NewEntry(n)
    PROVE  /\ WellFormed(f)'
           /\ \A e \in Known : e.key = n =>
                 e.value < f.value /\ e.updatedAt <= f.updatedAt
<1>1. /\ now' = now /\ restarts' = restarts
      /\ sample' = [sample EXCEPT ![n] = @ + 1]
  BY DEF Put
<1>2. /\ now[n] \in Nat /\ sample[n] \in Nat /\ sample'[n] = sample[n] + 1
      /\ TTL \in Nat
  BY <1>1, BoundAssumption DEF IInv, TypeOK
<1>3. /\ f.key = n /\ f.source = n /\ f.seq = seq[n][n] + 1
      /\ f.updatedAt = now[n] /\ f.expiresAt = now[n] + TTL
      /\ f.value = sample[n] + 1
  BY DEF NewEntry
<1>4. WellFormed(f)'
  BY <1>1, <1>2, <1>3 DEF WellFormed, IInv, CounterCounts
<1>5. ASSUME NEW e \in Known, e.key = n
      PROVE  e.value < f.value /\ e.updatedAt <= f.updatedAt
  <2>1. e.value \in Nat /\ e.updatedAt \in Nat
    BY KnownType DEF IInv, Entry
  <2>2. e.value <= sample[n] /\ e.updatedAt <= now[n]
    BY <1>5 DEF IInv, KnownWellFormed, WellFormed
  <2> QED
    BY <1>2, <1>3, <2>1, <2>2
<1> QED
  BY <1>4, <1>5

\* Put is the only step that adds an entry, and it adds the one it builds.
LEMMA KnownPut ==
    ASSUME TypeOK, NEW n \in Node, Put(n), NEW e \in Known'
    PROVE  e \in Known \/ e = NewEntry(n)
<1>1. \A p, k \in Node :
          /\ data'[p][k] = data[p][k] \/ data'[p][k] = NewEntry(n)
          /\ high'[p][k] = high[p][k] \/ high'[p][k] = NewEntry(n)
  BY DEF Put, TypeOK, Later
<1>2. \A p \in Node : pending'[p] = pending[p] \/ pending'[p] = NewEntry(n)
  BY DEF Put, TypeOK
<1> QED
  BY <1>1, <1>2, KnownPlaces, KnownPlacesPrime DEF Put

\* Well-formedness and order, the two facts about all entries.
LEMMA KnownInductive ==
    ASSUME IInv, NEW n \in Node, NodeStep(n)
    PROVE  KnownWellFormed' /\ KnownOrdered'
<1>0. TypeOK
  BY DEF IInv
<1>1. CASE Put(n)
  <2>1. PICK f : f = NewEntry(n)
    OBVIOUS
  <2>2. f.key = n
    BY <2>1 DEF NewEntry
  <2>3. \A e \in Known' : e \in Known \/ e = f
    BY <1>0, <1>1, <2>1, KnownPut
  <2>4. /\ WellFormed(f)'
        /\ \A e \in Known : e.key = n =>
              e.value < f.value /\ e.updatedAt <= f.updatedAt
    BY <1>1, <2>1, FreshEntry
  <2>5. \A e \in Known : WellFormed(e)'
    BY <1>0, StaysWellFormed DEF IInv, KnownWellFormed
  <2>6. KnownWellFormed'
    BY <2>3, <2>4, <2>5 DEF KnownWellFormed
  <2>7. \A e \in Known : e.value \in Nat /\ e.updatedAt \in Nat
    BY <1>0, KnownType DEF Entry
  <2>8. f.value \in Nat /\ f.updatedAt \in Nat
    BY <1>0, <2>1, NewEntryType DEF Entry
  <2>9. KnownOrdered'
    BY <2>2, <2>3, <2>4, <2>7, <2>8 DEF IInv, KnownOrdered
  <2> QED
    BY <2>6, <2>9
<1>2. CASE ~Put(n)
  <2>1. \A e \in Known' : e \in Known
    BY <1>0, <1>2, KnownStep DEF NodeStep
  <2>2. \A e \in Known : WellFormed(e)'
    BY <1>0, StaysWellFormed DEF IInv, KnownWellFormed
  <2> QED
    BY <2>1, <2>2 DEF IInv, KnownWellFormed, KnownOrdered
<1> QED
  BY <1>1, <1>2

\* What a step may do to one cell of the stores, and to the counters.
LEMMA CellStep ==
    ASSUME TypeOK, NEW n \in Node, NodeStep(n), NEW p \in Node, NEW k \in Node
    PROVE  \/ /\ data'[p][k] = data[p][k] /\ high'[p][k] = high[p][k]
              /\ seq'[p] = seq[p]
           \/ /\ Put(n) /\ p = n
              /\ data'[p][k] = IF k = n THEN NewEntry(n) ELSE data[p][k]
              /\ high'[p][k] = IF k = n THEN Later(high[p][k], NewEntry(n))
                                        ELSE high[p][k]
              /\ \A s \in Node :
                    seq'[p][s] = IF s = n THEN seq[p][s] + 1 ELSE seq[p][s]
           \/ /\ p = n
              /\ \E e \in checked[n] :
                    /\ ApplyMerge(n, e) /\ Accepts(n, e)
                    /\ data'[p][k] = IF k = e.key THEN e ELSE data[p][k]
                    /\ high'[p][k] = IF k = e.key THEN Later(high[p][k], e)
                                                  ELSE high[p][k]
                    /\ \A s \in Node :
                          seq'[p][s] = IF s = e.source /\ e.seq > seq[p][s]
                                       THEN e.seq ELSE seq[p][s]
           \/ /\ p = n /\ now'[p] = now[p]
              /\ data[p][k] # NoEntry => Expired(n, data[p][k])
              /\ data'[p][k] = NoEntry /\ high'[p][k] = high[p][k]
              /\ seq'[p] = seq[p]
           \/ /\ p = n /\ data'[p][k] = NoEntry /\ high'[p][k] = NoEntry
              /\ restarts'[p] = restarts[p] + 1
<1>0. /\ data \in [Node -> [Node -> Entry \cup {NoEntry}]]
      /\ high \in [Node -> [Node -> Entry \cup {NoEntry}]]
      /\ seq \in [Node -> [Node -> Nat]]
      /\ restarts \in [Node -> Nat]
  BY DEF TypeOK
<1>1. CASE UNCHANGED <<data, high, seq>>
  BY <1>1
<1>2. CASE Put(n)
  BY <1>0, <1>2 DEF Put
<1>3. ASSUME NEW e \in checked[n], ApplyMerge(n, e)
      PROVE  \/ /\ data'[p][k] = data[p][k] /\ high'[p][k] = high[p][k]
                /\ seq'[p] = seq[p]
             \/ /\ p = n /\ Accepts(n, e)
                /\ data'[p][k] = IF k = e.key THEN e ELSE data[p][k]
                /\ high'[p][k] = IF k = e.key THEN Later(high[p][k], e)
                                              ELSE high[p][k]
                /\ \A s \in Node :
                      seq'[p][s] = IF s = e.source /\ e.seq > seq[p][s]
                                   THEN e.seq ELSE seq[p][s]
  <2>1. CASE ~Accepts(n, e)
    BY <1>3, <2>1 DEF ApplyMerge
  <2>2. CASE p # n
    BY <1>0, <1>3, <2>2 DEF ApplyMerge, RaiseSeq
  <2>3. CASE p = n /\ Accepts(n, e)
    <3>1. /\ data'[p][k] = IF k = e.key THEN e ELSE data[p][k]
          /\ high'[p][k] = IF k = e.key THEN Later(high[p][k], e)
                                        ELSE high[p][k]
      BY <1>3, <2>3, MergeCells
    <3>2. \A s \in Node : seq'[p][s] = IF s = e.source /\ e.seq > seq[p][s]
                                        THEN e.seq ELSE seq[p][s]
      BY <1>3, <2>3, MergeCells
    <3> QED
      BY <2>3, <3>1, <3>2
  <2> QED
    BY <2>1, <2>2, <2>3
<1>4. CASE DeleteExpired(n)
  <2>1. CASE p = n /\ ~Visible(n, k)
    BY <1>0, <1>4, <2>1 DEF DeleteExpired, Visible
  <2>2. CASE p # n \/ Visible(n, k)
    BY <1>0, <1>4, <2>2 DEF DeleteExpired
  <2> QED
    BY <2>1, <2>2
<1>5. CASE Restart(n)
  BY <1>0, <1>5 DEF Restart
<1>6. \/ UNCHANGED <<data, high, seq>>
      \/ Put(n) \/ (\E e \in checked[n] : ApplyMerge(n, e))
      \/ DeleteExpired(n) \/ Restart(n)
  BY DEF NodeStep, Tick, Publish, StartGossip, Broadcast, Loopback,
         LocalState, Deliver
<1>7. CASE \E e \in checked[n] : ApplyMerge(n, e)
  BY <1>3, <1>7
<1> QED
  BY <1>1, <1>2, <1>4, <1>5, <1>6, <1>7

\* The entries a store holds, or has held, are known.
LEMMA CellKnown ==
    ASSUME NEW n \in Node, NEW k \in Node
    PROVE  /\ data[n][k] # NoEntry => data[n][k] \in Known
           /\ high[n][k] # NoEntry => high[n][k] \in Known
           /\ \A e \in checked[n] : e # NoEntry => e \in Known
BY KnownPlaces

\* What Merge has checked is a well-formed entry.
LEMMA CheckedWellFormed ==
    ASSUME IInv, NEW n \in Node, NEW e \in checked[n]
    PROVE  e \in Entry /\ e # NoEntry /\ e \in Known /\ WellFormed(e)
<1>1. e \in Entry
  BY DEF IInv, TypeOK
<1>2. e # NoEntry
  BY <1>1, NoEntryAssumption
<1>3. e \in Known
  BY <1>2, CellKnown
<1> QED
  BY <1>1, <1>2, <1>3 DEF IInv, KnownWellFormed

\* CounterCounts: a node's own counter is the number of its samples until it restarts.
LEMMA CounterInductive ==
    ASSUME IInv, NEW n \in Node, NodeStep(n)
    PROVE  CounterCounts'
<1> SUFFICES ASSUME NEW p \in Node, restarts'[p] = 0
             PROVE  seq'[p][p] = sample'[p]
  BY DEF CounterCounts
<1>0. /\ seq \in [Node -> [Node -> Nat]] /\ sample \in [Node -> Nat]
      /\ restarts \in [Node -> Nat]
  BY DEF IInv, TypeOK
<1>1. restarts[p] = 0 /\ seq[p][p] = sample[p]
  BY ClocksGrow DEF IInv, CounterCounts
<1>2. CASE UNCHANGED <<seq, sample>>
  BY <1>1, <1>2
<1>3. CASE Put(n)
  BY <1>0, <1>1, <1>3 DEF Put
<1>4. ASSUME NEW e \in checked[n], ApplyMerge(n, e)
      PROVE  seq'[p][p] = sample'[p]
  <2>1. e \in Entry /\ WellFormed(e)
    BY CheckedWellFormed
  <2>2. e.source = p => e.seq <= seq[p][p]
    BY <1>1, <2>1 DEF WellFormed, Entry
  <2>3. seq'[p][p] = IF p = n /\ p = e.source /\ Accepts(n, e)
                          /\ e.seq > seq[p][p]
                       THEN e.seq ELSE seq[p][p]
    BY <1>4, MergeCells DEF IInv
  <2>4. e.seq \in Nat /\ seq[p][p] \in Nat /\ sample' = sample
    BY <1>0, <1>4, <2>1 DEF Entry, ApplyMerge
  <2> QED
    BY <1>1, <2>2, <2>3, <2>4
<1>5. CASE Restart(n)
  BY <1>0, <1>1, <1>5 DEF Restart
<1>6. \/ UNCHANGED <<seq, sample>> \/ Put(n) \/ Restart(n)
      \/ \E e \in checked[n] : ApplyMerge(n, e)
  BY DEF NodeStep, Tick, Publish, StartGossip, Broadcast, Loopback,
         LocalState, Deliver, DeleteExpired
<1> QED
  BY <1>2, <1>3, <1>4, <1>5, <1>6

\* Filed and SeqCoversData: entries lie under their key, and counters cover them.
LEMMA FiledInductive ==
    ASSUME IInv, NEW n \in Node, NodeStep(n)
    PROVE  Filed' /\ SeqCoversData'
<1> SUFFICES ASSUME NEW p \in Node, NEW k \in Node
             PROVE  /\ data'[p][k] # NoEntry => data'[p][k].key = k
                    /\ high'[p][k] # NoEntry => high'[p][k].key = k
                    /\ data'[p][k] # NoEntry =>
                         data'[p][k].seq <= seq'[p][data'[p][k].source]
  BY DEF Filed, SeqCoversData
<1>0. TypeOK /\ seq \in [Node -> [Node -> Nat]]
  BY DEF IInv, TypeOK
<1>1. /\ data[p][k] # NoEntry => data[p][k].key = k
      /\ high[p][k] # NoEntry => high[p][k].key = k
      /\ data[p][k] # NoEntry => data[p][k].seq <= seq[p][data[p][k].source]
  BY DEF IInv, Filed, SeqCoversData
<1>2. data[p][k] # NoEntry => data[p][k].seq \in Nat /\ data[p][k].source \in Node
  <2>1. data[p][k] \in Entry \cup {NoEntry}
    BY <1>0 DEF TypeOK
  <2> QED
    BY <2>1 DEF Entry
<1>3. NewEntry(n).key = n /\ NewEntry(n).source = n
         /\ NewEntry(n).seq = seq[n][n] + 1
  BY DEF NewEntry
<1>4. \A e \in checked[n] : /\ e.key \in Node /\ e.source = e.key
                             /\ e.seq \in Nat
  BY CheckedWellFormed DEF WellFormed, Entry
<1>5. CASE /\ data'[p][k] = data[p][k] /\ high'[p][k] = high[p][k]
           /\ seq'[p] = seq[p]
  BY <1>1, <1>5
<1>6. CASE /\ Put(n) /\ p = n
           /\ data'[p][k] = IF k = n THEN NewEntry(n) ELSE data[p][k]
           /\ high'[p][k] = IF k = n THEN Later(high[p][k], NewEntry(n))
                                     ELSE high[p][k]
           /\ \A s \in Node :
                 seq'[p][s] = IF s = n THEN seq[p][s] + 1 ELSE seq[p][s]
  <2>1. high'[p][k] # NoEntry => high'[p][k].key = k
    BY <1>1, <1>3, <1>6 DEF Later
  <2>2. CASE k = n
    BY <1>0, <1>3, <1>6, <2>1, <2>2
  <2>3. CASE k # n
    BY <1>0, <1>1, <1>2, <1>6, <2>1, <2>3
  <2> QED
    BY <2>2, <2>3
<1>7. ASSUME NEW e \in checked[n], p = n,
             data'[p][k] = IF k = e.key THEN e ELSE data[p][k],
             high'[p][k] = IF k = e.key THEN Later(high[p][k], e)
                                        ELSE high[p][k],
             \A s \in Node : seq'[p][s] = IF s = e.source /\ e.seq > seq[p][s]
                                          THEN e.seq ELSE seq[p][s]
      PROVE  /\ data'[p][k] # NoEntry => data'[p][k].key = k
             /\ high'[p][k] # NoEntry => high'[p][k].key = k
             /\ data'[p][k] # NoEntry =>
                  data'[p][k].seq <= seq'[p][data'[p][k].source]
  <2>1. high'[p][k] # NoEntry => high'[p][k].key = k
    BY <1>1, <1>7 DEF Later
  <2>2. CASE k = e.key
    BY <1>0, <1>4, <1>7, <2>1, <2>2
  <2>3. CASE k # e.key
    <3>1. data[p][k] # NoEntry =>
             seq[p][data[p][k].source] <= seq'[p][data[p][k].source]
      BY <1>0, <1>2, <1>4, <1>7
    <3> QED
      BY <1>0, <1>1, <1>2, <1>4, <1>7, <2>1, <2>3, <3>1
  <2> QED
    BY <2>2, <2>3
<1>8. CASE data'[p][k] = NoEntry
             /\ (high'[p][k] = high[p][k] \/ high'[p][k] = NoEntry)
  BY <1>1, <1>8
<1> QED
  BY <1>0, <1>5, <1>6, <1>7, <1>8, CellStep

\* Of two samples of a key, the later one expires no sooner.
LEMMA LaterExpiresLater ==
    ASSUME IInv, NEW e \in Known, NEW f \in Known,
           e.key = f.key, e.value <= f.value
    PROVE  /\ e.expiresAt \in Nat /\ f.expiresAt \in Nat
           /\ e.expiresAt <= f.expiresAt
<1>1. /\ e.expiresAt = e.updatedAt + TTL
      /\ f.expiresAt = f.updatedAt + TTL
      /\ e.updatedAt <= f.updatedAt
  BY DEF IInv, KnownWellFormed, WellFormed, KnownOrdered
<1>2. /\ e.updatedAt \in Nat /\ f.updatedAt \in Nat /\ TTL \in Nat
      /\ e.expiresAt \in Nat /\ f.expiresAt \in Nat
  BY KnownType, BoundAssumption DEF IInv, Entry
<1> QED
  BY <1>1, <1>2

\* Until its owner restarts, Merge takes only later samples of a key.
LEMMA AcceptsLater ==
    ASSUME IInv, NEW n \in Node, NEW e \in checked[n], Accepts(n, e),
           restarts[e.key] = 0, data[n][e.key] # NoEntry
    PROVE  data[n][e.key].value <= e.value
<1>0. e \in Entry /\ WellFormed(e)
  BY CheckedWellFormed
<1>1. e.key \in Node /\ e.seq \in Nat /\ e.value \in Nat
  BY <1>0 DEF Entry
<1> DEFINE d == data[n][e.key]
<1>2. d \in Known /\ d.key = e.key
  BY <1>1, CellKnown DEF IInv, Filed
<1>3. d \in Entry /\ WellFormed(d)
  BY <1>2, KnownType DEF IInv, KnownWellFormed
<1>4. d.seq \in Nat /\ d.value \in Nat
  BY <1>3 DEF Entry
<1>5. d.seq = d.value /\ e.seq = e.value /\ d.source = e.source
  BY <1>0, <1>2, <1>3 DEF WellFormed
<1>6. shouldAccept(d, e)
  BY DEF Accepts
<1> QED
  BY <1>1, <1>4, <1>5, <1>6 DEF shouldAccept

\* HighHeld: a store holds the latest sample it has stored, or that one has expired.
LEMMA HighInductive ==
    ASSUME IInv, NEW n \in Node, NodeStep(n)
    PROVE  HighHeld'
<1> SUFFICES ASSUME NEW p \in Node, NEW k \in Node,
                    restarts'[k] = 0, high'[p][k] # NoEntry
             PROVE  \/ high'[p][k].expiresAt <= now'[p]
                    \/ /\ data'[p][k] # NoEntry
                       /\ data'[p][k].value >= high'[p][k].value
  BY DEF HighHeld, Expired
<1> DEFINE h == high[p][k]
           d == data[p][k]
<1>0. TypeOK /\ restarts[k] = 0 /\ now[p] \in Nat /\ now'[p] \in Nat
         /\ now[p] <= now'[p]
  BY ClocksGrow DEF IInv
<1>1. h # NoEntry => \/ h.expiresAt <= now[p]
                     \/ d # NoEntry /\ d.value >= h.value
  BY <1>0 DEF IInv, HighHeld, Expired
<1>2. h # NoEntry => /\ h \in Known /\ h.key = k
                     /\ h.expiresAt \in Nat /\ h.value \in Nat
  BY CellKnown, KnownType DEF IInv, Filed, Entry
<1>3. d # NoEntry => d \in Known /\ d.key = k /\ d.value \in Nat
  BY CellKnown, KnownType DEF IInv, Filed, Entry
<1>4. h # NoEntry /\ h.expiresAt <= now[p] => h.expiresAt <= now'[p]
  BY <1>0, <1>2
<1>5. CASE data'[p][k] = d /\ high'[p][k] = h
  BY <1>1, <1>4, <1>5
<1>6. CASE /\ Put(n) /\ p = n /\ k = n /\ data'[p][k] = NewEntry(n)
           /\ high'[p][k] = Later(h, NewEntry(n))
  <2>1. PICK f : f = NewEntry(n)
    OBVIOUS
  <2>2. f \in Entry /\ f.value \in Nat /\ f # NoEntry
    BY <1>0, <2>1, NewEntryType, NoEntryAssumption DEF Entry
  <2>3. h # NoEntry => h.value < f.value
    BY <1>2, <1>6, <2>1, FreshEntry
  <2>4. high'[p][k] = f
    BY <1>2, <1>6, <2>1, <2>2, <2>3 DEF Later
  <2> QED
    BY <1>6, <2>1, <2>2, <2>4
<1>7. ASSUME NEW e \in checked[n], Accepts(n, e), p = n, k = e.key,
             data'[p][k] = e, high'[p][k] = Later(h, e)
      PROVE  \/ high'[p][k].expiresAt <= now'[p]
             \/ /\ data'[p][k] # NoEntry
                /\ data'[p][k].value >= high'[p][k].value
  <2>1. e \in Entry /\ e # NoEntry /\ e.value \in Nat
    BY CheckedWellFormed DEF Entry
  <2>2. d # NoEntry => d.value <= e.value
    BY <1>0, <1>7, AcceptsLater
  <2>3. CASE high'[p][k] = e
    BY <1>7, <2>1, <2>3
  <2>4. CASE high'[p][k] = h
    BY <1>1, <1>2, <1>3, <1>4, <1>7, <2>1, <2>2, <2>4
  <2> QED
    BY <1>7, <2>3, <2>4 DEF Later
<1>8. CASE /\ p = n /\ now'[p] = now[p]
           /\ d # NoEntry => Expired(n, d)
           /\ data'[p][k] = NoEntry /\ high'[p][k] = h
  <2>1. d # NoEntry /\ d.value >= h.value =>
            h.expiresAt <= d.expiresAt /\ d.expiresAt \in Nat
    BY <1>2, <1>3, <1>8, LaterExpiresLater
  <2>2. d # NoEntry => d.expiresAt <= now[p]
    BY <1>8 DEF Expired
  <2> QED
    BY <1>0, <1>1, <1>2, <1>8, <2>1, <2>2
<1> QED
  BY <1>0, <1>5, <1>6, <1>7, <1>8, CellStep

\* The invariant is inductive.
LEMMA Inductive == IInv /\ [Next]_vars => IInv'
<1>1. ASSUME IInv, Next
      PROVE  IInv'
  <2>1. PICK n \in Node : NodeStep(n)
    BY <1>1 DEF Next, NodeStep
  <2>2. TypeOK'
    BY <1>1, TypeStep DEF IInv
  <2> QED
    BY <1>1, <2>1, <2>2, KnownInductive, CounterInductive, FiledInductive,
       HighInductive DEF IInv
<1>2. ASSUME IInv, UNCHANGED vars
      PROVE  IInv'
  <2>1. TypeOK'
    BY <1>2, TypeStep DEF IInv
  <2>2. Known' = Known
    BY <1>2 DEF vars, Known, HeldBy
  <2>3. KnownWellFormed' /\ KnownOrdered'
    BY <1>2, <2>2 DEF IInv, vars, KnownWellFormed, WellFormed, KnownOrdered
  <2>4. CounterCounts' /\ Filed' /\ SeqCoversData' /\ HighHeld'
    BY <1>2 DEF IInv, vars, CounterCounts, Filed, SeqCoversData, HighHeld,
       Expired
  <2> QED
    BY <2>1, <2>3, <2>4 DEF IInv
<1> QED
  BY <1>1, <1>2

\* The invariant holds of empty stores.
LEMMA Initially == Init => IInv
<1> SUFFICES ASSUME Init
             PROVE  IInv
  OBVIOUS
<1>1. TypeOK
  BY NodeAssumption, BoundAssumption DEF Init, TypeOK, Mode
<1>2. \A e : e \notin Known
  BY KnownPlaces DEF Init
<1> QED
  BY <1>1, <1>2 DEF Init, IInv, KnownWellFormed, KnownOrdered, CounterCounts,
     Filed, SeqCoversData, HighHeld

\* The inductive invariant of the store.
LEMMA Invariant == Spec => []IInv
BY Initially, Inductive, PTL DEF Spec

\* Readers never see a sample older than one the running node has already
\* stored, as long as the sample's owner has not restarted: Merge's order
\* (store.go:229) together with hiding expired entries (store.go:118) is
\* enough against lost, repeated, late and overtaking messages.
THEOREM MonotonicReadsTheorem == Spec => []MonotonicReads
<1>1. IInv => MonotonicReads
  <2> SUFFICES ASSUME IInv, NEW n \in Node, NEW k \in Node,
                      restarts[k] = 0, Visible(n, k), high[n][k] # NoEntry
               PROVE  data[n][k].value >= high[n][k].value
    BY DEF MonotonicReads
  <2> DEFINE h == high[n][k]
             d == data[n][k]
  <2>1. h \in Known /\ h.key = k /\ h.value \in Nat
    BY CellKnown, KnownType DEF IInv, Filed, Entry
  <2>2. d \in Known /\ d.key = k /\ d.value \in Nat
    BY CellKnown, KnownType DEF IInv, Filed, Entry, Visible
  <2>3. now[n] \in Nat
    BY BoundAssumption DEF IInv, TypeOK
  <2>4. ~(d.expiresAt <= now[n])
    BY DEF Visible, Expired
  <2>5. d.value <= h.value => /\ d.expiresAt \in Nat /\ h.expiresAt \in Nat
                              /\ d.expiresAt <= h.expiresAt
    BY <2>1, <2>2, LaterExpiresLater
  <2>6. h.expiresAt <= now[n] \/ d.value >= h.value
    BY DEF IInv, HighHeld, Expired
  <2> QED
    BY <2>1, <2>2, <2>3, <2>4, <2>5, <2>6
<1> QED
  BY <1>1, Invariant, PTL

\* What a process holds for a key only moves up the merge order or goes once
\* expired; in particular Put (store.go:73), which overwrites without
\* comparing, never loses to what it overwrote, also after a restart.
THEOREM StoreMovesUpTheorem == Spec => StoreMovesUp
<1> DEFINE Up(n, k) ==
        data[n][k] # NoEntry /\ data'[n][k] # data[n][k]
           /\ restarts'[n] = restarts[n]
        => IF data'[n][k] = NoEntry
           THEN Expired(n, data[n][k])
           ELSE shouldAccept(data[n][k], data'[n][k])
<1>1. ASSUME IInv, [Next]_vars
      PROVE  [\A n, k \in Node : Up(n, k)]_vars
  <2> SUFFICES ASSUME Next, NEW p \in Node, NEW k \in Node,
                      data[p][k] # NoEntry, data'[p][k] # data[p][k],
                      restarts'[p] = restarts[p]
               PROVE  IF data'[p][k] = NoEntry
                      THEN Expired(p, data[p][k])
                      ELSE shouldAccept(data[p][k], data'[p][k])
    BY <1>1 DEF Up
  <2>1. PICK n \in Node : NodeStep(n)
    BY DEF Next, NodeStep
  <2>2. TypeOK /\ restarts[p] \in Nat /\ seq[p][k] \in Nat
    BY <1>1 DEF IInv, TypeOK
  <2>3. CASE Put(n) /\ p = n /\ data'[p][k] = IF k = n THEN NewEntry(n)
                                                     ELSE data[p][k]
    <3>1. k = n /\ data'[n][n] = NewEntry(n)
      BY <2>3
    <3>2. data[n][n] \in Known /\ data[n][n].key = n
      BY <1>1, <2>3, <3>1, CellKnown DEF IInv, Filed
    <3>3. data[n][n].source = n /\ data[n][n].seq \in Nat
             /\ data[n][n].seq <= seq[n][n]
      BY <1>1, <2>3, <3>1, <3>2, KnownType
      DEF IInv, KnownWellFormed, WellFormed, SeqCoversData, Entry
    <3>4. NewEntry(n).source = n /\ NewEntry(n).seq = seq[n][n] + 1
             /\ NewEntry(n) \in Entry
      BY <2>2, NewEntryType DEF NewEntry
    <3>5. NewEntry(n) # NoEntry
      BY <3>4, NoEntryAssumption
    <3>6. shouldAccept(data[n][n], NewEntry(n))
      BY <2>2, <2>3, <3>1, <3>3, <3>4 DEF shouldAccept
    <3> QED
      BY <2>3, <3>1, <3>5, <3>6
  <2>4. ASSUME NEW e \in checked[n], Accepts(n, e), p = n,
               data'[p][k] = IF k = e.key THEN e ELSE data[p][k]
        PROVE  data'[p][k] # NoEntry /\ shouldAccept(data[p][k], data'[p][k])
    <3>1. e # NoEntry /\ k = e.key /\ data'[p][k] = e
      BY <1>1, <2>4, CheckedWellFormed
    <3> QED
      BY <2>4, <3>1 DEF Accepts
  <2> QED
    BY <2>1, <2>2, <2>3, <2>4, CellStep
<1>2. IInv /\ [Next]_vars => [\A n, k \in Node : Up(n, k)]_vars
  BY <1>1
<1> QED
  BY <1>2, Invariant, PTL DEF Spec, StoreMovesUp, Up

=============================================================================
