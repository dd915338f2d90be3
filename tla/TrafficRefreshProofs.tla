------------------------ MODULE TrafficRefreshProofs ------------------------
(***************************************************************************)
(* Proofs about TrafficRefresh, for any services, listeners, backend       *)
(* groups and configurations, any number of writes and any sockets that    *)
(* other processes hold: the types, that the listener maps are those of    *)
(* the plan in force, and that a watch never resumes past a change that    *)
(* nobody has listed.                                                      *)
(***************************************************************************)
EXTENDS TrafficRefresh, CountingTheorems, TLAPS

----------------------------------------------------------------------------
(***************************************************************************)
(* Revisions.  Every revision on a stored configuration is one that etcd   *)
(* has given out, and every revision in a list is one that etcd had given  *)
(* out when the list was made.  So the revision a watch would resume from  *)
(* is at most the next one.                                                *)
(***************************************************************************)
Bounded(its, r) == \A s \in Service : its[s] # None => its[s].rev <= r

RevInv ==
    /\ Bounded(services, rev)
    /\ \A t \in Thread : Bounded(items[t], listRev[t]) /\ listRev[t] <= rev
    /\ watchRev <= rev + 1

\* Where a watch would go on after a list.
LEMMA NextRevision ==
    ASSUME NEW its \in Items, NEW r \in Nat, Bounded(its, r)
    PROVE  /\ nextServiceWatchRevision(its) \in Nat
           /\ nextServiceWatchRevision(its) <= r + 1
  <1> DEFINE S == {its[s].rev : s \in Stored(its)}
  <1>1. CASE Stored(its) = {}
    BY <1>1 DEF nextServiceWatchRevision
  <1>2. CASE Stored(its) # {}
    <2>1. S \in SUBSET (0..r) /\ S # {}
      BY <1>2 DEF Stored, Items, Bounded
    <2>2. Max(S) \in 0..r
      BY <2>1, MaxOf
    <2>3. nextServiceWatchRevision(its) = Max(S) + 1
      BY <1>2 DEF nextServiceWatchRevision
    <2> HIDE DEF S
    <2> QED
      BY <2>2, <2>3
  <1> QED
    BY <1>1, <1>2

\* What Acknowledge makes of the two revisions.
LEMMA AcknowledgeRev ==
    ASSUME TypeOK, RevInv, NEW t \in Thread, Acknowledge(t)
    PROVE  /\ watchRev' \in Nat /\ seen' \in 0..MaxRev
           /\ watchRev' <= rev + 1
           /\ ResumeCoversUnseen => ResumeCoversUnseen'
  <1> DEFINE next == nextServiceWatchRevision(items[t])
  <1>1. /\ items[t] \in Items /\ listRev[t] \in 0..MaxRev /\ listRev[t] \in Nat
        /\ seen \in Nat /\ watchRev \in Nat /\ rev \in Nat
    BY MaxRevAssumption DEF TypeOK
  <1>2. next \in Nat /\ next <= listRev[t] + 1
    BY <1>1, NextRevision DEF RevInv
  <1>3. watchRev' \in {next, watchRev}
    BY DEF Acknowledge, Raise
  <1>4. /\ seen' \in {seen, listRev[t]}
        /\ seen <= seen' /\ listRev[t] <= seen'
    BY <1>1, MaxOfTwo DEF Acknowledge
  <1> HIDE DEF next
  <1>5. seen' \in 0..MaxRev
    BY <1>1, <1>4 DEF TypeOK
  <1>6. ASSUME watchRev <= seen + 1
        PROVE  watchRev' <= seen' + 1
    <2>1. seen' \in Nat
      BY <1>1, <1>4
    <2>2. CASE watchRev' = next
      <3>1. \A i, j, k \in Nat : i <= j + 1 /\ j <= k => i <= k + 1
        OBVIOUS
      <3> QED
        BY <1>1, <1>2, <1>4, <2>1, <2>2, <3>1
    <2>3. CASE watchRev' = watchRev
      BY <1>1, <1>4, <1>6, <2>1, <2>3
    <2> QED
      BY <1>3, <2>2, <2>3
  <1>7. watchRev' <= rev + 1
    <2>1. listRev[t] <= rev /\ watchRev <= rev + 1
      BY DEF RevInv
    <2> QED
      BY <1>1, <1>2, <1>3, <2>1
  <1> QED
    BY <1>1, <1>2, <1>3, <1>5, <1>6, <1>7 DEF ResumeCoversUnseen

----------------------------------------------------------------------------
\* The types, together with RevInv, on which those of cursor and watchRev rest.

BaseInv == TypeOK /\ RevInv

\* What services and sockets look like.
Leaving == [starting : Nat, bound : BOOLEAN]

LEMMA RemovedType ==
    ASSUME TypeOK, NEW p \in Port
    PROVE  Removed(p) \in Leaving
  <1>1. leaving[p] \in Leaving
    BY DEF TypeOK, Leaving
  <1>2. [leaving[p] EXCEPT !.starting = @ + 1] \in Leaving
    BY <1>1 DEF Leaving
  <1>3. [leaving[p] EXCEPT !.bound = TRUE] \in Leaving
    BY <1>1 DEF Leaving
  <1>4. CASE http[p] = "starting"
    BY <1>2, <1>4 DEF Removed
  <1>5. CASE http[p] = "bound"
    BY <1>3, <1>5 DEF Removed
  <1>6. CASE http[p] \notin {"starting", "bound"}
    BY <1>1, <1>6 DEF Removed
  <1> QED
    BY <1>4, <1>5, <1>6

\* Only listeners of services are opened.
LEMMA PortsType ==
    ASSUME NEW its \in Items, NEW layer
    PROVE  PortsOf(its, layer) \subseteq Port
  BY ConfigAssumption DEF PortsOf, Stored, Items

\* The writes of the management API.
LEMMA StoreStep ==
    ASSUME BaseInv, NEW s \in Service,
           Store!Delete(s) \/ \E c \in Config : Store!Put(s, c)
    PROVE  /\ services' \in Items /\ rev' \in 0..MaxRev /\ Bounded(services', rev')
           /\ rev' = rev + 1
  <1>1. rev \in Nat /\ rev < MaxRev /\ rev' = rev + 1 /\ rev' \in 0..MaxRev
    BY MaxRevAssumption DEF BaseInv, TypeOK, Store!Delete, Store!Put
  <1>2. services \in Items /\ Bounded(services, rev)
    BY DEF BaseInv, TypeOK, RevInv
  <1>3. CASE Store!Delete(s)
    <2>1. services' = [services EXCEPT ![s] = None]
      BY <1>3 DEF Store!Delete
    <2> QED
      BY <1>1, <1>2, <2>1 DEF Items, Bounded
  <1>4. ASSUME NEW c \in Config, Store!Put(s, c)
        PROVE  services' \in Items /\ Bounded(services', rev')
    <2>1. services' = [services EXCEPT ![s] = [cfg |-> c, rev |-> rev + 1]]
      BY <1>4 DEF Store!Put
    <2>2. [cfg |-> c, rev |-> rev + 1] \in [cfg : Config, rev : Nat]
      BY <1>1
    <2> QED
      BY <1>1, <1>2, <2>1, <2>2 DEF Items, Bounded
  <1> QED
    BY <1>1, <1>3, <1>4

LEMMA EtcdBase ==
    ASSUME BaseInv, NEW s \in Service, EtcdDelete(s) \/ \E c \in Config : EtcdPut(s, c)
    PROVE  BaseInv'
  <1>1. /\ services' \in Items /\ rev' \in 0..MaxRev /\ Bounded(services', rev')
        /\ rev' = rev + 1
    BY StoreStep DEF EtcdDelete, EtcdPut
  <1>2. UNCHANGED <<phase, cursor, pc, items, listRev, plan, planRev, watchRev, seen, http,
                    leaving, tcp, udp, closing, foreign>>
    BY DEF EtcdDelete, EtcdPut, refreshVars, planVars, socketVars
  <1>3. /\ rev \in Nat /\ cursor \in 0..(rev + 1) /\ watchRev \in Nat
        /\ \A t \in Thread : listRev[t] \in Nat
    BY MaxRevAssumption DEF BaseInv, TypeOK
  <1>4. cursor' \in 0..(rev' + 1)
    BY <1>1, <1>2, <1>3
  <1>5. TypeOK'
    BY <1>1, <1>2, <1>4 DEF BaseInv, TypeOK
  <1>6. /\ \A t \in Thread : Bounded(items'[t], listRev'[t])
        /\ \A t \in Thread : listRev'[t] <= rev'
        /\ watchRev' <= rev' + 1
    BY <1>1, <1>2, <1>3 DEF BaseInv, RevInv, Bounded
  <1>7. RevInv'
    BY <1>1, <1>6 DEF RevInv, Bounded
  <1> QED
    BY <1>5, <1>7 DEF BaseInv

\* A step that leaves the lists alone.
LEMMA RevKept ==
    ASSUME RevInv, UNCHANGED <<services, rev, items, listRev>>, watchRev' <= rev + 1
    PROVE  RevInv'
  BY DEF RevInv, Bounded

LEMMA WatchBase ==
    ASSUME BaseInv,
           WatchConnect \/ WatchEvent \/ WatchClosed \/ WatchError \/ FallbackTick \/ Cancel
    PROVE  BaseInv'
  <1>1. UNCHANGED <<services, rev, items, listRev, plan, planRev, watchRev, seen, http,
                    leaving, tcp, udp, closing, foreign>>
    BY DEF WatchConnect, WatchEvent, WatchClosed, WatchError, FallbackTick, Cancel,
           etcdVars, refreshVars, planVars, socketVars
  <1> DEFINE next == rev + 1
  <1>2. /\ rev \in Nat /\ cursor \in 0..next
        /\ watchRev \in Nat /\ watchRev <= next
    BY MaxRevAssumption DEF BaseInv, TypeOK, RevInv
  <1>3. cursor' \in 0..next
    <2>1. CASE WatchEvent
      <3>1. PICK c \in (cursor + 1)..(rev + 1) : cursor' = c
        BY <2>1 DEF WatchEvent
      <3> QED
        BY <1>2, <3>1
    <2>2. CASE WatchConnect
      BY <1>2, <2>2 DEF WatchConnect
    <2> QED
      BY <1>2, <2>1, <2>2 DEF WatchClosed, WatchError, FallbackTick, Cancel
  <1>4. /\ phase' \in {"starting", "running", "cancelled", "down"}
        /\ pc' \in [Thread -> {"idle", "list", "check", "touch", "apply"}]
    BY DEF WatchConnect, WatchEvent, WatchClosed, WatchError, FallbackTick, Cancel,
           refreshVars, BaseInv, TypeOK
  <1>5. TypeOK'
    BY <1>1, <1>3, <1>4 DEF BaseInv, TypeOK
  <1> QED
    BY <1>1, <1>2, <1>5, RevKept DEF BaseInv

\* refresh, except for what Apply does to the listeners.
LEMMA ReturnType ==
    ASSUME TypeOK, NEW t \in Thread, NEW okay \in BOOLEAN, Return(t, okay)
    PROVE  /\ phase' \in {"starting", "running", "cancelled", "down"}
           /\ pc' \in [Thread -> {"idle", "list", "check", "touch", "apply"}]
  BY DEF Return, TypeOK

LEMMA RefreshBase ==
    ASSUME BaseInv, NEW t \in Thread, Refresh(t)
    PROVE  BaseInv'
  <1> USE DEF BaseInv
  <1>1. CASE List(t)
    <2>1. /\ UNCHANGED <<services, rev, phase, cursor, plan, planRev, watchRev, seen, http,
                         leaving, tcp, udp, closing, foreign>>
          /\ items' = [items EXCEPT ![t] = services]
          /\ listRev' = [listRev EXCEPT ![t] = rev]
          /\ pc' = [pc EXCEPT ![t] = "check"]
      BY <1>1 DEF List, etcdVars, planVars, socketVars
    <2>2. TypeOK'
      BY <2>1 DEF TypeOK
    <2>3. rev <= rev
      BY MaxRevAssumption DEF TypeOK
    <2>4. RevInv'
      BY <2>1, <2>3 DEF RevInv, Bounded, TypeOK
    <2> QED
      BY <2>2, <2>4
  <1>2. CASE ListFails(t) \/ BuildPlanFails(t)
    <2>1. /\ UNCHANGED <<services, rev, cursor, items, listRev, plan, planRev, watchRev, seen,
                         http, leaving, tcp, udp, closing, foreign>>
          /\ Return(t, FALSE)
      BY <1>2 DEF ListFails, BuildPlanFails, etcdVars, planVars, socketVars
    <2>2. TypeOK'
      BY <2>1, ReturnType DEF TypeOK
    <2> QED
      BY <2>1, <2>2, RevKept DEF RevInv
  <1>3. CASE CheckSnapshot(t)
    <2>1. /\ UNCHANGED <<services, rev, phase, cursor, items, listRev, plan, planRev,
                         watchRev, seen, http, leaving, tcp, udp, closing, foreign>>
          /\ pc' = [pc EXCEPT ![t] = IF items[t] = plan THEN "touch" ELSE "apply"]
      BY <1>3 DEF CheckSnapshot, etcdVars, planVars, socketVars
    <2>2. TypeOK'
      BY <2>1 DEF TypeOK
    <2> QED
      BY <2>1, <2>2, RevKept DEF RevInv
  <1>4. CASE Touch(t)
    <2>1. /\ UNCHANGED <<services, rev, cursor, items, listRev, plan, planRev, http, leaving,
                         tcp, udp, closing, foreign>>
          /\ Acknowledge(t) /\ Return(t, TRUE)
      BY <1>4 DEF Touch, etcdVars, socketVars
    <2>2. watchRev' \in Nat /\ watchRev' <= rev + 1 /\ seen' \in 0..MaxRev
      BY <2>1, AcknowledgeRev
    <2>3. TypeOK'
      BY <2>1, <2>2, ReturnType DEF TypeOK
    <2> QED
      BY <2>1, <2>2, <2>3, RevKept
  <1>5. CASE Apply(t)
    <2>1. /\ UNCHANGED <<services, rev, cursor, items, listRev, foreign>>
          /\ plan' = items[t] /\ planRev' = listRev[t]
          /\ Acknowledge(t) /\ Listen(items[t]) /\ Return(t, TRUE)
      BY <1>5 DEF Apply, etcdVars
    <2>2. watchRev' \in Nat /\ watchRev' <= rev + 1 /\ seen' \in 0..MaxRev
      BY <2>1, AcknowledgeRev
    <2> DEFINE want(layer) == PortsOf(items[t], layer)
    <2>3. want("http") \subseteq Port /\ want("tcp") \subseteq Port /\ want("udp") \subseteq Port
      BY PortsType DEF TypeOK
    <2>4. http' \in [Port -> {"none", "starting", "bound", "failed"}]
      BY <2>1 DEF Listen, TypeOK
    <2>5. tcp' \subseteq Port /\ udp' \subseteq Port /\ closing' \subseteq Proto \X Port
      BY <2>1, <2>3 DEF Listen, Listening, TypeOK
    <2>6. leaving' \in [Port -> Leaving]
      BY <2>1, RemovedType DEF Listen, TypeOK, Leaving
    <2>7. TypeOK'
      BY <2>1, <2>2, <2>4, <2>5, <2>6, ReturnType DEF TypeOK, Leaving
    <2> QED
      BY <2>1, <2>2, <2>7, RevKept
  <1> QED
    BY <1>1, <1>2, <1>3, <1>4, <1>5 DEF Refresh

LEMMA SocketBase ==
    ASSUME BaseInv,
           \/ \E p \in Port : HTTPBind(p) \/ LeavingBind(p) \/ LeavingShutdown(p)
           \/ \E proto \in Proto, p \in Port :
                 ForeignTakes(proto, p) \/ ForeignReleases(proto, p)
           \/ Shutdown
           \/ \E sock \in closing : ShutdownCloses(sock)
    PROVE  BaseInv'
  <1> USE DEF BaseInv
  <1>1. UNCHANGED <<services, rev, cursor, pc, items, listRev, plan, planRev, watchRev, seen>>
    BY DEF HTTPBind, LeavingBind, LeavingShutdown, ForeignTakes, ForeignReleases, Shutdown,
           ShutdownCloses, etcdVars, refreshVars, planVars
  <1>2. RevInv'
    BY <1>1, RevKept DEF RevInv
  <1>3. ASSUME NEW p \in Port, HTTPBind(p)
        PROVE  TypeOK'
    BY <1>1, <1>3 DEF HTTPBind, TypeOK
  <1>4. ASSUME NEW p \in Port, LeavingBind(p) \/ LeavingShutdown(p)
        PROVE  TypeOK'
    <2>1. leaving[p] \in Leaving
      BY DEF TypeOK, Leaving
    <2>2. \E l \in Leaving : leaving' = [leaving EXCEPT ![p] = l]
      <3>1. CASE LeavingBind(p)
        <4> DEFINE l == [starting |-> leaving[p].starting - 1,
                         bound |-> leaving[p].bound \/ Free("tcp", p)]
        <4>1. leaving[p].starting - 1 \in Nat
          BY <2>1, <3>1 DEF LeavingBind, Leaving
        <4>2. l.bound \in BOOLEAN
          OBVIOUS
        <4>3. l \in Leaving
          BY <4>1, <4>2 DEF Leaving
        <4>4. leaving' = [leaving EXCEPT ![p] = l]
          BY <3>1 DEF LeavingBind, TypeOK
        <4> QED
          BY <4>3, <4>4
      <3>2. CASE leaving[p].bound /\ leaving' = [leaving EXCEPT ![p].bound = FALSE]
        <4>1. [leaving[p] EXCEPT !.bound = FALSE] \in Leaving
          BY <2>1 DEF Leaving
        <4> QED
          BY <3>2, <4>1 DEF TypeOK
      <3>3. CASE leaving[p].starting > 0
                 /\ leaving' = [leaving EXCEPT ![p].starting = @ - 1]
        <4>1. [leaving[p] EXCEPT !.starting = @ - 1] \in Leaving
          BY <2>1, <3>3 DEF Leaving
        <4> QED
          BY <3>3, <4>1 DEF TypeOK
      <3> QED
        BY <1>4, <3>1, <3>2, <3>3 DEF LeavingShutdown
    <2>3. UNCHANGED <<phase, http, tcp, udp, closing, foreign>>
      BY <1>4 DEF LeavingBind, LeavingShutdown
    <2>4. leaving' \in [Port -> Leaving]
      BY <2>2 DEF TypeOK, Leaving
    <2> QED
      BY <1>1, <2>3, <2>4 DEF TypeOK, Leaving
  <1>5. ASSUME NEW proto \in Proto, NEW p \in Port,
               ForeignTakes(proto, p) \/ ForeignReleases(proto, p)
        PROVE  TypeOK'
    BY <1>1, <1>5 DEF ForeignTakes, ForeignReleases, socketVars, TypeOK
  <1>6. CASE Shutdown
    <2>1. leaving' \in [Port -> Leaving]
      BY <1>6, RemovedType DEF Shutdown
    <2>2. closing' \subseteq Proto \X Port
      BY <1>6 DEF Shutdown, TypeOK, Proto
    <2>3. /\ phase' = "down" /\ tcp' = {} /\ udp' = {} /\ foreign' = foreign
          /\ http' = [p \in Port |-> "none"]
      BY <1>6 DEF Shutdown
    <2> QED
      BY <1>1, <1>2, <2>1, <2>2, <2>3 DEF TypeOK, Leaving
  <1>7. ASSUME NEW sock \in closing, ShutdownCloses(sock)
        PROVE  TypeOK'
    BY <1>1, <1>7 DEF ShutdownCloses, TypeOK
  <1> QED
    BY <1>2, <1>3, <1>4, <1>5, <1>6, <1>7

LEMMA BaseInvariant == Spec => []BaseInv
  <1>1. Init => BaseInv
    <2> SUFFICES ASSUME Init PROVE BaseInv
      OBVIOUS
    <2>1. services = [s \in Service |-> None] /\ rev = 0
      BY DEF Init, Store!Init
    <2>2. leaving \in [Port -> [starting : Nat, bound : BOOLEAN]]
      BY DEF Init, NoLeaving
    <2>3. services \in Items /\ items \in [Thread -> Items]
      BY <2>1 DEF Init, Items
    <2>4. pc \in [Thread -> {"idle", "list", "check", "touch", "apply"}]
      BY DEF Init
    <2>5. TypeOK
      BY <2>1, <2>2, <2>3, <2>4, MaxRevAssumption DEF Init, TypeOK
    <2>6. RevInv
      BY <2>1 DEF Init, RevInv, Bounded
    <2> QED
      BY <2>5, <2>6 DEF BaseInv
  <1>2. BaseInv /\ [Next]_vars => BaseInv'
    <2> SUFFICES ASSUME BaseInv, [Next]_vars PROVE BaseInv'
      OBVIOUS
    <2>1. CASE UNCHANGED vars
      <3>1. TypeOK'
        BY <2>1 DEF vars, etcdVars, refreshVars, planVars, socketVars, BaseInv, TypeOK
      <3>2. UNCHANGED <<services, rev, items, listRev, watchRev>>
        BY <2>1 DEF vars, etcdVars, refreshVars, planVars
      <3> QED
        BY <3>1, <3>2, RevKept DEF BaseInv, RevInv
    <2> QED
      BY <2>1, EtcdBase, WatchBase, RefreshBase, SocketBase DEF Next
  <1> QED
    BY <1>1, <1>2, PTL DEF Spec

(***************************************************************************)
(* The types.  In particular no watch is opened or moved beyond the next   *)
(* write to come (server.go:223), which it would miss: every list bounds   *)
(* the revisions in it, and it is not newer than etcd.                     *)
(***************************************************************************)
THEOREM TypeCorrect == Spec => []TypeOK
  <1>1. BaseInv => TypeOK
    BY DEF BaseInv
  <1> QED
    BY <1>1, BaseInvariant, PTL

----------------------------------------------------------------------------
(***************************************************************************)
(* A watch never resumes past a change that no completed refresh has       *)
(* listed, whichever of the two goroutines raises the revision last        *)
(* (server.go:271, 309): each list bounds the revisions in it, and seen is *)
(* raised along with watchRev.                                             *)
(***************************************************************************)
THEOREM ResumeCoversTheorem == Spec => []ResumeCoversUnseen
  <1>1. Init => ResumeCoversUnseen
    BY DEF Init, ResumeCoversUnseen
  <1>2. BaseInv /\ ResumeCoversUnseen /\ [Next]_vars => ResumeCoversUnseen'
    <2> SUFFICES ASSUME BaseInv, ResumeCoversUnseen, [Next]_vars PROVE ResumeCoversUnseen'
      OBVIOUS
    <2>1. ASSUME NEW t \in Thread, Touch(t) \/ Apply(t) PROVE ResumeCoversUnseen'
      BY <2>1, AcknowledgeRev DEF Touch, Apply, BaseInv
    <2>2. ASSUME UNCHANGED <<watchRev, seen>> PROVE ResumeCoversUnseen'
      BY <2>2 DEF ResumeCoversUnseen
    <2>3. \/ UNCHANGED <<watchRev, seen>>
          \/ \E t \in Thread : Touch(t) \/ Apply(t)
      <3>1. CASE UNCHANGED vars
        BY <3>1 DEF vars, planVars
      <3>2. CASE Next
        BY <3>2 DEF Next, EtcdDelete, EtcdPut, WatchConnect, WatchEvent, WatchClosed,
             WatchError, FallbackTick, Refresh, List, ListFails, CheckSnapshot,
             BuildPlanFails, HTTPBind, LeavingBind, LeavingShutdown, ForeignTakes,
             ForeignReleases, Cancel, Shutdown, ShutdownCloses, planVars
      <3> QED
        BY <3>1, <3>2
    <2> QED
      BY <2>1, <2>2, <2>3
  <1> QED
    BY <1>1, <1>2, BaseInvariant, PTL DEF Spec

----------------------------------------------------------------------------
(***************************************************************************)
(* The listener maps.  That no port is in both the HTTP and the TCP map    *)
(* holds because every plan in force is one that BuildPlan has accepted.   *)
(***************************************************************************)
Registered == {p \in Port : http[p] # "none"}

ListenerInv ==
    /\ plan # Unset => Compiles(plan)
    /\ ListenersMatchPlan

\* A plan that compiles gives no socket to an HTTP and a TCP service.
LEMMA LayersApart ==
    ASSUME NEW its \in Items, Compiles(its)
    PROVE  PortsOf(its, "http") \cap PortsOf(its, "tcp") = {}
  <1> SUFFICES ASSUME NEW s \in Stored(its), NEW r \in Stored(its),
                      its[s].cfg.layer = "http", its[r].cfg.layer = "tcp",
                      its[s].cfg.port = its[r].cfg.port
               PROVE  FALSE
    BY DEF PortsOf
  <1>1. s # r
    OBVIOUS
  <1>2. ~Clash(its[s].cfg, its[r].cfg)
    BY <1>1 DEF Compiles
  <1> QED
    BY <1>2 DEF Clash

\* refresh leaves the maps of the plan it has just put in force.
LEMMA ApplyListeners ==
    ASSUME BaseInv, NEW t \in Thread, Apply(t)
    PROVE  ListenerInv'
  <1> DEFINE its == items[t]
  <1>1. its \in Items /\ its # Unset
    BY UnsetAssumption DEF BaseInv, TypeOK
  <1>2. plan' = its /\ Compiles(its) /\ Listen(its)
    BY DEF Apply
  <1>3. /\ PortsOf(its, "http") \subseteq Port
        /\ PortsOf(its, "http") \cap PortsOf(its, "tcp") = {}
    BY <1>1, <1>2, PortsType, LayersApart
  <1>4. Registered' = PortsOf(its, "http")
    BY <1>2, <1>3 DEF Listen, Registered
  <1>5. tcp' \subseteq PortsOf(its, "tcp") /\ udp' \subseteq PortsOf(its, "udp")
    BY <1>2 DEF Listen, Listening
  <1>6. \A layer : Desired(plan', layer) = PortsOf(its, layer)
    BY <1>1, <1>2 DEF Desired
  <1> HIDE DEF its
  <1>7. ListenersMatchPlan'
    BY <1>3, <1>4, <1>5, <1>6 DEF ListenersMatchPlan, Registered
  <1> QED
    BY <1>2, <1>7 DEF ListenerInv

\* A step that keeps the plan and the keys of the maps.
LEMMA ListenersKept ==
    ASSUME ListenerInv, plan' = plan, Registered' = Registered, tcp' = tcp, udp' = udp,
           phase = "down" => phase' = "down"
    PROVE  ListenerInv'
  BY DEF ListenerInv, ListenersMatchPlan, Registered

(***************************************************************************)
(* Up to shutdown the listener maps are those of the plan in force: the    *)
(* HTTP listeners are the plan's, no L4 listener outlives its service, and *)
(* no socket is in both maps (server.go:301), although two goroutines      *)
(* apply plans and every HTTP server is bound by one of its own.           *)
(***************************************************************************)
THEOREM ListenersMatchTheorem == Spec => []ListenersMatchPlan
  <1>1. Init => ListenerInv
    BY DEF Init, ListenerInv, ListenersMatchPlan, Desired
  <1>2. BaseInv /\ ListenerInv /\ [Next]_vars => ListenerInv'
    <2> SUFFICES ASSUME BaseInv, ListenerInv, [Next]_vars PROVE ListenerInv'
      OBVIOUS
    <2>1. ASSUME NEW p \in Port, HTTPBind(p) PROVE ListenerInv'
      <3>1. UNCHANGED <<phase, plan, tcp, udp>>
        BY <2>1 DEF HTTPBind, planVars
      <3>2. Registered' = Registered
        BY <2>1 DEF HTTPBind, Registered, BaseInv, TypeOK
      <3> QED
        BY <3>1, <3>2, ListenersKept
    <2>2. CASE Shutdown
      BY <2>2 DEF Shutdown, planVars, ListenerInv, ListenersMatchPlan
    <2>3. ASSUME NEW t \in Thread, Apply(t) PROVE ListenerInv'
      BY <2>3, ApplyListeners
    <2>4. ASSUME UNCHANGED <<plan, http, tcp, udp>>, phase = "down" => phase' = "down"
          PROVE  ListenerInv'
      BY <2>4, ListenersKept DEF Registered
    <2>5. ASSUME NEW t \in Thread, Refresh(t), ~Apply(t)
          PROVE  UNCHANGED <<plan, http, tcp, udp>> /\ (phase = "down" => phase' = "down")
      BY <2>5 DEF Refresh, List, ListFails, CheckSnapshot, Touch, BuildPlanFails, Return,
           planVars, socketVars
    <2>6. \/ UNCHANGED <<plan, http, tcp, udp>> /\ (phase = "down" => phase' = "down")
          \/ \E p \in Port : HTTPBind(p)
          \/ Shutdown
          \/ \E t \in Thread : Apply(t)
      <3>1. CASE UNCHANGED vars
        BY <3>1 DEF vars, planVars, socketVars
      <3>2. CASE Next
        BY <3>2, <2>5 DEF Next, EtcdDelete, EtcdPut, WatchConnect, WatchEvent, WatchClosed,
             WatchError, FallbackTick, LeavingBind, LeavingShutdown, ForeignTakes,
             ForeignReleases, Cancel, ShutdownCloses, planVars, socketVars
      <3> QED
        BY <3>1, <3>2
    <2> QED
      BY <2>1, <2>2, <2>3, <2>4, <2>6
  <1>3. ListenerInv => ListenersMatchPlan
    BY DEF ListenerInv
  <1> QED
    BY <1>1, <1>2, <1>3, BaseInvariant, PTL DEF Spec

=============================================================================
