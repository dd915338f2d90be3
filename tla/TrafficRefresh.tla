--------------------------- MODULE TrafficRefresh ---------------------------
(***************************************************************************)
(* How one node's traffic plane follows the service configurations in      *)
(* etcd: Server.Start, watchServicesLoop, reconcileLoop, refresh and       *)
(* Shutdown of internal/traffic/server.go.                                 *)
(*                                                                         *)
(* Two goroutines, the watcher and the 30 s fallback, run refresh without  *)
(* a lock around the whole of it: each lists etcd, compares the snapshot   *)
(* under the read lock, and applies the plan under the write lock.  HTTP   *)
(* listeners are bound and closed by goroutines of their own; TCP and UDP  *)
(* listeners are bound and closed under the lock.                          *)
(*                                                                         *)
(* A listener key (addr:port) is a member of Port, and of a configuration  *)
(* only what decides listeners and whether BuildPlan accepts it is kept:   *)
(* proxy layer, listener, backend group name.  plan stands for Server.plan,*)
(* planValue and lastServiceSnapshot, which are only ever set together.    *)
(***************************************************************************)
EXTENDS Integers, FiniteSets, FiniteSetsExt

CONSTANTS
    Service,   \* service names
    Port,      \* listener keys
    Group,     \* backend group names
    Config,    \* configurations the API may store
    Contended, \* bound: sockets that other processes may also want
    MaxRev,    \* bound: etcd writes to the services prefix
    None,      \* no such key in etcd
    Unset      \* Server.lastServiceSnapshot = ""

ASSUME ConfigAssumption ==
    Config \subseteq [layer : {"http", "tcp", "udp"}, port : Port, group : Group]
Proto == {"tcp", "udp"}

ASSUME ContendedAssumption == Contended \subseteq Proto \X Port
ASSUME MaxRevAssumption == MaxRev \in Nat
ASSUME NoneAssumption ==
    None \notin [cfg : Config, rev : Nat]

Thread == {"watch", "reconcile"}

VARIABLES
    services,  \* etcd: services[s] is the stored configuration and its ModRevision
    rev,       \* etcd: revision of the last write
    phase,     \* of the application
    cursor,    \* the watch delivers changes from this revision; 0: no watch
    pc,        \* pc[t]: where goroutine t is in refresh
    items,     \* items[t]: what t's List returned
    listRev,   \* history: the revision at which it did
    plan,      \* the services the current plan was built from
    planRev,   \* history: the revision at which they were listed
    watchRev,  \* Server.serviceWatchRevision
    seen,      \* history: latest revision listed by a refresh that succeeded
    http,      \* http[p]: the server in Server.listeners for p
    leaving,   \* leaving[p]: servers removed from Server.listeners, not yet shut down
    tcp,       \* keys of Server.tcpListeners
    udp,       \* keys of Server.udpListeners
    closing,   \* L4 sockets Shutdown has taken out of the maps, not yet closed
    foreign    \* sockets other processes hold

etcdVars == <<services, rev>>
refreshVars == <<pc, items, listRev>>
planVars == <<plan, planRev, watchRev, seen>>
socketVars == <<http, leaving, tcp, udp, closing>>
vars == <<etcdVars, phase, cursor, refreshVars, planVars, socketVars, foreign>>

Items == [Service -> [cfg : Config, rev : Nat] \cup {None}]

\* No list of services has the empty snapshot.
ASSUME UnsetAssumption == Unset \notin Items

(***************************************************************************)
(* The types; in particular no watch is opened or moved beyond the next    *)
(* write to come, where it would miss that write (server.go:223): the      *)
(* revision refresh leaves to the watch is already the next one.           *)
(***************************************************************************)
TypeOK ==
    /\ services \in Items
    /\ rev \in 0..MaxRev
    /\ phase \in {"starting", "running", "cancelled", "down"}
    /\ cursor \in 0..(rev + 1)
    /\ pc \in [Thread -> {"idle", "list", "check", "touch", "apply"}]
    /\ items \in [Thread -> Items]
    /\ listRev \in [Thread -> 0..MaxRev]
    /\ plan \in Items \cup {Unset}
    /\ planRev \in 0..MaxRev
    /\ watchRev \in Nat
    /\ seen \in 0..MaxRev
    /\ http \in [Port -> {"none", "starting", "bound", "failed"}]
    /\ leaving \in [Port -> [starting : Nat, bound : BOOLEAN]]
    /\ tcp \subseteq Port
    /\ udp \subseteq Port
    /\ closing \subseteq Proto \X Port
    /\ foreign \subseteq Contended

----------------------------------------------------------------------------
\* BuildPlan (runtime.go:76).

Stored(its) == {s \in Service : its[s] # None}

PortsOf(its, layer) ==
    {its[s].cfg.port : s \in {r \in Stored(its) : its[r].cfg.layer = layer}}

\* The listener maps of the plan in force; no plan, no listeners.
Desired(its, layer) == IF its = Unset THEN {} ELSE PortsOf(its, layer)

\* Two services that BuildPlan refuses to have in one plan: they name the same
\* backend group, or want one listener in ways that cannot share it.
Clash(c, d) ==
    \/ c.group = d.group
    \/ /\ c.port = d.port
       /\ \/ c.layer = d.layer /\ c.layer \in {"tcp", "udp"}
          \/ {c.layer, d.layer} = {"http", "tcp"}

Compiles(its) ==
    \A s, r \in Stored(its) : s # r => ~Clash(its[s].cfg, its[r].cfg)

\* Mutant: the revision after the last one is skipped.
nextServiceWatchRevisionPast(its) ==
    IF Stored(its) = {} THEN 1 ELSE Max({its[s].rev : s \in Stored(its)}) + 2

\* nextServiceWatchRevision (server.go:425)
nextServiceWatchRevision(its) ==
    IF Stored(its) = {} THEN 1 ELSE Max({its[s].rev : s \in Stored(its)}) + 1

\* The watch revision only moves forward (server.go:271, 309).
Raise(its) ==
    LET next == nextServiceWatchRevision(its)
    IN  IF next > watchRev THEN next ELSE watchRev

----------------------------------------------------------------------------
\* Sockets.

Free(proto, p) ==
    /\ <<proto, p>> \notin foreign \cup closing
    /\ proto = "tcp" => http[p] # "bound" /\ ~leaving[p].bound /\ p \notin tcp
    /\ proto = "udp" => p \notin udp

NoLeaving == [starting |-> 0, bound |-> FALSE]

\* Take the server out of the map; a goroutine will shut it down.  A server
\* whose ListenAndServe has failed has nothing left to shut down.
Removed(p) ==
    CASE http[p] = "starting" -> [leaving[p] EXCEPT !.starting = @ + 1]
      [] http[p] = "bound"    -> [leaving[p] EXCEPT !.bound = TRUE]
      [] OTHER                -> leaving[p]

----------------------------------------------------------------------------
\* The configurations in etcd, as the management API offers them.
Store == INSTANCE ConfigStore

Init ==
    /\ Store!Init
    /\ phase = "starting"
    /\ cursor = 0
    /\ pc = [t \in Thread |-> IF t = "reconcile" THEN "list" ELSE "idle"]
    /\ items = [t \in Thread |-> [s \in Service |-> None]]
    /\ listRev = [t \in Thread |-> 0]
    /\ plan = Unset
    /\ planRev = 0
    /\ watchRev = 0
    /\ seen = 0
    /\ http = [p \in Port |-> "none"]
    /\ leaving = [p \in Port |-> NoLeaving]
    /\ tcp = {}
    /\ udp = {}
    /\ closing = {}
    /\ foreign \in SUBSET Contended

\* The management API of any node stores or deletes a configuration.
EtcdPut(s, c) ==
    /\ Store!Put(s, c)
    /\ UNCHANGED <<phase, cursor, refreshVars, planVars, socketVars, foreign>>

EtcdDelete(s) ==
    /\ Store!Delete(s)
    /\ UNCHANGED <<phase, cursor, refreshVars, planVars, socketVars, foreign>>

\* Mutant: the watch is opened after the revision that refresh has left, as if
\* that were the last one seen.
WatchConnectPast ==
    /\ phase = "running"
    /\ pc["watch"] = "idle"
    /\ cursor = 0
    /\ cursor' = watchRev + 1
    /\ UNCHANGED <<etcdVars, phase, refreshVars, planVars, socketVars, foreign>>

\* watchServicesLoop opens a watch from the revision refresh has left.
WatchConnect ==
    /\ phase = "running"
    /\ pc["watch"] = "idle"
    /\ cursor = 0
    /\ cursor' = IF watchRev <= 0 THEN 1 ELSE watchRev
    /\ UNCHANGED <<etcdVars, phase, refreshVars, planVars, socketVars, foreign>>

\* A response with one or more events starts a refresh; the events themselves
\* are not looked at.
WatchEvent ==
    /\ phase = "running"
    /\ pc["watch"] = "idle"
    /\ cursor # 0
    /\ \E c \in (cursor + 1)..(rev + 1) : cursor' = c
    /\ pc' = [pc EXCEPT !["watch"] = "list"]
    /\ UNCHANGED <<etcdVars, phase, items, listRev, planVars, socketVars, foreign>>

\* The watch channel is closed: reconnect after a second.
WatchClosed ==
    /\ phase = "running"
    /\ pc["watch"] = "idle"
    /\ cursor # 0
    /\ cursor' = 0
    /\ UNCHANGED <<etcdVars, phase, refreshVars, planVars, socketVars, foreign>>

\* A response with an error (compaction, lost leader): refresh, then reconnect.
WatchError ==
    /\ phase = "running"
    /\ pc["watch"] = "idle"
    /\ cursor # 0
    /\ cursor' = 0
    /\ pc' = [pc EXCEPT !["watch"] = "list"]
    /\ UNCHANGED <<etcdVars, phase, items, listRev, planVars, socketVars, foreign>>

\* The 30 s ticker of reconcileLoop fires.
FallbackTick ==
    /\ phase = "running"
    /\ pc["reconcile"] = "idle"
    /\ pc' = [pc EXCEPT !["reconcile"] = "list"]
    /\ UNCHANGED <<etcdVars, phase, cursor, items, listRev, planVars, socketVars,
                   foreign>>

\* refresh returns: Start goes on to run the loops, or fails the application
\* (main then calls Shutdown, which cancels).
Return(t, ok) ==
    /\ pc' = [pc EXCEPT ![t] = "idle"]
    /\ phase' = IF phase # "starting" THEN phase
                ELSE IF ok THEN "running" ELSE "cancelled"

\* refresh, line 260: read all of the services prefix.
List(t) ==
    /\ pc[t] = "list"
    /\ phase \in {"starting", "running"}
    /\ items' = [items EXCEPT ![t] = services]
    /\ listRev' = [listRev EXCEPT ![t] = rev]
    /\ pc' = [pc EXCEPT ![t] = "check"]
    /\ UNCHANGED <<etcdVars, phase, cursor, planVars, socketVars, foreign>>

\* ... or fail: etcd does not answer, or the context is cancelled.
ListFails(t) ==
    /\ pc[t] = "list"
    /\ Return(t, FALSE)
    /\ UNCHANGED <<etcdVars, cursor, items, listRev, planVars, socketVars, foreign>>

\* Mutant: services count as changed only when a newer revision is among them,
\* so that a deletion goes unnoticed.
CheckSnapshotByRevision(t) ==
    /\ pc[t] = "check"
    /\ pc' = [pc EXCEPT ![t] =
                 IF plan # Unset /\ nextServiceWatchRevision(items[t]) <= watchRev
                 THEN "touch" ELSE "apply"]
    /\ UNCHANGED <<etcdVars, phase, cursor, items, listRev, planVars, socketVars,
                   foreign>>

\* Compare with the last snapshot under the read lock.
CheckSnapshot(t) ==
    /\ pc[t] = "check"
    /\ pc' = [pc EXCEPT ![t] = IF items[t] = plan THEN "touch" ELSE "apply"]
    /\ UNCHANGED <<etcdVars, phase, cursor, items, listRev, planVars, socketVars,
                   foreign>>

Acknowledge(t) ==
    /\ watchRev' = Raise(items[t])
    /\ seen' = Max({seen, listRev[t]})

\* Nothing new: only the watch revision may move, under the write lock.
Touch(t) ==
    /\ pc[t] = "touch"
    /\ Acknowledge(t)
    /\ Return(t, TRUE)
    /\ UNCHANGED <<etcdVars, cursor, items, listRev, plan, planRev, socketVars,
                   foreign>>

\* The services cannot be in one plan: the old plan stays in force.
BuildPlanFails(t) ==
    /\ pc[t] = "apply"
    /\ ~Compiles(items[t])
    /\ Return(t, FALSE)
    /\ UNCHANGED <<etcdVars, cursor, items, listRev, planVars, socketVars, foreign>>

\* The L4 sockets a plan asks for and gets.  L4 listeners that are not wanted
\* any more are closed before, under the same lock; HTTP listeners hold their
\* sockets until their own goroutine shuts them down, which for some (gone) may
\* come before the bind.
Listening(proto, old, want, gone) ==
    {p \in want :
        \/ p \in old
        \/ /\ <<proto, p>> \notin foreign \cup closing
           /\ proto = "tcp" => /\ http[p] = "bound" => p \in gone
                               /\ ~leaving[p].bound}

\* Mutant: a listener that is no longer wanted is left in the map.
ListenKeep(its) ==
    /\ http' = [p \in Port |->
                   IF p \notin PortsOf(its, "http") THEN http[p]
                   ELSE IF http[p] = "none" THEN "starting" ELSE http[p]]
    /\ tcp' = Listening("tcp", tcp, PortsOf(its, "tcp"), {})
    /\ udp' = Listening("udp", udp, PortsOf(its, "udp"), {})
    /\ UNCHANGED <<leaving, closing>>

\* The second half of refresh: close what the plan does not want, start what
\* it wants and the maps do not have.
Listen(its) ==
    LET want(layer) == PortsOf(its, layer)
    IN  /\ http' = [p \in Port |->
                       IF p \notin want("http") THEN "none"
                       ELSE IF http[p] = "none" THEN "starting" ELSE http[p]]
        /\ \E gone \in SUBSET {p \in Port \ want("http") : http[p] = "bound"} :
              /\ leaving' = [p \in Port |->
                               IF p \in want("http") \cup gone
                               THEN leaving[p] ELSE Removed(p)]
              /\ tcp' = Listening("tcp", tcp, want("tcp"), gone)
              /\ udp' = Listening("udp", udp, want("udp"), gone)
        /\ UNCHANGED closing

\* Replace the plan and converge the listeners, under the write lock.
Apply(t) ==
    /\ pc[t] = "apply"
    /\ Compiles(items[t])
    /\ plan' = items[t]
    /\ planRev' = listRev[t]
    /\ Acknowledge(t)
    /\ Listen(items[t])
    /\ Return(t, TRUE)
    /\ UNCHANGED <<etcdVars, cursor, items, listRev, foreign>>

\* The goroutine of an HTTP server in the map reaches ListenAndServe's bind.
HTTPBind(p) ==
    /\ http[p] = "starting"
    /\ http' = [http EXCEPT ![p] = IF Free("tcp", p) THEN "bound" ELSE "failed"]
    /\ UNCHANGED <<etcdVars, phase, cursor, refreshVars, planVars, leaving, tcp,
                   udp, closing, foreign>>

\* A server removed before it bound may still bind, or fail to, before the
\* goroutine that shuts it down runs.
LeavingBind(p) ==
    /\ leaving[p].starting > 0
    /\ leaving' = [leaving EXCEPT ![p] =
                      [starting |-> @.starting - 1,
                       bound |-> @.bound \/ Free("tcp", p)]]
    /\ UNCHANGED <<etcdVars, phase, cursor, refreshVars, planVars, http, tcp, udp,
                   closing, foreign>>

\* The goroutine that shuts a removed server down runs: the listening socket
\* is closed at once; a server that had not bound yet never will.
LeavingShutdown(p) ==
    /\ \/ /\ leaving[p].bound
          /\ leaving' = [leaving EXCEPT ![p].bound = FALSE]
       \/ /\ leaving[p].starting > 0
          /\ leaving' = [leaving EXCEPT ![p].starting = @ - 1]
    /\ UNCHANGED <<etcdVars, phase, cursor, refreshVars, planVars, http, tcp, udp,
                   closing, foreign>>

\* Another process takes or releases a socket.
ForeignTakes(proto, p) ==
    /\ <<proto, p>> \in Contended
    /\ Free(proto, p)
    /\ foreign' = foreign \cup {<<proto, p>>}
    /\ UNCHANGED <<etcdVars, phase, cursor, refreshVars, planVars, socketVars>>

ForeignReleases(proto, p) ==
    /\ <<proto, p>> \in foreign
    /\ foreign' = foreign \ {<<proto, p>>}
    /\ UNCHANGED <<etcdVars, phase, cursor, refreshVars, planVars, socketVars>>

\* App.Shutdown cancels the context ...
Cancel ==
    /\ phase = "running"
    /\ phase' = "cancelled"
    /\ UNCHANGED <<etcdVars, cursor, refreshVars, planVars, socketVars, foreign>>

\* ... and calls Server.Shutdown, which empties the maps under the lock and
\* then closes what was in them.
Shutdown ==
    /\ phase = "cancelled"
    /\ phase' = "down"
    /\ http' = [p \in Port |-> "none"]
    /\ leaving' = [p \in Port |-> Removed(p)]
    /\ tcp' = {}
    /\ udp' = {}
    /\ closing' = closing \cup {<<"tcp", p>> : p \in tcp} \cup {<<"udp", p>> : p \in udp}
    /\ UNCHANGED <<etcdVars, cursor, refreshVars, planVars, foreign>>

ShutdownCloses(sock) ==
    /\ sock \in closing
    /\ closing' = closing \ {sock}
    /\ UNCHANGED <<etcdVars, phase, cursor, refreshVars, planVars, http, leaving,
                   tcp, udp, foreign>>

Refresh(t) ==
    \/ List(t) \/ ListFails(t) \/ CheckSnapshot(t) \/ Touch(t)
    \/ BuildPlanFails(t) \/ Apply(t)

Next ==
    \/ \E s \in Service : EtcdDelete(s) \/ \E c \in Config : EtcdPut(s, c)
    \/ WatchConnect \/ WatchEvent \/ WatchClosed \/ WatchError \/ FallbackTick
    \/ \E t \in Thread : Refresh(t)
    \/ \E p \in Port : HTTPBind(p) \/ LeavingBind(p) \/ LeavingShutdown(p)
    \/ \E proto \in Proto, p \in Port :
          ForeignTakes(proto, p) \/ ForeignReleases(proto, p)
    \/ Cancel \/ Shutdown
    \/ \E sock \in closing : ShutdownCloses(sock)

Spec == Init /\ [][Next]_vars

(***************************************************************************)
(* Fairness.  A refresh that has begun goes on, the 30 s ticker keeps      *)
(* firing, and etcd answers a List infinitely often.  Nothing is assumed   *)
(* of the watch: its events may come late, or never.                       *)
(***************************************************************************)
Fairness ==
    /\ WF_vars(FallbackTick)
    /\ \A t \in Thread :
          /\ WF_vars(Refresh(t))
          /\ SF_vars(List(t))

LiveSpec == Spec /\ Fairness

----------------------------------------------------------------------------
(***************************************************************************)
(* Up to shutdown, the listener maps are those of the plan in force,       *)
(* whichever goroutine applied it and whatever failed to bind: exactly the *)
(* plan's HTTP listeners are registered, no L4 listener outlives its       *)
(* service, and no two listeners were given the same socket.               *)
(***************************************************************************)
ListenersMatchPlan ==
    phase # "down" =>
        /\ {p \in Port : http[p] # "none"} = Desired(plan, "http")
        /\ tcp \subseteq Desired(plan, "tcp")
        /\ udp \subseteq Desired(plan, "udp")
        /\ tcp \cap {p \in Port : http[p] # "none"} = {}

(***************************************************************************)
(* A reconnecting watch never starts behind a change that no completed     *)
(* refresh has listed: the revision it resumes from is computed from the   *)
(* listed services alone (not from the revision of the List), and two      *)
(* goroutines raise it in any order.                                       *)
(***************************************************************************)
ResumeCoversUnseen == watchRev <= seen + 1

(***************************************************************************)
(* The plan in force ends up being the stored services, or the stored      *)
(* services do not compile: lost or late watch events, failed Lists and an *)
(* older List applied over a newer one are all made good by the fallback.  *)
(***************************************************************************)
Converges ==
    <>[](phase = "running" => plan = services \/ ~Compiles(services))

(***************************************************************************)
(* server.go:258: refresh replaces the plan "根据最新服务配置", by the     *)
(* latest service configuration; it never goes back to an earlier one.     *)
(***************************************************************************)
PlanMovesForward == [][planRev' >= planRev]_vars

(***************************************************************************)
(* docs/zh/design/traffic-plane-design.md:248: a listener that could not   *)
(* be bound is tried again once the configuration has changed.             *)
(***************************************************************************)
RetriedOnChange ==
    [][\A p \in Port :
          http[p] = "failed" /\ plan' # plan /\ p \in Desired(plan', "http")
          => http'[p] = "starting"]_vars

=============================================================================
