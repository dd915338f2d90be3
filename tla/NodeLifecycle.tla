--------------------------- MODULE NodeLifecycle ---------------------------
(***************************************************************************)
(* The life of one FluxMesh process in the control plane: App.Run and      *)
(* App.Shutdown (internal/app), joining etcd and rolling the join back     *)
(* (internal/etcd, internal/reconcile), keeping the node's key registered  *)
(* under a lease (internal/registry/nodes.go), and eviction of the node    *)
(* through the management API of another one.                              *)
(*                                                                         *)
(* A call to etcd has two outcomes that need not agree: whether it is      *)
(* applied and whether its caller learns so (acked).  A call that is not   *)
(* acked takes effect at once or never.                                    *)
(*                                                                         *)
(* etcd refuses MemberAdd for a peer URL that a member already has, and    *)
(* MemberRemove of a member it does not know.  Lease and member IDs are    *)
(* reused once nothing refers to them any more, which keeps them finite.   *)
(***************************************************************************)
EXTENDS Integers, FiniteSets

CONSTANTS
    Roles,   \* the values of cfg.Role to look at
    Lease,   \* lease IDs (positive)
    Member,  \* etcd member IDs (positive)
    Crashes  \* whether the process may be killed

ASSUME RoleAssumption == Roles \subseteq {"server", "agent"} /\ Crashes \in BOOLEAN
ASSUME IdAssumption == Lease \subseteq Nat \ {0} /\ Member \subseteq Nat \ {0}

VARIABLES
    role,      \* cfg.Role
    members,   \* etcd: members with this node's peer URL
    leases,    \* etcd: leases granted to this node and still alive
    key,       \* etcd: lease the node's key is bound to; 0: no key
    pc,        \* main goroutine: Run, then Shutdown
    joined,    \* startEtcdAndClient: this run has called MemberAdd
    memberID,  \* JoinResult.MemberID; 0: none
    cancelled, \* the application context is done
    tasks,     \* MemberReconciler.tasks
    rec,       \* goroutine of MemberReconciler.Run
    lease,     \* App.leaseID; 0: none
    alive,     \* App.keepAliveCh is open
    loop,      \* goroutine of consumeKeepAlive
    newLease,  \* the lease of the registration in progress
    evict,     \* an EvictNode call on another node
    target,    \* the member it found; 0: none
    evicted,   \* history: an eviction has touched the node since it registered
    retried    \* history: the reconciler has tried again to remove a member

etcdVars == <<members, leases, key>>
joinVars == <<joined, memberID>>
leaseVars == <<lease, alive, loop>>
evictVars == <<evict, target>>
vars == <<role, etcdVars, pc, joinVars, cancelled, tasks, rec, leaseVars, newLease,
          evictVars, evicted, retried>>

(***************************************************************************)
(* The types; in particular the node's key in etcd is always bound to a    *)
(* lease that is still alive (registry/nodes.go:46), or there is no key.   *)
(***************************************************************************)
TypeOK ==
    /\ role \in Roles
    /\ members \subseteq Member
    /\ leases \subseteq Lease
    /\ key \in leases \cup {0}
    /\ pc \in {"off", "join", "embed", "client", "rollback", "fail",
               "grant", "put", "serve", "up", "revoke", "exit"}
    /\ joined \in BOOLEAN
    /\ memberID \in Member \cup {0}
    /\ cancelled \in BOOLEAN
    /\ tasks \subseteq Member
    /\ rec \in {"off", "on"}
    /\ lease \in Lease \cup {0}
    /\ alive \in BOOLEAN
    /\ loop \in {"off", "watch", "grant", "put", "store"}
    /\ newLease \in Lease \cup {0}
    /\ evict \in {"idle", "found", "deleted"}
    /\ target \in Member \cup {0}
    /\ evicted \in BOOLEAN
    /\ retried \in BOOLEAN

\* A server may be a member already, by the static bootstrap of its cluster.
Init ==
    /\ role \in Roles
    /\ members \in {{}} \cup {{m} : m \in Member}
    /\ role = "agent" => members = {}
    /\ leases = {} /\ key = 0
    /\ pc = "off"
    /\ joined = FALSE /\ memberID = 0
    /\ cancelled = FALSE
    /\ tasks = {} /\ rec = "off"
    /\ lease = 0 /\ alive = FALSE /\ loop = "off" /\ newLease = 0
    /\ evict = "idle" /\ target = 0
    /\ evicted = FALSE /\ retried = FALSE

\* The node's own calls go to its own etcd, which stops serving once its member
\* is removed; an agent talks to the seed endpoints.
Reachable == ~cancelled /\ (role = "server" => members # {})

\* An etcd call as its caller sees it.
Outcome(applied, acked) == acked => applied

----------------------------------------------------------------------------
\* Start-up.

\* Run starts the reconciler, then startEtcdAndClient.  A server joins
\* (cluster-state existing) or is started on the data of a member it already is.
Start ==
    /\ pc = "off"
    /\ cancelled' = FALSE
    /\ rec' = "on"
    /\ \/ role = "agent" /\ joined' = FALSE /\ pc' = "client"
       \/ role = "server" /\ joined' = TRUE /\ pc' = "join"
       \/ role = "server" /\ members # {} /\ joined' = FALSE /\ pc' = "embed"
    /\ UNCHANGED <<role, etcdVars, memberID, tasks, leaseVars, newLease,
                   evictVars, evicted, retried>>

\* JoinExistingCluster; when it fails nothing is rolled back.
Join(applied, acked) ==
    /\ pc = "join"
    /\ Outcome(applied, acked)
    /\ IF applied
       THEN /\ ~cancelled
            /\ members = {}
            /\ \E m \in Member \ (tasks \cup {target}) :
                  /\ members' = {m}
                  /\ memberID' = IF acked THEN m ELSE 0
       ELSE UNCHANGED <<members, memberID>>
    /\ pc' = IF acked THEN "embed" ELSE "fail"
    /\ UNCHANGED <<role, leases, key, joined, cancelled, tasks, rec, leaseVars,
                   newLease, evictVars, evicted, retried>>

\* StartEmbeddedServer returns an error, or the server within 30 s.
StartEmbedded(ok) ==
    /\ pc = "embed"
    /\ pc' = CASE ok -> "client" [] ~ok /\ joined -> "rollback" [] OTHER -> "fail"
    /\ UNCHANGED <<role, etcdVars, joinVars, cancelled, tasks, rec, leaseVars,
                   newLease, evictVars, evicted, retried>>

\* newClient; a server that joined rolls back when this fails too.
NewClient(ok) ==
    /\ pc = "client"
    /\ pc' = CASE ok -> "grant" [] ~ok /\ joined -> "rollback" [] OTHER -> "fail"
    /\ UNCHANGED <<role, etcdVars, joinVars, cancelled, tasks, rec, leaseVars,
                   newLease, evictVars, evicted, retried>>

\* RollbackMember, and reconciler.Add when it reports an error.
Rollback(applied, acked) ==
    /\ pc = "rollback"
    /\ Outcome(applied, acked)
    /\ applied => memberID \in members /\ ~cancelled
    /\ members' = IF applied THEN members \ {memberID} ELSE members
    /\ tasks' = IF acked THEN tasks ELSE tasks \cup {memberID}
    /\ pc' = "fail"
    /\ UNCHANGED <<role, leases, key, joinVars, cancelled, rec, leaseVars,
                   newLease, evictVars, evicted, retried>>

\* Run returns the error of startEtcdAndClient: it cancels the context first.
\* main then calls Shutdown, which finds nothing to do, and exits.
FailStart ==
    /\ pc = "fail"
    /\ cancelled' = TRUE
    /\ pc' = "exit"
    /\ UNCHANGED <<role, etcdVars, joinVars, tasks, rec, leaseVars, newLease,
                   evictVars, evicted, retried>>

----------------------------------------------------------------------------
\* The reconciler.

\* runOnce on one due task.  Any error, also that the member is already gone,
\* schedules a retry.
ReconcileTask(m, applied, acked) ==
    /\ rec = "on"
    /\ m \in tasks
    /\ Outcome(applied, acked)
    /\ applied => m \in members /\ ~cancelled
    /\ members' = IF applied THEN members \ {m} ELSE members
    /\ tasks' = IF acked THEN tasks \ {m} ELSE tasks
    /\ retried' = TRUE
    /\ UNCHANGED <<role, leases, key, pc, joinVars, cancelled, rec, leaseVars,
                   newLease, evictVars, evicted>>

\* Its loop sees that the context is done.
ReconcilerStops ==
    /\ rec = "on"
    /\ cancelled
    /\ rec' = "off"
    /\ UNCHANGED <<role, etcdVars, pc, joinVars, cancelled, tasks, leaseVars,
                   newLease, evictVars, evicted, retried>>

----------------------------------------------------------------------------
\* RegisterWithLease, at start-up (by main) and in recoverLease (by the
\* consumeKeepAlive goroutine).

\* Grant: a lease that is not acked is left to expire.
Grant(applied, acked) ==
    /\ Outcome(applied, acked)
    /\ IF applied
       THEN /\ Reachable
            /\ \E l \in Lease \ (leases \cup {lease, newLease}) :
                  /\ leases' = leases \cup {l}
                  /\ newLease' = IF acked THEN l ELSE newLease
       ELSE UNCHANGED <<leases, newLease>>

\* Mutant: the key is put without the lease, so nothing will remove it.
PutKeyForever(applied, acked) ==
    /\ Outcome(applied, acked)
    /\ applied => Reachable /\ newLease \in leases
    /\ key' = IF applied THEN newLease ELSE key
    /\ leases' = IF applied THEN leases \ {newLease} ELSE leases
    /\ evicted' = (evicted /\ ~applied)

\* Put of the node key with the lease: it moves the key from the lease it was
\* bound to before.
PutKey(applied, acked) ==
    /\ Outcome(applied, acked)
    /\ applied => Reachable /\ newLease \in leases
    /\ key' = IF applied THEN newLease ELSE key
    /\ UNCHANGED leases
    /\ evicted' = (evicted /\ ~applied)

RegisterGrant(applied, acked) ==
    /\ pc = "grant"
    /\ Grant(applied, acked)
    /\ pc' = IF acked THEN "put" ELSE "revoke"
    /\ UNCHANGED <<role, members, key, joinVars, cancelled, tasks, rec,
                   leaseVars, evictVars, evicted, retried>>

\* ... and registerNodeLease publishes the lease, and the loops are started.
RegisterPut(applied, acked) ==
    /\ pc = "put"
    /\ PutKey(applied, acked)
    /\ IF acked
       THEN pc' = "serve" /\ lease' = newLease /\ alive' = TRUE /\ loop' = "watch"
       ELSE pc' = "revoke" /\ UNCHANGED leaseVars
    /\ UNCHANGED <<role, members, joinVars, cancelled, tasks, rec, newLease,
                   evictVars, retried>>

\* Run starts the traffic plane and the HTTP server, which may fail.
Serve(ok) ==
    /\ pc = "serve"
    /\ pc' = IF ok THEN "up" ELSE "revoke"
    /\ UNCHANGED <<role, etcdVars, joinVars, cancelled, tasks, rec, leaseVars,
                   newLease, evictVars, evicted, retried>>

\* The etcd client gives up on the lease (or is cancelled) and closes the channel.
KeepAliveCloses ==
    /\ alive
    /\ alive' = FALSE
    /\ UNCHANGED <<role, etcdVars, pc, joinVars, cancelled, tasks, rec, lease,
                   loop, newLease, evictVars, evicted, retried>>

\* consumeKeepAlive sees the channel closed and calls recoverLease.
RecoverLease ==
    /\ loop = "watch"
    /\ ~alive
    /\ ~cancelled
    /\ loop' = "grant"
    /\ UNCHANGED <<role, etcdVars, pc, joinVars, cancelled, tasks, rec, lease,
                   alive, newLease, evictVars, evicted, retried>>

\* An attempt of recoverLease; a failed one is repeated after a back-off.
RecoverGrant(applied, acked) ==
    /\ loop = "grant"
    /\ Grant(applied, acked)
    /\ loop' = IF acked THEN "put" ELSE "grant"
    /\ UNCHANGED <<role, members, key, pc, joinVars, cancelled, tasks, rec,
                   lease, alive, evictVars, evicted, retried>>

\* Mutant: a failed attempt ends recovery.
RecoverPutGivesUp(applied, acked) ==
    /\ loop = "put"
    /\ PutKey(applied, acked)
    /\ loop' = IF acked THEN "store" ELSE "off"
    /\ UNCHANGED <<role, members, pc, joinVars, cancelled, tasks, rec, lease,
                   alive, newLease, evictVars, retried>>

RecoverPut(applied, acked) ==
    /\ loop = "put"
    /\ PutKey(applied, acked)
    /\ loop' = IF acked THEN "store" ELSE "grant"
    /\ UNCHANGED <<role, members, pc, joinVars, cancelled, tasks, rec, lease,
                   alive, newLease, evictVars, retried>>

\* Mutant: the new channel is stored, the new lease is not.
RecoverStoreChannelOnly ==
    /\ loop = "store"
    /\ alive' = TRUE
    /\ loop' = "watch"
    /\ UNCHANGED <<role, etcdVars, pc, joinVars, cancelled, tasks, rec, lease,
                   newLease, evictVars, evicted, retried>>

\* registerNodeLease stores the new lease and channel under leaseMu.
RecoverStore ==
    /\ loop = "store"
    /\ lease' = newLease
    /\ alive' = TRUE
    /\ loop' = "watch"
    /\ UNCHANGED <<role, etcdVars, pc, joinVars, cancelled, tasks, rec,
                   newLease, evictVars, evicted, retried>>

\* The goroutine sees that the context is done, at one of its waits.
LoopStops ==
    /\ loop \in {"watch", "grant"}
    /\ cancelled
    /\ loop' = "off"
    /\ UNCHANGED <<role, etcdVars, pc, joinVars, cancelled, tasks, rec, lease,
                   alive, newLease, evictVars, evicted, retried>>

\* etcd has not heard of the lease for its TTL (or was cut off from the node
\* for as long): the lease goes, and the key bound to it.
LeaseExpires(l) ==
    /\ l \in leases
    /\ leases' = leases \ {l}
    /\ key' = IF key = l THEN 0 ELSE key
    /\ UNCHANGED <<role, members, pc, joinVars, cancelled, tasks, rec,
                   leaseVars, newLease, evictVars, evicted, retried>>

----------------------------------------------------------------------------
\* Shutdown.

\* A signal ends the context of main, of which Run's is a child, at any point.
Signal ==
    /\ pc # "off"
    /\ ~cancelled
    /\ cancelled' = TRUE
    /\ UNCHANGED <<role, etcdVars, pc, joinVars, tasks, rec, leaseVars,
                   newLease, evictVars, evicted, retried>>

\* main, waiting for the signal, calls Shutdown.
Stop ==
    /\ pc = "up"
    /\ cancelled
    /\ pc' = "revoke"
    /\ UNCHANGED <<role, etcdVars, joinVars, cancelled, tasks, rec, leaseVars,
                   newLease, evictVars, evicted, retried>>

\* Shutdown cancels (after an error of Run); later it revokes the lease it then finds current.
ShutdownCancels ==
    /\ pc = "revoke"
    /\ ~cancelled
    /\ cancelled' = TRUE
    /\ UNCHANGED <<role, etcdVars, pc, joinVars, tasks, rec, leaseVars,
                   newLease, evictVars, evicted, retried>>

Revoke(applied, acked) ==
    /\ pc = "revoke"
    /\ cancelled
    /\ Outcome(applied, acked)
    /\ applied => lease \in leases /\ (role = "server" => members # {})
    /\ leases' = IF applied THEN leases \ {lease} ELSE leases
    /\ key' = IF applied /\ key = lease THEN 0 ELSE key
    /\ pc' = "exit"
    /\ UNCHANGED <<role, members, joinVars, cancelled, tasks, rec, leaseVars,
                   newLease, evictVars, evicted, retried>>

\* The process and its memory are gone.
Gone ==
    /\ pc' = "off"
    /\ joined' = FALSE /\ memberID' = 0
    /\ cancelled' = FALSE
    /\ tasks' = {} /\ rec' = "off"
    /\ lease' = 0 /\ alive' = FALSE /\ loop' = "off" /\ newLease' = 0

\* backgroundWG.Wait, then main exits.
Exit ==
    /\ pc = "exit"
    /\ rec = "off" /\ loop = "off"
    /\ Gone
    /\ UNCHANGED <<role, etcdVars, evictVars, evicted, retried>>

Crash ==
    /\ Crashes
    /\ pc # "off"
    /\ Gone
    /\ UNCHANGED <<role, etcdVars, evictVars, evicted, retried>>

----------------------------------------------------------------------------
\* EvictNode, called on another node.

\* GetNode finds the key, and for a server MemberList the member, unless it has
\* not published its name yet.  A leader is only evicted by force.
EvictLooksUp ==
    /\ evict = "idle"
    /\ key # 0
    /\ evict' = "found"
    /\ target' \in IF role = "server" THEN members \cup {0} ELSE {0}
    /\ UNCHANGED <<role, etcdVars, pc, joinVars, cancelled, tasks, rec,
                   leaseVars, newLease, evicted, retried>>

EvictDeletesKey(applied, acked) ==
    /\ evict = "found"
    /\ Outcome(applied, acked)
    /\ key' = IF applied THEN 0 ELSE key
    /\ evicted' = (evicted \/ applied)
    /\ evict' = IF acked /\ target # 0 THEN "deleted" ELSE "idle"
    /\ target' = IF acked THEN target ELSE 0
    /\ UNCHANGED <<role, members, leases, pc, joinVars, cancelled, tasks, rec,
                   leaseVars, newLease, retried>>

\* MemberRemove; if it fails the key stays deleted.
EvictRemovesMember(applied) ==
    /\ evict = "deleted"
    /\ applied => target \in members
    /\ members' = IF applied THEN members \ {target} ELSE members
    /\ evicted' = (evicted \/ applied)
    /\ evict' = "idle"
    /\ target' = 0
    /\ UNCHANGED <<role, leases, key, pc, joinVars, cancelled, tasks, rec,
                   leaseVars, newLease, retried>>

----------------------------------------------------------------------------
Booting ==
    \/ Start
    \/ \E applied, acked \in BOOLEAN : Join(applied, acked) \/ Rollback(applied, acked)
    \/ \E ok \in BOOLEAN : StartEmbedded(ok) \/ NewClient(ok)
    \/ FailStart

Reconciling ==
    \/ \E m \in tasks, applied, acked \in BOOLEAN : ReconcileTask(m, applied, acked)
    \/ ReconcilerStops

Registering ==
    \/ \E applied, acked \in BOOLEAN :
          RegisterGrant(applied, acked) \/ RegisterPut(applied, acked)
    \/ \E ok \in BOOLEAN : Serve(ok)

Recovering ==
    \/ RecoverLease
    \/ \E applied, acked \in BOOLEAN :
          RecoverGrant(applied, acked) \/ RecoverPut(applied, acked)
    \/ RecoverStore
    \/ LoopStops

Stopping ==
    \/ Stop \/ ShutdownCancels
    \/ \E applied, acked \in BOOLEAN : Revoke(applied, acked)
    \/ Exit

Evicting ==
    \/ EvictLooksUp
    \/ \E applied, acked \in BOOLEAN : EvictDeletesKey(applied, acked)
    \/ \E applied \in BOOLEAN : EvictRemovesMember(applied)

Next ==
    \/ Booting \/ Reconciling \/ Registering \/ Recovering
    \/ KeepAliveCloses
    \/ \E l \in leases : LeaseExpires(l)
    \/ Signal \/ Stopping \/ Crash
    \/ Evicting

Spec == Init /\ [][Next]_vars

(***************************************************************************)
(* Fairness.  Goroutines that can go on do; the ticker of the reconciler   *)
(* fires; the etcd client notices that its lease is gone; etcd expires the *)
(* leases that nobody keeps alive; and an attempt that is repeated for     *)
(* ever succeeds some time.  A process need not be started, nor stay up.   *)
(***************************************************************************)
Unattended(l) == ~(alive /\ lease = l)

Fairness ==
    /\ WF_vars(Registering) /\ WF_vars(Recovering) /\ WF_vars(Stopping)
    /\ WF_vars(Reconciling) /\ WF_vars(FailStart)
    /\ WF_vars(lease \notin leases /\ KeepAliveCloses)
    /\ SF_vars(RecoverGrant(TRUE, TRUE))
    /\ SF_vars(RecoverPut(TRUE, TRUE))
    /\ \A l \in Lease : WF_vars(Unattended(l) /\ LeaseExpires(l))

LiveSpec == Spec /\ Fairness

----------------------------------------------------------------------------
(***************************************************************************)
(* The process has its lease, and the key, in step: when the key-alive     *)
(* channel is open, its lease has not expired and nobody evicted the node, *)
(* the node's key is bound to that very lease, whatever attempts to        *)
(* recover were half applied before.  Only then does keeping the lease     *)
(* alive keep the node registered, and does Shutdown's Revoke remove it.   *)
(***************************************************************************)
HealthyIsRegistered ==
    loop = "watch" /\ alive /\ lease \in leases /\ ~evicted => key = lease

(***************************************************************************)
(* A node that is up and has not been evicted gets its key back after its  *)
(* lease was lost, for as long as it stays up.                             *)
(***************************************************************************)
StaysRegistered ==
    (pc = "up" /\ ~evicted) ~> (key # 0 \/ cancelled \/ pc = "off" \/ evicted)

(***************************************************************************)
(* A process that is gone is forgotten: its key disappears unless it is    *)
(* started again, even if it died, or was shut down, in the middle of      *)
(* registering.                                                            *)
(***************************************************************************)
GoneIsForgotten == (pc = "off") ~> (key = 0 \/ pc # "off")

(***************************************************************************)
(* docs/zh/architecture/control-plane-design.md:56: when the rollback of   *)
(* the member fails the reconciler keeps a task and retries.               *)
(***************************************************************************)
TaskIsRetried == (tasks # {}) ~> retried

=============================================================================
