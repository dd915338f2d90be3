------------------------ MODULE NodeLifecycleProofs -------------------------
(***************************************************************************)
(* Proofs about NodeLifecycle, for any lease and member IDs, any roles,    *)
(* with and without crashes: the types, and that a process whose lease is  *)
(* healthy is registered under that lease.                                 *)
(***************************************************************************)
EXTENDS NodeLifecycle, TLAPS

\* The types need one fact about the control: a run that has joined knows the
\* member it may have to roll back.
KnowsMember ==
    /\ joined /\ pc \in {"embed", "client"} => memberID \in Member
    /\ pc = "rollback" => memberID \in Member

TypeInv == TypeOK /\ KnowsMember

\* Etcd calls that both registrations make.
LEMMA GrantType ==
    ASSUME TypeOK, NEW applied, NEW acked, Grant(applied, acked)
    PROVE  /\ leases' \subseteq Lease /\ leases \subseteq leases'
           /\ newLease' \in Lease \cup {0}
  BY DEF Grant, TypeOK

LEMMA PutKeyType ==
    ASSUME TypeOK, NEW applied \in BOOLEAN, NEW acked, PutKey(applied, acked)
    PROVE  /\ key' \in leases \cup {0} /\ leases' = leases
           /\ evicted' \in BOOLEAN
  BY DEF PutKey, TypeOK

LEMMA BootingType ==
    ASSUME TypeInv, Booting
    PROVE  TypeInv'
  <1>1. CASE Start
    <2>0. cancelled' \in BOOLEAN /\ joined' \in BOOLEAN
      BY <1>1, Zenon DEF Start
    <2>1. TypeOK'
      BY <1>1, <2>0 DEF Start, TypeInv, TypeOK, etcdVars, leaseVars, evictVars
    <2>2. KnowsMember'
      BY <1>1 DEF Start, KnowsMember
    <2> QED
      BY <2>1, <2>2 DEF TypeInv
  <1>2. ASSUME NEW applied \in BOOLEAN, NEW acked \in BOOLEAN, Join(applied, acked)
        PROVE  TypeInv'
    BY <1>2 DEF Join, Outcome, TypeInv, TypeOK, KnowsMember, leaseVars, evictVars
  <1>3. ASSUME NEW applied \in BOOLEAN, NEW acked \in BOOLEAN, Rollback(applied, acked)
        PROVE  TypeInv'
    BY <1>3 DEF Rollback, TypeInv, TypeOK, KnowsMember, joinVars, leaseVars, evictVars
  <1>4. ASSUME NEW okay \in BOOLEAN, StartEmbedded(okay) \/ NewClient(okay)
        PROVE  TypeInv'
    BY <1>4 DEF StartEmbedded, NewClient, TypeInv, TypeOK, KnowsMember, etcdVars, joinVars,
                leaseVars, evictVars
  <1>5. CASE FailStart
    BY <1>5 DEF FailStart, TypeInv, TypeOK, KnowsMember, etcdVars, joinVars, leaseVars,
                evictVars
  <1> QED
    BY <1>1, <1>2, <1>3, <1>4, <1>5 DEF Booting

LEMMA ReconcilingType ==
    ASSUME TypeInv, Reconciling
    PROVE  TypeInv'
  <1>1. ASSUME NEW m \in tasks, NEW applied \in BOOLEAN, NEW acked \in BOOLEAN,
               ReconcileTask(m, applied, acked)
        PROVE  TypeInv'
    BY <1>1 DEF ReconcileTask, TypeInv, TypeOK, KnowsMember, joinVars, leaseVars, evictVars
  <1>2. CASE ReconcilerStops
    BY <1>2 DEF ReconcilerStops, TypeInv, TypeOK, KnowsMember, etcdVars, joinVars, leaseVars,
                evictVars
  <1> QED
    BY <1>1, <1>2 DEF Reconciling

LEMMA RegisteringType ==
    ASSUME TypeInv, Registering
    PROVE  TypeInv'
  <1>1. ASSUME NEW applied \in BOOLEAN, NEW acked \in BOOLEAN, RegisterGrant(applied, acked)
        PROVE  TypeInv'
    <2>1. Grant(applied, acked)
      BY <1>1 DEF RegisterGrant
    <2> QED
      BY <1>1, <2>1, GrantType DEF RegisterGrant, TypeInv, TypeOK, KnowsMember, joinVars,
                                   leaseVars, evictVars
  <1>2. ASSUME NEW applied \in BOOLEAN, NEW acked \in BOOLEAN, RegisterPut(applied, acked)
        PROVE  TypeInv'
    <2>1. PutKey(applied, acked)
      BY <1>2 DEF RegisterPut
    <2>0. alive' \in BOOLEAN
      BY <1>2, Zenon DEF RegisterPut, leaseVars, TypeInv, TypeOK
    <2>2. TypeOK'
      BY <1>2, <2>0, <2>1, PutKeyType DEF RegisterPut, TypeInv, TypeOK, joinVars, leaseVars,
                                    evictVars
    <2>3. KnowsMember'
      BY <1>2 DEF RegisterPut, KnowsMember
    <2> QED
      BY <2>2, <2>3 DEF TypeInv
  <1>3. ASSUME NEW okay \in BOOLEAN, Serve(okay)
        PROVE  TypeInv'
    BY <1>3 DEF Serve, TypeInv, TypeOK, KnowsMember, etcdVars, joinVars, leaseVars, evictVars
  <1> QED
    BY <1>1, <1>2, <1>3 DEF Registering

LEMMA RecoveringType ==
    ASSUME TypeInv, Recovering
    PROVE  TypeInv'
  <1>1. CASE RecoverLease \/ LoopStops
    BY <1>1 DEF RecoverLease, LoopStops, TypeInv, TypeOK, KnowsMember, etcdVars, joinVars,
                evictVars
  <1>2. ASSUME NEW applied \in BOOLEAN, NEW acked \in BOOLEAN, RecoverGrant(applied, acked)
        PROVE  TypeInv'
    <2>1. Grant(applied, acked)
      BY <1>2 DEF RecoverGrant
    <2> QED
      BY <1>2, <2>1, GrantType DEF RecoverGrant, TypeInv, TypeOK, KnowsMember, joinVars,
                                   evictVars
  <1>3. ASSUME NEW applied \in BOOLEAN, NEW acked \in BOOLEAN, RecoverPut(applied, acked)
        PROVE  TypeInv'
    <2>1. PutKey(applied, acked)
      BY <1>3 DEF RecoverPut
    <2> QED
      BY <1>3, <2>1, PutKeyType DEF RecoverPut, TypeInv, TypeOK, KnowsMember, joinVars,
                                    evictVars
  <1>4. CASE RecoverStore
    BY <1>4 DEF RecoverStore, TypeInv, TypeOK, KnowsMember, etcdVars, joinVars, evictVars
  <1> QED
    BY <1>1, <1>2, <1>3, <1>4 DEF Recovering

LEMMA StoppingType ==
    ASSUME TypeInv, Stopping \/ Signal \/ Crash
    PROVE  TypeInv'
  <1>1. CASE Stop \/ ShutdownCancels \/ Signal
    <2>0. cancelled' \in BOOLEAN
      BY <1>1, Zenon DEF Stop, ShutdownCancels, Signal, TypeInv, TypeOK
    <2>1. TypeOK'
      BY <1>1, <2>0 DEF Stop, ShutdownCancels, Signal, TypeInv, TypeOK, etcdVars, joinVars,
                  leaseVars, evictVars
    <2>2. KnowsMember'
      BY <1>1 DEF Stop, ShutdownCancels, Signal, TypeInv, KnowsMember, joinVars
    <2> QED
      BY <2>1, <2>2 DEF TypeInv
  <1>2. ASSUME NEW applied \in BOOLEAN, NEW acked \in BOOLEAN, Revoke(applied, acked)
        PROVE  TypeInv'
    BY <1>2 DEF Revoke, TypeInv, TypeOK, KnowsMember, joinVars, leaseVars, evictVars
  <1>3. CASE Exit \/ Crash
    BY <1>3 DEF Exit, Crash, Gone, TypeInv, TypeOK, KnowsMember, etcdVars, evictVars
  <1> QED
    BY <1>1, <1>2, <1>3 DEF Stopping

LEMMA OutsideType ==
    ASSUME TypeInv,
           KeepAliveCloses \/ (\E l \in leases : LeaseExpires(l)) \/ Evicting
    PROVE  TypeInv'
  <1>1. CASE KeepAliveCloses
    <2>1. alive' \in BOOLEAN
      BY <1>1, Zenon DEF KeepAliveCloses
    <2> QED
      BY <1>1, <2>1 DEF KeepAliveCloses, TypeInv, TypeOK, KnowsMember, etcdVars, joinVars,
                        evictVars
  <1>2. ASSUME NEW l \in leases, LeaseExpires(l)
        PROVE  TypeInv'
    BY <1>2 DEF LeaseExpires, TypeInv, TypeOK, KnowsMember, joinVars, leaseVars, evictVars
  <1>3. CASE EvictLooksUp
    BY <1>3 DEF EvictLooksUp, TypeInv, TypeOK, KnowsMember, etcdVars, joinVars, leaseVars
  <1>4. ASSUME NEW applied \in BOOLEAN, NEW acked \in BOOLEAN, EvictDeletesKey(applied, acked)
        PROVE  TypeInv'
    BY <1>4 DEF EvictDeletesKey, TypeInv, TypeOK, KnowsMember, joinVars, leaseVars
  <1>5. ASSUME NEW applied \in BOOLEAN, EvictRemovesMember(applied)
        PROVE  TypeInv'
    BY <1>5 DEF EvictRemovesMember, TypeInv, TypeOK, KnowsMember, joinVars, leaseVars
  <1> QED
    BY <1>1, <1>2, <1>3, <1>4, <1>5 DEF Evicting

LEMMA TypeInvariant == Spec => []TypeInv
  <1>1. Init => TypeInv
    BY DEF Init, TypeInv, TypeOK, KnowsMember
  <1>2. TypeInv /\ [Next]_vars => TypeInv'
    <2>1. SUFFICES ASSUME TypeInv, [Next]_vars PROVE TypeInv'
      OBVIOUS
    <2>2. CASE UNCHANGED vars
      BY <2>1, <2>2 DEF vars, etcdVars, joinVars, leaseVars, evictVars, TypeInv, TypeOK,
                        KnowsMember
    <2> QED
      BY <2>1, <2>2, BootingType, ReconcilingType, RegisteringType, RecoveringType,
         StoppingType, OutsideType DEF Next
  <1> QED
    BY <1>1, <1>2, PTL DEF Spec

(***************************************************************************)
(* The types of NodeLifecycle.  The key in etcd is bound to a live lease   *)
(* or absent (registry/nodes.go:46), and what the reconciler is given is a *)
(* member that MemberAdd returned (app.go:235, 247).                       *)
(***************************************************************************)
THEOREM TypeCorrect == Spec => []TypeOK
  <1>1. TypeInv => TypeOK
    BY DEF TypeInv
  <1> QED
    BY <1>1, TypeInvariant, PTL

----------------------------------------------------------------------------
(***************************************************************************)
(* HealthyIsRegistered is not inductive: storing a lease makes the process *)
(* healthy, so the lease that is about to be stored has to have the key    *)
(* already (StoredNext); and the two goroutines that register, main and    *)
(* consumeKeepAlive, must not both be at it (OneRegisters).                *)
(***************************************************************************)
OneRegisters ==
    pc \in {"off", "join", "embed", "client", "rollback", "fail", "grant", "put"}
        => loop = "off"

StoredNext ==
    loop = "store" /\ newLease \in leases /\ ~evicted => key = newLease

LeaseInv == OneRegisters /\ StoredNext /\ HealthyIsRegistered

\* A step that leaves the lease, the key and their goroutines alone.
LEMMA LeaseUntouched ==
    ASSUME LeaseInv,
           UNCHANGED <<leases, key, lease, loop, newLease, evicted>>,
           alive' => alive,
           pc' \in {"off", "join", "embed", "client", "rollback", "fail", "grant", "put"}
               => pc \in {"off", "join", "embed", "client", "rollback", "fail", "grant", "put"}
    PROVE  LeaseInv'
  BY DEF LeaseInv, OneRegisters, StoredNext, HealthyIsRegistered

LEMMA BootingLease ==
    ASSUME LeaseInv, Booting \/ Reconciling
    PROVE  LeaseInv'
  <1>1. CASE Start \/ FailStart \/ ReconcilerStops
    BY <1>1, LeaseUntouched DEF Start, FailStart, ReconcilerStops, etcdVars, leaseVars
  <1>2. ASSUME NEW applied \in BOOLEAN, NEW acked \in BOOLEAN,
               \/ Join(applied, acked) \/ Rollback(applied, acked)
               \/ \E m \in tasks : ReconcileTask(m, applied, acked)
        PROVE  LeaseInv'
    BY <1>2, LeaseUntouched DEF Join, Rollback, ReconcileTask, leaseVars
  <1>3. ASSUME NEW okay \in BOOLEAN, StartEmbedded(okay) \/ NewClient(okay)
        PROVE  LeaseInv'
    BY <1>3, LeaseUntouched DEF StartEmbedded, NewClient, etcdVars, leaseVars
  <1> QED
    BY <1>1, <1>2, <1>3 DEF Booting, Reconciling

LEMMA RegisteringLease ==
    ASSUME TypeOK, LeaseInv, Registering
    PROVE  LeaseInv'
  <1>1. ASSUME NEW applied \in BOOLEAN, NEW acked \in BOOLEAN, RegisterGrant(applied, acked)
        PROVE  LeaseInv'
    <2>1. loop' = "off"
      BY <1>1 DEF RegisterGrant, leaseVars, LeaseInv, OneRegisters
    <2> QED
      BY <2>1 DEF LeaseInv, OneRegisters, StoredNext, HealthyIsRegistered
  <1>2. ASSUME NEW applied \in BOOLEAN, NEW acked \in BOOLEAN, RegisterPut(applied, acked)
        PROVE  LeaseInv'
    <2>1. CASE acked
      <3>1. key' = newLease /\ lease' = newLease /\ loop' = "watch" /\ pc' = "serve"
        BY <1>2, <2>1 DEF RegisterPut, PutKey, Outcome
      <3> QED
        BY <3>1 DEF LeaseInv, OneRegisters, StoredNext, HealthyIsRegistered
    <2>2. CASE ~acked
      <3>1. loop' = "off"
        BY <1>2, <2>2 DEF RegisterPut, leaseVars, LeaseInv, OneRegisters
      <3> QED
        BY <3>1 DEF LeaseInv, OneRegisters, StoredNext, HealthyIsRegistered
    <2> QED
      BY <2>1, <2>2
  <1>3. ASSUME NEW okay \in BOOLEAN, Serve(okay)
        PROVE  LeaseInv'
    BY <1>3, LeaseUntouched DEF Serve, etcdVars, leaseVars
  <1> QED
    BY <1>1, <1>2, <1>3 DEF Registering

LEMMA RecoveringLease ==
    ASSUME TypeOK, LeaseInv, Recovering
    PROVE  LeaseInv'
  <1>1. CASE RecoverLease \/ LoopStops
    BY <1>1 DEF RecoverLease, LoopStops, LeaseInv, OneRegisters, StoredNext,
                HealthyIsRegistered
  <1>2. ASSUME NEW applied \in BOOLEAN, NEW acked \in BOOLEAN, RecoverGrant(applied, acked)
        PROVE  LeaseInv'
    BY <1>2 DEF RecoverGrant, LeaseInv, OneRegisters, StoredNext, HealthyIsRegistered
  <1>3. ASSUME NEW applied \in BOOLEAN, NEW acked \in BOOLEAN, RecoverPut(applied, acked)
        PROVE  LeaseInv'
    <2>1. loop = "put" /\ pc' = pc /\ loop' = IF acked THEN "store" ELSE "grant"
      BY <1>3 DEF RecoverPut
    <2>2. acked => key' = newLease /\ newLease' = newLease
      BY <1>3 DEF RecoverPut, PutKey, Outcome
    <2> QED
      BY <2>1, <2>2 DEF LeaseInv, OneRegisters, StoredNext, HealthyIsRegistered
  <1>4. CASE RecoverStore
    BY <1>4 DEF RecoverStore, etcdVars, LeaseInv, OneRegisters, StoredNext,
                HealthyIsRegistered
  <1> QED
    BY <1>1, <1>2, <1>3, <1>4 DEF Recovering

LEMMA StoppingLease ==
    ASSUME TypeOK, LeaseInv, Stopping \/ Signal \/ Crash
    PROVE  LeaseInv'
  <1>1. CASE Stop \/ ShutdownCancels \/ Signal
    BY <1>1, LeaseUntouched DEF Stop, ShutdownCancels, Signal, etcdVars, leaseVars
  <1>2. ASSUME NEW applied \in BOOLEAN, NEW acked \in BOOLEAN, Revoke(applied, acked)
        PROVE  LeaseInv'
    <2>1. /\ pc' = "exit" /\ UNCHANGED <<lease, alive, loop, newLease, evicted>>
          /\ \/ UNCHANGED <<leases, key>>
             \/ /\ leases' = leases \ {lease}
                /\ key' = IF key = lease THEN 0 ELSE key
      BY <1>2 DEF Revoke, leaseVars
    <2> QED
      BY <2>1 DEF LeaseInv, OneRegisters, StoredNext, HealthyIsRegistered
  <1>3. CASE Exit \/ Crash
    BY <1>3 DEF Exit, Crash, Gone, LeaseInv, OneRegisters, StoredNext, HealthyIsRegistered
  <1> QED
    BY <1>1, <1>2, <1>3 DEF Stopping

LEMMA OutsideLease ==
    ASSUME TypeOK, LeaseInv,
           KeepAliveCloses \/ (\E l \in leases : LeaseExpires(l)) \/ Evicting
    PROVE  LeaseInv'
  <1>1. CASE KeepAliveCloses
    BY <1>1, LeaseUntouched DEF KeepAliveCloses, etcdVars
  <1>2. ASSUME NEW l \in leases, LeaseExpires(l)
        PROVE  LeaseInv'
    BY <1>2 DEF LeaseExpires, leaseVars, LeaseInv, OneRegisters, StoredNext,
                HealthyIsRegistered
  <1>3. CASE EvictLooksUp
    BY <1>3, LeaseUntouched DEF EvictLooksUp, etcdVars, leaseVars
  <1>4. ASSUME NEW applied \in BOOLEAN, NEW acked \in BOOLEAN, EvictDeletesKey(applied, acked)
        PROVE  LeaseInv'
    <2>1. /\ UNCHANGED <<leases, pc, lease, alive, loop, newLease>>
          /\ evicted' \/ UNCHANGED <<key, evicted>>
      BY <1>4 DEF EvictDeletesKey, leaseVars, TypeOK
    <2> QED
      BY <2>1 DEF LeaseInv, OneRegisters, StoredNext, HealthyIsRegistered
  <1>5. ASSUME NEW applied \in BOOLEAN, EvictRemovesMember(applied)
        PROVE  LeaseInv'
    <2>1. /\ UNCHANGED <<leases, key, pc, lease, alive, loop, newLease>>
          /\ evicted' \/ UNCHANGED evicted
      BY <1>5 DEF EvictRemovesMember, leaseVars, TypeOK
    <2> QED
      BY <2>1 DEF LeaseInv, OneRegisters, StoredNext, HealthyIsRegistered
  <1> QED
    BY <1>1, <1>2, <1>3, <1>4, <1>5 DEF Evicting

(***************************************************************************)
(* A process that keeps a live lease alive, and was not evicted, has its   *)
(* key bound to that very lease (app.go:308, registry/nodes.go:46), after  *)
(* any number of half applied attempts to register, losses of the lease,   *)
(* crashes and restarts.                                                   *)
(***************************************************************************)
THEOREM HealthyTheorem == Spec => []HealthyIsRegistered
  <1>1. Init => LeaseInv
    BY DEF Init, LeaseInv, OneRegisters, StoredNext, HealthyIsRegistered
  <1>2. TypeInv /\ LeaseInv /\ [Next]_vars => LeaseInv'
    <2>1. SUFFICES ASSUME TypeInv, LeaseInv, [Next]_vars PROVE LeaseInv'
      OBVIOUS
    <2>2. CASE UNCHANGED vars
      BY <2>1, <2>2, LeaseUntouched DEF vars, etcdVars, leaseVars
    <2>3. TypeOK
      BY <2>1 DEF TypeInv
    <2> QED
      BY <2>1, <2>2, <2>3, BootingLease, RegisteringLease, RecoveringLease, StoppingLease,
         OutsideLease DEF Next
  <1>3. LeaseInv => HealthyIsRegistered
    BY DEF LeaseInv
  <1> QED
    BY <1>1, <1>2, <1>3, TypeInvariant, PTL DEF Spec

=============================================================================
