----------------------- MODULE ServiceRegistryProofs -----------------------
(***************************************************************************)
(* Proofs about ServiceRegistry: types, NoSilentOverwrite, that the API    *)
(* implements ConfigStore, and that the answers of PUT are right.          *)
(***************************************************************************)
EXTENDS ServiceRegistry, TLAPS

\* One write of etcd that some handler asks for.
Write(c, s, item, base) ==
    /\ Commit(c, s, item, base)
    /\ base # 0 => base = Current(s)
    /\ item # None => item.rev = rev + 1 /\ item.cfg \in Config
    /\ item = None => services[s] # None

\* What passes ApplyDefaults and Validate may be stored.
LEMMA Completed ==
    ASSUME NEW cfg \in Submitted, Validate(ApplyDefaults(cfg))
    PROVE  ApplyDefaults(cfg) \in Config
  BY SubmittedAssumption DEF Validate, ApplyDefaults, Config, Layer

\* A stored item is not None.
LEMMA ItemType ==
    ASSUME TypeOK, NEW cfg \in Config
    PROVE  /\ Item(cfg, rev + 1) \in ItemSet
           /\ Item(cfg, rev + 1) # None
           /\ Item(cfg, rev + 1).rev = rev + 1
           /\ Item(cfg, rev + 1).cfg = cfg
  <1>1. rev + 1 \in Nat
    BY MaxRevAssumption DEF TypeOK
  <1>2. Item(cfg, rev + 1) \in ItemSet
    BY <1>1 DEF Item, ItemSet
  <1> QED
    BY <1>2, NoneAssumption DEF Item

\* The revisions a client may name are natural numbers.
LEMMA VersionsType ==
    ASSUME TypeOK, NEW s \in Service, NEW base \in Versions(s)
    PROVE  base \in Nat
  <1>1. DOMAIN log = 1..Len(log) /\ Len(log) \in Nat
    BY DEF TypeOK
  <1> QED
    BY <1>1 DEF Versions

\* A commit keeps the types of what is in etcd.
LEMMA CommitType ==
    ASSUME TypeOK, NEW c \in Client, NEW s \in Service,
           NEW item \in ItemSet \cup {None}, NEW base \in Nat,
           Commit(c, s, item, base)
    PROVE  /\ services' \in [Service -> ItemSet \cup {None}]
           /\ rev' \in 0..MaxRev
           /\ log' \in Seq([svc : Service, base : Nat, kept : BOOLEAN])
           /\ Len(log') = rev'
           /\ wrote' \in [Client -> 0..MaxRev]
  <1>1. services' \in [Service -> ItemSet \cup {None}]
    BY DEF Commit, TypeOK
  <1>2. rev + 1 \in 0..MaxRev
    BY MaxRevAssumption DEF Commit, TypeOK
  <1>3. wrote' \in [Client -> 0..MaxRev]
    BY <1>2 DEF Commit, TypeOK
  <1>4. (item # None) \in BOOLEAN
    OBVIOUS
  <1>5. [svc |-> s, base |-> base, kept |-> item # None]
           \in [svc : Service, base : Nat, kept : BOOLEAN]
    BY <1>4
  <1>6. /\ log' \in Seq([svc : Service, base : Nat, kept : BOOLEAN])
        /\ Len(log') = Len(log) + 1
    BY <1>5 DEF Commit, TypeOK
  <1> QED
    BY <1>1, <1>2, <1>3, <1>6 DEF Commit, TypeOK

\* Nothing committed, nothing changed.
LEMMA NoCommitType ==
    ASSUME TypeOK, NEW c \in Client, NoCommit(c)
    PROVE  /\ services' \in [Service -> ItemSet \cup {None}]
           /\ rev' \in 0..MaxRev
           /\ log' \in Seq([svc : Service, base : Nat, kept : BOOLEAN])
           /\ Len(log') = rev'
           /\ wrote' \in [Client -> 0..MaxRev]
  <1>1. wrote' \in [Client -> 0..MaxRev]
    BY MaxRevAssumption DEF NoCommit, TypeOK
  <1> QED
    BY <1>1 DEF NoCommit, etcdVars, TypeOK

\* What etcd holds keeps its types in every step.
EtcdTypes ==
    /\ services \in [Service -> ItemSet \cup {None}]
    /\ rev \in 0..MaxRev
    /\ log \in Seq([svc : Service, base : Nat, kept : BOOLEAN])
    /\ Len(log) = rev
    /\ wrote \in [Client -> 0..MaxRev]

Status == {0, 200, 201, 400, 404, 409, 500}
Kind == {"none", "get", "post", "put", "delete"}

\* A handler that receives a request and answers it in one step.
LEMMA AnsweredType ==
    ASSUME TypeOK, NEW c \in Client, NEW s \in Service, NEW base \in Nat,
           NEW kind \in Kind, NEW status \in Status, NEW item \in ItemSet \cup {None},
           Receive(c, kind, s, base), Answer(c, status, item), EtcdTypes'
    PROVE  TypeOK'
  <1>1. req' \in [Client -> [kind : Kind, svc : Service \cup {None}, base : Nat]]
    BY DEF Receive, TypeOK, Kind
  <1>2. resp' \in [Client -> [status : Status, item : ItemSet \cup {None}]]
    BY DEF Answer, TypeOK, Status
  <1>3. pc' \in [Client -> {"idle", "get", "latest"}]
    BY DEF Answer, TypeOK
  <1>4. \A d \in Client : pc'[d] # "idle" => req'[d].kind = "put" /\ req'[d].svc \in Service
    BY DEF Answer, Receive, TypeOK
  <1> QED
    BY <1>1, <1>2, <1>3, <1>4 DEF TypeOK, EtcdTypes, Status, Kind

\* What every step does to etcd: nothing, or one write.
LEMMA EtcdStep ==
    ASSUME TypeOK, [Next]_vars
    PROVE  \/ UNCHANGED etcdVars
           \/ \E c \in Client, s \in Service, item \in ItemSet \cup {None}, base \in Nat :
                 Write(c, s, item, base)
  <1>1. CASE UNCHANGED vars
    BY <1>1 DEF vars
  <1>2. CASE Next
    <2>1. PICK c \in Client :
             \/ \E s \in Service :
                   \/ Get(c, s) \/ PutWithoutVersion(c, s)
                   \/ \E applied, acked \in BOOLEAN : Delete(c, s, applied, acked)
                   \/ \E cfg \in Submitted :
                         \/ \E kind \in {"post", "put"} : Refuse(c, kind, s, cfg)
                         \/ \E applied, acked \in BOOLEAN : Post(c, s, cfg, applied, acked)
                         \/ \E base \in Versions(s) :
                               \/ UpdateWithRevision(c, s, cfg, base)
                               \/ UpdateFails(c, s, cfg, base)
             \/ UpdatedGet(c) \/ ConflictGet(c)
      BY <1>2 DEF Next
    <2>2. CASE UpdatedGet(c) \/ ConflictGet(c)
      BY <2>2 DEF UpdatedGet, ConflictGet
    <2>3. ASSUME NEW s \in Service,
                 Get(c, s) \/ PutWithoutVersion(c, s)
                    \/ \E cfg \in Submitted, kind \in {"post", "put"} : Refuse(c, kind, s, cfg)
          PROVE  UNCHANGED etcdVars
      BY <2>3 DEF Get, PutWithoutVersion, Refuse, NoCommit
    <2>4. ASSUME NEW s \in Service, NEW applied \in BOOLEAN, NEW acked \in BOOLEAN,
                 Delete(c, s, applied, acked)
          PROVE  UNCHANGED etcdVars \/ Write(c, s, None, 0)
      BY <2>4 DEF Delete, NoCommit, Write
    <2>5. ASSUME NEW s \in Service, NEW cfg \in Submitted,
                 NEW applied \in BOOLEAN, NEW acked \in BOOLEAN,
                 Post(c, s, cfg, applied, acked)
          PROVE  \/ UNCHANGED etcdVars
                 \/ \E item \in ItemSet : Write(c, s, item, 0)
      <3>1. ApplyDefaults(cfg) \in Config
        BY <2>5, Completed DEF Post
      <3>2. UNCHANGED etcdVars \/ Commit(c, s, Item(ApplyDefaults(cfg), rev + 1), 0)
        BY <2>5 DEF Post, NoCommit
      <3> QED
        BY <3>1, <3>2, ItemType DEF Write
    <2>6. ASSUME NEW s \in Service, NEW cfg \in Submitted, NEW base \in Versions(s),
                 UpdateWithRevision(c, s, cfg, base) \/ UpdateFails(c, s, cfg, base)
          PROVE  \/ UNCHANGED etcdVars
                 \/ \E item \in ItemSet : Write(c, s, item, base)
      <3>1. ApplyDefaults(cfg) \in Config
        BY <2>6, Completed DEF UpdateWithRevision, UpdateFails
      <3>2. \/ UNCHANGED etcdVars
            \/ /\ Commit(c, s, Item(ApplyDefaults(cfg), rev + 1), base)
               /\ base = Current(s)
        BY <2>6 DEF UpdateWithRevision, UpdateFails, NoCommit, Compare
      <3> QED
        BY <3>1, <3>2, ItemType DEF Write
    <2> QED
      BY <2>1, <2>2, <2>3, <2>4, <2>5, <2>6, VersionsType
  <1> QED
    BY <1>1, <1>2

\* The types are kept by every step.
LEMMA TypeStep ==
    ASSUME TypeOK, [Next]_vars
    PROVE  TypeOK'
  <1>1. CASE UNCHANGED vars
    BY <1>1 DEF vars, etcdVars, TypeOK
  <1>2. ASSUME NEW c \in Client, UpdatedGet(c) \/ ConflictGet(c)
        PROVE  TypeOK'
    <2>1. UNCHANGED <<etcdVars, req, wrote>>
      BY <1>2 DEF UpdatedGet, ConflictGet
    <2>2. services[req[c].svc] \in ItemSet \cup {None}
      BY <1>2 DEF UpdatedGet, ConflictGet, TypeOK
    <2>3. PICK status \in Status, item \in ItemSet \cup {None} : Answer(c, status, item)
      BY <1>2, <2>2 DEF UpdatedGet, ConflictGet, Status
    <2>4. resp' \in [Client -> [status : Status, item : ItemSet \cup {None}]]
      BY <2>3 DEF Answer, TypeOK, Status
    <2>5. /\ pc' \in [Client -> {"idle", "get", "latest"}]
          /\ \A d \in Client : pc'[d] # "idle" => pc[d] # "idle"
      BY <2>3 DEF Answer, TypeOK
    <2> QED
      BY <2>1, <2>4, <2>5 DEF etcdVars, TypeOK, Status
  <1>3. ASSUME NEW c \in Client, NEW s \in Service, Get(c, s)
        PROVE  TypeOK'
    <2>1. EtcdTypes'
      BY <1>3, NoCommitType DEF Get, EtcdTypes
    <2>2. services[s] \in ItemSet \cup {None}
      BY DEF TypeOK
    <2>3. PICK status \in Status, item \in ItemSet \cup {None} : Answer(c, status, item)
      BY <1>3, <2>2 DEF Get, Status
    <2> QED
      BY <1>3, <2>1, <2>3, AnsweredType DEF Get, Kind
  <1>4. ASSUME NEW c \in Client, NEW s \in Service, PutWithoutVersion(c, s)
        PROVE  TypeOK'
    <2>1. EtcdTypes'
      BY <1>4, NoCommitType DEF PutWithoutVersion, EtcdTypes
    <2> QED
      BY <1>4, <2>1, AnsweredType DEF PutWithoutVersion, Kind, Status
  <1>5. ASSUME NEW c \in Client, NEW s \in Service, NEW cfg \in Submitted,
               NEW kind \in {"post", "put"}, Refuse(c, kind, s, cfg)
        PROVE  TypeOK'
    <2>1. EtcdTypes'
      BY <1>5, NoCommitType DEF Refuse, EtcdTypes
    <2> QED
      BY <1>5, <2>1, AnsweredType DEF Refuse, Kind, Status
  <1>6. ASSUME NEW c \in Client, NEW s \in Service,
               NEW applied \in BOOLEAN, NEW acked \in BOOLEAN,
               Delete(c, s, applied, acked)
        PROVE  TypeOK'
    <2>1. EtcdTypes'
      BY <1>6, NoCommitType, CommitType DEF Delete, EtcdTypes
    <2>2. PICK status \in Status : Answer(c, status, None)
      BY <1>6 DEF Delete, Status
    <2> QED
      BY <1>6, <2>1, <2>2, AnsweredType DEF Delete, Kind
  <1>7. ASSUME NEW c \in Client, NEW s \in Service, NEW cfg \in Submitted,
               NEW applied \in BOOLEAN, NEW acked \in BOOLEAN,
               Post(c, s, cfg, applied, acked)
        PROVE  TypeOK'
    <2>1. Item(ApplyDefaults(cfg), rev + 1) \in ItemSet
      BY <1>7, Completed, ItemType DEF Post
    <2>2. EtcdTypes'
      BY <1>7, <2>1, NoCommitType, CommitType DEF Post, EtcdTypes
    <2>3. PICK status \in Status : Answer(c, status, None)
      BY <1>7 DEF Post, Status
    <2> QED
      BY <1>7, <2>2, <2>3, AnsweredType DEF Post, Kind
  <1>8. ASSUME NEW c \in Client, NEW s \in Service, NEW cfg \in Submitted,
               NEW base \in Versions(s), UpdateFails(c, s, cfg, base)
        PROVE  TypeOK'
    <2>1. Item(ApplyDefaults(cfg), rev + 1) \in ItemSet /\ base \in Nat
      BY <1>8, Completed, ItemType, VersionsType DEF UpdateFails
    <2>2. EtcdTypes'
      BY <1>8, <2>1, NoCommitType, CommitType DEF UpdateFails, EtcdTypes
    <2> QED
      BY <1>8, <2>1, <2>2, AnsweredType DEF UpdateFails, Kind, Status
  <1>9. ASSUME NEW c \in Client, NEW s \in Service, NEW cfg \in Submitted,
               NEW base \in Versions(s), UpdateWithRevision(c, s, cfg, base)
        PROVE  TypeOK'
    <2>1. Item(ApplyDefaults(cfg), rev + 1) \in ItemSet /\ base \in Nat
      BY <1>9, Completed, ItemType, VersionsType DEF UpdateWithRevision
    <2>2. EtcdTypes'
      BY <1>9, <2>1, NoCommitType, CommitType DEF UpdateWithRevision, EtcdTypes
    <2>3. req' \in [Client -> [kind : Kind, svc : Service \cup {None}, base : Nat]]
      BY <1>9, <2>1 DEF UpdateWithRevision, Receive, TypeOK, Kind
    <2>4. pc' \in [Client -> {"idle", "get", "latest"}] /\ UNCHANGED resp
      <3>1. \E at \in {"get", "latest"} : pc' = [pc EXCEPT ![c] = at]
        BY <1>9 DEF UpdateWithRevision
      <3>2. UNCHANGED resp
        BY <1>9 DEF UpdateWithRevision
      <3> QED
        BY <3>1, <3>2 DEF TypeOK
    <2>5. ASSUME NEW d \in Client, pc'[d] # "idle"
          PROVE  req'[d].kind = "put" /\ req'[d].svc \in Service
      BY <1>9, <2>5 DEF UpdateWithRevision, Receive, TypeOK
    <2> QED
      BY <2>2, <2>3, <2>4, <2>5 DEF TypeOK, EtcdTypes, Kind
  <1> QED
    BY <1>1, <1>2, <1>3, <1>4, <1>5, <1>6, <1>7, <1>8, <1>9 DEF Next

\* A commit adds one record to the history, and changes none.
LEMMA LogGrows ==
    ASSUME TypeOK, NEW c \in Client, NEW s \in Service,
           NEW item \in ItemSet \cup {None}, NEW base \in Nat,
           Commit(c, s, item, base)
    PROVE  /\ DOMAIN log = 1..rev
           /\ DOMAIN log' = 1..(rev + 1)
           /\ rev \in Nat
           /\ \A q \in 1..rev : log'[q] = log[q]
           /\ log'[rev + 1].svc = s
           /\ log'[rev + 1].base = base
  <1> DEFINE w == [svc |-> s, base |-> base, kept |-> item # None]
  <1>1. log' = Append(log, w) /\ rev = Len(log) /\ rev \in Nat
    BY DEF Commit, TypeOK
  <1>2. w.svc = s /\ w.base = base
    OBVIOUS
  <1>3. log \in Seq([svc : Service, base : Nat, kept : BOOLEAN])
    BY DEF TypeOK
  <1> HIDE DEF w
  <1>4. /\ DOMAIN log = 1..rev /\ DOMAIN log' = 1..(rev + 1)
        /\ \A q \in 1..rev : log'[q] = log[q]
        /\ log'[rev + 1] = w
    BY <1>1, <1>3
  <1> QED
    BY <1>1, <1>2, <1>4

\* The revision on a stored configuration stays that of the last write.
LEMMA RevisionInductive ==
    ASSUME TypeOK, RevisionIsLast, [Next]_vars
    PROVE  RevisionIsLast'
  <1>1. CASE UNCHANGED etcdVars
    BY <1>1 DEF etcdVars, RevisionIsLast
  <1>2. ASSUME NEW c \in Client, NEW s \in Service, NEW item \in ItemSet \cup {None},
               NEW base \in Nat, Write(c, s, item, base)
        PROVE  RevisionIsLast'
    <2>1. Commit(c, s, item, base)
      BY <1>2 DEF Write
    <2>0. /\ DOMAIN log = 1..rev /\ DOMAIN log' = 1..(rev + 1) /\ rev \in Nat
          /\ \A q \in 1..rev : log'[q] = log[q]
          /\ log'[rev + 1].svc = s /\ log'[rev + 1].base = base
      BY <2>1, LogGrows
    <2>2. SUFFICES ASSUME NEW t \in Service, services'[t] # None
                   PROVE  /\ services'[t].rev \in DOMAIN log'
                          /\ log'[services'[t].rev].svc = t
                          /\ \A q \in DOMAIN log' :
                                q > services'[t].rev => log'[q].svc # t
      BY DEF RevisionIsLast
    <2>3. CASE t = s
      <3>1. services'[t] = item
        BY <2>1, <2>3 DEF Commit, TypeOK
      <3>2. services'[t].rev = rev + 1
        BY <1>2, <2>2, <3>1 DEF Write
      <3> QED
        BY <2>0, <2>3, <3>2
    <2>4. CASE t # s
      <3>1. services'[t] = services[t]
        BY <2>1, <2>4 DEF Commit, TypeOK
      <3>2. /\ services[t].rev \in DOMAIN log
            /\ log[services[t].rev].svc = t
            /\ \A q \in DOMAIN log : q > services[t].rev => log[q].svc # t
        BY <2>2, <3>1 DEF RevisionIsLast
      <3> QED
        <4>1. services[t].rev \in 1..rev
          BY <3>2, <2>0
        <4>2. ASSUME NEW q \in 1..(rev + 1), q > services[t].rev
              PROVE  log'[q].svc # t
          <5>1. CASE q = rev + 1
            BY <5>1, <2>0, <2>4
          <5>2. CASE q \in 1..rev
            BY <5>2, <4>2, <3>2, <2>0
          <5> QED
            BY <5>1, <5>2, <2>0
        <4> QED
          BY <4>1, <4>2, <3>1, <3>2, <2>0
    <2> QED
      BY <2>3, <2>4
  <1> QED
    BY <1>1, <1>2, EtcdStep

\* Hence a conditional write follows the version it names.
LEMMA OverwriteInductive ==
    ASSUME TypeOK, RevisionIsLast, NoSilentOverwrite, [Next]_vars
    PROVE  NoSilentOverwrite'
  <1>1. CASE UNCHANGED etcdVars
    BY <1>1 DEF etcdVars, NoSilentOverwrite
  <1>2. ASSUME NEW c \in Client, NEW s \in Service, NEW item \in ItemSet \cup {None},
               NEW base \in Nat, Write(c, s, item, base)
        PROVE  NoSilentOverwrite'
    <2>1. Commit(c, s, item, base) /\ (base # 0 => base = Current(s))
      BY <1>2 DEF Write
    <2>0. /\ DOMAIN log = 1..rev /\ DOMAIN log' = 1..(rev + 1) /\ rev \in Nat
          /\ \A q \in 1..rev : log'[q] = log[q]
          /\ log'[rev + 1].svc = s /\ log'[rev + 1].base = base
      BY <2>1, LogGrows
    <2>2. base # 0 => /\ base \in 1..rev
                      /\ log[base].svc = s
                      /\ \A q \in (base + 1)..rev : log[q].svc # s
      BY <2>0, <2>1 DEF Current, RevisionIsLast
    <2>3. ASSUME NEW r \in 1..(rev + 1), log'[r].base # 0
          PROVE  /\ log'[r].base \in 1..(r - 1)
                 /\ log'[log'[r].base].svc = log'[r].svc
                 /\ \A q \in (log'[r].base + 1)..(r - 1) :
                       log'[q].svc # log'[r].svc
      <3>1. CASE r = rev + 1
        <4>1. base # 0 /\ log'[r].base = base /\ log'[r].svc = s
          BY <2>0, <2>3, <3>1
        <4>2. \A q \in (base + 1)..rev : log'[q] = log[q]
          BY <2>0, <2>2, <4>1
        <4> QED
          BY <2>0, <2>2, <3>1, <4>1, <4>2
      <3>2. CASE r \in 1..rev
        <4>1. log'[r] = log[r]
          BY <2>0, <3>2
        <4>2. /\ log[r].base \in 1..(r - 1)
              /\ log[log[r].base].svc = log[r].svc
              /\ \A q \in (log[r].base + 1)..(r - 1) : log[q].svc # log[r].svc
          BY <2>0, <2>3, <3>2, <4>1 DEF NoSilentOverwrite
        <4>3. \A q \in 1..(r - 1) : log'[q] = log[q]
          BY <2>0, <3>2
        <4>4. \A q \in (log[r].base + 1)..(r - 1) : q \in 1..(r - 1)
          BY <4>2, <3>2
        <4> QED
          BY <4>1, <4>2, <4>3, <4>4
      <3> QED
        BY <2>0, <3>1, <3>2
    <2> QED
      BY <2>0, <2>3 DEF NoSilentOverwrite
  <1> QED
    BY <1>1, <1>2, EtcdStep

\* The invariant holds initially.
LEMMA Initially ==
    ASSUME Init
    PROVE  IInv
  <1>1. DOMAIN log = {}
    BY DEF Init
  <1>2. TypeOK
    BY MaxRevAssumption DEF Init, TypeOK
  <1> QED
    BY <1>1, <1>2 DEF Init, IInv, RevisionIsLast, NoSilentOverwrite

\* The invariant holds in every reachable state.
LEMMA Invariant == Spec => []IInv
  <1>1. Init => IInv
    BY Initially
  <1>2. IInv /\ [Next]_vars => IInv'
    BY TypeStep, RevisionInductive, OverwriteInductive DEF IInv
  <1> QED
    BY <1>1, <1>2, PTL DEF Spec

(***************************************************************************)
(* The types of ServiceRegistry hold for any number of clients, services   *)
(* and writes (handlers of internal/httpapi, registry/services.go).        *)
(***************************************************************************)
THEOREM TypeCorrect == Spec => []TypeOK
  BY Invariant, PTL DEF IInv

(***************************************************************************)
(* UpdateWithRevision never overwrites a version its caller has not named, *)
(* for any number of clients, services and writes.                         *)
(***************************************************************************)
THEOREM NoSilentOverwriteTheorem == Spec => []NoSilentOverwrite
  BY Invariant, PTL DEF IInv

(***************************************************************************)
(* The API implements ConfigStore: every handler's effect on the services  *)
(* prefix is one Put of a valid configuration, one Delete, or nothing.     *)
(***************************************************************************)
THEOREM ImplementsStore == Spec => StoreSpec
  <1>1. Init => Store!Init
    BY DEF Init, Store!Init
  <1>2. TypeOK /\ [Next]_vars => [Store!Next]_<<services, rev>>
    <2>1. SUFFICES ASSUME TypeOK, [Next]_vars
                   PROVE  Store!Next \/ UNCHANGED <<services, rev>>
      OBVIOUS
    <2>2. CASE UNCHANGED etcdVars
      BY <2>2 DEF etcdVars
    <2>3. ASSUME NEW c \in Client, NEW s \in Service, NEW item \in ItemSet \cup {None},
                 NEW base \in Nat, Write(c, s, item, base)
          PROVE  Store!Next
      <3>1. CASE item = None
        <4>1. Store!Delete(s)
          BY <2>3, <3>1 DEF Write, Commit, Store!Delete
        <4> QED
          BY <4>1 DEF Store!Next
      <3>2. CASE item # None
        <4>1. item = [cfg |-> item.cfg, rev |-> rev + 1] /\ item.cfg \in Config
          BY <2>3, <3>2 DEF Write, ItemSet
        <4>2. Store!Put(s, item.cfg)
          BY <2>3, <4>1 DEF Write, Commit, Store!Put
        <4> QED
          BY <4>1, <4>2 DEF Store!Next
      <3> QED
        BY <3>1, <3>2
    <2> QED
      BY <2>1, <2>2, <2>3, EtcdStep
  <1> QED
    BY <1>1, <1>2, TypeCorrect, PTL DEF Spec, StoreSpec, Store!Spec

----------------------------------------------------------------------------
(***************************************************************************)
(* The answers of PUT.  While its handler is between the two calls, what   *)
(* is stored is no older than its own write and later than the version it  *)
(* named; this outlives the writes of all others, whose revisions are      *)
(* larger still.                                                           *)
(***************************************************************************)
Between(c) ==
    /\ wrote[c] <= rev
    /\ req[c].base <= rev
    /\ pc[c] = "get" => wrote[c] # 0
    /\ pc[c] = "latest" => wrote[c] = 0
    /\ pc[c] # "idle" /\ services[req[c].svc] # None =>
          /\ services[req[c].svc].rev >= wrote[c]
          /\ services[req[c].svc].rev > req[c].base

Answered(c) ==
    pc[c] = "idle" =>
        /\ resp[c].status = 409 /\ resp[c].item # None => resp[c].item.rev > req[c].base
        /\ req[c].kind = "put" =>
              /\ resp[c].status = 200 => wrote[c] # 0 /\ resp[c].item.rev >= wrote[c]
              /\ resp[c].status = 404 => wrote[c] # 0
              /\ resp[c].status \in {400, 409} => wrote[c] = 0

AnswerInv == \A c \in Client : Between(c) /\ Answered(c)

\* Revisions grow: a configuration that was not stored before is the newest.
LEMMA RevisionsGrow ==
    ASSUME TypeOK, [Next]_vars
    PROVE  /\ rev \in Nat /\ rev' \in Nat /\ rev <= rev'
           /\ \A t \in Service : \/ services'[t] = services[t]
                                 \/ services'[t] = None
                                 \/ services'[t].rev = rev' /\ rev' = rev + 1
  <1>1. CASE UNCHANGED etcdVars
    BY <1>1, MaxRevAssumption DEF etcdVars, TypeOK
  <1>2. ASSUME NEW c \in Client, NEW s \in Service, NEW item \in ItemSet \cup {None},
               NEW base \in Nat, Write(c, s, item, base)
        PROVE  /\ rev \in Nat /\ rev' = rev + 1
               /\ \A t \in Service : \/ services'[t] = services[t]
                                     \/ services'[t] = None
                                     \/ services'[t].rev = rev + 1
    BY <1>2, MaxRevAssumption DEF Write, Commit, TypeOK
  <1> QED
    BY <1>1, <1>2, EtcdStep

\* Whoever does not take the step is not disturbed by it.
LEMMA Bystander ==
    ASSUME TypeOK, [Next]_vars, NEW d \in Client, Between(d), Answered(d),
           pc'[d] = pc[d], req'[d] = req[d], resp'[d] = resp[d], wrote'[d] = wrote[d]
    PROVE  Between(d)' /\ Answered(d)'
  <1>1. Answered(d)'
    BY DEF Answered
  <1>2. /\ rev \in Nat /\ rev' \in Nat /\ rev <= rev'
        /\ wrote[d] \in Nat /\ req[d].base \in Nat
        /\ wrote[d] <= rev /\ req[d].base <= rev
    BY RevisionsGrow, MaxRevAssumption DEF Between, TypeOK
  <1>3. ASSUME pc[d] # "idle", services'[req[d].svc] # None
        PROVE  /\ services'[req[d].svc].rev >= wrote[d]
               /\ services'[req[d].svc].rev > req[d].base
    <2>1. req[d].svc \in Service
      BY <1>3 DEF TypeOK
    <2>2. CASE services'[req[d].svc] = services[req[d].svc]
      BY <2>2, <1>3 DEF Between
    <2>3. CASE services'[req[d].svc].rev = rev' /\ rev' = rev + 1
      BY <2>3, <1>2
    <2> QED
      BY <1>3, <2>1, <2>2, <2>3, RevisionsGrow
  <1>4. Between(d)'
    BY <1>2, <1>3 DEF Between
  <1> QED
    BY <1>1, <1>4

\* The step is one of client c, and leaves the handlers of all others alone.
StepOf(c) ==
    \A d \in Client \ {c} :
        pc'[d] = pc[d] /\ req'[d] = req[d] /\ resp'[d] = resp[d] /\ wrote'[d] = wrote[d]

\* It is then enough to look at the handler of c.
LEMMA OwnStep ==
    ASSUME TypeOK, AnswerInv, [Next]_vars, NEW c \in Client, StepOf(c),
           Between(c)', Answered(c)'
    PROVE  AnswerInv'
  <1>1. SUFFICES ASSUME NEW d \in Client
                 PROVE  Between(d)' /\ Answered(d)'
    BY DEF AnswerInv
  <1>2. CASE d = c
    BY <1>2
  <1>3. CASE d # c
    BY <1>3, Bystander DEF AnswerInv, StepOf
  <1> QED
    BY <1>2, <1>3

\* A handler that answers in the step in which it receives, and says of a PUT
\* no more than that it was not made or that its outcome is unknown.
LEMMA AnsweredAtOnce ==
    ASSUME TypeOK, AnswerInv, [Next]_vars, NEW c \in Client, StepOf(c),
           pc'[c] = "idle", req'[c].base \in 0..rev, wrote'[c] \in 0..rev',
           resp'[c].status # 409,
           req'[c].kind = "put" => \/ resp'[c].status = 500
                                   \/ resp'[c].status = 400 /\ wrote'[c] = 0
    PROVE  AnswerInv'
  <1>1. rev \in Nat /\ rev' \in Nat /\ rev <= rev'
    BY RevisionsGrow
  <1>2. Between(c)'
    BY <1>1 DEF Between
  <1>3. Answered(c)'
    BY DEF Answered
  <1> QED
    BY <1>2, <1>3, OwnStep

\* What Receive and Answer in one step do to the handlers.
LEMMA ReceiveAnswer ==
    ASSUME TypeOK, NEW c \in Client, NEW s \in Service, NEW kind \in Kind,
           NEW base \in Nat, NEW status \in Status, NEW item \in ItemSet \cup {None},
           Receive(c, kind, s, base), Answer(c, status, item),
           \A d \in Client \ {c} : wrote'[d] = wrote[d]
    PROVE  /\ StepOf(c) /\ pc'[c] = "idle"
           /\ req'[c].kind = kind /\ req'[c].base = base /\ resp'[c].status = status
  BY DEF Receive, Answer, StepOf, TypeOK

\* What the calls of etcd do to the history.
LEMMA CommitWrote ==
    ASSUME TypeOK, NEW c \in Client,
           \/ NoCommit(c)
           \/ rev < MaxRev /\ rev' = rev + 1 /\ wrote' = [wrote EXCEPT ![c] = rev + 1]
    PROVE  /\ wrote'[c] \in 0..rev'
           /\ \A d \in Client \ {c} : wrote'[d] = wrote[d]
           /\ NoCommit(c) => wrote'[c] = 0
  BY MaxRevAssumption DEF NoCommit, etcdVars, TypeOK

\* A version a client may name has been written, and what is stored is not older.
LEMMA NamedVersion ==
    ASSUME TypeOK, RevisionIsLast, NEW s \in Service, NEW base \in Versions(s)
    PROVE  /\ base \in 0..rev
           /\ services[s] # None /\ base # services[s].rev => services[s].rev > base
  <1>1. DOMAIN log = 1..rev /\ rev \in Nat
    BY MaxRevAssumption DEF TypeOK
  <1>2. base = 0 \/ (base \in 1..rev /\ log[base].svc = s)
    BY <1>1 DEF Versions
  <1>3. services[s] # None =>
            services[s].rev \in 1..rev /\ \A q \in 1..rev : q > services[s].rev => log[q].svc # s
    BY <1>1 DEF RevisionIsLast
  <1> QED
    BY <1>1, <1>2, <1>3

\* The answers stay right in every step.
LEMMA AnswerStep ==
    ASSUME TypeOK, RevisionIsLast, AnswerInv, [Next]_vars
    PROVE  AnswerInv'
  <1>0. rev \in Nat /\ rev' \in Nat /\ rev <= rev'
    BY RevisionsGrow
  <1>1. CASE UNCHANGED vars
    <2>1. ASSUME NEW d \in Client PROVE Between(d)' /\ Answered(d)'
      BY <1>1, Bystander DEF vars, AnswerInv
    <2> QED
      BY <2>1 DEF AnswerInv
  <1>2. ASSUME NEW c \in Client, UpdatedGet(c)
        PROVE  AnswerInv'
    <2>1. PICK status, item :
             /\ status \in {200, 404, 500}
             /\ Answer(c, status, item)
             /\ status = 200 => item = services[req[c].svc] /\ item # None
      BY <1>2 DEF UpdatedGet
    <2>2. /\ pc[c] = "get" /\ req' = req /\ wrote' = wrote
      BY <1>2 DEF UpdatedGet
    <2>3. StepOf(c)
      BY <2>1, <2>2 DEF StepOf, Answer, TypeOK
    <2>4. pc'[c] = "idle" /\ resp'[c] = [status |-> status, item |-> item]
      BY <2>1 DEF Answer, TypeOK
    <2>5. wrote[c] # 0 /\ (status = 200 => item.rev >= wrote[c])
      BY <2>1, <2>2 DEF AnswerInv, Between
    <2>6. Answered(c)'
      BY <2>1, <2>2, <2>4, <2>5 DEF Answered
    <2>7. wrote[c] \in Nat /\ req[c].base \in Nat /\ wrote[c] <= rev /\ req[c].base <= rev
      BY MaxRevAssumption DEF AnswerInv, Between, TypeOK
    <2>8. Between(c)'
      BY <1>0, <2>2, <2>4, <2>7 DEF Between
    <2> QED
      BY <2>3, <2>6, <2>8, OwnStep
  <1>3. ASSUME NEW c \in Client, ConflictGet(c)
        PROVE  AnswerInv'
    <2>1. PICK item : /\ Answer(c, 409, item)
                      /\ item # None => item = services[req[c].svc]
      BY <1>3 DEF ConflictGet
    <2>2. /\ pc[c] = "latest" /\ req' = req /\ wrote' = wrote
      BY <1>3 DEF ConflictGet
    <2>3. StepOf(c)
      BY <2>1, <2>2 DEF StepOf, Answer, TypeOK
    <2>4. pc'[c] = "idle" /\ resp'[c] = [status |-> 409, item |-> item]
      BY <2>1 DEF Answer, TypeOK
    <2>5. wrote[c] = 0 /\ (item # None => item.rev > req[c].base)
      BY <2>1, <2>2 DEF AnswerInv, Between
    <2>6. Answered(c)'
      BY <2>1, <2>2, <2>4, <2>5 DEF Answered
    <2>7. wrote[c] \in Nat /\ req[c].base \in Nat /\ wrote[c] <= rev /\ req[c].base <= rev
      BY MaxRevAssumption DEF AnswerInv, Between, TypeOK
    <2>8. Between(c)'
      BY <1>0, <2>2, <2>4, <2>7 DEF Between
    <2> QED
      BY <2>3, <2>6, <2>8, OwnStep
  <1>4. ASSUME NEW c \in Client, NEW s \in Service, Get(c, s)
        PROVE  AnswerInv'
    <2>1. services[s] \in ItemSet \cup {None}
      BY DEF TypeOK
    <2>2. PICK status \in {200, 404, 500}, item \in ItemSet \cup {None} :
             Answer(c, status, item)
      BY <1>4, <2>1 DEF Get
    <2>3. Receive(c, "get", s, 0) /\ NoCommit(c)
      BY <1>4 DEF Get
    <2> QED
      BY <1>0, <2>2, <2>3, CommitWrote, ReceiveAnswer, AnsweredAtOnce DEF Kind, Status
  <1>5. ASSUME NEW c \in Client, NEW s \in Service, NEW kind \in {"post", "put"},
               PutWithoutVersion(c, s) \/ \E cfg \in Submitted : Refuse(c, kind, s, cfg)
        PROVE  AnswerInv'
    <2>1. PICK k \in {"post", "put"} :
             Receive(c, k, s, 0) /\ NoCommit(c) /\ Answer(c, 400, None)
      BY <1>5 DEF PutWithoutVersion, Refuse
    <2> QED
      BY <1>0, <2>1, CommitWrote, ReceiveAnswer, AnsweredAtOnce DEF Kind, Status
  <1>6. ASSUME NEW c \in Client, NEW s \in Service,
               NEW applied \in BOOLEAN, NEW acked \in BOOLEAN,
               Delete(c, s, applied, acked)
        PROVE  AnswerInv'
    <2>1. PICK status \in {200, 404, 500} : Answer(c, status, None)
      BY <1>6 DEF Delete
    <2>2. /\ Receive(c, "delete", s, 0)
          /\ \/ NoCommit(c)
             \/ rev < MaxRev /\ rev' = rev + 1 /\ wrote' = [wrote EXCEPT ![c] = rev + 1]
      BY <1>6 DEF Delete, Commit
    <2> QED
      BY <1>0, <2>1, <2>2, CommitWrote, ReceiveAnswer, AnsweredAtOnce DEF Kind, Status
  <1>7. ASSUME NEW c \in Client, NEW s \in Service, NEW cfg \in Submitted,
               NEW applied \in BOOLEAN, NEW acked \in BOOLEAN,
               Post(c, s, cfg, applied, acked)
        PROVE  AnswerInv'
    <2>1. PICK status \in {201, 500} : Answer(c, status, None)
      BY <1>7 DEF Post
    <2>2. /\ Receive(c, "post", s, 0)
          /\ \/ NoCommit(c)
             \/ rev < MaxRev /\ rev' = rev + 1 /\ wrote' = [wrote EXCEPT ![c] = rev + 1]
      BY <1>7 DEF Post, Commit
    <2> QED
      BY <1>0, <2>1, <2>2, CommitWrote, ReceiveAnswer, AnsweredAtOnce DEF Kind, Status
  <1>8. ASSUME NEW c \in Client, NEW s \in Service, NEW cfg \in Submitted,
               NEW base \in Versions(s), UpdateFails(c, s, cfg, base)
        PROVE  AnswerInv'
    <2>1. /\ Receive(c, "put", s, base) /\ Answer(c, 500, None)
          /\ \/ NoCommit(c)
             \/ rev < MaxRev /\ rev' = rev + 1 /\ wrote' = [wrote EXCEPT ![c] = rev + 1]
      BY <1>8 DEF UpdateFails, Commit
    <2>2. base \in 0..rev /\ base \in Nat
      BY NamedVersion, VersionsType
    <2>3. /\ wrote'[c] \in 0..rev'
          /\ \A d \in Client \ {c} : wrote'[d] = wrote[d]
      BY <2>1, CommitWrote
    <2>4. /\ StepOf(c) /\ pc'[c] = "idle"
          /\ req'[c].kind = "put" /\ req'[c].base = base /\ resp'[c].status = 500
      BY <2>1, <2>2, <2>3, ReceiveAnswer DEF Kind, Status
    <2>5. Between(c)'
      BY <1>0, <2>2, <2>3, <2>4 DEF Between
    <2>6. Answered(c)'
      BY <2>4 DEF Answered
    <2> QED
      BY <2>4, <2>5, <2>6, OwnStep
  <1>9. ASSUME NEW c \in Client, NEW s \in Service, NEW cfg \in Submitted,
                NEW base \in Versions(s), UpdateWithRevision(c, s, cfg, base)
         PROVE  AnswerInv'
    <2>1. /\ req' = [req EXCEPT ![c] = [kind |-> "put", svc |-> s, base |-> base]]
          /\ resp' = resp
          /\ base \in 0..rev
      BY <1>9, NamedVersion DEF UpdateWithRevision, Receive
    <2>2. req'[c] = [kind |-> "put", svc |-> s, base |-> base]
      BY <2>1 DEF TypeOK
    <2>3. CASE Compare(s, base)
      <3>1. ApplyDefaults(cfg) \in Config
        BY <1>9, Completed DEF UpdateWithRevision
      <3>2. PICK item : /\ Commit(c, s, item, base)
                        /\ item.rev = rev + 1
                        /\ pc' = [pc EXCEPT ![c] = "get"]
        BY <1>9, <2>3, <3>1, ItemType DEF UpdateWithRevision
      <3>3. /\ pc'[c] = "get" /\ wrote'[c] = rev + 1 /\ rev' = rev + 1
            /\ services'[s] = item
        BY <3>2 DEF Commit, TypeOK
      <3>4. Between(c)'
        BY <1>0, <2>1, <2>2, <3>2, <3>3 DEF Between
      <3>5. Answered(c)'
        BY <3>3 DEF Answered
      <3>6. StepOf(c)
        BY <2>1, <3>2 DEF StepOf, Commit, TypeOK
      <3> QED
        BY <3>4, <3>5, <3>6, OwnStep
    <2>4. CASE ~Compare(s, base)
      <3>1. NoCommit(c) /\ pc' = [pc EXCEPT ![c] = "latest"]
        BY <1>9, <2>4 DEF UpdateWithRevision
      <3>2. /\ pc'[c] = "latest" /\ wrote'[c] = 0
            /\ services' = services /\ rev' = rev
        BY <3>1 DEF NoCommit, etcdVars, TypeOK
      <3>3. services[s] # None => services[s].rev > base
        BY <2>4, NamedVersion DEF Compare, Current
      <3>4. services[s] # None => services[s].rev \in Nat
        BY DEF TypeOK, ItemSet
      <3>5. Between(c)'
        BY <1>0, <2>1, <2>2, <3>2, <3>3, <3>4 DEF Between
      <3>6. Answered(c)'
        BY <3>2 DEF Answered
      <3>7. StepOf(c)
        BY <2>1, <3>1 DEF StepOf, NoCommit, TypeOK
      <3> QED
        BY <3>5, <3>6, <3>7, OwnStep
    <2> QED
      BY <2>3, <2>4
  <1> QED
    BY <1>1, <1>2, <1>3, <1>4, <1>5, <1>6, <1>7, <1>8, <1>9 DEF Next

\* And they are right in every reachable state.
LEMMA AnswersInvariant == Spec => []AnswerInv
  <1>1. Init => AnswerInv
    <2>1. SUFFICES ASSUME Init, NEW c \in Client
                   PROVE  Between(c) /\ Answered(c)
      BY DEF AnswerInv
    <2>2. /\ wrote[c] = 0 /\ rev = 0 /\ pc[c] = "idle"
          /\ req[c].base = 0 /\ req[c].kind = "none" /\ resp[c].status = 0
      BY <2>1 DEF Init
    <2> QED
      BY <2>2 DEF Between, Answered
  <1>2. IInv /\ AnswerInv /\ [Next]_vars => AnswerInv'
    BY AnswerStep DEF IInv
  <1> QED
    BY <1>1, <1>2, Invariant, PTL DEF Spec

(***************************************************************************)
(* The status a PUT is answered with (handleServiceByName,                 *)
(* httpapi/server.go:299) tells whether it was made, for any number of     *)
(* clients, services and writes.                                           *)
(***************************************************************************)
THEOREM StatusIsHonestTheorem == Spec => []StatusIsHonest
  <1>1. AnswerInv => StatusIsHonest
    BY DEF AnswerInv, Answered, StatusIsHonest
  <1> QED
    BY <1>1, AnswersInvariant, PTL

(***************************************************************************)
(* The version reported with a conflict (httpapi/server.go:333) is later   *)
(* than the one the PUT named, although it is read after the transaction.  *)
(***************************************************************************)
THEOREM ConflictIsNewsTheorem == Spec => []ConflictIsNews
  <1>1. AnswerInv => ConflictIsNews
    BY DEF AnswerInv, Answered, ConflictIsNews
  <1> QED
    BY <1>1, AnswersInvariant, PTL

=============================================================================
