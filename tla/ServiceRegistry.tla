-------------------------- MODULE ServiceRegistry --------------------------
(***************************************************************************)
(* The service API: handleServices and handleServiceByName                 *)
(* (internal/httpapi) on top of registry.Services, used by any number of   *)
(* clients at once, on any nodes.                                          *)
(*                                                                         *)
(* A handler runs in as many steps as it makes calls to etcd.  GET, POST   *)
(* and DELETE make one; PUT makes a transaction and, whatever came of it,  *)
(* a second call to read the configuration it answers with.  A call to     *)
(* etcd that fails may have been applied (applied without acked).          *)
(*                                                                         *)
(* Of a configuration the model keeps the proxy layer and the port, as     *)
(* what ApplyDefaults completes and Validate refuses, and the backend      *)
(* group.  Left out: audit fields, and requests that are refused before    *)
(* any of this (unreadable body, names that differ).                       *)
(***************************************************************************)
EXTENDS Integers, Sequences

CONSTANTS
    Client,     \* requests in progress, one per client
    Service,    \* service names
    Port,       \* listener ports in what clients send; 0: none given
    Group,      \* backend group names
    Submitted,  \* configurations clients send
    MaxRev,     \* bound: writes to the services prefix
    None        \* no such key; no configuration in an answer

Layer == {"http", "tcp", "udp"}

\* What may be stored.
Config == [layer : Layer, port : Port \ {0}, group : Group]

ItemSet == [cfg : Config, rev : Nat]

ASSUME SubmittedAssumption ==
    Submitted \subseteq [layer : Layer \cup {"", "other"}, port : Port, group : Group]
ASSUME MaxRevAssumption == MaxRev \in Nat
ASSUME NoneAssumption == None \notin ItemSet /\ None \notin Service

VARIABLES
    services,  \* etcd: as in ConfigStore
    rev,
    pc,        \* pc[c]: where the handler of c's PUT is
    req,       \* req[c]: c's last request
    resp,      \* resp[c]: its answer
    log,       \* history: log[r], the write of revision r
    wrote      \* history: wrote[c], the revision c's request wrote; 0: none

etcdVars == <<services, rev, log>>
vars == <<etcdVars, pc, req, resp, wrote>>

\* ApplyDefaults (service.go:85): an empty layer means HTTP.
ApplyDefaults(c) == IF c.layer = "" THEN [c EXCEPT !.layer = "http"] ELSE c

\* Mutant: nothing is refused.
ValidateNothing(c) == TRUE

\* Validate (service.go:145) on a completed configuration.
Validate(c) == c.layer \in Layer /\ c.port # 0

Item(cfg, r) == [cfg |-> cfg, rev |-> r]

(***************************************************************************)
(* The types; in particular what is stored has passed ApplyDefaults and    *)
(* Validate (model/service.go), and every write has a revision of its own. *)
(***************************************************************************)
TypeOK ==
    /\ services \in [Service -> ItemSet \cup {None}]
    /\ rev \in 0..MaxRev
    /\ pc \in [Client -> {"idle", "get", "latest"}]
    /\ req \in [Client -> [kind : {"none", "get", "post", "put", "delete"},
                           svc : Service \cup {None}, base : Nat]]
    /\ resp \in [Client -> [status : {0, 200, 201, 400, 404, 409, 500},
                            item : ItemSet \cup {None}]]
    /\ log \in Seq([svc : Service, base : Nat, kept : BOOLEAN])
    /\ Len(log) = rev
    /\ wrote \in [Client -> 0..MaxRev]
    /\ \A c \in Client :
          pc[c] # "idle" => req[c].kind = "put" /\ req[c].svc \in Service

Init ==
    /\ services = [s \in Service |-> None]
    /\ rev = 0
    /\ pc = [c \in Client |-> "idle"]
    /\ req = [c \in Client |-> [kind |-> "none", svc |-> None, base |-> 0]]
    /\ resp = [c \in Client |-> [status |-> 0, item |-> None]]
    /\ log = <<>>
    /\ wrote = [c \in Client |-> 0]

----------------------------------------------------------------------------
\* One write to etcd on behalf of client c.  base is the revision the write
\* was made conditional on, 0 if none.
Commit(c, s, item, base) ==
    /\ rev < MaxRev
    /\ rev' = rev + 1
    /\ services' = [services EXCEPT ![s] = item]
    /\ log' = Append(log, [svc |-> s, base |-> base, kept |-> item # None])
    /\ wrote' = [wrote EXCEPT ![c] = rev + 1]

NoCommit(c) ==
    /\ UNCHANGED etcdVars
    /\ wrote' = [wrote EXCEPT ![c] = 0]

Receive(c, kind, s, base) ==
    /\ pc[c] = "idle"
    /\ req' = [req EXCEPT ![c] = [kind |-> kind, svc |-> s, base |-> base]]

Answer(c, status, item) ==
    /\ resp' = [resp EXCEPT ![c] = [status |-> status, item |-> item]]
    /\ pc' = [pc EXCEPT ![c] = "idle"]

\* GET of one service (List answers the same for each of them).
Get(c, s) ==
    /\ Receive(c, "get", s, 0)
    /\ NoCommit(c)
    /\ \/ services[s] # None /\ Answer(c, 200, services[s])
       \/ services[s] = None /\ Answer(c, 404, None)
       \/ Answer(c, 500, None)

\* POST: Services.Put, which overwrites.  The answer holds no revision.
Post(c, s, cfg, applied, acked) ==
    /\ Receive(c, "post", s, 0)
    /\ Validate(ApplyDefaults(cfg))
    /\ acked => applied
    /\ IF applied THEN Commit(c, s, Item(ApplyDefaults(cfg), rev + 1), 0)
                  ELSE NoCommit(c)
    /\ Answer(c, IF acked THEN 201 ELSE 500, None)

\* POST or PUT of a configuration that Validate refuses.
Refuse(c, kind, s, cfg) ==
    /\ kind \in {"post", "put"}
    /\ Receive(c, kind, s, 0)
    /\ ~Validate(ApplyDefaults(cfg))
    /\ NoCommit(c)
    /\ Answer(c, 400, None)

\* DELETE, which compares no revision.
Delete(c, s, applied, acked) ==
    /\ Receive(c, "delete", s, 0)
    /\ acked => applied
    /\ IF applied /\ services[s] # None THEN Commit(c, s, None, 0) ELSE NoCommit(c)
    /\ Answer(c, CASE ~acked -> 500
                   [] acked /\ services[s] # None -> 200
                   [] OTHER -> 404, None)

\* The revisions under which s has been read; 0: the request names none, or
\* one that is not positive.
Versions(s) == {0} \cup {r \in DOMAIN log : log[r].svc = s /\ log[r].kept}

\* parseExpectedRevision refuses a PUT that names no revision.
PutWithoutVersion(c, s) ==
    /\ Receive(c, "put", s, 0)
    /\ NoCommit(c)
    /\ Answer(c, 400, None)

Current(s) == IF services[s] = None THEN 0 ELSE services[s].rev

\* Mutant: the transaction only asks that the service exist.
CompareExists(s, base) == Current(s) # 0

\* Mutant: CreateRevision in place of ModRevision.
CompareCreateRevision(s, base) ==
    /\ Current(s) # 0
    /\ base \in Versions(s) \ {0}
    /\ \A q \in DOMAIN log : log[q].svc = s /\ ~log[q].kept => q < base
    /\ \A q \in Versions(s) \ {0} :
          q < base => \E d \in q..base : log[d].svc = s /\ ~log[d].kept

\* The condition of the transaction in UpdateWithRevision.
Compare(s, base) == Current(s) = base

\* Mutant: the outcome of the transaction is not looked at.
UpdateWithRevisionBlind(c, s, cfg, base) ==
    /\ Receive(c, "put", s, base)
    /\ base # 0
    /\ Validate(ApplyDefaults(cfg))
    /\ IF Compare(s, base)
       THEN Commit(c, s, Item(ApplyDefaults(cfg), rev + 1), base)
       ELSE NoCommit(c)
    /\ pc' = [pc EXCEPT ![c] = "get"]
    /\ UNCHANGED resp

\* PUT, UpdateWithRevision: the transaction is answered ...
UpdateWithRevision(c, s, cfg, base) ==
    /\ Receive(c, "put", s, base)
    /\ base # 0
    /\ Validate(ApplyDefaults(cfg))
    /\ IF Compare(s, base)
       THEN /\ Commit(c, s, Item(ApplyDefaults(cfg), rev + 1), base)
            /\ pc' = [pc EXCEPT ![c] = "get"]
       ELSE /\ NoCommit(c)
            /\ pc' = [pc EXCEPT ![c] = "latest"]
    /\ UNCHANGED resp

\* ... or fails, applied or not.
UpdateFails(c, s, cfg, base) ==
    /\ Receive(c, "put", s, base)
    /\ base # 0
    /\ Validate(ApplyDefaults(cfg))
    /\ \/ Compare(s, base) /\ Commit(c, s, Item(ApplyDefaults(cfg), rev + 1), base)
       \/ NoCommit(c)
    /\ Answer(c, 500, None)

\* The Get after a successful transaction, which may find a later write.
UpdatedGet(c) ==
    /\ pc[c] = "get"
    /\ LET item == services[req[c].svc]
       IN  \/ item # None /\ Answer(c, 200, item)
           \/ item = None /\ Answer(c, 404, None)
           \/ Answer(c, 500, None)
    /\ UNCHANGED <<etcdVars, req, wrote>>

\* The Get after a conflict; without it the answer is a bare 409.
ConflictGet(c) ==
    /\ pc[c] = "latest"
    /\ LET item == services[req[c].svc]
       IN  \/ item # None /\ Answer(c, 409, item)
           \/ Answer(c, 409, None)
    /\ UNCHANGED <<etcdVars, req, wrote>>

----------------------------------------------------------------------------
Next ==
    \E c \in Client :
        \/ \E s \in Service :
              \/ Get(c, s)
              \/ PutWithoutVersion(c, s)
              \/ \E applied, acked \in BOOLEAN : Delete(c, s, applied, acked)
              \/ \E cfg \in Submitted :
                    \/ \E kind \in {"post", "put"} : Refuse(c, kind, s, cfg)
                    \/ \E applied, acked \in BOOLEAN : Post(c, s, cfg, applied, acked)
                    \/ \E base \in Versions(s) :
                          \/ UpdateWithRevision(c, s, cfg, base)
                          \/ UpdateFails(c, s, cfg, base)
        \/ UpdatedGet(c)
        \/ ConflictGet(c)

Spec == Init /\ [][Next]_vars

----------------------------------------------------------------------------
(***************************************************************************)
(* What a PUT overwrites is the very version its caller named: between     *)
(* that version and the PUT nobody wrote or deleted the service, however   *)
(* POST, PUT and DELETE of several clients interleave, and also when a     *)
(* client repeats a PUT whose answer it never got.                         *)
(***************************************************************************)
NoSilentOverwrite ==
    \A r \in DOMAIN log :
        log[r].base # 0 =>
            /\ log[r].base \in 1..(r - 1)
            /\ log[log[r].base].svc = log[r].svc
            /\ \A q \in (log[r].base + 1)..(r - 1) : log[q].svc # log[r].svc

(***************************************************************************)
(* The status of a PUT tells whether it was made: 200 only if it was, with *)
(* a configuration at least as new; 404 only if it was, although the       *)
(* service was not there to be read back; 400 and 409 only if it was not.  *)
(***************************************************************************)
StatusIsHonest ==
    \A c \in Client :
        pc[c] = "idle" /\ req[c].kind = "put" =>
            /\ resp[c].status = 200 => wrote[c] # 0 /\ resp[c].item.rev >= wrote[c]
            /\ resp[c].status = 404 => wrote[c] # 0
            /\ resp[c].status \in {400, 409} => wrote[c] = 0

(***************************************************************************)
(* A conflict is news: the version it reports is later than the one the    *)
(* caller named, so repeating the PUT with it is not refused for ever by   *)
(* the same version.                                                       *)
(***************************************************************************)
ConflictIsNews ==
    \A c \in Client :
        pc[c] = "idle" /\ resp[c].status = 409 /\ resp[c].item # None
        => resp[c].item.rev > req[c].base

(***************************************************************************)
(* The API implements the abstract store: whatever is sent, only complete  *)
(* and valid configurations get in, each under a revision of its own.      *)
(***************************************************************************)
Store == INSTANCE ConfigStore WITH
    Service <- Service, Config <- Config, MaxRev <- MaxRev, None <- None,
    services <- services, rev <- rev

StoreSpec == Store!Spec

----------------------------------------------------------------------------
(***************************************************************************)
(* The inductive invariant behind NoSilentOverwrite: the revision on a     *)
(* stored configuration is that of the last write to its service.          *)
(***************************************************************************)
RevisionIsLast ==
    \A s \in Service :
        services[s] # None =>
            /\ services[s].rev \in DOMAIN log
            /\ log[services[s].rev].svc = s
            /\ \A q \in DOMAIN log : q > services[s].rev => log[q].svc # s

IInv == TypeOK /\ RevisionIsLast /\ NoSilentOverwrite

=============================================================================
