---------------------------- MODULE ConfigStore ----------------------------
(***************************************************************************)
(* What the rest of the system relies on of the service configurations     *)
(* under /mesh/services/: a map of configurations, all of them complete    *)
(* and valid, in which every write takes the next revision of etcd and     *)
(* leaves it on the configuration it stores.                               *)
(*                                                                         *)
(* The management API implements it (ServiceRegistry), the traffic plane   *)
(* builds on it (TrafficRefresh).                                          *)
(***************************************************************************)
EXTENDS Naturals

CONSTANTS
    Service,   \* service names
    Config,    \* complete, valid configurations
    MaxRev,    \* bound: writes to the prefix
    None       \* no such key

VARIABLES
    services,  \* services[s]: the configuration stored and its ModRevision
    rev        \* revision of the last write

Init ==
    /\ services = [s \in Service |-> None]
    /\ rev = 0

Put(s, c) ==
    /\ rev < MaxRev
    /\ rev' = rev + 1
    /\ services' = [services EXCEPT ![s] = [cfg |-> c, rev |-> rev + 1]]

Delete(s) ==
    /\ rev < MaxRev
    /\ services[s] # None
    /\ rev' = rev + 1
    /\ services' = [services EXCEPT ![s] = None]

Next == \E s \in Service : Delete(s) \/ \E c \in Config : Put(s, c)

Spec == Init /\ [][Next]_<<services, rev>>

=============================================================================
