-------------------------- MODULE MCNodeLifecycle --------------------------
(***************************************************************************)
(* Both roles, three leases (the current one, one that a failed attempt    *)
(* left behind and a new one) and two etcd members.                        *)
(***************************************************************************)
EXTENDS NodeLifecycle

MCRoles == {"server", "agent"}
MCServer == {"server"}
MCLease == 1..3
MCMember == 1..2

=============================================================================
