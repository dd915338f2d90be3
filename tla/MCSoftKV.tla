------------------------------ MODULE MCSoftKV ------------------------------
(***************************************************************************)
(* Small instances of SoftKV.  Node 1 writes and may restart, so that a    *)
(* new incarnation meets entries of the old one.                           *)
(***************************************************************************)
EXTENDS SoftKV, TLC

MCSamplesOne == 1 :> 3 @@ 2 :> 0
MCSamplesTwo == 1 :> 2 @@ 2 :> 0
MCRestartsWriter == 1 :> 1 @@ 2 :> 0

=============================================================================
