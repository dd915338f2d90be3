---------------------------- MODULE MCUDPSession ----------------------------
(***************************************************************************)
(* A small instance of UDPSession: two packets, of one client or of two,   *)
(* for one upstream; the first packet may also try a second upstream.      *)
(***************************************************************************)
EXTENDS UDPSession, TLC

CONSTANTS p1, p2, c1, c2, u1, u2

MCSenders == {p1 :> c1 @@ p2 :> c1, p1 :> c1 @@ p2 :> c2}
MCCandidates == p1 :> <<u1, u2>> @@ p2 :> <<u1>>

=============================================================================
