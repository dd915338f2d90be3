-------------------------- MODULE MCTrafficRefresh --------------------------
(***************************************************************************)
(* Small instances of TrafficRefresh.                                      *)
(***************************************************************************)
EXTENDS TrafficRefresh

C(layer, port, group) == [layer |-> layer, port |-> port, group |-> group]

\* HTTP, TCP and UDP on one listener, and a backend group name that may clash.
MCMixed == {C("http", 1, "a"), C("tcp", 1, "b"), C("udp", 1, "b")}

\* HTTP on one listener, whichever the service.
MCHttp == {C("http", 1, "a"), C("http", 1, "b")}

MCContended == {<<"tcp", 1>>}

=============================================================================
