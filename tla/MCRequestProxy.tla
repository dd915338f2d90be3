--------------------------- MODULE MCRequestProxy ---------------------------
(***************************************************************************)
(* A small instance of RequestProxy: a node whose services lead to an      *)
(* upstream and back to the node itself, so that requests go in circles.   *)
(***************************************************************************)
EXTENDS RequestProxy

CONSTANTS n1

P(attempts, budget, maxHops, rate, dest) ==
    [attempts |-> attempts, budget |-> budget, maxHops |-> maxHops,
     rate |-> rate, dest |-> dest]

MCPolicy ==
    {P(2, 50, 1, 2, <<"up", "peer">>), P(0, 100, 2, 4, <<"peer">>),
     P(1, 0, 1, 2, <<"up", "bad">>), P(1, 0, 1, 2, <<>>)}

MCClientHops == {0, -1}

MCListenerNode == [a \in {"peer"} |-> n1]

=============================================================================
