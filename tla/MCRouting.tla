----------------------------- MODULE MCRouting ------------------------------
(***************************************************************************)
(* A small instance of Routing.  Service 1 has the backend group, in       *)
(* several versions; the routes of 2 and 3 compete with its own.           *)
(***************************************************************************)
EXTENDS Routing

T(a, w, r) == [addr |-> a, weight |-> w, relay |-> r]
R(hosts, prefix, dest, w) ==
    [hosts |-> hosts, prefix |-> prefix, dest |-> dest, weight |-> w]
C(routes, attempts, strategy, groups) ==
    [routes |-> routes, attempts |-> attempts, strategy |-> strategy, groups |-> groups]

NoGroups == [g \in {} |-> <<>>]
G(ts) == [g \in {"g"} |-> ts]

MCGroup == {"g"}
MCAddr == {"d1", "d2", "r1", "own"}
MCService == {"s1", "s2", "s3"}
MCListenerOf == [s \in MCService |-> "own"]
MCRank ==
    [x \in MCService \cup MCAddr \cup MCGroup \cup {"nowhere"} |->
        CASE x = "d1" -> 1 [] x = "d2" -> 2 [] x = "g" -> 3 [] x = "nowhere" -> 4
          [] x = "own" -> 5 [] x = "r1" -> 6 [] x = "s1" -> 7 [] x = "s2" -> 8
          [] x = "s3" -> 9]

First == <<R({"*"}, <<"/">>, "g", 100)>>
MCOffered ==
    [s \in MCService |->
        CASE s = "s1" -> {C(First, 3, "round-robin", G(<<T("r1", 100, TRUE), T("d2", 1, FALSE), T("d1", 1, FALSE)>>)),
                          C(First, 3, "latency-first", G(<<T("d2", 2, FALSE), T("d1", 1, FALSE)>>))}
          [] s = "s2" -> {C(<<R({"h1"}, <<"/">>, "g", 1), R({"*", "h1"}, <<"/", "a">>, "s1", 100)>>,
                            1, "load-first", NoGroups)}
          [] s = "s3" -> {C(<<R({"*"}, <<"/", "a", "b">>, "d1", 1), R({"*"}, <<"/", "b">>, "d2", 1),
                              R({"h1"}, <<"/", "a">>, "nowhere", 100), R({"*"}, <<"/", "b">>, "d1", 2)>>,
                            2, "load-first", NoGroups)}]

CONSTANTS q1, q2
Symmetry == Permutations({q1, q2})

MCQuery == {"h1", "h2"} \X {<<"/">>, <<"/", "a">>, <<"/", "a", "b">>, <<"/", "b", "a">>, <<>>}

=============================================================================
