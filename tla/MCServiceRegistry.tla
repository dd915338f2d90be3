------------------------- MODULE MCServiceRegistry -------------------------
(***************************************************************************)
(* Two clients that compete for one service, in either role.               *)
(***************************************************************************)
EXTENDS ServiceRegistry, TLC

C(layer, port, group) == [layer |-> layer, port |-> port, group |-> group]

\* One to be completed, one complete, one without a port.
MCSubmitted == {C("", 1, "a"), C("tcp", 1, "b"), C("http", 0, "a")}

MCSymmetry == Permutations(Client)

=============================================================================
