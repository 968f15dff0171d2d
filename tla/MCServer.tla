------------------------------ MODULE MCServer ------------------------------
(* Server for TLC.                                                          *)
EXTENDS Server, TLC

CONSTANTS c1, c2, c3, w1, w2

AllKinds == [kind : {"static", "handler"}, ka : BOOLEAN]
KeepKinds == {[kind |-> "static", ka |-> TRUE], [kind |-> "handler", ka |-> TRUE]}
HandlerKinds == {[kind |-> "handler", ka |-> TRUE], [kind |-> "handler", ka |-> FALSE]}
StaticKinds == {[kind |-> "static", ka |-> TRUE], [kind |-> "static", ka |-> FALSE]}
OwnKinds == AllKinds \ {[kind |-> "static", ka |-> FALSE]}
CloseKinds == {[kind |-> "static", ka |-> FALSE], [kind |-> "handler", ka |-> FALSE]}
LiveKinds == {[kind |-> "handler", ka |-> TRUE], [kind |-> "static", ka |-> FALSE]}

\* Every connection comes from one address.
OneClient == [c \in Conns |-> 1]

\* Worker threads are interchangeable, and so are connections of one client.
Symmetry == Permutations(Workers) \cup Permutations(Conns)

=============================================================================
