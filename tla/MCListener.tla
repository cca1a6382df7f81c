------------------------------ MODULE MCListener ------------------------------
(* KsListener for TLC: connections are interchangeable in it.              *)
EXTENDS KsListener, TLC

Symmetry == Permutations(Conns)

=============================================================================
