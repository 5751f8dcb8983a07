------------------------ MODULE MCConnectionManager ------------------------
(* Model-checking instances of ConnectionManager. *)
EXTENDS ConnectionManager, TLC

CONSTANTS c1, c2, c3

Symm == Permutations(Conns)
=============================================================================
