----------------------------- MODULE MCDbServer -----------------------------
(* TLC instance of DbServer.                                               *)
EXTENDS DbServer, TLC

Symmetry == Permutations(Conns)
=============================================================================
