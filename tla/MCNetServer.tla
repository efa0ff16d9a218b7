---------------------------- MODULE MCNetServer ----------------------------
(* Small instances of NetServer.                                           *)
EXTENDS NetServer, TLC

(* Permuting the connection objects changes no behaviour.                  *)
Symmetry == Permutations(Conns)
=============================================================================
