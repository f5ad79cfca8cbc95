---------------------------- MODULE MCNetServer ----------------------------
(* TLC instances of NetServer.  Clients are interchangeable.               *)
EXTENDS NetServer, TLC

Symmetry == Permutations(Clients)
=============================================================================
