------------------------------- MODULE MCHmap -------------------------------
(* TLC instances of Hmap.  Keys and values are interchangeable.            *)
EXTENDS Hmap

Symmetry == Permutations(Keys) \cup Permutations(Values)
=============================================================================
