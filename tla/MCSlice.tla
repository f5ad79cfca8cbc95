------------------------------ MODULE MCSlice ------------------------------
(* TLC instances of Slice.  The values stored are interchangeable.         *)
EXTENDS Slice, TLC

Symmetry == Permutations(Items)
=============================================================================
