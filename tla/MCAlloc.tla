------------------------------ MODULE MCAlloc ------------------------------
(* TLC instances of Alloc.  Threads and blocks are interchangeable.        *)
EXTENDS Alloc, TLC

Symmetry == Permutations(Threads) \cup Permutations(Ptrs)
=============================================================================
