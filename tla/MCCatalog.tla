----------------------------- MODULE MCCatalog -----------------------------
(* TLC instances of Catalog.  Tables are interchangeable.                  *)
EXTENDS Catalog, TLC

Symmetry == Permutations(TableNames)
=============================================================================
