---------------------------- MODULE MCTableStore ----------------------------
(***************************************************************************)
(* Two tables for TLC: the narrowest and the widest fixed type side by     *)
(* side, and a vector column (without stored width) between two others.    *)
(***************************************************************************)
EXTENDS TableStore

MCTables ==
    {[schema |-> 4, name |-> 1,
      columns |-> <<[name |-> 2, type |-> 1, dim |-> 0], [name |-> 3, type |-> 4, dim |-> 0]>>],
     [schema |-> 4, name |-> 250,
      columns |-> <<[name |-> 1, type |-> 2, dim |-> 0],
                    [name |-> 6, type |-> SQLT_VECTOR, dim |-> -3],
                    [name |-> 7, type |-> 3, dim |-> 0]>>]}
=============================================================================
