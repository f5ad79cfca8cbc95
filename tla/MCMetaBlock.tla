---------------------------- MODULE MCMetaBlock ----------------------------
(* TLC instances of MetaBlock: the cfg files give the bounds.              *)
EXTENDS MetaBlock
=============================================================================
