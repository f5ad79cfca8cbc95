-------------------------- MODULE MCExtentManager --------------------------
(* TLC instances of ExtentManager: the cfg files give the bounds.          *)
EXTENDS ExtentManager
=============================================================================
