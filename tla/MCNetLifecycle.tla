--------------------------- MODULE MCNetLifecycle ---------------------------
(* TLC instance of NetLifecycle: the cfg gives the constants.              *)
EXTENDS NetLifecycle
=============================================================================
