--------------------------- MODULE MCLocalProvider ---------------------------
(* The local provider for TLC: see provider.cfg for the instance.          *)
EXTENDS LocalProvider
=============================================================================
