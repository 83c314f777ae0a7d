---------------------------- MODULE MCModelStore ----------------------------
(* The model store for TLC: see models.cfg for the instance.               *)
EXTENDS ModelStore
=============================================================================
