-------------------------- MODULE MCTextInsertion ---------------------------
(* Text insertion for TLC: see insertion.cfg for the instance.             *)
EXTENDS TextInsertion
=============================================================================
