-------------------------- MODULE MCCaptureSession --------------------------
(* The capture session for TLC: the number of recordings is chosen here. *)
EXTENDS CaptureSession

OneJob  == 1..1
TwoJobs == 1..2
=============================================================================
