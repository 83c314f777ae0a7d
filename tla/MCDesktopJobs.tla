--------------------------- MODULE MCDesktopJobs ---------------------------
(* The controller for TLC: jobs of one kind are interchangeable, and so are    *)
(* cancellations.                                                             *)
EXTENDS DesktopJobs, TLC

Symmetry == Permutations(Jobs) \cup Permutations(Cancels)
=============================================================================
