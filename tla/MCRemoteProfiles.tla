-------------------------- MODULE MCRemoteProfiles --------------------------
(* The remote profiles for TLC: see profiles.cfg for the instance.         *)
EXTENDS RemoteProfiles, TLC

Symmetry == Permutations(Profiles) \cup Permutations(Workers)
=============================================================================
