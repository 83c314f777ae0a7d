--------------------------- MODULE MCGlobalHotkey ---------------------------
(* The global hotkey for TLC: see hotkey.cfg for the instance; Symmetry is  *)
(* for hotkey_threads.cfg, which has no liveness.                           *)
EXTENDS GlobalHotkey, TLC

Symmetry == Permutations(Threads) \cup Permutations(Bindings)
=============================================================================
