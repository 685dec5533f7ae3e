---------------------------- MODULE MCEventQueue ----------------------------
(* EventQueue for TLC: two interchangeable completion callbacks.           *)
EXTENDS EventQueue, TLC
CONSTANTS c1, c2
Symmetry == Permutations({c1, c2})
=============================================================================
