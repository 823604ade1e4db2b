---------------------------- MODULE MCWorkstation ----------------------------
(* Two updaters, resolvers and callers, one build at a time (the build lock  *)
(* is held by one), and a command with two descendants.                      *)
EXTENDS Workstation, TLC

CONSTANTS u1, u2, b1, r1, r2, c1, c2

Symmetry == Permutations(Updaters) \cup Permutations(Resolvers) \cup Permutations(Callers)
=============================================================================
