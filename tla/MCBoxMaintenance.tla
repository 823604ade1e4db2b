-------------------------- MODULE MCBoxMaintenance --------------------------
(* Two workstations, two machines, a development build (0), a release with *)
(* an old protocol (1) and two that are current.                           *)
EXTENDS BoxMaintenance, TLC

CONSTANTS a, b, m1, m2

MCVersions == 0..3
Symmetry == Permutations(Machines) \cup Permutations(Stations)
=============================================================================
