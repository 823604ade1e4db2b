------------------------ MODULE MCWorktreeLifecycle ------------------------
(* Small instances of WorktreeLifecycle for TLC. *)
EXTENDS WorktreeLifecycle, TLC

MCSymmetry == Permutations(Procs) \cup Permutations(SessionIDs) \cup Permutations(Refs)
=============================================================================
