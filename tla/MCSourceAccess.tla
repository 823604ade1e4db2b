--------------------------- MODULE MCSourceAccess ---------------------------
(* SourceAccess on small instances: each configuration names its own       *)
(* processes, Boxes and bounds.                                            *)
EXTENDS SourceAccess, TLC

(* Box identities are interchangeable, and so are accounts and names. *)
Symmetry == Permutations(Boxes) \cup Permutations(Names) \cup Permutations(Accounts)
ProcSymmetry == Symmetry \cup Permutations(Procs)

=============================================================================
