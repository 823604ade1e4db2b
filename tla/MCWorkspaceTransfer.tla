------------------------ MODULE MCWorkspaceTransfer -------------------------
(* Small instances of WorkspaceTransfer for TLC. *)
EXTENDS WorkspaceTransfer, TLC

(* Two commits on a first one. *)
MCCommits == {1, 2, 3}

MCAncestry == {<<1, 1>>, <<2, 2>>, <<3, 3>>, <<1, 2>>, <<1, 3>>}

MCSymmetry == Permutations(Clients)
=============================================================================
