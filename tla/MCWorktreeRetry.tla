-------------------------- MODULE MCWorktreeRetry --------------------------
(* Small instances of WorktreeRetry for TLC. *)
EXTENDS WorktreeRetry

(* Every step, except those between two effects of which the second makes  *)
(* the first recognisable: the stage and its marker, the checkout and its  *)
(* record.                                                                 *)
MCResumable == Labels \ {"idle", "shell", "a_mark", "r_mark", "a_finished"}
=============================================================================
