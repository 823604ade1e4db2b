-------------------------- MODULE MCBoxAcquisition --------------------------
(* Small instances of BoxAcquisition for TLC. *)
EXTENDS BoxAcquisition, TLC

CONSTANTS p1, p2

(* One provisions; another adopts, removes and destroys meanwhile.         *)
MCOneProvisions == (p1 :> {"provision"}) @@ (p2 :> {"adopt", "remove", "destroy"})

(* What is repeated until it is done.                                      *)
MCRetries == (p1 :> {"provision"}) @@ (p2 :> {"remove", "destroy"})

MCSymmetry == Permutations(Names)
=============================================================================
