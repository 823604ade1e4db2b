--------------------------- MODULE MCCheckoutApply ---------------------------
(* Small instances of CheckoutApply for TLC. *)
EXTENDS CheckoutApply

MCNames == {"a", "d", "d/x"}

MCPathOrder == <<"a", "d", "d/x">>

MCUp(n) == IF n = "d/x" THEN "d" ELSE "top"

Leaf(a, d, x) == [n \in MCNames |-> IF n = "a" THEN a ELSE IF n = "d" THEN d ELSE x]

Plan(old, new, from, to, topic, rewind) ==
    [old |-> old, new |-> new, from |-> from, to |-> to, topic |-> topic, rewind |-> rewind,
     ignored |-> {"d/x"}]

(* A directory becomes a file, a file becomes a directory, a file goes and *)
(* a new one comes; on the branch, on another one, on a new one, detached. *)
MCPlans == {
    Plan(Leaf("file", "dir", "file"), Leaf("file", "file", "none"), "main", "main", "none", FALSE),
    Plan(Leaf("none", "file", "none"), Leaf("file", "dir", "file"), "main", "topic", "old", FALSE),
    Plan(Leaf("file", "none", "none"), Leaf("none", "dir", "file"), "main", "detached", "none", FALSE),
    Plan(Leaf("file", "none", "none"), Leaf("file", "none", "none"), "detached", "topic", "none", FALSE),
    Plan(Leaf("file", "none", "none"), Leaf("file", "none", "none"), "main", "main", "none", TRUE)}
=============================================================================
