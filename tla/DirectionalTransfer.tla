------------------------- MODULE DirectionalTransfer -------------------------
(***************************************************************************)
(* What push and pull promise (ADR 0012): the destination takes a whole    *)
(* state that the source had, and only while it has no work of its own.    *)
(***************************************************************************)
EXTENDS Naturals

CONSTANTS
    Places,          \* the checkouts on workstations and on the Box
    Tree,            \* states of a checkout
    Ancestry,        \* pairs of a head and one that contains it
    Absent

VARIABLES
    tree,    \* what each place holds
    held,    \* the states it has held
    cloned,  \* what clones have put there
    acts     \* what people did

vars == <<tree, held, cloned, acts>>

Older(a, b) == <<a, b>> \in Ancestry

(* Two origins may be of one repository. *)
Related(a, b) == a = b \/ "none" \in {a, b}

Init ==
    /\ tree \in [Places -> Tree \cup {Absent}]
    /\ held = [x \in Places |-> {tree[x]}]
    /\ cloned = [x \in Places |-> {}]
    /\ acts = 0

Become(x, t) ==
    /\ tree' = [tree EXCEPT ![x] = t]
    /\ held' = [held EXCEPT ![x] = @ \cup {t}]

(* People do what they like. *)
People ==
    /\ acts' = acts + 1
    /\ tree' \in [Places -> Tree \cup {Absent}]
    /\ held' = [x \in Places |-> held[x] \cup {tree'[x]}]
    /\ UNCHANGED cloned

Clone(x) ==
    /\ tree[x] = Absent
    /\ \E t \in Tree : Become(x, t) /\ t.work = "clean" /\ cloned' = [cloned EXCEPT ![x] = @ \cup {t}]
    /\ UNCHANGED acts

Create(x, y) ==
    /\ tree[x] = Absent
    /\ \E t \in held[y] \ {Absent} : Become(x, t)
    /\ UNCHANGED <<cloned, acts>>

(* Nothing is lost: what was there is committed and part of what comes, or *)
(* it is as a clone made it.                                               *)
Replace(x, y) ==
    /\ tree[x] \in Tree /\ tree[x].work = "clean"
    /\ \E t \in held[y] \ {Absent} :
        /\ Older(tree[x].head, t.head) \/ tree[x] \in cloned[x]
        /\ Related(tree[x].origin, t.origin)
        /\ Become(x, [t EXCEPT !.origin = tree[x].origin])
    /\ UNCHANGED <<cloned, acts>>

Next == People \/ \E x, y \in Places : Clone(x) \/ Create(x, y) \/ Replace(x, y)

Spec == Init /\ [][Next]_vars
=============================================================================
