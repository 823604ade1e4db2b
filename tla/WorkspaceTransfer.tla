-------------------------- MODULE WorkspaceTransfer --------------------------
(***************************************************************************)
(* Push and pull between workstations and one Box, beside people who work  *)
(* in all of the checkouts, with commands that break off and requests that *)
(* arrive after the command is gone.                                       *)
(***************************************************************************)
EXTENDS TransferPush, TransferPull

Start(c) ==
    \E op \in {"push", "pull"}, dry, exact \in BOOLEAN, p \in Paths : Begin(c, op, dry, exact, p)

Command(c) == Start(c) \/ Revalidate(c) \/ Pushing(c) \/ Pulling(c) \/ SaveLink(c)

(* The process dies, its connection breaks, or its answer is lost; what    *)
(* was sent may still arrive.                                              *)
Break(c) ==
    /\ cmd[c].pc # "idle" /\ faults < MaxFaults /\ faults' = faults + 1
    /\ End(c, "failed")
    /\ net' = {[r EXCEPT !.live = IF @ /\ r.by = c THEN FALSE ELSE @] : r \in net}
    /\ UNCHANGED <<trees, machine, inventory, link, starts, acts>>

(* What arrives is cut short or holds what its manifest does not name, or  *)
(* never arrives.                                                          *)
Lose(r) ==
    /\ faults < MaxFaults /\ faults' = faults + 1
    /\ r.pc = "sent" /\ RefuseApply(r)
    /\ UNCHANGED <<machine, inventory, link, starts, acts>>

Act == acts < MaxActs /\ acts' = acts + 1 /\ UNCHANGED <<cmd, link, starts, faults>>

(* People work, commit, reset, name another origin, remove and create. *)
Reworked(t) ==
    IF t = Absent THEN {u \in Tree : u.work = "clean"}
    ELSE {u \in Tree : u.origin = t.origin \/ Digest(u) = Digest(t)} \ {t}

WorkLocally(c) ==
    /\ \E t \in Reworked(local[c]) : LocalBecomes(c, t)
    /\ Act /\ UNCHANGED <<remote, cloned, machine, inventory, net>>

WorkRemotely(p) ==
    /\ \E t \in Reworked(remote[p]) \cup ({Absent} \ {remote[p]}) : RemoteBecomes(p, t)
    /\ Act /\ UNCHANGED <<local, cloned, machine, inventory, net>>

(* Another machine takes the place of the Box, with other Worktrees, while *)
(* the Box applies nothing.                                                *)
Rebuild ==
    /\ machine' = machine + 1
    /\ remote' \in [Paths -> Reworked(Absent) \cup {Absent}]
    /\ held' = [x \in Places |-> IF x \in Paths THEN held[x] \cup {remote'[x]} ELSE held[x]]
    /\ \A r \in net : r.pc = "sent"
    /\ Act /\ UNCHANGED <<local, cloned, inventory, net>>

(* box remove and box add. *)
Reregister ==
    /\ inventory' = [box |-> inventory.box + 1, identity |-> machine]
    /\ Act /\ UNCHANGED <<local, remote, held, cloned, machine, net>>

People ==
    \/ \E c \in Clients : WorkLocally(c)
    \/ \E p \in Paths : WorkRemotely(p)
    \/ Rebuild \/ Reregister

Next ==
    \/ \E c \in Clients : Command(c) \/ Break(c)
    \/ Serving \/ \E r \in net : Lose(r)
    \/ People

Spec == Init /\ [][Next]_vars

-----------------------------------------------------------------------------
(* Properties.                                                             *)

(* Commands, requests, links and trees are what the code makes of them. *)
TypeOK ==
    /\ local \in [Clients -> Tree] /\ remote \in [Paths -> Held]
    /\ \A c \in Clients :
        /\ DOMAIN cmd[c] = DOMAIN Idle
        /\ cmd[c].path \in Paths
        /\ cmd[c].source \in Held /\ cmd[c].destination \in Held /\ cmd[c].seed \in Held
        /\ link[c] = NoLink \/ link[c] \in Links
        /\ At(c, "wait") => \E r \in net : r.by = c /\ r.live
    /\ net \subseteq Request
    /\ machine \in 1 .. MaxActs + 1 /\ starts \in 0 .. MaxStarts /\ acts \in 0 .. MaxActs /\ faults \in 0 .. MaxFaults

(* Whatever happens in between, a checkout that has work of its own is     *)
(* never replaced, and what replaces it is a whole state of the other side *)
(* (ADR 0012): push and pull implement DirectionalTransfer.                *)
Promise == INSTANCE DirectionalTransfer WITH
    tree   <- [x \in Places |-> IF x \in Clients THEN local[x] ELSE remote[x]],
    cloned <- [x \in Places |-> IF x \in Paths THEN cloned[x] ELSE {}]

Directional == Promise!Spec

(* A push changes only the machine whose Worktree it observed, even if     *)
(* another one has its address when the request arrives.                   *)
SameMachine ==
    [][\A r \in net : r \notin net' /\ remote' # remote /\ acts' = acts => r.identity = machine]_vars
=============================================================================
