---------------------------- MODULE TransferState ----------------------------
(***************************************************************************)
(* The checkouts on workstations and on a Box that push and pull move      *)
(* between, the records that route them (Local Links, the inventory), and  *)
(* the state of a command (internal/workspacetransfer, internal/link,      *)
(* internal/cli/push.go, internal/cli/pull.go).                            *)
(***************************************************************************)
EXTENDS Naturals, FiniteSets

CONSTANTS
    Clients,     \* checkouts on workstations, each with a command at a time
    Paths,       \* places of Worktrees below the Worktree Root of the Box
    DefaultPath, \* the one a clone chooses
    Commits, Ancestry, \* pairs of a commit and one that contains it
    Upstream,    \* the commit a clone checks out
    Absent, NoLink,
    MaxStarts,   \* bound: commands
    MaxActs,     \* bound: what people do
    MaxFaults    \* bound: broken commands

VARIABLES
    local,      \* the checkout of each client
    remote,     \* the Worktrees of the Box
    machine,    \* the identity of the machine at the Box's address
    inventory,  \* the Box's record on the workstations
    link,       \* Local Links
    cmd,        \* the command of each client
    net,        \* requests to apply a push that the Box has not answered
    held, cloned, starts, acts, faults  \* history and bounds

vars == <<local, remote, machine, inventory, link, cmd, net, held, cloned, starts, acts, faults>>
bounds == <<starts, acts, faults>>
trees == <<local, remote, held, cloned>>

Works == {"clean", "edited"}
Origins == {"none", "ours", "other"}
Tree == [head : Commits, work : Works, origin : Origins]
Held == Tree \cup {Absent}
Places == Clients \cup Paths

ASSUME TransferConstants ==
    /\ Clients \cap Paths = {} /\ DefaultPath \in Paths /\ Upstream \in Commits
    /\ Absent \notin Tree
    /\ {MaxStarts, MaxActs, MaxFaults} \subseteq Nat

Older(a, b) == <<a, b>> \in Ancestry
Related(a, b) == a = b \/ "none" \in {a, b}

(* The digest leaves out where the repository comes from, the digest for   *)
(* revalidation does not.                                                  *)
Digest(t) == <<t.head, t.work>>

Links == [box : Nat, identity : Nat, path : Paths, origin : Origins]

Idle == [pc |-> "idle", op |-> "push", dry |-> FALSE, linked |-> FALSE,
         path |-> DefaultPath, box |-> 0, identity |-> 0, mine |-> "none",
         source |-> Absent, destination |-> Absent, seed |-> Absent]

Request == [by : Clients, live : BOOLEAN, pc : {"sent", "lock"}, path : Paths, identity : Nat,
            expected : Held, payload : Tree]

Init ==
    /\ local \in [Clients -> {t \in Tree : t.work = "clean" /\ t.origin = "ours"}]
    /\ remote \in [Paths -> {t \in Held : t = Absent \/ (t.work = "clean" /\ t.origin = "ours")}]
    /\ machine = 1 /\ inventory = [box |-> 1, identity |-> 1]
    /\ link = [c \in Clients |-> NoLink]
    /\ cmd = [c \in Clients |-> Idle]
    /\ net = {}
    /\ held = [x \in Places |-> {IF x \in Clients THEN local[x] ELSE remote[x]}]
    /\ cloned = [p \in Paths |-> {}]
    /\ starts = 0 /\ acts = 0 /\ faults = 0

At(c, pc) == cmd[c].pc = pc
Set(c, v) == cmd' = [cmd EXCEPT ![c] = v]
Go(c, pc) == Set(c, [cmd[c] EXCEPT !.pc = pc])

(* What is reported is told apart from the changes only by its name. *)
End(c, outcome) == Set(c, Idle) /\ outcome \in STRING
Conflict(c) == End(c, "conflict")

RemoteBecomes(p, t) ==
    /\ remote' = [remote EXCEPT ![p] = t]
    /\ held' = [held EXCEPT ![p] = @ \cup {t}]

LocalBecomes(c, t) ==
    /\ local' = [local EXCEPT ![c] = t]
    /\ held' = [held EXCEPT ![c] = @ \cup {t}]

(* Every request names the machine it is meant for. *)
Answers(c) == cmd[c].identity = machine

Quiet == UNCHANGED <<machine, inventory, link, net, bounds>>
Looks == UNCHANGED trees /\ Quiet

-----------------------------------------------------------------------------
(* Routing.                                                                *)

(* link.Find: a link of another repository is stale. *)
LinkStale(c) == link[c] # NoLink /\ link[c].origin \notin {"none", local[c].origin}

(* An exact Box and path is the way to replace a stale link. *)
Found(c, exact) == link[c] # NoLink /\ ~(exact /\ LinkStale(c))

Begin(c, op, dry, exact, p) ==
    LET routed  == Found(c, exact)
        linked  == routed /\ ~exact /\ inventory.box = link[c].box
        refused == \/ LinkStale(c) /\ ~exact
                   \/ routed /\ ~exact /\ inventory.box # link[c].box
                   \/ linked /\ inventory.identity # link[c].identity
    IN  /\ At(c, "idle")
        /\ IF refused THEN End(c, "stale")
           ELSE Set(c, [Idle EXCEPT !.pc = IF linked THEN "revalidate" ELSE IF exact THEN "exact" ELSE "discover",
                !.op = op, !.dry = dry, !.linked = linked, !.path = IF linked THEN link[c].path ELSE p,
                !.box = inventory.box, !.identity = inventory.identity, !.mine = local[c].origin])
        /\ starts < MaxStarts /\ starts' = starts + 1
        /\ UNCHANGED <<trees, machine, inventory, link, net, acts, faults>>

(* A checkout in the middle of a merge, a shallow one, one with submodules *)
(* and other Git state that a transfer does not carry is refused whenever  *)
(* it is observed, on either side.                                         *)
Unsupported(c) ==
    /\ cmd[c].pc \in {"capture", "compare", "observe", "inspect", "fetch"}
    /\ Conflict(c)
    /\ Looks

(* What starts when the route is known. *)
Routed(c) == IF cmd[c].op = "push" THEN "capture" ELSE "observe"

(* The linked Worktree must be there and of the repository of the link. *)
Revalidate(c) ==
    /\ At(c, "revalidate")
    /\ LET there == remote[cmd[c].path] IN
       IF ~Answers(c) THEN Conflict(c)
       ELSE IF there = Absent \/ (link[c].origin # "none" /\ there.origin # link[c].origin)
       THEN End(c, "stale")
       ELSE Go(c, Routed(c))
    /\ Looks

(* The Worktrees of the Box that have the origin of the checkout. *)
Choices(c) == {p \in Paths : cmd[c].mine # "none" /\ remote[p] # Absent /\ remote[p].origin = cmd[c].mine}

(* A successful command records where it went. *)
SaveLink(c) ==
    /\ At(c, "link")
    /\ LET far == IF cmd[c].op = "push" THEN cmd[c].destination ELSE cmd[c].source
           new == [box |-> cmd[c].box, identity |-> cmd[c].identity, path |-> cmd[c].path,
                   origin |-> IF far.origin = cmd[c].mine THEN cmd[c].mine ELSE "none"]
       IN  link' = [link EXCEPT ![c] = new]
    /\ End(c, "done")
    /\ UNCHANGED <<trees, machine, inventory, net, bounds>>

(* What a command that looked finds out before it changes anything. *)
Refused(source, destination, safe) ==
    \/ ~Related(source.origin, destination.origin)
    \/ Digest(source) # Digest(destination) /\ (destination.work # "clean" \/ ~safe)

Unchanged(source, destination) ==
    Related(source.origin, destination.origin) /\ Digest(source) = Digest(destination)
=============================================================================
