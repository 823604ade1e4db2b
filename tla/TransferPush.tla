---------------------------- MODULE TransferPush -----------------------------
(***************************************************************************)
(* schooner push: the checkout is captured, the destination is observed    *)
(* (or cloned first), and a request to apply crosses the network           *)
(* (workspacetransfer.Push, ApplyWorkspacePush of the Box's runtime).      *)
(***************************************************************************)
EXTENDS TransferState

(* With an exact path: a missing Worktree is cloned, where it can be.      *)
Exact(c) ==
    /\ At(c, "exact") /\ cmd[c].op = "push"
    /\ IF cmd[c].dry \/ cmd[c].mine = "none" THEN Go(c, "capture")
       ELSE IF ~Answers(c) THEN Conflict(c)
       ELSE Go(c, IF remote[cmd[c].path] = Absent THEN "clone" ELSE "capture")
    /\ Looks

(* Without one: the only Worktree of the repository, the one a person      *)
(* chooses, or a new clone.                                                *)
Discover(c) ==
    /\ At(c, "discover") /\ cmd[c].op = "push"
    /\ IF ~Answers(c) THEN Conflict(c)
       ELSE IF Choices(c) = {}
       THEN Set(c, [cmd[c] EXCEPT !.path = DefaultPath,
                      !.pc = IF cmd[c].dry \/ cmd[c].mine = "none" THEN "capture" ELSE "clone"])
       ELSE \/ \E p \in Choices(c) : Set(c, [cmd[c] EXCEPT !.path = p, !.pc = "capture"])
            \/ Cardinality(Choices(c)) > 1 /\ End(c, "failed")
    /\ Looks

CloneOf(c) == [head |-> Upstream, work |-> "clean", origin |-> cmd[c].mine]

(* cloneWithRecovery: the Box publishes a clone where nothing is. *)
CloneDestination(c) ==
    /\ At(c, "clone")
    /\ LET p == cmd[c].path IN
       IF Answers(c) /\ remote[p] = Absent
       THEN /\ RemoteBecomes(p, CloneOf(c))
            /\ cloned' = [cloned EXCEPT ![p] = @ \cup {CloneOf(c)}]
            /\ Go(c, "seed")
       ELSE UNCHANGED <<remote, held, cloned>> /\ Conflict(c)
    /\ Quiet /\ UNCHANGED local

(* observeCreatedPushDestination: it is still what the clone returned. *)
SeedSeen(c) ==
    /\ At(c, "seed")
    /\ IF Answers(c) /\ remote[cmd[c].path] = CloneOf(c)
       THEN Set(c, [cmd[c] EXCEPT !.seed = CloneOf(c), !.pc = "capture"])
       ELSE Conflict(c)
    /\ Looks

(* CaptureCheckout: observed, read file by file, observed again. *)
Capture(c) ==
    /\ At(c, "capture")
    /\ Set(c, [cmd[c] EXCEPT !.source = local[c], !.pc = IF cmd[c].dry THEN "compare" ELSE "read"])
    /\ Looks

(* A file that differs from what was observed ends the capture. *)
Read(c) ==
    /\ At(c, "read") /\ cmd[c].op = "push"
    /\ IF local[c] = cmd[c].source THEN Go(c, "compare") ELSE Conflict(c)
    /\ Looks

(* Push: a destination of this push's own clone must be as cloned, any     *)
(* other one clean and contained in the source.                            *)
Compare(c) ==
    LET source == cmd[c].source
        there  == remote[cmd[c].path]
        seen   == [cmd[c] EXCEPT !.destination = there]
    IN  /\ At(c, "compare")
        /\ IF ~Answers(c) \/ cmd[c].seed \notin {Absent, there} THEN Conflict(c)
           ELSE IF there = Absent THEN Set(c, [seen EXCEPT !.pc = "preflight"])
           ELSE IF Unchanged(source, there)
           THEN IF cmd[c].dry THEN End(c, "no_change") ELSE Set(c, [seen EXCEPT !.pc = "link"])
           ELSE IF Refused(source, there, cmd[c].seed # Absent \/ Older(there.head, source.head)) THEN Conflict(c)
           ELSE Set(c, [seen EXCEPT !.pc = "preflight"])
        /\ Looks

ApplyRequest(c) ==
    [by |-> c, live |-> TRUE, pc |-> "sent", path |-> cmd[c].path, identity |-> cmd[c].identity,
     expected |-> cmd[c].destination, payload |-> cmd[c].source]

(* A file that the destination ignores, or that Git would treat otherwise   *)
(* there, is in the way of a path of the manifest.                         *)
Collision(c) ==
    /\ At(c, "preflight") /\ cmd[c].destination # Absent
    /\ Conflict(c)
    /\ Looks

(* The pages of the manifest, each refused if the destination is gone;     *)
(* then the request is sent.                                               *)
Preflight(c) ==
    /\ At(c, "preflight") /\ cmd[c].op = "push"
    /\ cmd[c].destination # Absent => Answers(c) /\ remote[cmd[c].path] # Absent
    /\ IF cmd[c].dry THEN End(c, "would") /\ UNCHANGED net
       ELSE net' = net \cup {ApplyRequest(c)} /\ Go(c, "wait")
    /\ UNCHANGED <<trees, machine, inventory, link, bounds>>

-----------------------------------------------------------------------------
(* The Box.                                                                *)

(* The command that sent it hears of it, unless it is gone. *)
Reply(r, v) == IF r.live THEN Set(r.by, v) ELSE UNCHANGED cmd

(* Mutant: the command is not told. *)
RefuseSilently(r) ==
    /\ net' = net \ {r}
    /\ UNCHANGED <<trees, cmd>>

RefuseApply(r) ==
    /\ net' = net \ {r}
    /\ Reply(r, Idle)
    /\ UNCHANGED trees

(* Mutant: whichever machine has the address. *)
ReceiveAnywhere(r) ==
    /\ r.pc = "sent"
    /\ IF (r.expected = Absent) = (remote[r.path] = Absent)
       THEN /\ net' = (net \ {r}) \cup {[r EXCEPT !.pc = "lock"]}
            /\ UNCHANGED <<trees, cmd>>
       ELSE RefuseApply(r)
    /\ UNCHANGED <<machine, inventory, link, bounds>>

(* ApplyWorkspacePush: the payload is received and verified. *)
Receive(r) ==
    /\ r.pc = "sent"
    /\ IF r.identity = machine /\ (r.expected = Absent) = (remote[r.path] = Absent)
       THEN /\ net' = (net \ {r}) \cup {[r EXCEPT !.pc = "lock"]}
            /\ UNCHANGED <<trees, cmd>>
       ELSE RefuseApply(r)
    /\ UNCHANGED <<machine, inventory, link, bounds>>

(* A Repository made beside its place and renamed into it has the origin   *)
(* of its source; one that is changed in place keeps its own.              *)
Result(r) == IF r.expected = Absent THEN r.payload ELSE [r.payload EXCEPT !.origin = r.expected.origin]

(* Mutant: the destination is not revalidated under the lock. *)
ApplyUnlocked(r) ==
    /\ r.pc = "lock"
    /\ IF (r.expected = Absent) = (remote[r.path] = Absent)
       THEN /\ RemoteBecomes(r.path, Result(r))
            /\ Reply(r, [cmd[r.by] EXCEPT !.pc = "link", !.destination = Result(r)])
            /\ net' = net \ {r}
            /\ UNCHANGED <<local, cloned>>
       ELSE RefuseApply(r)
    /\ UNCHANGED <<machine, inventory, link, bounds>>

(* ApplyCheckoutTransaction and createCheckout, under the lock of the path: *)
(* the destination is still what the push observed, or still missing.      *)
Apply(r) ==
    /\ r.pc = "lock"
    /\ IF remote[r.path] = r.expected
       THEN /\ RemoteBecomes(r.path, Result(r))
            /\ Reply(r, [cmd[r.by] EXCEPT !.pc = "link", !.destination = Result(r)])
            /\ net' = net \ {r}
            /\ UNCHANGED <<local, cloned>>
       ELSE RefuseApply(r)
    /\ UNCHANGED <<machine, inventory, link, bounds>>

Pushing(c) ==
    \/ Exact(c) \/ Discover(c) \/ CloneDestination(c) \/ SeedSeen(c)
    \/ Capture(c) \/ Read(c) \/ Compare(c) \/ Preflight(c) \/ Collision(c)
    \/ Unsupported(c)

Serving == \E r \in net : Receive(r) \/ Apply(r)
=============================================================================
