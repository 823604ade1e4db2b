---------------------------- MODULE TransferPull -----------------------------
(***************************************************************************)
(* schooner pull: the checkout is observed, the Worktree of the Box is     *)
(* inspected and then captured as inspected, and the local checkout is     *)
(* replaced under its lock (workspacetransfer.Pull).                       *)
(***************************************************************************)
EXTENDS TransferState

(* The route of a pull ends at a Worktree that is there. *)
RoutePull(c) ==
    /\ cmd[c].op = "pull"
    /\ \/ /\ At(c, "exact")
          /\ IF Answers(c) /\ remote[cmd[c].path] # Absent THEN Go(c, "observe") ELSE End(c, "failed")
       \/ /\ At(c, "discover")
          /\ IF Answers(c)
             THEN \/ \E p \in Choices(c) : Set(c, [cmd[c] EXCEPT !.path = p, !.pc = "observe"])
                  \/ Cardinality(Choices(c)) # 1 /\ End(c, "failed")
             ELSE Conflict(c)
    /\ Looks

Observe(c) ==
    /\ At(c, "observe")
    /\ Set(c, [cmd[c] EXCEPT !.destination = local[c], !.pc = "inspect"])
    /\ Looks

(* InspectPullSource, and what follows from it. *)
Inspect(c) ==
    LET there == remote[cmd[c].path]
        mine  == cmd[c].destination
        seen  == [cmd[c] EXCEPT !.source = there]
    IN  /\ At(c, "inspect")
        /\ IF ~Answers(c) \/ there = Absent THEN End(c, "failed")
           ELSE IF Unchanged(there, mine)
           THEN IF cmd[c].dry THEN End(c, "no_change") ELSE Set(c, [seen EXCEPT !.pc = "link"])
           ELSE IF Refused(there, mine, Older(mine.head, there.head)) THEN Conflict(c)
           ELSE Set(c, [seen EXCEPT !.pc = IF cmd[c].dry THEN "preflight" ELSE "fetch"])
        /\ Looks

(* PreflightCheckoutApplication: the destination is as observed. *)
PreflightPull(c) ==
    /\ At(c, "preflight") /\ cmd[c].op = "pull"
    /\ IF local[c] = cmd[c].destination THEN End(c, "would") ELSE Conflict(c)
    /\ Looks

(* CaptureWorkspacePull: captured on the Box as it was inspected. *)
Fetch(c) ==
    /\ At(c, "fetch")
    /\ IF Answers(c) /\ remote[cmd[c].path] = cmd[c].source THEN Go(c, "read") ELSE Conflict(c)
    /\ Looks

(* The capture is read file by file, observed again, and verified when it  *)
(* has arrived.                                                            *)
Download(c) ==
    /\ At(c, "read") /\ cmd[c].op = "pull"
    /\ IF Answers(c) /\ remote[cmd[c].path] = cmd[c].source THEN Go(c, "apply") ELSE Conflict(c)
    /\ Looks

(* ApplyCheckoutTransaction on the workstation. *)
Replace(c) ==
    /\ At(c, "apply")
    /\ LET new == [cmd[c].source EXCEPT !.origin = local[c].origin] IN
       \/ /\ local[c] = cmd[c].destination
          /\ LocalBecomes(c, new)
          /\ Set(c, [cmd[c] EXCEPT !.pc = "link"])
       \/ Conflict(c) /\ UNCHANGED <<local, held>>
    /\ Quiet /\ UNCHANGED <<remote, cloned>>

Pulling(c) ==
    RoutePull(c) \/ Observe(c) \/ Inspect(c) \/ PreflightPull(c) \/ Fetch(c) \/ Download(c) \/ Replace(c)
=============================================================================
