---------------------------- MODULE CheckoutApply ----------------------------
(***************************************************************************)
(* Replacing the contents of a Worktree by those of another one, beside    *)
(* people who edit, remove and create files and use Git in it meanwhile:   *)
(* ApplyCheckoutTransaction and applyExistingCheckout                      *)
(* (internal/repository/checkout_apply.go).  The transaction holds         *)
(* Schooner's lock on the Worktree, which nobody else honours.             *)
(***************************************************************************)
EXTENDS CheckoutUndo, CheckoutGit

(* The destination is observed, captured and observed again. *)
Observe ==
    /\ At("observe")
    /\ IF LooksPrevious THEN Goto("import") ELSE Fail("conflict")
    /\ UNCHANGED <<plan, files, material, gitState, result, bounds>>

(* PreflightCheckoutApplication: an ignored file is in the way. *)
Collides == \E n \in Names : Will(n) /\ ~Was(n) /\ (Seen(n) = "error" \/ at[n] \in FileNodes)

(* The preflights, and the import of Git objects, which disturbs nothing. *)
Import ==
    /\ At("import")
    /\ \/ (IF LooksPrevious /\ ~Collides THEN Goto("index") ELSE Fail("conflict")) /\ UNCHANGED faults
       \/ Fault /\ Fail("failed")
    /\ UNCHANGED <<plan, files, material, gitState, result, edits>>

(* Once index.lock is held, the destination is observed once more. *)
Reobserve ==
    /\ At("reobserve")
    /\ IF LooksPrevious /\ ~Collides THEN Goto("stage") ELSE Fail("conflict")
    /\ UNCHANGED <<plan, files, material, gitState, result, bounds>>

(* Mutant: the result is not observed. *)
FinalUnseen ==
    /\ At("final") /\ Goto("release")
    /\ UNCHANGED <<plan, files, material, gitState, result, bounds>>

(* ObserveCheckout and verificationState: the result is the payload's, and *)
(* the backups have still what was captured.                               *)
Final ==
    /\ At("final")
    /\ \/ /\ tx' = IF (\A n \in Names : BackupIntact(n)) /\ LooksIncoming
                     THEN [tx EXCEPT !.pc = "release"] ELSE Fails(tx, "unknown")
          /\ UNCHANGED faults
       \/ Fault /\ Fail("failed")
    /\ UNCHANGED <<plan, files, material, gitState, result, edits>>

Transaction ==
    Observe \/ Import \/ Reobserve \/ ApplyFiles \/ ApplyGit \/ Final \/ UndoFiles \/ UndoGit

-----------------------------------------------------------------------------
(* People, until the transaction is over.                                  *)

Act(x) ==
    /\ result = "pending" /\ edits < MaxEdits /\ edits' = edits + 1
    /\ touched' = touched \cup {x}
    /\ UNCHANGED <<plan, material, tx, result, faults>>

OnFiles == UNCHANGED gitState
OnGit   == UNCHANGED <<at, edited, written>>

Write(n) ==
    /\ at[n] = "none" /\ InDir(n)
    /\ at' = [at EXCEPT ![n] = "usr"] /\ written' = written \cup {<<"usr", n>>}
    /\ Act(n) /\ OnFiles /\ UNCHANGED edited

(* In place; the captured file also through a descriptor opened before. *)
Edit(n) ==
    /\ \/ at[n] \in {"old", "new"} /\ edited' = edited \cup {<<at[n], n>>}
       \/ /\ n \in backup \/ aside[n] = "old"
          /\ n \notin touched
          /\ edited' = edited \cup {<<"old", n>>}
    /\ written' = written \cup (edited' \ edited)
    /\ Act(n) /\ OnFiles /\ UNCHANGED at

Remove(n) ==
    /\ at[n] \in FileNodes
    /\ at' = [at EXCEPT ![n] = "none"] /\ written' = written \ {<<at[n], n>>}
    /\ Act(n) /\ OnFiles /\ UNCHANGED edited

MakeDir(n) ==
    /\ at[n] = "none" /\ InDir(n) /\ "dir" \in {plan.old[n], plan.new[n]}
    /\ at' = [at EXCEPT ![n] = "udir"]
    /\ Act(n) /\ OnFiles /\ UNCHANGED <<edited, written>>

RemoveDir(n) ==
    /\ at[n] \in DirNodes /\ \A c \in Kids(n) : at[c] = "none"
    /\ at' = [at EXCEPT ![n] = "none"]
    /\ Act(n) /\ OnFiles /\ UNCHANGED <<edited, written>>

(* git commit, which takes index.lock; git add and git switch do as well. *)
Commit ==
    /\ indexLock = "free" /\ ref' = [ref EXCEPT ![binding] = "theirs"]
    /\ Act("git") /\ OnGit /\ UNCHANGED <<binding, index, indexLock>>

GitAdd ==
    /\ indexLock = "free" /\ index' = "theirs"
    /\ Act("git") /\ OnGit /\ UNCHANGED <<binding, ref, indexLock>>

Switch(b) ==
    /\ indexLock = "free" /\ b # binding /\ binding' = b
    /\ index' = "theirs"
    /\ Act("git") /\ OnGit /\ UNCHANGED <<ref, indexLock>>

(* git update-ref, or a fetch into the branch, from anywhere. *)
MoveRef(b) ==
    /\ ref' = [ref EXCEPT ![b] = "theirs"]
    /\ Act("git") /\ OnGit /\ UNCHANGED <<binding, index, indexLock>>

HoldIndex ==
    /\ indexLock = "free" /\ indexLock' = "theirs"
    /\ Act("git") /\ OnGit /\ UNCHANGED <<binding, ref, index>>

LeaveIndex ==
    /\ result = "pending" /\ indexLock = "theirs" /\ indexLock' = "free"
    /\ UNCHANGED <<plan, files, material, binding, ref, index, tx, result, bounds>>

People ==
    \/ \E n \in Names : Write(n) \/ Edit(n) \/ Remove(n) \/ MakeDir(n) \/ RemoveDir(n)
    \/ Commit \/ GitAdd \/ HoldIndex \/ LeaveIndex
    \/ \E b \in Branches : Switch(b) \/ MoveRef(b)

Next == Transaction \/ People

Spec == Init /\ [][Next]_vars

-----------------------------------------------------------------------------
TypeOK ==
    /\ plan \in Plans
    /\ at \in [Names -> Nodes] /\ aside \in [Names -> Nodes] /\ taken \in [Names -> Nodes]
    /\ quarantine \in [Names -> Nodes]
    /\ edited \subseteq {"old", "new"} \X Names /\ written \subseteq FileNodes \X Names
    /\ touched \subseteq Names \cup {"git"}
    /\ backup \subseteq Names /\ staged \subseteq Names
    /\ binding \in Branches \cup {"detached"}
    /\ ref \in [Branches \cup {"detached"} -> Commits]
    /\ index \in {"old", "new", "theirs"} /\ indexLock \in {"free", "ours", "theirs"}
    /\ result \in {"pending", "applied", "refused", "unknown"}
    /\ tx.k \in Nat /\ edits \in 0..MaxEdits /\ faults \in 0..MaxFaults

(* The file v of path n can still be found, at its path or beside it. *)
Found(v, n) ==
    v \in {at[n], aside[n], taken[n], quarantine[n]} \/ (v = "old" /\ n \in backup)

(* What a person wrote while a transfer was applied is never lost, not     *)
(* even in a file that was being replaced: it is at its path or in the     *)
(* recovery material, and unless the outcome is reported as unknown it is  *)
(* at its path or in a backup beside it.                                   *)
WritingKept ==
    \A w \in written : LET v == w[1] n == w[2] IN
        /\ Found(v, n)
        /\ result \in {"applied", "refused"} => at[n] = v \/ (v = "old" /\ n \in backup)

(* The file whose replacement could not be installed is the one the code   *)
(* loses: unless its rollback gave up and kept the backups, Release        *)
(* removes the last link of it after the refusal.                          *)
LetGo(n) == tx.pc \in {"unlock", "done"} /\ n \in tx.abandoned \ tx.keepBackup

(* At every step of a transfer, an interruption included, every file that  *)
(* was captured can be found, until all of the transfer has been applied;  *)
(* but for the one whose replacement could not be installed, which is lost *)
(* when a refused transfer is released (checkout_apply.go:1125-1134, where *)
(* docs/architecture.md calls the transaction rollback-backed).            *)
Recoverable ==
    \A n \in Names :
        Was(n) /\ ~(tx.pc \in {"release", "unlock", "done"} /\ tx.error = "none") /\ ~LetGo(n)
        => Found("old", n) \/ n \in touched

(* A transfer that reports a refusal has left HEAD, the branches and the   *)
(* index as they were, but for what people did, and no index.lock behind.  *)
RefusedGit ==
    result # "pending" =>
        /\ indexLock # "ours"
        /\ result = "refused" /\ "git" \notin touched =>
              binding = plan.from /\ HEAD = "old" /\ index = "old" /\ ref["topic"] = plan.topic

(* A transfer never overwrites commits somebody made meanwhile, neither    *)
(* when it moves a branch nor when it moves one back, nor an index somebody *)
(* changed, and never removes the index.lock of somebody else.             *)
GitKept ==
    [][/\ \A b \in Branches : ref[b] = "theirs" => ref'[b] = "theirs"
       /\ index = "theirs" => index' = "theirs"
       /\ indexLock = "theirs" /\ tx' # tx => indexLock' = "theirs"]_vars

(* The files, seen as the promise of AtomicReplacement.  A file that a     *)
(* person makes at a path which goes, and which .gitignore hides, is       *)
(* nothing a transfer sees.                                                *)
Hidden(n) == n \in plan.ignored /\ ~Will(n) /\ at[n] = "usr"

Show(n) ==
    CASE IsPrevious(n) -> "previous"
      [] IsIncoming(n) -> "incoming"
      [] (at[n] = "usr" /\ ~Hidden(n)) \/ <<at[n], n>> \in edited -> "theirs"
      [] at[n] \notin FileNodes /\ Was(n) /\ Will(n) -> "missing"
      [] (at[n] \notin FileNodes \/ Hidden(n)) /\ Was(n) /\ ~Will(n) -> "incoming"
      [] at[n] \notin FileNodes /\ ~Was(n) -> "previous"

Outcome ==
    IF tx.pc \notin {"release", "unlock", "done"} THEN "pending"
    ELSE CASE tx.error = "none" -> "applied"
           [] tx.error # "none" /\ (tx.restoreFailed \/ tx.error = "unknown") -> "unknown"
           [] OTHER -> "refused"

Promise == INSTANCE AtomicReplacement WITH
    Names <- Names, shown <- [n \in Known |-> Show(n)],
    touched <- touched \cap Names, abandoned <- tx.abandoned, outcome <- Outcome

(* A transfer applies all of its files, or none of them and leaves every   *)
(* file as it was, but for the one path whose installation failed, which   *)
(* the code leaves empty while it reports a refusal.                       *)
AllOrNothing == Promise!Spec
=============================================================================
