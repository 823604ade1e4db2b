----------------------------- MODULE CheckoutGit -----------------------------
(***************************************************************************)
(* HEAD, the branch and the index of a workspace application:              *)
(* checkoutHEADUpdate and preparedCheckoutIndex                            *)
(* (internal/repository/checkout_apply.go).  The index is protected by     *)
(* index.lock, the branch by Git's compare-and-swap on refs; HEAD's        *)
(* binding is read and then written.                                       *)
(***************************************************************************)
EXTENDS CheckoutState

Detached == plan.to = "detached"

(* merge-base --is-ancestor: what the incoming commit already contains;    *)
(* not so the seed of a clone that this push made.                         *)
Contained(c) == c \in {"none", "new"} \/ (c = "old" /\ ~plan.rewind)

BranchFits == Detached \/ plan.rewind \/ Contained(ref[plan.to])

(* prepareCheckoutIndex: the new index is written to index.lock, and the   *)
(* index that is there is linked.                                          *)
PrepareIndex ==
    /\ At("index")
    /\ IF BranchFits /\ indexLock = "free"
         THEN /\ indexLock' = "ours"
              /\ tx' = [tx EXCEPT !.pc = "reobserve", !.lock = TRUE, !.indexBackup = TRUE]
         ELSE Fail("conflict") /\ UNCHANGED indexLock
    /\ UNCHANGED <<plan, files, material, binding, ref, index, result, bounds>>

(* updateCheckoutHEADWithRunnerOption: HEAD and branch as they are now. *)
UpdateHEAD ==
    LET t == [tx EXCEPT !.update = [NoUpdate EXCEPT !.binding = binding, !.head = HEAD,
                                      !.ref = IF Detached THEN "none" ELSE ref[plan.to]]]
        rewindable == ref[plan.to] = "old" /\ HEAD = "old" /\ binding = plan.to IN
    /\ At("head")
    /\ tx' = IF (plan.rewind => rewindable) /\ BranchFits THEN [t EXCEPT !.pc = "bind"]
             ELSE Fails(tx, "conflict")
    /\ UNCHANGED <<plan, files, material, gitState, result, bounds>>

(* Unchanged, changed as meant, or something else: reconcileDetached-      *)
(* HEADUpdate and reconcileSymbolicHEADUpdate, after a lost answer.        *)
Reconciled(t) ==
    LET u == t.update IN
    CASE binding' = plan.to /\ (Detached => HEAD' = "new") ->
            Fails([t EXCEPT !.update.known = TRUE,
                            !.update.headChanged = u.binding # plan.to \/ (Detached /\ u.head # "new")], "failed")
      [] OTHER -> Fails([t EXCEPT !.update.known = TRUE],
                        IF binding' = u.binding /\ HEAD' = u.head THEN "failed" ELSE "unknown")

(* A detached HEAD is moved by compare-and-swap; a branch is bound first,  *)
(* so that Git keeps others from checking it out.                          *)
BindHEAD ==
    LET u == tx.update
        swaps == Detached => HEAD = u.head
        moved == /\ binding' = plan.to
                 /\ ref' = IF Detached THEN [ref EXCEPT !["detached"] = "new"] ELSE ref IN
    /\ At("bind")
    /\ \/ /\ swaps /\ moved
          /\ tx' = [tx EXCEPT !.update.known = TRUE,
                              !.update.headChanged = u.binding # plan.to \/ (Detached /\ u.head # "new"),
                              !.pc = IF Detached THEN "promote" ELSE "move"]
          /\ UNCHANGED faults
       \/ /\ ~swaps /\ UNCHANGED <<binding, ref, faults>> /\ tx' = Reconciled(tx)
       \/ /\ Fault /\ (UNCHANGED <<binding, ref>> \/ (swaps /\ moved)) /\ tx' = Reconciled(tx)
    /\ UNCHANGED <<plan, files, material, index, indexLock, result, edits>>

Advanced(t) == [t EXCEPT !.update.refChanged = t.update.ref # "new"]

(* Mutant: the branch is moved whatever it is by now. *)
MoveBranchBlindly ==
    /\ At("move")
    /\ ref' = [ref EXCEPT ![plan.to] = "new"] /\ tx' = [Advanced(tx) EXCEPT !.pc = "promote"]
    /\ UNCHANGED <<plan, files, material, binding, index, indexLock, result, bounds>>

(* The branch is moved by compare-and-swap from what it was when it was    *)
(* inspected; a lost answer is read back (reconcileBranchRefUpdate).       *)
MoveBranch ==
    LET b == plan.to
        swaps == ref[b] = tx.update.ref
        moved == ref' = [ref EXCEPT ![b] = "new"]
        failed == CASE ref'[b] = "new" -> Fails(Advanced(tx), "failed")
                    [] ref'[b] # "new" /\ ref'[b] = tx.update.ref -> Fails(tx, "failed")
                    [] OTHER -> Fails(tx, "unknown") IN
    /\ At("move")
    /\ \/ swaps /\ moved /\ tx' = [Advanced(tx) EXCEPT !.pc = "promote"] /\ UNCHANGED faults
       \/ ~swaps /\ UNCHANGED <<ref, faults>> /\ tx' = failed
       \/ Fault /\ (UNCHANGED ref \/ (swaps /\ moved)) /\ tx' = failed
    /\ UNCHANGED <<plan, files, material, binding, index, indexLock, result, edits>>

(* Promote: index.lock becomes the index, and is nobody's any more. *)
Promote ==
    /\ At("promote")
    /\ \/ /\ index' = "new" /\ indexLock' = "free"
          /\ tx' = [tx EXCEPT !.promoted = TRUE, !.lock = FALSE, !.pc = "final"]
          /\ UNCHANGED faults
       \/ Fault /\ Fail("failed") /\ UNCHANGED <<index, indexLock>>
    /\ UNCHANGED <<plan, files, material, binding, ref, result, edits>>

-----------------------------------------------------------------------------
(* Mutant: the index is removed instead of being taken back. *)
UndoIndexRemoves ==
    /\ At("undo_index")
    /\ index' = IF tx.promoted THEN "none" ELSE index
    /\ Goto("undo_head")
    /\ UNCHANGED <<plan, files, material, binding, ref, indexLock, result, bounds>>

(* preparedCheckoutIndex.Restore: only an index that is still the incoming *)
(* one is taken back, under index.lock.                                    *)
UndoIndex ==
    /\ At("undo_index")
    /\ IF ~tx.promoted THEN Goto("undo_head") /\ UNCHANGED index
       ELSE IF indexLock = "free" /\ index = "new"
         THEN index' = "old" /\ tx' = [tx EXCEPT !.promoted = FALSE, !.indexBackup = FALSE, !.pc = "undo_head"]
         ELSE tx' = [tx EXCEPT !.restoreFailed = TRUE, !.pc = "undo_head"] /\ UNCHANGED index
    /\ UNCHANGED <<plan, files, material, binding, ref, indexLock, result, bounds>>

NotRestored == [tx EXCEPT !.restoreFailed = TRUE, !.pc = "undo_files"]

(* checkoutHEADUpdate.Restore: the branch by compare-and-swap, *)
UndoBranch ==
    LET u == tx.update b == plan.to IN
    /\ At("undo_head")
    /\ CASE u.known /\ u.refChanged /\ ref[b] = "new" ->
                ref' = [ref EXCEPT ![b] = u.ref] /\ Goto("undo_look")
         [] u.known /\ u.refChanged /\ ref[b] # "new" -> tx' = NotRestored /\ UNCHANGED ref
         [] u.known /\ ~u.refChanged -> Goto("undo_look") /\ UNCHANGED ref
         [] ~u.known -> Goto("undo_files") /\ UNCHANGED ref
    /\ UNCHANGED <<plan, files, material, binding, index, indexLock, result, bounds>>

(* Mutant: HEAD stays bound to the incoming branch. *)
UndoLookNot ==
    /\ At("undo_look") /\ Goto("undo_files")
    /\ UNCHANGED <<plan, files, material, gitState, result, bounds>>

(* then HEAD, when it is still bound to what the application bound it to. *)
UndoLook ==
    LET u == tx.update IN
    /\ At("undo_look")
    /\ tx' = CASE ~u.headChanged -> [tx EXCEPT !.pc = "undo_files"]
               [] u.headChanged /\ binding = plan.to /\ (Detached => HEAD = "new") ->
                    [tx EXCEPT !.pc = "undo_bind"]
               [] OTHER -> NotRestored
    /\ UNCHANGED <<plan, files, material, gitState, result, bounds>>

(* symbolic-ref HEAD, or update-ref --no-deref HEAD from the commit that   *)
(* HEAD must still have.                                                   *)
UndoBind ==
    LET u == tx.update
        expected == IF Detached THEN "new" ELSE u.ref IN
    /\ At("undo_bind")
    /\ \/ /\ u.binding # "detached"
          /\ binding' = u.binding /\ Goto("undo_files") /\ UNCHANGED ref
       \/ /\ u.binding = "detached" /\ HEAD = expected
          /\ binding' = "detached" /\ ref' = [ref EXCEPT !["detached"] = u.head] /\ Goto("undo_files")
       \/ /\ u.binding = "detached" /\ HEAD # expected
          /\ tx' = NotRestored /\ UNCHANGED <<binding, ref>>
    /\ UNCHANGED <<plan, files, material, index, indexLock, result, bounds>>

(* preparedCheckoutIndex.Release: a lock the application still owns. *)
ReleaseIndex ==
    /\ At("unlock")
    /\ indexLock' = IF tx.lock THEN "free" ELSE indexLock
    /\ result' = CASE tx.error = "none" -> "applied"
                   [] tx.restoreFailed \/ tx.error = "unknown" -> "unknown"
                   [] OTHER -> "refused"
    /\ tx' = [tx EXCEPT !.lock = FALSE, !.indexBackup = FALSE, !.pc = "done"]
    /\ UNCHANGED <<plan, files, material, binding, ref, index, bounds>>

ApplyGit == PrepareIndex \/ UpdateHEAD \/ BindHEAD \/ MoveBranch \/ Promote
UndoGit  == UndoIndex \/ UndoBranch \/ UndoLook \/ UndoBind \/ ReleaseIndex
=============================================================================
