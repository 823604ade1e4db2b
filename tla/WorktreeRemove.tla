--------------------------- MODULE WorktreeRemove ---------------------------
(***************************************************************************)
(* `worktree remove` and `worktree prune`: a clean, unused linked Worktree *)
(* is renamed into a quarantine the operation owns, inspected once more    *)
(* and removed by Git, or renamed back.  Lifecycle.Remove and              *)
(* Lifecycle.Prune (internal/repository/lifecycle.go).                     *)
(***************************************************************************)
EXTENDS WorktreeState

Removes == {o \in Ops : o.kind = "remove"}

RemoveAt(p, label) == proc[p].pc = label /\ proc[p].op \in Removes

Removal(p) == proc[p].op

RemoveIntent(t, w) == [kind |-> "remove", target |-> t, of |-> w]

(* TmuxUse.ManagedSessions: a managed Session uses the Worktree when its   *)
(* metadata names the path or a pane lies in it, and any Session counts    *)
(* whose panes are not where its metadata says.                            *)
ManagedSessions(t) ==
    {s \in SessionIDs :
        /\ session[s].meta # None
        /\ \/ session[s].meta = t
           \/ session[s].cwd # None /\ session[s].cwd = at[t]
           \/ at[session[s].meta] = None
           \/ session[s].cwd = None
           \/ session[s].cwd # at[session[s].meta]}

(* The target lock and the first inspection.  A target Inspect does not    *)
(* find resumes the remove record saved last.                              *)
RemoveBegin(p, t) ==
    /\ proc[p] = Idle
    /\ AcquireTarget(p, "home", t)
    /\ IF Inspects(t)
         THEN LET o == RemoveIntent(t, at[t]) IN
              /\ ~IncompleteConflict(o)
              /\ proc' = [proc EXCEPT ![p] =
                    [pc |-> "r_claim", op |-> o, target |-> t, seed |-> tree[at[t]].head]]
         ELSE /\ latest[t] # None
              /\ proc' = [proc EXCEPT ![p] =
                    [Idle EXCEPT !.pc = "r_find", !.op = RemoveIntent(t, latest[t]), !.target = t]]
    /\ UNCHANGED <<files, journal, repoLock, session, acts>>

RemoveClaim(p) ==
    /\ RemoveAt(p, "r_claim")
    /\ IF record[Removal(p)].ck = "none"
         THEN Checkpoint(Removal(p), "requested") ELSE UNCHANGED journal
    /\ Goto(p, "r_repo")
    /\ UNCHANGED <<files, locks, session, acts>>

(* A record that names no Repository yet is saved with the first snapshot. *)
RemoveRepository(p) ==
    LET o == Removal(p) IN
    /\ RemoveAt(p, "r_repo")
    /\ AcquireRepository(p)
    /\ IF record[o].rel
         THEN UNCHANGED journal
         ELSE Save(o, [record[o] EXCEPT !.rel = TRUE, !.head = proc[p].seed])
    /\ Goto(p, IF record[o].ck = "restore_pending" THEN "r_restore" ELSE "r_look")
    /\ UNCHANGED <<files, targetLock, session, acts>>

(* The way in for a target that is not there. *)
RemoveFind(p) ==
    /\ RemoveAt(p, "r_find")
    /\ AcquireRepository(p)
    /\ Goto(p, "r_reconcile")
    /\ UNCHANGED <<files, journal, targetLock, session, acts>>

-----------------------------------------------------------------------------
(* Validation: the live Worktree, its Sessions, and the Worktree again.    *)

RemoveLook(p) ==
    LET o == Removal(p) IN
    /\ RemoveAt(p, "r_look")
    /\ IF ~Inspects(o.target)
         THEN Goto(p, "r_reconcile") /\ UNCHANGED locks
         ELSE IF \/ Dirty(at[o.target])
                 \/ /\ record[o].ck \in {"remove_pending", "quarantine_pending", "complete"}
                    /\ ~MatchesRemove(at[o.target], o)
                THEN Return(p)
                ELSE Goto(p, "r_sessions") /\ UNCHANGED locks
    /\ UNCHANGED <<files, journal, session, acts>>

(* Mutant: only the Sessions whose metadata names the path and whose panes *)
(* are in it count.                                                        *)
RemoveSessionsInside(p) ==
    LET t == Removal(p).target IN
    /\ RemoveAt(p, "r_sessions")
    /\ IF \E s \in SessionIDs : session[s].meta = t /\ session[s].cwd = at[t]
         THEN Return(p)
         ELSE Goto(p, "r_recheck") /\ UNCHANGED locks
    /\ UNCHANGED <<files, journal, session, acts>>

RemoveSessions(p) ==
    /\ RemoveAt(p, "r_sessions")
    /\ IF ManagedSessions(Removal(p).target) # {}
         THEN Return(p)
         ELSE Goto(p, "r_recheck") /\ UNCHANGED locks
    /\ UNCHANGED <<files, journal, session, acts>>

(* The Worktree must still be the one first inspected; then the quarantine *)
(* is made, or the one an earlier attempt left is verified.                *)
RemoveRecheck(p) ==
    LET o == Removal(p)
        t == o.target
    IN
    /\ RemoveAt(p, "r_recheck")
    /\ IF ~Inspects(t)
         THEN Goto(p, "r_reconcile") /\ UNCHANGED <<stage, locks>>
         ELSE IF Dirty(at[t]) \/ at[t] # o.of \/ tree[at[t]].head # proc[p].seed \/ stage[o] = "bare"
                THEN Return(p) /\ UNCHANGED stage
                ELSE IF stage[o] = "owned"
                       THEN Goto(p, "r_pending") /\ UNCHANGED <<stage, locks>>
                       ELSE MakeStage(o) /\ Goto(p, "r_mark") /\ UNCHANGED locks
    /\ UNCHANGED <<at, tree, journal, session, acts>>

RemoveMark(p) ==
    /\ RemoveAt(p, "r_mark")
    /\ \/ MarkStage(Removal(p)) /\ Goto(p, "r_pending") /\ UNCHANGED locks
       \/ UnmakeStage(Removal(p)) /\ Return(p)
    /\ UNCHANGED <<at, tree, journal, session, acts>>

(* Mutant: the quarantine is not recorded before it is used. *)
RemovePendingUnsaved(p) ==
    /\ RemoveAt(p, "r_pending")
    /\ Goto(p, "r_move")
    /\ UNCHANGED <<files, journal, locks, session, acts>>

RemovePending(p) ==
    LET o == Removal(p) IN
    /\ RemoveAt(p, "r_pending")
    /\ Save(o, [record[o] EXCEPT !.ck = "quarantine_pending", !.head = proc[p].seed])
    /\ Goto(p, "r_move")
    /\ UNCHANGED <<files, locks, session, acts>>

-----------------------------------------------------------------------------
(* Quarantine: whatever lies at the target by now is renamed, and only     *)
(* what proves to be the Worktree of the record is removed.                *)

RemoveMove(p) ==
    LET o == Removal(p) IN
    /\ RemoveAt(p, "r_move")
    /\ IF at[o.target] # None /\ at[o] = None
         THEN Move(o.target, o) /\ Goto(p, "r_repair") /\ UNCHANGED locks
         ELSE Return(p) /\ UNCHANGED at
    /\ UNCHANGED <<tree, stage, journal, session, acts>>

RemoveRepair(p) ==
    LET o == Removal(p) IN
    /\ RemoveAt(p, "r_repair")
    /\ IF stage[o] = "owned" /\ CanRepair(o)
         THEN Repair(o) /\ Goto(p, "r_inspect") /\ UNCHANGED locks
         ELSE Return(p) /\ UNCHANGED tree
    /\ UNCHANGED <<at, stage, journal, session, acts>>

(* Mutant: the quarantined files are not compared with the record. *)
RemoveInspectOnly(p) ==
    LET o == Removal(p) IN
    /\ RemoveAt(p, "r_inspect")
    /\ IF ~Inspects(o)
         THEN Return(p) /\ UNCHANGED journal
         ELSE Checkpoint(o, "remove_pending") /\ Goto(p, "r_git") /\ UNCHANGED locks
    /\ UNCHANGED <<files, session, acts>>

RemoveInspect(p) ==
    LET o == Removal(p) IN
    /\ RemoveAt(p, "r_inspect")
    /\ IF ~Inspects(o)
         THEN Return(p) /\ UNCHANGED journal
         ELSE IF ~MatchesRemove(at[o], o) \/ Dirty(at[o])
                THEN Goto(p, "r_restore") /\ UNCHANGED <<journal, locks>>
                ELSE Checkpoint(o, "remove_pending") /\ Goto(p, "r_git") /\ UNCHANGED locks
    /\ UNCHANGED <<files, session, acts>>

(* `git worktree remove` refuses a tree with changed or untracked files    *)
(* but not ignored ones; it may fail before it begins, or stop when the    *)
(* files are gone and the registration is not.                             *)
RemoveGit(p) ==
    LET o == Removal(p) IN
    /\ RemoveAt(p, "r_git")
    /\ \/ /\ at[o] \in Trees
          /\ tree[at[o]].dirt # "modified"
          /\ at' = [at EXCEPT ![o] = None]
          /\ \/ /\ tree' = [tree EXCEPT ![at[o]] = Gone(at[o])]
                /\ Goto(p, "r_clear") /\ UNCHANGED locks
             \/ tree' = tree /\ Return(p)
       \/ Goto(p, "r_restore") /\ UNCHANGED <<at, tree, locks>>
    /\ UNCHANGED <<stage, journal, session, acts>>

RemoveClear(p) ==
    LET o == Removal(p) IN
    /\ RemoveAt(p, "r_clear")
    /\ IF CanClear(o)
         THEN Clear(o) /\ Goto(p, "r_reconciled") /\ UNCHANGED locks
         ELSE Return(p) /\ UNCHANGED <<at, stage>>
    /\ UNCHANGED <<tree, journal, session, acts>>

-----------------------------------------------------------------------------
(* Reconciliation and restoration.                                         *)

RemoveReconcile(p) ==
    LET o == Removal(p) IN
    /\ RemoveAt(p, "r_reconcile")
    /\ Goto(p, IF record[o].ck = "restore_pending" THEN "r_restore"
               ELSE IF at[o] # None THEN "r_repair" ELSE "r_reconciled")
    /\ UNCHANGED <<files, journal, locks, session, acts>>

(* Mutant: only the registration of the target is looked for. *)
RemoveReconciledTarget(p) ==
    LET o == Removal(p) IN
    /\ RemoveAt(p, "r_reconciled")
    /\ IF record[o].rel /\ ~Registered(o.target)
         THEN Checkpoint(o, "complete") ELSE UNCHANGED journal
    /\ Return(p)
    /\ UNCHANGED <<files, session, acts>>

RemoveReconciled(p) ==
    LET o == Removal(p) IN
    /\ RemoveAt(p, "r_reconciled")
    /\ IF record[o].rel /\ ~Registered(o.target) /\ ~Registered(o)
         THEN Checkpoint(o, "complete") ELSE UNCHANGED journal
    /\ Return(p)
    /\ UNCHANGED <<files, session, acts>>

RemoveRestore(p) ==
    /\ RemoveAt(p, "r_restore")
    /\ Checkpoint(Removal(p), "restore_pending")
    /\ Goto(p, "r_back")
    /\ UNCHANGED <<files, locks, session, acts>>

RemoveBack(p) ==
    LET o == Removal(p) IN
    /\ RemoveAt(p, "r_back")
    /\ IF (at[o] = None) = (at[o.target] = None)
         THEN Return(p) /\ UNCHANGED at
         ELSE /\ IF at[o] # None THEN Move(o, o.target) ELSE UNCHANGED at
              /\ Goto(p, "r_rerepair")
              /\ UNCHANGED locks
    /\ UNCHANGED <<tree, stage, journal, session, acts>>

RemoveRerepair(p) ==
    LET t == Removal(p).target IN
    /\ RemoveAt(p, "r_rerepair")
    /\ IF CanRepair(t)
         THEN Repair(t) /\ Goto(p, "r_unstage") /\ UNCHANGED locks
         ELSE Return(p) /\ UNCHANGED tree
    /\ UNCHANGED <<at, stage, journal, session, acts>>

RemoveUnstage(p) ==
    LET o == Removal(p) IN
    /\ RemoveAt(p, "r_unstage")
    /\ IF CanClear(o)
         THEN Clear(o) /\ Goto(p, "r_restored") /\ UNCHANGED locks
         ELSE Return(p) /\ UNCHANGED <<at, stage>>
    /\ UNCHANGED <<tree, journal, session, acts>>

RemoveRestored(p) ==
    /\ RemoveAt(p, "r_restored")
    /\ Checkpoint(Removal(p), "requested")
    /\ Return(p)
    /\ UNCHANGED <<files, session, acts>>

RemoveStep(p) ==
    \/ RemoveClaim(p) \/ RemoveRepository(p) \/ RemoveFind(p)
    \/ RemoveLook(p) \/ RemoveSessions(p) \/ RemoveRecheck(p) \/ RemoveMark(p) \/ RemovePending(p)
    \/ RemoveMove(p) \/ RemoveRepair(p) \/ RemoveInspect(p) \/ RemoveGit(p) \/ RemoveClear(p)
    \/ RemoveReconcile(p) \/ RemoveReconciled(p)
    \/ RemoveRestore(p) \/ RemoveBack(p) \/ RemoveRerepair(p) \/ RemoveUnstage(p) \/ RemoveRestored(p)

(* `git worktree prune` drops every registration that is not locked and    *)
(* whose path holds no checkout.                                           *)
Prune ==
    /\ repoLock = None
    /\ tree' = [w \in Trees |->
                  IF tree[w].reg # None /\ ~tree[w].locked /\ at[tree[w].reg] \notin Trees
                    THEN Gone(w) ELSE tree[w]]
    /\ UNCHANGED <<at, stage, journal, locks, session, proc, acts>>
=============================================================================
