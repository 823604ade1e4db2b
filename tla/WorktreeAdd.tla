----------------------------- MODULE WorktreeAdd -----------------------------
(***************************************************************************)
(* `worktree add`: a linked Worktree is checked out, locked, in a staging  *)
(* directory the operation owns, recorded, and renamed to its target.      *)
(* Lifecycle.Add (internal/repository/lifecycle.go).  The journal is saved *)
(* before and after every Git effect, so that the next invocation of the   *)
(* same intent can tell where this one stopped.                            *)
(***************************************************************************)
EXTENDS WorktreeState

Adds == {o \in Ops : o.kind = "add"}

AddAt(p, label) == proc[p].pc = label /\ proc[p].op \in Adds

Op(p) == proc[p].op

(* Mutant: a new intent ignores what another one left unfinished. *)
AddBeginAnyway(p, o) ==
    /\ proc[p] = Idle
    /\ AcquireTarget(p, JournalDir, o.target)
    /\ proc' = [proc EXCEPT ![p] = [Idle EXCEPT !.pc = "a_claim", !.op = o, !.target = o.target]]
    /\ UNCHANGED <<files, journal, repoLock, session, acts>>

(* withOperation: the target lock, then the scan of the journal for another *)
(* unfinished operation on the target.                                      *)
AddBegin(p, o) ==
    /\ proc[p] = Idle
    /\ ~IncompleteConflict(o)
    /\ AcquireTarget(p, JournalDir, o.target)
    /\ proc' = [proc EXCEPT ![p] = [Idle EXCEPT !.pc = "a_claim", !.op = o, !.target = o.target]]
    /\ UNCHANGED <<files, journal, repoLock, session, acts>>

(* withOperationLocked saves a new record before anything else happens. *)
AddClaim(p) ==
    /\ AddAt(p, "a_claim")
    /\ IF record[Op(p)].ck = "none" THEN Checkpoint(Op(p), "requested") ELSE UNCHANGED journal
    /\ Goto(p, "a_repo")
    /\ UNCHANGED <<files, locks, session, acts>>

AddRepository(p) ==
    /\ AddAt(p, "a_repo")
    /\ AcquireRepository(p)
    /\ Goto(p, "a_look")
    /\ UNCHANGED <<files, journal, targetLock, session, acts>>

-----------------------------------------------------------------------------
(* What the target shows of an earlier attempt.                            *)

(* The Worktree is there and is this record's: the operation is finished,  *)
(* unless the stage it left cannot be verified.                            *)
AddRecognise(p) ==
    LET o == Op(p) IN
    /\ AddAt(p, "a_look")
    /\ Inspects(o.target)
    /\ record[o].ck \in {"complete", "move_pending"}
    /\ MatchesAdd(at[o.target], o)
    /\ IF CanClear(o)
         THEN Clear(o) /\ Goto(p, "a_done") /\ UNCHANGED locks
         ELSE Return(p) /\ UNCHANGED <<at, stage>>
    /\ UNCHANGED <<tree, journal, session, acts>>

(* Another Worktree is there: a conflict, which retires a new record. *)
AddConflict(p) ==
    LET o == Op(p) IN
    /\ AddAt(p, "a_look")
    /\ Inspects(o.target)
    /\ ~(record[o].ck \in {"complete", "move_pending"} /\ MatchesAdd(at[o.target], o))
    /\ IF record[o].ck = "requested" THEN Checkpoint(o, "aborted") ELSE UNCHANGED journal
    /\ Return(p)
    /\ UNCHANGED <<files, session, acts>>

(* Mutant: an interrupted promotion is taken for a conflict. *)
AddObstructedConflict(p) ==
    /\ AddAt(p, "a_look")
    /\ ~Inspects(Op(p).target) /\ at[Op(p).target] # None
    /\ Return(p)
    /\ UNCHANGED <<files, journal, session, acts>>

(* Something Inspect does not recognise is there: the tree of a promotion  *)
(* that was interrupted after the rename, or else a conflict.              *)
AddObstructed(p) ==
    LET o == Op(p) IN
    /\ AddAt(p, "a_look")
    /\ ~Inspects(o.target) /\ at[o.target] # None
    /\ IF record[o].ck = "move_pending"
         THEN Goto(p, "a_repair") /\ UNCHANGED locks
         ELSE Return(p)
    /\ UNCHANGED <<files, journal, session, acts>>

AddRepair(p) ==
    /\ AddAt(p, "a_repair")
    /\ IF CanRepair(Op(p).target)
         THEN Repair(Op(p).target) /\ Goto(p, "a_found") /\ UNCHANGED locks
         ELSE Return(p) /\ UNCHANGED tree
    /\ UNCHANGED <<at, stage, journal, session, acts>>

AddFound(p) ==
    LET o == Op(p) IN
    /\ AddAt(p, "a_found")
    /\ IF Inspects(o.target) /\ MatchesAdd(at[o.target], o)
         THEN Checkpoint(o, "complete") /\ Goto(p, "a_tidy") /\ UNCHANGED locks
         ELSE Return(p) /\ UNCHANGED journal
    /\ UNCHANGED <<files, session, acts>>

AddTidy(p) ==
    /\ AddAt(p, "a_tidy")
    /\ IF CanClear(Op(p)) THEN Clear(Op(p)) ELSE UNCHANGED <<at, stage>>
    /\ Return(p)
    /\ UNCHANGED <<tree, journal, session, acts>>

-----------------------------------------------------------------------------
(* Staging.                                                                *)

AddAbsent(p) ==
    /\ AddAt(p, "a_look")
    /\ at[Op(p).target] = None
    /\ Goto(p, IF Inspects(Op(p)) THEN "a_staged" ELSE "a_stage")
    /\ UNCHANGED <<files, journal, locks, session, acts>>

(* `git worktree remove` drops a registration of the staging path unless   *)
(* it is locked; then the stage is removed and made anew.                  *)
AddStage(p) ==
    LET o == Op(p)
        held == {w \in Trees : tree[w].reg = o}
    IN
    /\ AddAt(p, "a_stage")
    /\ IF \E w \in held : tree[w].locked
         THEN Return(p) /\ UNCHANGED files
         ELSE /\ tree' = [w \in Trees |-> IF w \in held THEN Gone(w) ELSE tree[w]]
              /\ IF CanClear(o)
                   THEN /\ at' = [at EXCEPT ![o] = None]
                        /\ stage' = [stage EXCEPT ![o] = "bare"]
                        /\ Goto(p, "a_mark")
                        /\ UNCHANGED locks
                   ELSE Return(p) /\ UNCHANGED <<at, stage>>
    /\ UNCHANGED <<journal, session, acts>>

AddMark(p) ==
    /\ AddAt(p, "a_mark")
    /\ \/ MarkStage(Op(p)) /\ Goto(p, "a_pending") /\ UNCHANGED locks
       \/ UnmakeStage(Op(p)) /\ Return(p)
    /\ UNCHANGED <<at, tree, journal, session, acts>>

AddPending(p) ==
    /\ AddAt(p, "a_pending")
    /\ Checkpoint(Op(p), "add_pending")
    /\ Goto(p, "a_git")
    /\ UNCHANGED <<files, locks, session, acts>>

(* `git worktree add --lock` checks the ref out, or stops after it has     *)
(* registered the staging path.  When it does nothing the command returns. *)
AddGit(p) ==
    LET o == Op(p) IN
    /\ AddAt(p, "a_git")
    /\ \E w \in Trees :
        /\ NextTree(w)
        /\ tree' = [tree EXCEPT ![w] = Fresh(o, o.of, TRUE)]
        /\ \/ at' = [at EXCEPT ![o] = w] /\ Goto(p, "a_finished") /\ UNCHANGED locks
           \/ Return(p) /\ UNCHANGED at
    /\ UNCHANGED <<stage, journal, session, acts>>

AddFinished(p) ==
    /\ AddAt(p, "a_finished")
    /\ Checkpoint(Op(p), "add_finished")
    /\ Goto(p, "a_staged")
    /\ UNCHANGED <<files, locks, session, acts>>

-----------------------------------------------------------------------------
(* Promotion.                                                              *)

(* The snapshot is taken once: a stage that was recorded for promotion     *)
(* must still match it, and one whose checkout was not confirmed is left.  *)
AddStaged(p) ==
    LET o == Op(p)
        r == record[o]
    IN
    /\ AddAt(p, "a_staged")
    /\ IF ~Inspects(o) \/ r.ck = "add_pending" \/ (r.ck = "move_pending" /\ ~MatchesAdd(at[o], o))
         THEN Return(p) /\ UNCHANGED journal
         ELSE /\ IF r.ck = "move_pending"
                   THEN UNCHANGED journal
                   ELSE Save(o, [r EXCEPT !.ck = "move_pending", !.head = tree[at[o]].head])
              /\ Goto(p, "a_unlock")
              /\ UNCHANGED locks
    /\ UNCHANGED <<files, session, acts>>

AddUnlock(p) ==
    LET o == Op(p) IN
    /\ AddAt(p, "a_unlock")
    /\ tree' = [w \in Trees |-> IF tree[w].reg = o THEN [tree[w] EXCEPT !.locked = FALSE] ELSE tree[w]]
    /\ IF Registered(o) THEN Goto(p, "a_move") /\ UNCHANGED locks ELSE Return(p)
    /\ UNCHANGED <<at, stage, journal, session, acts>>

AddMove(p) ==
    LET o == Op(p) IN
    /\ AddAt(p, "a_move")
    /\ IF at[o] # None /\ at[o.target] = None
         THEN Move(o, o.target) /\ Goto(p, "a_fix") /\ UNCHANGED locks
         ELSE Return(p) /\ UNCHANGED at
    /\ UNCHANGED <<tree, stage, journal, session, acts>>

AddFix(p) ==
    /\ AddAt(p, "a_fix")
    /\ IF CanRepair(Op(p).target)
         THEN Repair(Op(p).target) /\ Goto(p, "a_check") /\ UNCHANGED locks
         ELSE Return(p) /\ UNCHANGED tree
    /\ UNCHANGED <<at, stage, journal, session, acts>>

AddCheck(p) ==
    LET o == Op(p) IN
    /\ AddAt(p, "a_check")
    /\ IF CanClear(o) THEN Clear(o) ELSE UNCHANGED <<at, stage>>
    /\ IF Inspects(o.target) /\ MatchesAdd(at[o.target], o)
         THEN Goto(p, "a_done") /\ UNCHANGED locks
         ELSE Return(p)
    /\ UNCHANGED <<tree, journal, session, acts>>

AddDone(p) ==
    /\ AddAt(p, "a_done")
    /\ Checkpoint(Op(p), "complete")
    /\ Return(p)
    /\ UNCHANGED <<files, session, acts>>

AddStep(p) ==
    \/ AddClaim(p) \/ AddRepository(p)
    \/ AddRecognise(p) \/ AddConflict(p) \/ AddObstructed(p)
    \/ AddRepair(p) \/ AddFound(p) \/ AddTidy(p)
    \/ AddAbsent(p) \/ AddStage(p) \/ AddMark(p) \/ AddPending(p) \/ AddGit(p) \/ AddFinished(p)
    \/ AddStaged(p) \/ AddUnlock(p) \/ AddMove(p) \/ AddFix(p) \/ AddCheck(p) \/ AddDone(p)
=============================================================================
