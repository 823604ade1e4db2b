-------------------------- MODULE WorktreeLifecycle --------------------------
(***************************************************************************)
(* The Worktree commands of one Repository on one Box, run by independent  *)
(* processes that may stop anywhere, beside people who edit, delete and    *)
(* create Worktrees with plain file and Git commands.                      *)
(***************************************************************************)
EXTENDS WorktreeAdd, WorktreeRemove, WorktreeSessions

-----------------------------------------------------------------------------
(* People.                                                                 *)

Act == acts < MaxActs /\ acts' = acts + 1 /\ UNCHANGED <<stage, journal, locks, session, proc>>

(* Between the last inspection of a quarantined tree and its removal only  *)
(* Git itself looks, and not at ignored files or at HEAD: that window of   *)
(* one call is left out for these two.                                     *)
LastWindow(w) == \E p \in Procs : RemoveAt(p, "r_git") /\ at[proc[p].op] = w

(* A file is changed in a Worktree, wherever it lies. *)
Edit(w, d) ==
    /\ \E x \in Paths : at[x] = w
    /\ LastWindow(w) => d = "modified"
    /\ tree' = [tree EXCEPT ![w].dirt = d]
    /\ Act /\ UNCHANGED at

(* HEAD moves: a commit, or another branch is checked out. *)
MoveHead(w) ==
    /\ \E x \in Paths : at[x] = w
    /\ ~LastWindow(w)
    /\ tree' = [tree EXCEPT ![w].head = 1]
    /\ Act /\ UNCHANGED at

(* rm -rf *)
Delete(t) ==
    /\ at[t] # None
    /\ at' = [at EXCEPT ![t] = None]
    /\ Act /\ UNCHANGED tree

(* mkdir *)
Occupy(t) ==
    /\ at[t] = None
    /\ at' = [at EXCEPT ![t] = Foreign]
    /\ Act /\ UNCHANGED tree

(* git worktree remove *)
GitRemove(t) ==
    /\ Inspects(t)
    /\ ~tree[at[t]].locked /\ tree[at[t]].dirt # "modified"
    /\ at' = [at EXCEPT ![t] = None]
    /\ tree' = [tree EXCEPT ![at[t]] = Gone(at[t])]
    /\ Act

(* git worktree add *)
GitAdd(t, ref) ==
    /\ at[t] = None /\ ~Registered(t)
    /\ \E w \in Trees :
        /\ NextTree(w)
        /\ at' = [at EXCEPT ![t] = w]
        /\ tree' = [tree EXCEPT ![w] = Fresh(t, ref, FALSE)]
    /\ Act

People ==
    \/ \E w \in Trees : (\E d \in {"ignored", "modified"} : Edit(w, d)) \/ MoveHead(w)
    \/ \E t \in Targets : Delete(t) \/ Occupy(t) \/ GitRemove(t) \/ \E ref \in Refs : GitAdd(t, ref)

-----------------------------------------------------------------------------

(* A command stops: it is killed, its connection drops, a lock it needs is *)
(* held, or a call fails before it takes effect.                           *)
Interrupt(p) ==
    /\ proc[p] # Idle
    /\ Return(p)
    /\ UNCHANGED <<files, journal, session, acts>>

Step(p) == AddStep(p) \/ RemoveStep(p) \/ SessionList(p) \/ SessionCreate(p)

Begin(p) ==
    \/ \E o \in Adds : AddBegin(p, o)
    \/ \E t \in Targets : RemoveBegin(p, t) \/ SessionBegin(p, t) \/ ShellBegin(p, t)

Schooner == (\E p \in Procs : Begin(p) \/ Step(p)) \/ Prune

Tmux == \E s \in SessionIDs : SessionEnd(s) \/ SessionLeaves(s)

Next == Schooner \/ Tmux \/ People \/ \E p \in Procs : Interrupt(p)

Spec == Init /\ [][Next]_vars

-----------------------------------------------------------------------------
(* Properties.                                                             *)

(* Every variable has its type; what a removal of a missing path resumes   *)
(* is the record of a removal, which names the incarnation it deletes.     *)
TypeOK ==
    /\ at \in [Paths -> Trees \cup {None, Foreign}]
    /\ tree \in [Trees -> Tree]
    /\ stage \in [Ops -> {"absent", "bare", "owned"}]
    /\ record \in [Ops -> Record]
    /\ latest \in [Targets -> Trees \cup {None}]
    /\ targetLock \in [LockIDs -> Procs \cup {None}]
    /\ repoLock \in Procs \cup {None}
    /\ session \in [SessionIDs -> [meta : Targets \cup {None}, cwd : Trees \cup {None}]]
    /\ proc \in [Procs -> Command]
    /\ acts \in 0..MaxActs

(* When the journal lies beside the locks, two different operations on the *)
(* same path are never unfinished together: the scan for a conflict and    *)
(* the save of a new record are not separated from each other.             *)
OneIncompletePerTarget ==
    \A o1, o2 \in Ops : o1.target = o2.target /\ Incomplete(o1) /\ Incomplete(o2) => o1 = o2

(* A checkout in a staging path is never orphaned: the directory carries   *)
(* the operation's marker, and the journal says what was being done there, *)
(* so that the next invocation can find it after any interruption.  An add *)
(* whose target was replaced by hand by a Worktree like its own is taken   *)
(* to be complete while its checkout is still staged, until the tidying    *)
(* that follows or a later invocation of it clears or promotes that.       *)
StagedIsOwned ==
    \A o \in Ops : at[o] # None =>
        /\ stage[o] = "owned"
        /\ record[o].ck \in IF o.kind = "add"
             THEN {"add_pending", "add_finished", "move_pending", "complete"}
             ELSE {"quarantine_pending", "remove_pending", "restore_pending"}

(* A removal that is recorded as complete left no trace of its Worktree:   *)
(* nothing of it lies under the Root and Git has no registration of it.    *)
RemovedIsGone ==
    \A o \in Removes : record[o].ck = "complete" =>
        tree[o.of].reg = None /\ \A x \in Paths : at[x] # o.of

(* A Worktree has at most one managed Session, however often and however   *)
(* concurrently Sessions are started and Worktrees replaced.               *)
OneSessionPerWorktree ==
    \A s1, s2 \in SessionIDs :
        session[s1].meta # None /\ session[s1].meta = session[s2].meta => s1 = s2

(* What Schooner deletes is a clean Worktree whose removal was asked for   *)
(* and whose HEAD is the recorded one, or the checkout in an add's own     *)
(* stage, which nobody has been given yet.  A Worktree that was replaced   *)
(* or edited while it was being removed is never deleted.                  *)
Lies(w) == \E x \in Paths : at[x] = w

Discards(w) == Lies(w) /\ ~Lies(w)'

NothingLost ==
    [][Schooner => \A w \in Trees : Discards(w) =>
          \E o \in Ops : at[o] = w /\ (o \in Removes => MatchesRemove(w, o) /\ ~Dirty(w))]_vars

(* Removal and Session creation never pass each other: no Worktree leaves  *)
(* its path for a quarantine while a managed Session names the path or has *)
(* a pane in it, or a Worktree shell is open there.                        *)
InUse(t) ==
    \/ \E s \in SessionIDs : session[s].meta = t \/ (session[s].cwd # None /\ session[s].cwd = at[t])
    \/ \E p \in Procs : proc[p].pc \in {"s_create", "shell"} /\ proc[p].target = t

SessionKeepsTree ==
    [][\A o \in Removes : at[o] = None /\ at'[o] # None => ~InUse(o.target)]_vars
=============================================================================
