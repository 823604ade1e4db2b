---------------------------- MODULE WorktreeRetry ----------------------------
(***************************************************************************)
(* What the checkpoints of `worktree add` and `worktree remove` are for:   *)
(* commands stop a bounded number of times, at the steps StopsAt names,    *)
(* and the person runs the same command again until it succeeds.           *)
(***************************************************************************)
EXTENDS WorktreeLifecycle

CONSTANT StopsAt \* the steps before which a command may stop

ASSUME RetryConstants == StopsAt \subseteq Labels

(* A command dies before its next step. *)
Stop(p) ==
    /\ proc[p].pc \in StopsAt
    /\ acts < MaxActs /\ acts' = acts + 1
    /\ Return(p)
    /\ UNCHANGED <<files, journal, session>>

(* A step whose calls do what they were asked to: the marker is written,   *)
(* Git checks the ref out, and Git removes the tree or refuses to begin.   *)
Succeeds(p) ==
    /\ Step(p)
    /\ proc[p].pc \in {"a_mark", "r_mark", "a_git", "r_git"} => proc'[p] # Idle

(* Bound: an add is begun only while a tree is left for it to create. *)
Retry(p) ==
    \/ \E o \in Adds : AddBegin(p, o) /\ \E w \in Trees : NextTree(w) \/ Lies(w)
    \/ \E t \in Targets : RemoveBegin(p, t)

RetryNext == \E p \in Procs : Retry(p) \/ Succeeds(p) \/ Stop(p)

(* A running command goes on; the person repeats each command as often as  *)
(* it can be begun; and Git does not refuse the same removal for ever.     *)
Fairness ==
    /\ \A p \in Procs :
        /\ WF_vars(Succeeds(p))
        /\ \A o \in Adds : SF_vars(AddBegin(p, o) /\ Retry(p))
        /\ \A t \in Targets : SF_vars(RemoveBegin(p, t))
        /\ SF_vars(RemoveGit(p) /\ proc'[p].pc = "r_clear")

RetrySpec == Init /\ [][RetryNext]_vars /\ Fairness

(* Whatever an interrupted command left unfinished is finished, undone or  *)
(* given up by a later invocation of it.                                   *)
InterruptedIsResumed == \A o \in Ops : Incomplete(o) ~> ~Incomplete(o)
=============================================================================
