-------------------------- MODULE WorktreeSessions --------------------------
(***************************************************************************)
(* Managed tmux Sessions and Worktree shells, which share the per-Worktree *)
(* mutation lock with `worktree remove`: Service.Start and Service.Stop    *)
(* (internal/session/tmux.go), Runtime.OpenWorktreeShell                   *)
(* (internal/runtime/host/host.go).  The tmux server outlives every        *)
(* command.                                                                *)
(***************************************************************************)
EXTENDS WorktreeState

(* Mutant: the Session is created without the Worktree's lock. *)
SessionBeginUnlocked(p, t) ==
    /\ proc[p] = Idle
    /\ Inspects(t)
    /\ AcquireTargetShared(p, "home", t)
    /\ proc' = [proc EXCEPT ![p] = [Idle EXCEPT !.pc = "s_list", !.target = t]]
    /\ UNCHANGED <<files, journal, repoLock, session, acts>>

(* The Worktree is inspected, locked and inspected again: the second       *)
(* inspection is the guard of the next step.                               *)
SessionBegin(p, t) ==
    /\ proc[p] = Idle
    /\ Inspects(t)
    /\ AcquireTarget(p, "home", t)
    /\ proc' = [proc EXCEPT ![p] = [Idle EXCEPT !.pc = "s_list", !.target = t]]
    /\ UNCHANGED <<files, journal, repoLock, session, acts>>

(* A Session whose metadata names the path is reused, or is a conflict     *)
(* when its panes are in another Worktree: either way none is created.     *)
SessionList(p) ==
    /\ proc[p].pc = "s_list"
    /\ IF Inspects(proc[p].target) /\ \A s \in SessionIDs : session[s].meta # proc[p].target
         THEN Goto(p, "s_create") /\ UNCHANGED locks
         ELSE Return(p)
    /\ UNCHANGED <<files, journal, session, acts>>

(* tmux starts the pane in the home directory when the path has gone. *)
SessionCreate(p) ==
    LET t == proc[p].target IN
    /\ proc[p].pc = "s_create"
    /\ \E s \in SessionIDs :
        /\ session[s] = NoSession
        /\ session' = [session EXCEPT ![s] =
              [meta |-> t, cwd |-> IF at[t] \in Trees THEN at[t] ELSE None]]
    /\ Return(p)
    /\ UNCHANGED <<files, journal, acts>>

(* An ephemeral shell holds the Worktree's lock until it ends. *)
ShellBegin(p, t) ==
    /\ proc[p] = Idle
    /\ Inspects(t)
    /\ AcquireTarget(p, "home", t)
    /\ proc' = [proc EXCEPT ![p] = [Idle EXCEPT !.pc = "shell", !.target = t]]
    /\ UNCHANGED <<files, journal, repoLock, session, acts>>

(* A Session ends: `session stop` checks its ownership and kills it in one *)
(* tmux command queue, and its last shell may exit at any time.            *)
SessionEnd(s) ==
    /\ session[s] # NoSession
    /\ session' = [session EXCEPT ![s] = NoSession]
    /\ UNCHANGED <<files, journal, locks, proc, acts>>

(* The panes of a Session leave the Worktree. *)
SessionLeaves(s) ==
    /\ session[s].cwd # None
    /\ session' = [session EXCEPT ![s].cwd = None]
    /\ UNCHANGED <<files, journal, locks, proc, acts>>
=============================================================================
