---------------------------- MODULE WorktreeState ----------------------------
(***************************************************************************)
(* What the commands that add, remove and prune Worktrees and start        *)
(* Sessions share on one Box (internal/repository/lifecycle.go,            *)
(* internal/session/tmux.go): the Worktree Root, one Repository's worktree *)
(* registrations, the operation journal, the flock files and the tmux      *)
(* server.  Each command is a short-lived process that may stop between    *)
(* any two of its steps; people use the Root, Git and tmux meanwhile.      *)
(***************************************************************************)
EXTENDS Naturals, FiniteSets

CONSTANTS
    Procs,       \* commands that may run at the same time
    Targets,     \* canonical Worktree paths below the Worktree Root
    Refs,        \* branches and tags a Worktree is added for
    MaxTrees,    \* bound: linked Worktrees ever created
    SessionIDs,  \* bound: managed Sessions that are live at the same time
    None,        \* no process, no tree, no path
    Foreign,     \* something at a path that is not a linked Worktree
    SharedState, \* whether the journal lies beside the per-Worktree locks (no XDG_STATE_HOME)
    MaxActs      \* bound: what people do to the Worktree Root over a behaviour

Trees == 1..MaxTrees

Ops == [kind : {"add"}, target : Targets, of : Refs]
         \cup [kind : {"remove"}, target : Targets, of : Trees]

(* The staging path of an operation is named after its intent. *)
Paths == Targets \cup Ops

ASSUME WorktreeConstants ==
    /\ MaxTrees \in Nat /\ MaxActs \in Nat /\ SharedState \in BOOLEAN
    /\ None \notin Procs \cup Trees \cup Refs \cup Paths \cup {Foreign}
    /\ Foreign \notin Trees
    /\ Targets \cap Ops = {}

VARIABLES
    at,          \* what lies at each path: a tree, something foreign or nothing
    tree,        \* each linked Worktree: its registration and the state of its files
    stage,       \* the parent directory of each staging path
    record,      \* the operation journal: one record per intent
    latest,      \* the tree of the remove record saved last for each target
    targetLock,  \* holders of the per-Worktree locks of both state directories
    repoLock,    \* holder of the Repository's lock
    session,     \* the managed tmux sessions
    proc,        \* the running commands
    acts         \* how much people have done

files == <<at, tree, stage>>
journal == <<record, latest>>
locks == <<targetLock, repoLock>>
vars == <<at, tree, stage, record, latest, targetLock, repoLock, session, proc, acts>>

-----------------------------------------------------------------------------
(* Data.  A tree is its administrative directory, the incarnation the      *)
(* remove intent is derived from: reg is the path its gitdir file names,   *)
(* head whether HEAD has moved since it was created, dirt what Git status  *)
(* reports of its files.                                                   *)

Tree == [reg : Paths \cup {None}, locked : BOOLEAN, ref : Refs \cup {None},
         head : 0..1, dirt : {"clean", "ignored", "modified"}]

Unborn == [reg |-> None, locked |-> FALSE, ref |-> None, head |-> 0, dirt |-> "clean"]

(* A tree `git worktree add` checks out: locked while it is staged. *)
Fresh(path, ref, locked) ==
    [reg |-> path, locked |-> locked, ref |-> ref, head |-> 0, dirt |-> "clean"]

Gone(w) == [tree[w] EXCEPT !.reg = None, !.locked = FALSE, !.head = 0, !.dirt = "clean"]

Checkpoints == {"none", "requested", "add_pending", "add_finished", "move_pending",
                "quarantine_pending", "remove_pending", "restore_pending", "complete", "aborted"}

(* rel: whether the record names the Repository; head: its snapshot.       *)
Record == [ck : Checkpoints, rel : BOOLEAN, head : 0..1]

NoRecord == [ck |-> "none", rel |-> FALSE, head |-> 0]

NoSession == [meta |-> None, cwd |-> None]

Labels == {"idle", "a_claim", "a_repo", "a_look", "a_repair", "a_stage", "a_mark", "a_pending",
           "a_git", "a_finished", "a_staged", "a_unlock", "a_move", "a_fix", "a_check", "a_done",
           "a_found", "a_tidy", "r_claim", "r_repo", "r_look", "r_sessions", "r_recheck", "r_mark",
           "r_pending", "r_move", "r_repair", "r_inspect", "r_git", "r_clear", "r_find",
           "r_reconcile", "r_reconciled", "r_restore", "r_back", "r_rerepair", "r_unstage", "r_restored",
           "s_list", "s_create", "shell"}

(* seed: the HEAD the removal saw when it first inspected its target.      *)
Command == [pc : Labels, op : Ops \cup {None}, target : Targets \cup {None}, seed : 0..1]

Idle == [pc |-> "idle", op |-> None, target |-> None, seed |-> 0]

(* The journal and the lock of Clone and Add follow XDG_STATE_HOME; the    *)
(* lock of Remove, of Sessions and of shells always lies below home.       *)
JournalDir == IF SharedState THEN "home" ELSE "state"

LockIDs == {"home", "state"} \X Targets

Init ==
    /\ at = [x \in Paths |-> None]
    /\ tree = [w \in Trees |-> Unborn]
    /\ stage = [o \in Ops |-> "absent"]
    /\ record = [o \in Ops |-> NoRecord]
    /\ latest = [t \in Targets |-> None]
    /\ targetLock = [l \in LockIDs |-> None]
    /\ repoLock = None
    /\ session = [s \in SessionIDs |-> NoSession]
    /\ proc = [p \in Procs |-> Idle]
    /\ acts = 0

-----------------------------------------------------------------------------
(* Observations.                                                           *)

(* Inspect succeeds for a tree that Git has registered at the path it lies *)
(* at; whatever else is there, or nothing, is CodeNotFound.                *)
Inspects(x) == at[x] \in Trees /\ tree[at[x]].reg = x

Registered(x) == \E w \in Trees : tree[w].reg = x

Dirty(w) == tree[w].dirt # "clean"

Incomplete(o) == record[o].ck \notin {"none", "complete", "aborted"}

IncompleteConflict(o) ==
    \E other \in Ops \ {o} : other.target = o.target /\ Incomplete(other)

(* worktreeMatchesRecord and, with the incarnation, worktreeIdentityMatchesRecord. *)
MatchesAdd(w, o) == tree[w].ref = o.of /\ tree[w].head = record[o].head

MatchesRemove(w, o) == w = o.of /\ tree[w].head = record[o].head

-----------------------------------------------------------------------------
(* Control.  A command that returns, or a process that dies, gives up its  *)
(* flock files.                                                            *)

Goto(p, label) == proc' = [proc EXCEPT ![p].pc = label]

Return(p) ==
    /\ proc' = [proc EXCEPT ![p] = Idle]
    /\ targetLock' = [l \in LockIDs |-> IF targetLock[l] = p THEN None ELSE targetLock[l]]
    /\ repoLock' = IF repoLock = p THEN None ELSE repoLock

(* acquireMutationLock does not wait: a command that finds a lock held     *)
(* returns, which Interrupt covers for a command under way.                *)
AcquireTarget(p, dir, t) ==
    targetLock[<<dir, t>>] = None /\ targetLock' = [targetLock EXCEPT ![<<dir, t>>] = p]

AcquireRepository(p) == repoLock = None /\ repoLock' = p

(* Mutant: the lock is taken without excluding anyone. *)
AcquireTargetShared(p, dir, t) == targetLock' = [targetLock EXCEPT ![<<dir, t>>] = p]

(* Mutant: the search for the last record of a missing path takes the      *)
(* records of every kind.                                                  *)
SaveLatestOfAnyKind(o, r) ==
    /\ record' = [record EXCEPT ![o] = r]
    /\ latest' = [latest EXCEPT ![o.target] = o.of]

(* A record is written; findRemoveRecovery later takes the newest one of   *)
(* the removals from a path.                                               *)
Save(o, r) ==
    /\ record' = [record EXCEPT ![o] = r]
    /\ latest' = IF o.kind = "remove" THEN [latest EXCEPT ![o.target] = o.of] ELSE latest

Checkpoint(o, ck) == Save(o, [record[o] EXCEPT !.ck = ck])

-----------------------------------------------------------------------------
(* The staging directory.  createOwnedStage makes the directory and then   *)
(* writes the ownership marker into it; a marker that cannot be written is *)
(* removed again together with the directory.                              *)

MakeStage(o) == stage[o] = "absent" /\ stage' = [stage EXCEPT ![o] = "bare"]

MarkStage(o) == stage' = [stage EXCEPT ![o] = "owned"]

UnmakeStage(o) == stage' = [stage EXCEPT ![o] = "absent"]

(* removeOwnedStage refuses a directory without its marker and otherwise   *)
(* removes everything in it.                                               *)
CanClear(o) == stage[o] # "bare"

Clear(o) ==
    /\ stage' = [stage EXCEPT ![o] = "absent"]
    /\ at' = [at EXCEPT ![o] = None]

(* `git worktree repair x` rewrites the gitdir file of the tree at x; a    *)
(* tree whose administrative directory is gone cannot be repaired.         *)
CanRepair(x) == at[x] \in Trees /\ tree[at[x]].reg # None

Repair(x) == tree' = [tree EXCEPT ![at[x]].reg = x]

(* renameat2(RENAME_NOREPLACE) *)
Move(from, to) ==
    /\ at[from] # None /\ at[to] = None
    /\ at' = [at EXCEPT ![from] = None, ![to] = at[from]]

(* The next tree that has not been created yet. *)
NextTree(w) == tree[w].ref = None /\ \A v \in 1..(w - 1) : tree[v].ref # None
=============================================================================
