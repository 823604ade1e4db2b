---------------------------- MODULE CheckoutState ----------------------------
(***************************************************************************)
(* The state of one workspace application: the files of the destination    *)
(* Worktree, its HEAD, branches and index, the recovery material of the    *)
(* transaction and the transaction's own variables.  A file is its inode:  *)
(* the one that was captured ("old"), the one staged from the payload      *)
(* ("new") or one a person made ("usr"); `edited` holds the first two when *)
(* a person wrote into them.                                               *)
(***************************************************************************)
EXTENDS Naturals, Sequences, FiniteSets

CONSTANTS
    Names,      \* the paths of the Worktree that differ on the two sides
    PathOrder,  \* the same, as a sequence in the order of their names
    Up(_),      \* the directory a path lies in, one of Names, or Top
    Top,        \* the Worktree directory itself
    Plans,      \* what the destination is, and what the payload makes of it
    MaxEdits,   \* bound on what people do
    MaxFaults   \* bound on failing calls and lost answers

Branches == {"main", "topic"}
Kinds    == {"none", "file", "dir"}
Commits  == {"none", "old", "new", "theirs"}

(* old, new: what each path is on either side; from: the branch the        *)
(* destination has checked out; to: that of the payload; topic: the commit *)
(* the other branch has; rewind: the destination is the clone this         *)
(* operation made; ignored: paths .gitignore hides from an observation.    *)
PlanType ==
    [old : [Names -> Kinds], new : [Names -> Kinds], from : {"main", "detached"},
     to : Branches \cup {"detached"}, topic : Commits,
     rewind : BOOLEAN, ignored : SUBSET Names]

(* One level of directories: a path lies in the Worktree or in one of the  *)
(* directories of the Worktree.                                            *)
ASSUME PathsAssumption ==
    /\ Top \notin Names
    /\ \A n \in Names : Up(n) = Top \/ (Up(n) \in Names /\ Up(Up(n)) = Top)
    /\ PathOrder \in Seq(Names)
    /\ \A n \in Names : \E i \in 1..Len(PathOrder) : PathOrder[i] = n
    /\ \A i, j \in 1..Len(PathOrder) : PathOrder[i] = PathOrder[j] => i = j

(* What lies on one side: files in directories, directories in the Worktree. *)
Side(kind) ==
    \A n \in Names : Up(n) # Top => kind[n] # "dir" /\ (kind[n] = "file" => kind[Up(n)] = "dir")

ASSUME PlansAssumption == Plans \subseteq PlanType /\ \A p \in Plans : Side(p.old) /\ Side(p.new)

ASSUME BoundsAssumption == MaxEdits \in Nat /\ MaxFaults \in Nat

VARIABLES
    plan,
    at, edited, written, touched,         \* files, and what people did to them
    backup, staged, aside, taken, quarantine, \* recovery material
    binding, ref, index, indexLock,       \* Git
    tx, result, edits, faults

files    == <<at, edited, written, touched>>
material == <<backup, staged, aside, taken, quarantine>>
gitState == <<binding, ref, index, indexLock>>
bounds   == <<edits, faults>>
vars     == <<plan, files, material, gitState, tx, result, bounds>>

FileNodes == {"old", "new", "usr"}
DirNodes  == {"odir", "mdir", "udir"}  \* there before, made by the transaction, by a person
Nodes     == {"none"} \cup FileNodes \cup DirNodes

(* checkoutHEADUpdate: what is remembered to put HEAD and the branch back. *)
NoUpdate == [known |-> FALSE, binding |-> "none", head |-> "none", ref |-> "none",
             headChanged |-> FALSE, refChanged |-> FALSE]

(* abandoned is a history variable: the paths whose installation failed,   *)
(* which the code takes for taken by somebody else.                        *)
Begun == [pc |-> "observe", k |-> 0, error |-> "none", mutated |-> FALSE, lock |-> FALSE,
          promoted |-> FALSE, indexBackup |-> FALSE, update |-> NoUpdate, restoreFailed |-> FALSE,
          keepPath |-> {}, keepBackup |-> {}, keepAside |-> {},
          pinned |-> {}, made |-> {}, remade |-> {}, abandoned |-> {}]

None == [n \in Names |-> "none"]

Init ==
    /\ plan \in Plans
    /\ at = [n \in Names |-> [none |-> "none", file |-> "old", dir |-> "odir"][plan.old[n]]]
    /\ edited = {} /\ written = {} /\ touched = {}
    /\ backup = {} /\ staged = {} /\ aside = None /\ taken = None /\ quarantine = None
    /\ binding = plan.from
    /\ ref = [main |-> "old", topic |-> plan.topic, detached |-> "old"]
    /\ index = "old" /\ indexLock = "free"
    /\ tx = Begun /\ result = "pending"
    /\ edits = 0 /\ faults = 0

-----------------------------------------------------------------------------
(* Reading the Worktree.                                                   *)

Kids(n) == {c \in Names : Up(c) = n}

Dir(n)   == IF Up(n) = Top THEN "odir" ELSE at[Up(n)]
InDir(n) == Dir(n) \in DirNodes

(* A leaf can only be read below real directories. *)
Readable(n) == Dir(n) \in DirNodes \cup {"none"} /\ at[n] \notin DirNodes

IsPrevious(n) == at[n] = "old" /\ <<"old", n>> \notin edited
IsIncoming(n) == at[n] = "new" /\ <<"new", n>> \notin edited

HEAD == ref[binding]

(* ObserveCheckout: the digest covers files, HEAD, branch and index. *)
LooksPrevious ==
    /\ \A n \in Names : CASE plan.old[n] = "file" -> IsPrevious(n)
                          [] plan.old[n] = "dir"  -> at[n] \in DirNodes \cup {"none"}
                          [] plan.old[n] = "none" -> at[n] \notin FileNodes \/ n \in plan.ignored
    /\ binding = plan.from /\ HEAD = "old" /\ index = "old"

LooksIncoming ==
    /\ \A n \in Names : CASE plan.new[n] = "file" -> IsIncoming(n)
                          [] plan.new[n] = "dir"  -> at[n] \in DirNodes
                          [] plan.new[n] = "none" -> at[n] \notin FileNodes \/ n \in plan.ignored
    /\ binding = plan.to /\ HEAD = "new" /\ index = "new"

Was(n)  == plan.old[n] = "file"
Will(n) == plan.new[n] = "file"

(* prepareCheckoutFiles: leaves only the destination has go first.  The    *)
(* k-th entry, when there is one, is on the first or the second pass over  *)
(* the names.                                                              *)
Half == Len(PathOrder)

Entry(k) == PathOrder[IF k <= Half THEN k ELSE k - Half]

Entries ==
    {k \in 1..2 * Half : IF k <= Half THEN Was(Entry(k)) /\ ~Will(Entry(k)) ELSE Will(Entry(k))}

Record == Entry(tx.k)

(* Directories the payload replaces by a file, with their identity. *)
Pinned == {d \in Names : Will(d) /\ at[d] = "odir"}

-----------------------------------------------------------------------------
At(label)   == tx.pc = label
Goto(label) == tx' = [tx EXCEPT !.pc = label]

(* An error return: before the first mutation nothing has to be undone. *)
Fails(t, e) == [t EXCEPT !.error = e, !.pc = IF t.mutated THEN "undo_index" ELSE "release"]
Fail(e)     == tx' = Fails(tx, e)

(* Apply's loop: the entry that comes next, or the end. *)
NextRecord(t) ==
    LET later == {k \in Entries : k > t.k} IN
    \/ later = {} /\ tx' = [t EXCEPT !.pc = "applied"]
    \/ \E k \in later : (\A j \in later : k <= j) /\ tx' = [t EXCEPT !.k = k, !.pc = "clear"]

-----------------------------------------------------------------------------
(* A path and what lies in it moves from f to g, which are `at` and one of *)
(* the places beside it: what f and g are afterwards.                      *)
Within(n) == {n} \cup Kids(n)

Without(n, f) == [m \in Names |-> IF m \in Within(n) THEN "none" ELSE f[m]]
With(n, f, g) == [m \in Names |-> IF m \in Within(n) THEN f[m] ELSE g[m]]

(* Some call of the step returns an error and has no effect, or the        *)
(* context is cancelled.                                                   *)
Fault == faults < MaxFaults /\ faults' = faults + 1
=============================================================================
