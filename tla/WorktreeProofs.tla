--------------------------- MODULE WorktreeProofs ---------------------------
(* What holds of the Worktree commands for any number of commands, paths,   *)
(* references, trees and Sessions, and wherever the two state directories   *)
(* lie.                                                                     *)
EXTENDS WorktreeLifecycle, TLAPS

AddLabels == {"a_claim", "a_repo", "a_look", "a_repair", "a_stage", "a_mark", "a_pending",
              "a_git", "a_finished", "a_staged", "a_unlock", "a_move", "a_fix", "a_check", "a_done",
              "a_found", "a_tidy"}

RemoveLabels == {"r_claim", "r_repo", "r_look", "r_sessions", "r_recheck", "r_mark",
                 "r_pending", "r_move", "r_repair", "r_inspect", "r_git", "r_clear", "r_find",
                 "r_reconcile", "r_reconciled", "r_restore", "r_back", "r_rerepair", "r_unstage",
                 "r_restored"}

UseLabels == {"s_list", "s_create", "shell"}

(* A command under way is an add, a removal or a use of a Worktree, and    *)
(* holds the lock of its target in the state directory of its kind.        *)
Adding(c) == c.pc \in AddLabels /\ c.op \in Adds /\ c.target = c.op.target

Removing(c) == c.pc \in RemoveLabels /\ c.op \in Removes /\ c.target = c.op.target

Using(c) == c.pc \in UseLabels /\ c.op = None /\ c.target \in Targets

LockDir(c) == IF Adding(c) THEN JournalDir ELSE "home"

HoldsTarget(p) ==
    \/ proc[p] = Idle
    \/ /\ Adding(proc[p]) \/ Removing(proc[p]) \/ Using(proc[p])
       /\ targetLock[<<LockDir(proc[p]), proc[p].target>>] = p

(* TypeOK of the control and of the data. *)
ControlOK ==
    /\ targetLock \in [LockIDs -> Procs \cup {None}]
    /\ repoLock \in Procs \cup {None}
    /\ proc \in [Procs -> Command]

FilesOK ==
    /\ at \in [Paths -> Trees \cup {None, Foreign}]
    /\ tree \in [Trees -> Tree]
    /\ stage \in [Ops -> {"absent", "bare", "owned"}]

JournalOK ==
    /\ record \in [Ops -> Record]
    /\ latest \in [Targets -> Trees \cup {None}]

SessionOK == session \in [SessionIDs -> [meta : Targets \cup {None}, cwd : Trees \cup {None}]]

Control == ControlOK /\ \A p \in Procs : HoldsTarget(p)

Core == TypeOK /\ \A p \in Procs : HoldsTarget(p)

LEMMA CoreParts == Core <=> Control /\ FilesOK /\ JournalOK /\ SessionOK /\ acts \in 0..MaxActs
BY DEF Core, TypeOK, Control, ControlOK, FilesOK, JournalOK, SessionOK

LEMMA CorePartsNext ==
    ASSUME Control', FilesOK', JournalOK', SessionOK', acts' \in 0..MaxActs
    PROVE  Core'
BY DEF Core, TypeOK, Control, ControlOK, FilesOK, JournalOK, SessionOK

-----------------------------------------------------------------------------
(* Operations and what is initially there. *)

LEMMA OpFacts ==
    /\ \A o \in Ops : o.target \in Targets /\ o \in Paths
    /\ \A o \in Adds : o \in Ops /\ o.kind = "add" /\ o.of \in Refs
    /\ \A o \in Removes : o \in Ops /\ o.kind = "remove" /\ o.of \in Trees
    /\ \A t \in Targets : t \in Paths
    /\ Adds \cap Removes = {} /\ Targets \cap Ops = {}
BY WorktreeConstants DEF Ops, Adds, Removes, Paths

LEMMA NothingThere ==
    /\ None \notin Procs /\ None \notin Trees /\ None \notin Refs /\ None \notin Paths
    /\ None # Foreign /\ Foreign \notin Trees
BY WorktreeConstants

LEMMA IntentOp == ASSUME NEW t \in Targets, NEW w \in Trees PROVE RemoveIntent(t, w) \in Removes
BY DEF RemoveIntent, Removes, Ops

LEMMA IdleCommand == Idle \in Command
BY DEF Idle, Command, Labels

LEMMA LockDirs == JournalDir \in {"home", "state"}
BY DEF JournalDir

LEMMA InitCore == Init => Core
<1> SUFFICES ASSUME Init PROVE Core
  OBVIOUS
<1>1. Control
  BY IdleCommand DEF Init, Control, ControlOK, HoldsTarget
<1>2. FilesOK /\ JournalOK /\ SessionOK
  BY DEF Init, FilesOK, JournalOK, SessionOK, Tree, Unborn, Record, NoRecord, Checkpoints, NoSession
<1>3. acts \in 0..MaxActs
  BY WorktreeConstants DEF Init
<1> QED BY <1>1, <1>2, <1>3, CoreParts

-----------------------------------------------------------------------------
(* Control: a step of p moves it within its command, or returns. *)

SameCommand(l, m) == \A g \in {AddLabels, RemoveLabels, UseLabels} : l \in g => m \in g

Moves(p) ==
    /\ proc[p] # Idle
    /\ \/ /\ \E l \in Labels : SameCommand(proc[p].pc, l) /\ Goto(p, l)
          /\ UNCHANGED targetLock
          /\ repoLock' \in {repoLock, p}
       \/ Return(p)

LEMMA LabelGroups ==
    /\ AddLabels \subseteq Labels /\ RemoveLabels \subseteq Labels /\ UseLabels \subseteq Labels
    /\ Labels = {"idle"} \cup AddLabels \cup RemoveLabels \cup UseLabels
BY DEF Labels, AddLabels, RemoveLabels, UseLabels

(* A step of p within a command, whose labels are L. *)
GoesOrReturns(p, L) ==
    \/ /\ \E l \in L : Goto(p, l)
       /\ UNCHANGED targetLock
       /\ repoLock' \in {repoLock, p}
    \/ Return(p)

LEMMA MovesWithin ==
    ASSUME NEW p \in Procs, NEW L \in {AddLabels, RemoveLabels, UseLabels},
           proc[p] # Idle, proc[p].pc \in L, GoesOrReturns(p, L)
    PROVE  Moves(p)
<1>1. \A l \in L : SameCommand(proc[p].pc, l) /\ l \in Labels
  <2>1. L \subseteq Labels
    BY LabelGroups
  <2>2. CASE L = AddLabels
    BY <2>1, <2>2 DEF SameCommand, AddLabels, RemoveLabels, UseLabels
  <2>3. CASE L = RemoveLabels
    BY <2>1, <2>3 DEF SameCommand, AddLabels, RemoveLabels, UseLabels
  <2>4. CASE L = UseLabels
    BY <2>1, <2>4 DEF SameCommand, AddLabels, RemoveLabels, UseLabels
  <2> QED BY <2>2, <2>3, <2>4
<1> QED BY <1>1 DEF GoesOrReturns, Moves

LEMMA AddMoves == ASSUME NEW p \in Procs, AddStep(p) PROVE Moves(p)
<1>1. GoesOrReturns(p, AddLabels)
  <2> USE DEF GoesOrReturns, AddLabels, locks
  <2>1. CASE AddClaim(p)
    BY <2>1 DEF AddClaim
  <2>2. CASE AddRepository(p)
    BY <2>2 DEF AddRepository, AcquireRepository
  <2>3. CASE AddRecognise(p)
    BY <2>3 DEF AddRecognise
  <2>4. CASE AddConflict(p)
    BY <2>4 DEF AddConflict
  <2>5. CASE AddObstructed(p)
    BY <2>5 DEF AddObstructed
  <2>6. CASE AddRepair(p)
    BY <2>6 DEF AddRepair
  <2>7. CASE AddFound(p)
    BY <2>7 DEF AddFound
  <2>8. CASE AddTidy(p)
    BY <2>8 DEF AddTidy
  <2>9. CASE AddAbsent(p)
    BY <2>9 DEF AddAbsent
  <2>10. CASE AddStage(p)
    BY <2>10 DEF AddStage
  <2>11. CASE AddMark(p)
    BY <2>11 DEF AddMark
  <2>12. CASE AddPending(p)
    BY <2>12 DEF AddPending
  <2>13. CASE AddGit(p)
    BY <2>13 DEF AddGit
  <2>14. CASE AddFinished(p)
    BY <2>14 DEF AddFinished
  <2>15. CASE AddStaged(p)
    BY <2>15 DEF AddStaged
  <2>16. CASE AddUnlock(p)
    BY <2>16 DEF AddUnlock
  <2>17. CASE AddMove(p)
    BY <2>17 DEF AddMove
  <2>18. CASE AddFix(p)
    BY <2>18 DEF AddFix
  <2>19. CASE AddCheck(p)
    BY <2>19 DEF AddCheck
  <2>20. CASE AddDone(p)
    BY <2>20 DEF AddDone
  <2> QED BY <2>1, <2>2, <2>3, <2>4, <2>5, <2>6, <2>7, <2>8, <2>9, <2>10, <2>11, <2>12, <2>13, <2>14, <2>15, <2>16, <2>17, <2>18, <2>19, <2>20 DEF AddStep
<1>2. proc[p] # Idle /\ proc[p].pc \in AddLabels
  <2>1. \E l \in AddLabels : AddAt(p, l)
    BY DEF AddStep, AddClaim, AddRepository, AddRecognise, AddConflict, AddObstructed, AddRepair, AddFound, AddTidy, AddAbsent, AddStage, AddMark, AddPending, AddGit, AddFinished, AddStaged, AddUnlock, AddMove, AddFix, AddCheck, AddDone, AddLabels
  <2> QED BY <2>1 DEF AddAt, AddLabels, Idle
<1> QED BY <1>1, <1>2, MovesWithin

LEMMA RemoveMoves == ASSUME NEW p \in Procs, RemoveStep(p) PROVE Moves(p)
<1>1. GoesOrReturns(p, RemoveLabels)
  <2> USE DEF GoesOrReturns, RemoveLabels, locks
  <2>1. CASE RemoveClaim(p)
    BY <2>1 DEF RemoveClaim
  <2>2. CASE RemoveRepository(p)
    BY <2>2 DEF RemoveRepository, AcquireRepository
  <2>3. CASE RemoveFind(p)
    BY <2>3 DEF RemoveFind, AcquireRepository
  <2>4. CASE RemoveLook(p)
    BY <2>4 DEF RemoveLook
  <2>5. CASE RemoveSessions(p)
    BY <2>5 DEF RemoveSessions
  <2>6. CASE RemoveRecheck(p)
    BY <2>6 DEF RemoveRecheck
  <2>7. CASE RemoveMark(p)
    BY <2>7 DEF RemoveMark
  <2>8. CASE RemovePending(p)
    BY <2>8 DEF RemovePending
  <2>9. CASE RemoveMove(p)
    BY <2>9 DEF RemoveMove
  <2>10. CASE RemoveRepair(p)
    BY <2>10 DEF RemoveRepair
  <2>11. CASE RemoveInspect(p)
    BY <2>11 DEF RemoveInspect
  <2>12. CASE RemoveGit(p)
    BY <2>12 DEF RemoveGit
  <2>13. CASE RemoveClear(p)
    BY <2>13 DEF RemoveClear
  <2>14. CASE RemoveReconcile(p)
    BY <2>14 DEF RemoveReconcile
  <2>15. CASE RemoveReconciled(p)
    BY <2>15 DEF RemoveReconciled
  <2>16. CASE RemoveRestore(p)
    BY <2>16 DEF RemoveRestore
  <2>17. CASE RemoveBack(p)
    BY <2>17 DEF RemoveBack
  <2>18. CASE RemoveRerepair(p)
    BY <2>18 DEF RemoveRerepair
  <2>19. CASE RemoveUnstage(p)
    BY <2>19 DEF RemoveUnstage
  <2>20. CASE RemoveRestored(p)
    BY <2>20 DEF RemoveRestored
  <2> QED BY <2>1, <2>2, <2>3, <2>4, <2>5, <2>6, <2>7, <2>8, <2>9, <2>10, <2>11, <2>12, <2>13, <2>14, <2>15, <2>16, <2>17, <2>18, <2>19, <2>20 DEF RemoveStep
<1>2. proc[p] # Idle /\ proc[p].pc \in RemoveLabels
  <2>1. \E l \in RemoveLabels : RemoveAt(p, l)
    BY DEF RemoveStep, RemoveClaim, RemoveRepository, RemoveFind, RemoveLook, RemoveSessions, RemoveRecheck, RemoveMark, RemovePending, RemoveMove, RemoveRepair, RemoveInspect, RemoveGit, RemoveClear, RemoveReconcile, RemoveReconciled, RemoveRestore, RemoveBack, RemoveRerepair, RemoveUnstage, RemoveRestored, RemoveLabels
  <2> QED BY <2>1 DEF RemoveAt, RemoveLabels, Idle
<1> QED BY <1>1, <1>2, MovesWithin

LEMMA SessionMoves == ASSUME NEW p \in Procs, SessionList(p) \/ SessionCreate(p) PROVE Moves(p)
BY DEF SessionList, SessionCreate, Moves, Labels, SameCommand, AddLabels, RemoveLabels, UseLabels,
       locks, Idle

LEMMA StepMoves == ASSUME NEW p \in Procs, Step(p) \/ Interrupt(p) PROVE Moves(p)
BY AddMoves, RemoveMoves, SessionMoves DEF Step, Interrupt, Moves

(* A command that moves on keeps its kind, its operation and its target. *)
LEMMA GotoCommand ==
    ASSUME Control, NEW p \in Procs, NEW l \in Labels, proc[p] # Idle,
           SameCommand(proc[p].pc, l), Goto(p, l)
    PROVE  /\ proc' = [proc EXCEPT ![p] = [proc[p] EXCEPT !.pc = l]]
           /\ proc'[p].op = proc[p].op /\ proc'[p].target = proc[p].target /\ proc'[p].pc = l
           /\ Adding(proc[p]) <=> Adding(proc'[p])
           /\ Removing(proc[p]) <=> Removing(proc'[p])
           /\ Using(proc[p]) <=> Using(proc'[p])
           /\ LockDir(proc'[p]) = LockDir(proc[p])
<1>1. proc[p] \in Command
  BY DEF Control, ControlOK
<1>2. /\ proc' = [proc EXCEPT ![p] = [proc[p] EXCEPT !.pc = l]]
      /\ proc'[p].op = proc[p].op /\ proc'[p].target = proc[p].target /\ proc'[p].pc = l
  BY <1>1 DEF Goto, Control, ControlOK, Command
<1>3. Adding(proc[p]) \/ Removing(proc[p]) \/ Using(proc[p])
  BY DEF Control, HoldsTarget
<1>4. /\ Adding(proc[p]) <=> Adding(proc'[p])
      /\ Removing(proc[p]) <=> Removing(proc'[p])
      /\ Using(proc[p]) <=> Using(proc'[p])
  BY <1>2, <1>3 DEF Adding, Removing, Using, SameCommand, AddLabels, RemoveLabels, UseLabels
<1> QED BY <1>2, <1>4 DEF LockDir

LEMMA MovesControl == ASSUME Control, NEW p \in Procs, Moves(p) PROVE Control'
<1>1. CASE Return(p)
  <2>1. ControlOK'
    BY <1>1, IdleCommand DEF Return, Control, ControlOK
  <2>2. ASSUME NEW q \in Procs PROVE HoldsTarget(q)'
    <3>1. CASE q = p
      BY <1>1, <3>1 DEF Return, HoldsTarget, Control, ControlOK
    <3>2. CASE q # p
      <4>1. proc'[q] = proc[q] /\ HoldsTarget(q)
        BY <1>1, <3>2 DEF Return, Control, ControlOK
      <4>2. \A l \in LockIDs : targetLock[l] = q => targetLock'[l] = q
        BY <1>1, <3>2 DEF Return
      <4>3. proc[q] # Idle => <<LockDir(proc[q]), proc[q].target>> \in LockIDs
        BY <4>1, OpFacts, LockDirs DEF HoldsTarget, LockDir, LockIDs, Adding, Removing, Using
      <4> QED BY <4>1, <4>2, <4>3 DEF HoldsTarget
    <3> QED BY <3>1, <3>2
  <2> QED BY <2>1, <2>2 DEF Control
<1>2. CASE ~Return(p)
  <2>1. PICK l \in Labels : SameCommand(proc[p].pc, l) /\ Goto(p, l)
    BY <1>2 DEF Moves
  <2>2. UNCHANGED targetLock /\ repoLock' \in {repoLock, p}
    BY <1>2 DEF Moves
  <2>3. /\ proc' = [proc EXCEPT ![p] = [proc[p] EXCEPT !.pc = l]]
        /\ proc'[p].op = proc[p].op /\ proc'[p].target = proc[p].target /\ proc'[p].pc = l
        /\ Adding(proc[p]) <=> Adding(proc'[p])
        /\ Removing(proc[p]) <=> Removing(proc'[p])
        /\ Using(proc[p]) <=> Using(proc'[p])
        /\ LockDir(proc'[p]) = LockDir(proc[p])
    BY <2>1, GotoCommand DEF Moves
  <2>4. ControlOK'
    BY <2>2, <2>3 DEF Control, ControlOK, Command
  <2>5. ASSUME NEW q \in Procs PROVE HoldsTarget(q)'
    <3>1. CASE q = p
      BY <2>2, <2>3, <3>1 DEF HoldsTarget, Control, Moves
    <3>2. CASE q # p
      <4>1. proc'[q] = proc[q] /\ HoldsTarget(q)
        BY <2>3, <3>2 DEF Control, ControlOK
      <4> QED BY <4>1, <2>2 DEF HoldsTarget
    <3> QED BY <3>1, <3>2
  <2> QED BY <2>4, <2>5 DEF Control
<1> QED BY <1>1, <1>2

(* A command that begins takes a lock nobody holds. *)
LEMMA BeginControl ==
    ASSUME Control, NEW p \in Procs, NEW c \in Command, proc[p] = Idle,
           Adding(c) \/ Removing(c) \/ Using(c),
           AcquireTarget(p, LockDir(c), c.target),
           proc' = [proc EXCEPT ![p] = c], UNCHANGED repoLock
    PROVE  Control'
<1>1. <<LockDir(c), c.target>> \in LockIDs
  BY OpFacts, LockDirs DEF LockDir, LockIDs, Adding, Removing, Using
<1>2. ControlOK'
  BY <1>1 DEF Control, ControlOK, AcquireTarget
<1>3. ASSUME NEW q \in Procs PROVE HoldsTarget(q)'
  <2>1. CASE q = p
    <3>1. proc'[p] = c /\ targetLock'[<<LockDir(c), c.target>>] = p
      BY <1>1 DEF Control, ControlOK, AcquireTarget
    <3> QED BY <2>1, <3>1 DEF HoldsTarget
  <2>2. CASE q # p
    <3>1. proc'[q] = proc[q] /\ HoldsTarget(q)
      BY <2>2 DEF Control, ControlOK
    <3>2. \A l \in LockIDs : targetLock[l] = q => targetLock'[l] = q
      BY NothingThere DEF AcquireTarget, Control, ControlOK
    <3>3. proc[q] # Idle => <<LockDir(proc[q]), proc[q].target>> \in LockIDs
      BY <3>1, OpFacts, LockDirs DEF HoldsTarget, LockDir, LockIDs, Adding, Removing, Using
    <3> QED BY <3>1, <3>2, <3>3 DEF HoldsTarget
  <2> QED BY <2>1, <2>2
<1> QED BY <1>2, <1>3 DEF Control

LEMMA BeginCommand ==
    ASSUME NEW l \in Labels, NEW o \in Ops, NEW t \in Targets
    PROVE  [Idle EXCEPT !.pc = l, !.op = o, !.target = t]
              = [pc |-> l, op |-> o, target |-> t, seed |-> 0]
<1> DEFINE c1 == [Idle EXCEPT !.pc = l]
           c2 == [c1 EXCEPT !.op = o]
           c3 == [c2 EXCEPT !.target = t]
<1>1. c1 = [pc |-> l, op |-> None, target |-> None, seed |-> 0]
  BY DEF Idle
<1> HIDE DEF c1
<1>2. c2 = [pc |-> l, op |-> o, target |-> None, seed |-> 0]
  BY <1>1
<1> HIDE DEF c2
<1>3. c3 = [pc |-> l, op |-> o, target |-> t, seed |-> 0]
  BY <1>2
<1> QED BY <1>3 DEF c1, c2

LEMMA UseCommand ==
    ASSUME NEW l \in Labels, NEW t \in Targets
    PROVE  [Idle EXCEPT !.pc = l, !.target = t]
              = [pc |-> l, op |-> None, target |-> t, seed |-> 0]
<1> DEFINE c1 == [Idle EXCEPT !.pc = l]
           c2 == [c1 EXCEPT !.target = t]
<1>1. c1 = [pc |-> l, op |-> None, target |-> None, seed |-> 0]
  BY DEF Idle
<1> HIDE DEF c1
<1>2. c2 = [pc |-> l, op |-> None, target |-> t, seed |-> 0]
  BY <1>1
<1> QED BY <1>2 DEF c1

LEMMA CommandType ==
    ASSUME NEW l \in Labels, NEW o \in Ops \cup {None}, NEW t \in Targets, NEW h \in 0..1
    PROVE  [pc |-> l, op |-> o, target |-> t, seed |-> h] \in Command
BY DEF Command

LEMMA AddBeginControl ==
    ASSUME Control, NEW p \in Procs, NEW o \in Adds, AddBegin(p, o)
    PROVE  Control'
<1> DEFINE c == [Idle EXCEPT !.pc = "a_claim", !.op = o, !.target = o.target]
<1>1. c.pc = "a_claim" /\ c.op = o /\ c.target = o.target
  BY DEF Idle
<1>2. c \in Command
  <2>1. "a_claim" \in Labels /\ o \in Ops /\ o.target \in Targets /\ 0 \in 0..1
    BY OpFacts DEF Labels
  <2> HIDE DEF c
  <2>2. c = [pc |-> "a_claim", op |-> o, target |-> o.target, seed |-> 0]
    BY <2>1, BeginCommand DEF c
  <2> QED BY <2>1, <2>2, CommandType
<1>3. Adding(c)
  BY <1>1 DEF Adding, AddLabels
<1>4. LockDir(c) = JournalDir
  BY <1>3 DEF LockDir
<1> QED BY <1>1, <1>2, <1>3, <1>4, BeginControl DEF AddBegin

LEMMA RemoveBeginControl ==
    ASSUME Control, FilesOK, JournalOK, NEW p \in Procs, NEW t \in Targets, RemoveBegin(p, t)
    PROVE  Control'
<1>1. PICK l \in {"r_claim", "r_find"}, w \in Trees, h \in 0..1 :
        proc' = [proc EXCEPT ![p] = [pc |-> l, op |-> RemoveIntent(t, w), target |-> t, seed |-> h]]
  <2>1. CASE Inspects(t)
    <3>1. at[t] \in Trees /\ tree[at[t]].head \in 0..1
      BY <2>1 DEF Inspects, FilesOK, Tree
    <3>2. proc' = [proc EXCEPT ![p] = [pc |-> "r_claim", op |-> RemoveIntent(t, at[t]),
                                      target |-> t, seed |-> tree[at[t]].head]]
      BY <2>1 DEF RemoveBegin
    <3> QED BY <3>1, <3>2
  <2>2. CASE ~Inspects(t)
    <3>1. latest[t] \in Trees
      BY <2>2 DEF RemoveBegin, JournalOK
    <3>2. RemoveIntent(t, latest[t]) \in Ops /\ "r_find" \in Labels
      BY <3>1, IntentOp, OpFacts DEF Labels
    <3>3. proc' = [proc EXCEPT ![p] =
              [Idle EXCEPT !.pc = "r_find", !.op = RemoveIntent(t, latest[t]), !.target = t]]
      BY <2>2 DEF RemoveBegin
    <3>4. proc' = [proc EXCEPT ![p] =
              [pc |-> "r_find", op |-> RemoveIntent(t, latest[t]), target |-> t, seed |-> 0]]
      BY <3>2, <3>3, BeginCommand
    <3>5. 0 \in 0..1 /\ "r_find" \in {"r_claim", "r_find"}
      OBVIOUS
    <3> QED BY <3>1, <3>4, <3>5, Zenon
  <2> QED BY <2>1, <2>2
<1> DEFINE o == RemoveIntent(t, w)
           c == [pc |-> l, op |-> o, target |-> t, seed |-> h]
<1>2. o \in Removes /\ o.target = t /\ o \in Ops
  BY IntentOp, OpFacts DEF RemoveIntent
<1>3. l \in Labels /\ l \in RemoveLabels /\ l \notin AddLabels
  BY DEF Labels, RemoveLabels, AddLabels
<1>4. c.pc = l /\ c.op = o /\ c.target = t
  OBVIOUS
<1>5. c \in Command
  BY <1>2, <1>3, CommandType
<1> HIDE DEF c, o
<1>6. Removing(c) /\ LockDir(c) = "home"
  BY <1>2, <1>3, <1>4 DEF Removing, Adding, LockDir
<1>7. proc' = [proc EXCEPT ![p] = c]
  BY <1>1 DEF c, o
<1> QED BY <1>4, <1>5, <1>6, <1>7, BeginControl DEF RemoveBegin

LEMMA UseBeginControl ==
    ASSUME Control, NEW p \in Procs, NEW t \in Targets, SessionBegin(p, t) \/ ShellBegin(p, t)
    PROVE  Control'
<1>1. PICK l \in UseLabels : proc' = [proc EXCEPT ![p] = [Idle EXCEPT !.pc = l, !.target = t]]
  BY DEF SessionBegin, ShellBegin, UseLabels
<1> DEFINE c == [pc |-> l, op |-> None, target |-> t, seed |-> 0]
<1>2. l \in Labels /\ l \notin AddLabels /\ None \in Ops \cup {None} /\ 0 \in 0..1
  BY LabelGroups DEF UseLabels, AddLabels
<1>3. proc' = [proc EXCEPT ![p] = c]
  BY <1>1, <1>2, UseCommand
<1>4. c.pc = l /\ c.op = None /\ c.target = t
  OBVIOUS
<1>5. c \in Command
  BY <1>2, CommandType
<1> HIDE DEF c
<1>6. Using(c) /\ LockDir(c) = "home"
  BY <1>2, <1>4 DEF Using, Adding, LockDir
<1> QED BY <1>3, <1>4, <1>5, <1>6, BeginControl DEF SessionBegin, ShellBegin

-----------------------------------------------------------------------------
(* Types of the files and of the journal. *)

LEMMA SaveType ==
    ASSUME JournalOK, NEW o \in Ops, NEW r \in Record, Save(o, r)
    PROVE  JournalOK'
<1>1. record' \in [Ops -> Record]
  BY DEF JournalOK, Save
<1>2. o.kind = "remove" => o.of \in Trees /\ o.target \in Targets
  BY OpFacts DEF Removes
<1> QED BY <1>1, <1>2 DEF JournalOK, Save

LEMMA CheckpointType ==
    ASSUME JournalOK, NEW o \in Ops, NEW ck \in Checkpoints, Checkpoint(o, ck)
    PROVE  JournalOK'
<1>1. [record[o] EXCEPT !.ck = ck] \in Record
  BY DEF JournalOK, Record
<1> QED BY <1>1, SaveType DEF Checkpoint

LEMMA SnapshotType ==
    ASSUME NEW r \in Record, NEW ck \in Checkpoints, NEW h \in 0..1
    PROVE  [r EXCEPT !.ck = ck, !.head = h] \in Record
BY DEF Record

LEMMA RepairType ==
    ASSUME FilesOK, NEW x \in Paths, CanRepair(x), Repair(x)
    PROVE  tree' \in [Trees -> Tree]
BY DEF FilesOK, CanRepair, Repair, Tree

LEMMA GoneType ==
    ASSUME FilesOK, NEW w \in Trees
    PROVE  Gone(w) \in Tree
<1> DEFINE half == [tree[w] EXCEPT !.reg = None, !.locked = FALSE]
<1>1. half \in Tree
  BY DEF FilesOK, Tree
<1> HIDE DEF half
<1>2. [half EXCEPT !.head = 0] \in Tree
  BY <1>1 DEF Tree
<1> DEFINE rest == [half EXCEPT !.head = 0]
<1>3. [rest EXCEPT !.dirt = "clean"] \in Tree
  <2> HIDE DEF rest
  <2>1. rest \in Tree
    BY <1>2 DEF rest
  <2> QED BY <2>1 DEF Tree
<1> QED BY <1>3 DEF half, Gone

LEMMA FreshType ==
    ASSUME NEW x \in Paths, NEW ref \in Refs, NEW locked \in BOOLEAN
    PROVE  Fresh(x, ref, locked) \in Tree
BY DEF Fresh, Tree

LEMMA MoveType ==
    ASSUME FilesOK, NEW x \in Paths, NEW y \in Paths, Move(x, y)
    PROVE  at' \in [Paths -> Trees \cup {None, Foreign}]
BY DEF FilesOK, Move

LEMMA ClearType ==
    ASSUME FilesOK, NEW o \in Ops, Clear(o)
    PROVE  /\ at' \in [Paths -> Trees \cup {None, Foreign}]
           /\ stage' \in [Ops -> {"absent", "bare", "owned"}]
BY DEF FilesOK, Clear

LEMMA AddFiles ==
    ASSUME FilesOK, NEW p \in Procs, AddStep(p)
    PROVE  FilesOK'
<1>0. AddStep(p) => Op(p) \in Ops /\ Op(p) \in Paths /\ Op(p).target \in Paths /\ Op(p).of \in Refs
  BY OpFacts DEF AddStep, AddAt, Op, AddClaim, AddRepository, AddRecognise, AddConflict, AddObstructed,
     AddRepair, AddFound, AddTidy, AddAbsent, AddStage, AddMark, AddPending, AddGit, AddFinished,
     AddStaged, AddUnlock, AddMove, AddFix, AddCheck, AddDone
<1>1. CASE \/ AddClaim(p) \/ AddRepository(p) \/ AddConflict(p) \/ AddObstructed(p) \/ AddFound(p)
           \/ AddAbsent(p) \/ AddPending(p) \/ AddFinished(p) \/ AddStaged(p) \/ AddDone(p)
  BY <1>1 DEF FilesOK, files, AddClaim, AddRepository, AddConflict, AddObstructed, AddFound,
     AddAbsent, AddPending, AddFinished, AddStaged, AddDone
<1>2. CASE AddRecognise(p) \/ AddTidy(p) \/ AddCheck(p)
  BY <1>0, <1>2, ClearType DEF FilesOK, AddRecognise, AddTidy, AddCheck, Op
<1>3. CASE AddRepair(p) \/ AddFix(p)
  BY <1>0, <1>3, RepairType DEF FilesOK, AddRepair, AddFix
<1>4. CASE AddStage(p)
  <2>1. tree' \in [Trees -> Tree]
    BY <1>4, GoneType DEF AddStage, FilesOK, files
  <2> QED BY <1>0, <1>4, <2>1 DEF AddStage, FilesOK, files
<1>5. CASE AddMark(p)
  BY <1>0, <1>5 DEF AddMark, MarkStage, UnmakeStage, FilesOK
<1>6. CASE AddGit(p)
  <2>1. Fresh(Op(p), Op(p).of, TRUE) \in Tree
    BY <1>0, FreshType
  <2> QED BY <1>0, <1>6, <2>1 DEF AddGit, FilesOK
<1>7. CASE AddUnlock(p)
  BY <1>7 DEF AddUnlock, FilesOK, Tree
<1>8. CASE AddMove(p)
  BY <1>0, <1>8, MoveType DEF AddMove, FilesOK
<1> QED BY <1>1, <1>2, <1>3, <1>4, <1>5, <1>6, <1>7, <1>8 DEF AddStep

LEMMA AddJournal ==
    ASSUME FilesOK, JournalOK, NEW p \in Procs, AddStep(p)
    PROVE  JournalOK' /\ UNCHANGED <<session, acts>>
<1>0. AddStep(p) => Op(p) \in Ops /\ Op(p) \in Paths
  BY OpFacts DEF AddStep, AddAt, Op, AddClaim, AddRepository, AddRecognise, AddConflict, AddObstructed,
     AddRepair, AddFound, AddTidy, AddAbsent, AddStage, AddMark, AddPending, AddGit, AddFinished,
     AddStaged, AddUnlock, AddMove, AddFix, AddCheck, AddDone
<1>1. CASE \/ AddRepository(p) \/ AddRecognise(p) \/ AddObstructed(p) \/ AddRepair(p) \/ AddTidy(p)
           \/ AddAbsent(p) \/ AddStage(p) \/ AddMark(p) \/ AddGit(p) \/ AddUnlock(p) \/ AddMove(p)
           \/ AddFix(p) \/ AddCheck(p)
  BY <1>1 DEF JournalOK, journal, AddRepository, AddRecognise, AddObstructed, AddRepair, AddTidy,
     AddAbsent, AddStage, AddMark, AddGit, AddUnlock, AddMove, AddFix, AddCheck
<1>2. CASE AddClaim(p) \/ AddConflict(p) \/ AddFound(p) \/ AddPending(p) \/ AddFinished(p) \/ AddDone(p)
  <2>1. {"requested", "aborted", "complete", "add_pending", "add_finished"} \subseteq Checkpoints
    BY DEF Checkpoints
  <2>2. UNCHANGED <<session, acts>>
    BY <1>2 DEF AddClaim, AddConflict, AddFound, AddPending, AddFinished, AddDone
  <2>3. UNCHANGED journal \/ \E ck \in Checkpoints : Checkpoint(Op(p), ck)
    BY <1>2, <2>1 DEF AddClaim, AddConflict, AddFound, AddPending, AddFinished, AddDone
  <2> QED BY <1>0, <2>2, <2>3, CheckpointType DEF JournalOK, journal
<1>3. CASE AddStaged(p)
  <2>1. CASE UNCHANGED journal
    BY <1>3, <2>1 DEF JournalOK, journal, AddStaged
  <2>2. CASE ~UNCHANGED journal
    <3>1. /\ at[Op(p)] \in Trees
          /\ Save(Op(p), [record[Op(p)] EXCEPT !.ck = "move_pending", !.head = tree[at[Op(p)]].head])
      BY <1>3, <2>2 DEF AddStaged, Inspects
    <3>2. record[Op(p)] \in Record /\ tree[at[Op(p)]].head \in 0..1 /\ "move_pending" \in Checkpoints
      BY <1>0, <1>3, <3>1 DEF AddStep, FilesOK, JournalOK, Checkpoints, Tree
    <3>4. [record[Op(p)] EXCEPT !.ck = "move_pending", !.head = tree[at[Op(p)]].head] \in Record
      BY <3>2, SnapshotType
    <3>3. UNCHANGED <<session, acts>>
      BY <1>3 DEF AddStaged
    <3> QED BY <1>0, <1>3, <3>1, <3>4, <3>3, SaveType DEF AddStep
  <2> QED BY <2>1, <2>2
<1> QED BY <1>1, <1>2, <1>3 DEF AddStep

LEMMA RemoveFiles ==
    ASSUME FilesOK, NEW p \in Procs, RemoveStep(p)
    PROVE  FilesOK'
<1>0. RemoveStep(p) => /\ Removal(p) \in Ops /\ Removal(p) \in Paths /\ Removal(p).target \in Paths
  BY OpFacts DEF RemoveStep, RemoveAt, Removal, RemoveClaim, RemoveRepository, RemoveFind, RemoveLook,
     RemoveSessions, RemoveRecheck, RemoveMark, RemovePending, RemoveMove, RemoveRepair, RemoveInspect,
     RemoveGit, RemoveClear, RemoveReconcile, RemoveReconciled, RemoveRestore, RemoveBack,
     RemoveRerepair, RemoveUnstage, RemoveRestored
<1>1. CASE \/ RemoveClaim(p) \/ RemoveRepository(p) \/ RemoveFind(p) \/ RemoveLook(p)
           \/ RemoveSessions(p) \/ RemovePending(p) \/ RemoveInspect(p) \/ RemoveReconcile(p)
           \/ RemoveReconciled(p) \/ RemoveRestore(p) \/ RemoveRestored(p)
  BY <1>1 DEF FilesOK, files, RemoveClaim, RemoveRepository, RemoveFind, RemoveLook, RemoveSessions,
     RemovePending, RemoveInspect, RemoveReconcile, RemoveReconciled, RemoveRestore, RemoveRestored
<1>2. CASE RemoveRecheck(p) \/ RemoveMark(p)
  BY <1>0, <1>2 DEF RemoveRecheck, RemoveMark, MakeStage, MarkStage, UnmakeStage, FilesOK, Removal
<1>3. CASE RemoveMove(p) \/ RemoveBack(p)
  BY <1>0, <1>3, MoveType DEF RemoveMove, RemoveBack, FilesOK
<1>4. CASE RemoveRepair(p) \/ RemoveRerepair(p)
  BY <1>0, <1>4, RepairType DEF RemoveRepair, RemoveRerepair, FilesOK
<1>5. CASE RemoveGit(p)
  <2>1. at[Removal(p)] \in Trees => Gone(at[Removal(p)]) \in Tree
    BY GoneType
  <2> QED BY <1>0, <1>5, <2>1 DEF RemoveGit, FilesOK
<1>6. CASE RemoveClear(p) \/ RemoveUnstage(p)
  BY <1>0, <1>6, ClearType DEF RemoveClear, RemoveUnstage, FilesOK
<1> QED BY <1>1, <1>2, <1>3, <1>4, <1>5, <1>6 DEF RemoveStep

LEMMA RemoveJournal ==
    ASSUME Control, JournalOK, NEW p \in Procs, RemoveStep(p)
    PROVE  JournalOK' /\ UNCHANGED <<session, acts>>
<1>0. RemoveStep(p) => Removal(p) \in Ops
  BY OpFacts DEF RemoveStep, RemoveAt, Removal, RemoveClaim, RemoveRepository, RemoveFind, RemoveLook,
     RemoveSessions, RemoveRecheck, RemoveMark, RemovePending, RemoveMove, RemoveRepair, RemoveInspect,
     RemoveGit, RemoveClear, RemoveReconcile, RemoveReconciled, RemoveRestore, RemoveBack,
     RemoveRerepair, RemoveUnstage, RemoveRestored
<1>1. CASE \/ RemoveFind(p) \/ RemoveLook(p) \/ RemoveSessions(p) \/ RemoveRecheck(p) \/ RemoveMark(p)
           \/ RemoveMove(p) \/ RemoveRepair(p) \/ RemoveGit(p) \/ RemoveClear(p) \/ RemoveReconcile(p)
           \/ RemoveBack(p) \/ RemoveRerepair(p) \/ RemoveUnstage(p)
  BY <1>1 DEF JournalOK, journal, RemoveFind, RemoveLook, RemoveSessions, RemoveRecheck, RemoveMark,
     RemoveMove, RemoveRepair, RemoveGit, RemoveClear, RemoveReconcile, RemoveBack, RemoveRerepair,
     RemoveUnstage
<1>2. CASE RemoveClaim(p) \/ RemoveInspect(p) \/ RemoveReconciled(p) \/ RemoveRestore(p) \/ RemoveRestored(p)
  <2>1. {"requested", "remove_pending", "complete", "restore_pending"} \subseteq Checkpoints
    BY DEF Checkpoints
  <2>2. UNCHANGED <<session, acts>>
    BY <1>2 DEF RemoveClaim, RemoveInspect, RemoveReconciled, RemoveRestore, RemoveRestored
  <2>3. UNCHANGED journal \/ \E ck \in Checkpoints : Checkpoint(Removal(p), ck)
    BY <1>2, <2>1 DEF RemoveClaim, RemoveInspect, RemoveReconciled, RemoveRestore, RemoveRestored
  <2> QED BY <1>0, <2>2, <2>3, CheckpointType DEF JournalOK, journal
<1>3. CASE RemoveRepository(p) \/ RemovePending(p)
  <2>1. proc[p].seed \in 0..1
    BY DEF Control, ControlOK, Command
  <2>2. /\ [record[Removal(p)] EXCEPT !.rel = TRUE, !.head = proc[p].seed] \in Record
        /\ [record[Removal(p)] EXCEPT !.ck = "quarantine_pending", !.head = proc[p].seed] \in Record
    BY <1>0, <1>3, <2>1 DEF JournalOK, Record, Checkpoints, RemoveStep
  <2>3. UNCHANGED <<session, acts>>
    BY <1>3 DEF RemoveRepository, RemovePending
  <2>4. UNCHANGED journal \/ \E r \in Record : Save(Removal(p), r)
    BY <1>3, <2>2 DEF RemoveRepository, RemovePending
  <2> QED BY <1>0, <1>3, <2>3, <2>4, SaveType DEF JournalOK, journal, RemoveStep
<1> QED BY <1>1, <1>2, <1>3 DEF RemoveStep
-----------------------------------------------------------------------------
(* Type correctness. *)

LEMMA SessionFiles ==
    ASSUME Control, FilesOK, SessionOK, NEW p \in Procs, SessionList(p) \/ SessionCreate(p)
    PROVE  SessionOK' /\ UNCHANGED <<files, journal, acts>>
<1>1. CASE SessionList(p)
  BY <1>1 DEF SessionList, SessionOK
<1>2. CASE SessionCreate(p)
  <2>1. proc[p].target \in Targets \cup {None}
    BY DEF Control, ControlOK, Command
  <2>2. PICK s \in SessionIDs : session' = [session EXCEPT ![s] =
            [meta |-> proc[p].target,
             cwd |-> IF at[proc[p].target] \in Trees THEN at[proc[p].target] ELSE None]]
    BY <1>2 DEF SessionCreate
  <2> QED BY <1>2, <2>1, <2>2 DEF SessionCreate, SessionOK
<1> QED BY <1>1, <1>2

LEMMA PeopleFiles ==
    ASSUME FilesOK, acts \in 0..MaxActs, People
    PROVE  FilesOK' /\ acts' \in 0..MaxActs /\ UNCHANGED <<stage, journal, locks, session, proc>>
<1>1. ASSUME Act PROVE acts' \in 0..MaxActs /\ UNCHANGED <<stage, journal, locks, session, proc>>
  BY <1>1, WorktreeConstants DEF Act
<1>2. ASSUME NEW w \in Trees, NEW d \in {"ignored", "modified"}, Edit(w, d) PROVE FilesOK' /\ Act
  BY <1>2 DEF Edit, Act, FilesOK, Tree
<1>3. ASSUME NEW w \in Trees, MoveHead(w) PROVE FilesOK' /\ Act
  <2>1. tree[w] \in Tree /\ 1 \in 0..1
    BY DEF FilesOK
  <2>2. [tree[w] EXCEPT !.head = 1] \in Tree
    BY <2>1 DEF Tree
  <2> QED BY <1>3, <2>2 DEF MoveHead, Act, FilesOK
<1>4. ASSUME NEW t \in Targets, Delete(t) \/ Occupy(t) PROVE FilesOK' /\ Act
  BY <1>4, OpFacts DEF Delete, Occupy, Act, FilesOK
<1>5. ASSUME NEW t \in Targets, GitRemove(t) PROVE FilesOK' /\ Act
  BY <1>5, OpFacts, GoneType DEF GitRemove, Inspects, Act, FilesOK
<1>6. ASSUME NEW t \in Targets, NEW ref \in Refs, GitAdd(t, ref) PROVE FilesOK' /\ Act
  <2>1. Fresh(t, ref, FALSE) \in Tree
    BY OpFacts, FreshType
  <2>2. PICK w \in Trees : /\ at' = [at EXCEPT ![t] = w]
                           /\ tree' = [tree EXCEPT ![w] = Fresh(t, ref, FALSE)]
    BY <1>6 DEF GitAdd
  <2>3. Act /\ UNCHANGED stage
    BY <1>6 DEF GitAdd, Act
  <2> QED BY <2>1, <2>2, <2>3, OpFacts DEF FilesOK
<1> QED BY <1>1, <1>2, <1>3, <1>4, <1>5, <1>6 DEF People

LEMMA BeginControls ==
    ASSUME Control, FilesOK, JournalOK, NEW p \in Procs, Begin(p)
    PROVE  Control' /\ UNCHANGED <<files, journal, session, acts>>
BY AddBeginControl, RemoveBeginControl, UseBeginControl
   DEF Begin, AddBegin, RemoveBegin, SessionBegin, ShellBegin

LEMMA StepCore ==
    ASSUME Core, NEW p \in Procs, Step(p)
    PROVE  Core'
<1>0. Control /\ FilesOK /\ JournalOK /\ SessionOK /\ acts \in 0..MaxActs
  BY CoreParts
<1>1. Control'
  BY <1>0, StepMoves, MovesControl
<1>2. FilesOK' /\ JournalOK' /\ SessionOK' /\ (acts \in 0..MaxActs)'
  <2>1. CASE AddStep(p)
    BY <1>0, <2>1, AddFiles, AddJournal DEF SessionOK
  <2>2. CASE RemoveStep(p)
    BY <1>0, <2>2, RemoveFiles, RemoveJournal DEF SessionOK
  <2>3. CASE SessionList(p) \/ SessionCreate(p)
    BY <1>0, <2>3, SessionFiles DEF FilesOK, JournalOK, files, journal
  <2> QED BY <2>1, <2>2, <2>3 DEF Step
<1> QED BY <1>1, <1>2, CorePartsNext

LEMMA NextCore == Core /\ [Next]_vars => Core'
<1> SUFFICES ASSUME Core, [Next]_vars PROVE Core'
  OBVIOUS
<1>0. Control /\ FilesOK /\ JournalOK /\ SessionOK /\ acts \in 0..MaxActs
  BY CoreParts
<1>1. ASSUME NEW p \in Procs, Begin(p) PROVE Core'
  <2>1. Control' /\ UNCHANGED <<files, journal, session, acts>>
    BY <1>0, <1>1, BeginControls
  <2> QED BY <1>0, <2>1, CorePartsNext DEF FilesOK, JournalOK, SessionOK, files, journal
<1>2. ASSUME NEW p \in Procs, Step(p) PROVE Core'
  BY <1>2, StepCore
<1>3. ASSUME NEW p \in Procs, Interrupt(p) PROVE Core'
  <2>1. Control'
    BY <1>0, <1>3, StepMoves, MovesControl
  <2> QED BY <1>0, <1>3, <2>1, CorePartsNext DEF Interrupt, FilesOK, JournalOK, SessionOK, files, journal
<1>4. CASE Prune
  <2>1. tree' \in [Trees -> Tree]
    BY <1>0, <1>4, GoneType DEF Prune, FilesOK
  <2> QED BY <1>0, <1>4, <2>1
          DEF Prune, Core, TypeOK, HoldsTarget, FilesOK, journal, locks
<1>5. CASE Tmux
  <2>1. SessionOK' /\ UNCHANGED <<files, journal, locks, proc, acts>>
    BY <1>0, <1>5 DEF Tmux, SessionEnd, SessionLeaves, NoSession, SessionOK
  <2> QED BY <1>0, <2>1 DEF Core, TypeOK, HoldsTarget, SessionOK, files, journal, locks
<1>6. CASE People
  <2>1. FilesOK' /\ acts' \in 0..MaxActs /\ UNCHANGED <<stage, journal, locks, session, proc>>
    BY <1>0, <1>6, PeopleFiles
  <2> QED BY <1>0, <2>1 DEF Core, TypeOK, HoldsTarget, FilesOK, journal, locks
<1>7. CASE UNCHANGED vars
  BY <1>7 DEF vars, Core, TypeOK, HoldsTarget
<1> QED BY <1>1, <1>2, <1>3, <1>4, <1>5, <1>6, <1>7 DEF Next, Schooner

(* Every variable has its type, whatever the commands, people and tmux do  *)
(* and wherever they stop.                                                 *)
THEOREM TypeCorrect == Spec => []TypeOK
<1>1. Core => TypeOK
  BY DEF Core
<1> QED BY InitCore, NextCore, <1>1, PTL DEF Spec

-----------------------------------------------------------------------------
(* Sessions.  That removal and Session creation never pass each other      *)
(* rests on the per-Worktree lock and on what lies where: a tree is at one *)
(* path, a new tree was nowhere before, no pane is in the stage of an add, *)
(* and what a removal saw of the Sessions stays so until the quarantine.   *)

OnePathPerTree == \A x, y \in Paths : at[x] \in Trees /\ at[x] = at[y] => x = y

Born ==
    /\ \A x \in Paths : at[x] \in Trees => tree[at[x]].ref # None
    /\ \A s \in SessionIDs : session[s].cwd # None => tree[session[s].cwd].ref # None

NoPaneInStage ==
    \A o \in Adds, s \in SessionIDs : session[s].cwd # None => session[s].cwd # at[o]

PanesNamed == \A s \in SessionIDs : session[s].meta = None => session[s].cwd = None

FreeName(p) ==
    proc[p].pc = "s_create" => \A s \in SessionIDs : session[s].meta # proc[p].target

Validated == {"r_recheck", "r_mark", "r_pending", "r_move"}

NoSessionIn(t) ==
    \A s \in SessionIDs :
        session[s].meta # t /\ (session[s].cwd # None => session[s].cwd # at[t])

Unused(p) == proc[p].pc \in Validated => NoSessionIn(proc[p].target)

Panes == OnePathPerTree /\ Born /\ NoPaneInStage /\ PanesNamed

Sessions ==
    /\ Panes
    /\ \A p \in Procs : FreeName(p) /\ Unused(p)
    /\ OneSessionPerWorktree

(* The shapes a step may have on the paths.                                *)
RefsStay == \A w \in Trees : tree[w].ref # None => tree'[w].ref # None

Erases == \A x \in Paths : at'[x] \in {at[x], None}

Empties == \A x \in Paths : at'[x] \in {at[x], None, Foreign}

Creates(x) ==
    \E w \in Trees : tree[w].ref = None /\ tree'[w].ref # None /\ at' = [at EXCEPT ![x] = w]

Promotes(p) == Adding(proc[p]) /\ Move(proc[p].op, proc[p].target)

Quarantines(p) ==
    Removing(proc[p]) /\ proc[p].pc = "r_move" /\ Move(proc[p].target, proc[p].op)

Restores(p) ==
    Removing(proc[p]) /\ proc[p].pc = "r_back" /\ Move(proc[p].op, proc[p].target)

Reshapes(p) ==
    /\ RefsStay
    /\ \/ Erases
       \/ \E o \in Adds : Creates(o)
       \/ Promotes(p) \/ Quarantines(p) \/ Restores(p)

LEMMA InitSessions == Init => Sessions
<1> SUFFICES ASSUME Init PROVE Sessions
  OBVIOUS
<1>1. Panes
  BY OpFacts, NothingThere DEF Init, NoSession, Panes, OnePathPerTree, Born, NoPaneInStage, PanesNamed
<1>2. \A p \in Procs : FreeName(p) /\ Unused(p)
  BY DEF Init, Idle, FreeName, Unused, Validated
<1>3. OneSessionPerWorktree
  BY DEF Init, NoSession, OneSessionPerWorktree
<1> QED BY <1>1, <1>2, <1>3 DEF Sessions

LEMMA Kinds ==
    ASSUME Control, NEW p \in Procs
    PROVE  /\ proc[p].pc \in AddLabels => Adding(proc[p])
           /\ proc[p].pc \in RemoveLabels => Removing(proc[p])
           /\ proc[p].pc \in UseLabels => Using(proc[p])
<1>1. CASE proc[p] = Idle
  <2>1. proc[p].pc = "idle"
    BY <1>1 DEF Idle
  <2> QED BY <2>1 DEF AddLabels, RemoveLabels, UseLabels
<1>2. CASE proc[p] # Idle
  <2>1. Adding(proc[p]) \/ Removing(proc[p]) \/ Using(proc[p])
    BY <1>2 DEF Control, HoldsTarget
  <2> QED BY <2>1 DEF Adding, Removing, Using, AddLabels, RemoveLabels, UseLabels
<1> QED BY <1>1, <1>2

LEMMA RepairShape ==
    ASSUME FilesOK, NEW x \in Paths, CanRepair(x), Repair(x)
    PROVE  RefsStay
BY DEF FilesOK, CanRepair, Repair, RefsStay, Tree

LEMMA ClearShape ==
    ASSUME FilesOK, NEW o \in Ops, Clear(o)
    PROVE  Erases
BY DEF FilesOK, Clear, Erases

LEMMA GoneShape ==
    ASSUME FilesOK, NEW w \in Trees
    PROVE  Gone(w).ref = tree[w].ref
BY DEF FilesOK, Gone, Tree

LEMMA AddShape ==
    ASSUME Control, FilesOK, NEW p \in Procs, AddStep(p)
    PROVE  Reshapes(p)
<1>0. AddStep(p) => /\ Op(p) \in Ops /\ Op(p) \in Adds /\ Op(p) \in Paths
                    /\ Op(p).target \in Paths /\ Op(p).of \in Refs
  BY OpFacts DEF AddStep, AddAt, Op, AddClaim, AddRepository, AddRecognise, AddConflict, AddObstructed,
     AddRepair, AddFound, AddTidy, AddAbsent, AddStage, AddMark, AddPending, AddGit, AddFinished,
     AddStaged, AddUnlock, AddMove, AddFix, AddCheck, AddDone
<1>1. CASE \/ AddClaim(p) \/ AddRepository(p) \/ AddConflict(p) \/ AddObstructed(p) \/ AddFound(p)
           \/ AddAbsent(p) \/ AddPending(p) \/ AddFinished(p) \/ AddStaged(p) \/ AddDone(p)
           \/ AddMark(p)
  <2>1. UNCHANGED <<at, tree>>
    BY <1>1 DEF files, AddClaim, AddRepository, AddConflict, AddObstructed, AddFound,
       AddAbsent, AddPending, AddFinished, AddStaged, AddDone, AddMark
  <2> QED BY <2>1 DEF Reshapes, RefsStay, Erases
<1>2. CASE AddRecognise(p) \/ AddTidy(p) \/ AddCheck(p)
  <2>1. tree' = tree /\ (Clear(Op(p)) \/ at' = at)
    BY <1>2 DEF AddRecognise, AddTidy, AddCheck, Op
  <2> QED BY <1>0, <1>2, <2>1, ClearShape DEF AddStep, Reshapes, RefsStay, Erases
<1>3. CASE AddRepair(p) \/ AddFix(p)
  <2>1. at' = at /\ (UNCHANGED tree \/ (CanRepair(Op(p).target) /\ Repair(Op(p).target)))
    BY <1>3 DEF AddRepair, AddFix
  <2> QED BY <1>0, <1>3, <2>1, RepairShape DEF AddStep, Reshapes, RefsStay, Erases
<1>4. CASE AddStage(p)
  <2>1. RefsStay
    BY <1>4, GoneShape DEF AddStage, files, RefsStay
  <2>2. Erases
    BY <1>0, <1>4 DEF AddStep, AddStage, files, Erases, FilesOK
  <2> QED BY <2>1, <2>2 DEF Reshapes
<1>5. CASE AddGit(p)
  <2>1. PICK w \in Trees :
          /\ NextTree(w)
          /\ tree' = [tree EXCEPT ![w] = Fresh(Op(p), Op(p).of, TRUE)]
          /\ at' = [at EXCEPT ![Op(p)] = w] \/ at' = at
    BY <1>5 DEF AddGit
  <2>2. tree[w].ref = None /\ tree'[w].ref # None
    BY <1>0, <1>5, <2>1, NothingThere DEF AddStep, NextTree, Fresh, FilesOK
  <2>3. RefsStay
    BY <2>1, <2>2 DEF RefsStay, FilesOK
  <2>4. Erases \/ Creates(Op(p))
    BY <2>1, <2>2 DEF Erases, Creates
  <2> QED BY <1>0, <1>5, <2>3, <2>4 DEF AddStep, Reshapes
<1>6. CASE AddUnlock(p)
  <2>1. at' = at /\ RefsStay
    BY <1>6 DEF AddUnlock, RefsStay, FilesOK, Tree
  <2> QED BY <2>1 DEF Reshapes, Erases
<1>7. CASE AddMove(p)
  <2>1. tree' = tree /\ (Move(Op(p), Op(p).target) \/ at' = at)
    BY <1>7 DEF AddMove
  <2>2. Adding(proc[p])
    BY <1>7, Kinds DEF AddMove, AddAt, AddLabels
  <2>3. proc[p].op = Op(p) /\ proc[p].target = Op(p).target
    BY <2>2 DEF Adding, Op
  <2> QED BY <2>1, <2>2, <2>3 DEF Reshapes, Promotes, RefsStay, Erases
<1> QED BY <1>1, <1>2, <1>3, <1>4, <1>5, <1>6, <1>7 DEF AddStep

LEMMA RemoveShape ==
    ASSUME Control, FilesOK, NEW p \in Procs, RemoveStep(p)
    PROVE  Reshapes(p)
<1>0. RemoveStep(p) => /\ Removal(p) \in Ops /\ Removal(p) \in Paths /\ Removal(p).target \in Paths
  BY OpFacts DEF RemoveStep, RemoveAt, Removal, RemoveClaim, RemoveRepository, RemoveFind, RemoveLook,
     RemoveSessions, RemoveRecheck, RemoveMark, RemovePending, RemoveMove, RemoveRepair, RemoveInspect,
     RemoveGit, RemoveClear, RemoveReconcile, RemoveReconciled, RemoveRestore, RemoveBack,
     RemoveRerepair, RemoveUnstage, RemoveRestored
<1>1. CASE \/ RemoveClaim(p) \/ RemoveRepository(p) \/ RemoveFind(p) \/ RemoveLook(p)
           \/ RemoveSessions(p) \/ RemovePending(p) \/ RemoveInspect(p) \/ RemoveReconcile(p)
           \/ RemoveReconciled(p) \/ RemoveRestore(p) \/ RemoveRestored(p)
           \/ RemoveRecheck(p) \/ RemoveMark(p)
  <2>1. UNCHANGED <<at, tree>>
    BY <1>1 DEF files, RemoveClaim, RemoveRepository, RemoveFind, RemoveLook, RemoveSessions,
       RemovePending, RemoveInspect, RemoveReconcile, RemoveReconciled, RemoveRestore, RemoveRestored,
       RemoveRecheck, RemoveMark
  <2> QED BY <2>1 DEF Reshapes, RefsStay, Erases
<1>2. CASE RemoveMove(p)
  <2>1. tree' = tree /\ (Move(Removal(p).target, Removal(p)) \/ at' = at)
    BY <1>2 DEF RemoveMove
  <2>2. proc[p].pc = "r_move" /\ Removing(proc[p])
    BY <1>2, Kinds DEF RemoveMove, RemoveAt, RemoveLabels
  <2>3. proc[p].op = Removal(p) /\ proc[p].target = Removal(p).target
    BY <2>2 DEF Removing, Removal
  <2> QED BY <2>1, <2>2, <2>3 DEF Reshapes, Quarantines, RefsStay, Erases
<1>3. CASE RemoveBack(p)
  <2>1. tree' = tree /\ (Move(Removal(p), Removal(p).target) \/ at' = at)
    BY <1>3 DEF RemoveBack
  <2>2. proc[p].pc = "r_back" /\ Removing(proc[p])
    BY <1>3, Kinds DEF RemoveBack, RemoveAt, RemoveLabels
  <2>3. proc[p].op = Removal(p) /\ proc[p].target = Removal(p).target
    BY <2>2 DEF Removing, Removal
  <2> QED BY <2>1, <2>2, <2>3 DEF Reshapes, Restores, RefsStay, Erases
<1>4. CASE RemoveRepair(p) \/ RemoveRerepair(p)
  <2>1. at' = at /\ (UNCHANGED tree \/ \E x \in {Removal(p), Removal(p).target} : CanRepair(x) /\ Repair(x))
    BY <1>4 DEF RemoveRepair, RemoveRerepair
  <2> QED BY <1>0, <1>4, <2>1, RepairShape DEF RemoveStep, Reshapes, RefsStay, Erases
<1>5. CASE RemoveGit(p)
  <2>1. RefsStay
    BY <1>5, GoneShape DEF RemoveGit, RefsStay, FilesOK
  <2>2. Erases
    BY <1>0, <1>5 DEF RemoveStep, RemoveGit, Erases, FilesOK
  <2> QED BY <2>1, <2>2 DEF Reshapes
<1>6. CASE RemoveClear(p) \/ RemoveUnstage(p)
  <2>1. tree' = tree /\ (Clear(Removal(p)) \/ at' = at)
    BY <1>6 DEF RemoveClear, RemoveUnstage
  <2> QED BY <1>0, <1>6, <2>1, ClearShape DEF RemoveStep, Reshapes, RefsStay, Erases
<1> QED BY <1>1, <1>2, <1>3, <1>4, <1>5, <1>6 DEF RemoveStep

(* A removal enters the steps before the quarantine only by finding no     *)
(* managed Session, and no path changes as it takes them.                  *)
LEMMA EntersValidated ==
    ASSUME Control, NEW p \in Procs, Step(p), proc'[p].pc \in Validated
    PROVE  /\ UNCHANGED <<at, session>> /\ proc'[p].target = proc[p].target
           /\ Removing(proc[p])
           /\ \/ proc[p].pc \in Validated
              \/ ManagedSessions(proc[p].target) = {}
<1>0. proc'[p].pc # "idle"
  BY DEF Validated
<1>1. ~Return(p)
  BY <1>0 DEF Return, Idle, Control, ControlOK
<1>2. PICK l \in Labels : SameCommand(proc[p].pc, l) /\ Goto(p, l) /\ proc[p] # Idle
  BY <1>1, StepMoves DEF Moves
<1>3. proc'[p].pc = l /\ proc'[p].target = proc[p].target
  BY <1>2, GotoCommand
<1>4. RemoveStep(p)
  <2>1. ~AddStep(p)
    <3>1. AddStep(p) => proc[p].pc \in AddLabels
      BY DEF AddStep, AddAt, AddLabels, AddClaim, AddRepository, AddRecognise, AddConflict, AddObstructed,
         AddRepair, AddFound, AddTidy, AddAbsent, AddStage, AddMark, AddPending, AddGit, AddFinished,
         AddStaged, AddUnlock, AddMove, AddFix, AddCheck, AddDone
    <3> QED BY <3>1, <1>2, <1>3 DEF SameCommand, AddLabels, Validated
  <2>2. ~(SessionList(p) \/ SessionCreate(p))
    BY <1>2, <1>3 DEF SameCommand, UseLabels, Validated, SessionList, SessionCreate
  <2> QED BY <2>1, <2>2 DEF Step
<1>5. Removing(proc[p])
  BY <1>4, Kinds DEF RemoveStep, RemoveAt, RemoveLabels, RemoveClaim, RemoveRepository, RemoveFind, RemoveLook,
     RemoveSessions, RemoveRecheck, RemoveMark, RemovePending, RemoveMove, RemoveRepair, RemoveInspect,
     RemoveGit, RemoveClear, RemoveReconcile, RemoveReconciled, RemoveRestore, RemoveBack,
     RemoveRerepair, RemoveUnstage, RemoveRestored
<1>6. proc'[p].pc = l => l \in Validated
  BY <1>3
<1>7. \A m \in Labels : Goto(p, m) => m = l
  BY <1>3 DEF Goto, Control, ControlOK, Command
<1>8. RemoveSessions(p) \/ RemoveRecheck(p) \/ RemoveMark(p) \/ RemovePending(p)
  <2> USE DEF Labels, Validated
  <2>1. ~(RemoveClaim(p) \/ RemoveRepository(p) \/ RemoveFind(p))
    BY <1>3, <1>6, <1>7 DEF RemoveClaim, RemoveRepository, RemoveFind
  <2>2. ~(RemoveLook(p) \/ RemoveMove(p) \/ RemoveRepair(p) \/ RemoveInspect(p) \/ RemoveGit(p))
    BY <1>1, <1>3, <1>6, <1>7 DEF RemoveLook, RemoveMove, RemoveRepair, RemoveInspect, RemoveGit
  <2>3. ~(RemoveClear(p) \/ RemoveReconcile(p) \/ RemoveReconciled(p) \/ RemoveRestore(p))
    BY <1>1, <1>3, <1>6, <1>7 DEF RemoveClear, RemoveReconcile, RemoveReconciled, RemoveRestore
  <2>4. ~(RemoveBack(p) \/ RemoveRerepair(p) \/ RemoveUnstage(p) \/ RemoveRestored(p))
    BY <1>1, <1>3, <1>6, <1>7 DEF RemoveBack, RemoveRerepair, RemoveUnstage, RemoveRestored
  <2> QED BY <1>4, <2>1, <2>2, <2>3, <2>4 DEF RemoveStep
<1>9. UNCHANGED <<at, session>>
  BY <1>8 DEF RemoveSessions, RemoveRecheck, RemoveMark, RemovePending, files
<1>10. proc[p].pc \in Validated \/ ManagedSessions(proc[p].target) = {}
  <2>1. proc[p].target = Removal(p).target
    BY <1>5 DEF Removing, Removal
  <2> QED BY <1>1, <1>8, <2>1 DEF RemoveSessions, RemoveRecheck, RemoveMark, RemovePending, RemoveAt, Validated
<1> QED BY <1>3, <1>5, <1>9, <1>10

(* A command is about to create a Session only when it found none.         *)
LEMMA EntersCreate ==
    ASSUME Control, NEW p \in Procs, Step(p), proc'[p].pc = "s_create"
    PROVE  /\ UNCHANGED session /\ proc'[p].target = proc[p].target
           /\ \A s \in SessionIDs : session[s].meta # proc[p].target
<1>1. ~Return(p)
  BY DEF Return, Idle, Control, ControlOK
<1>2. PICK l \in Labels : SameCommand(proc[p].pc, l) /\ Goto(p, l) /\ proc[p] # Idle
  BY <1>1, StepMoves DEF Moves
<1>3. proc'[p].pc = l /\ proc'[p].target = proc[p].target
  BY <1>2, GotoCommand
<1>4. proc[p].pc \notin AddLabels \cup RemoveLabels
  BY <1>2, <1>3 DEF SameCommand, AddLabels, RemoveLabels
<1>5. ~AddStep(p)
  BY <1>4 DEF AddStep, AddAt, AddLabels, AddClaim, AddRepository, AddRecognise, AddConflict, AddObstructed,
     AddRepair, AddFound, AddTidy, AddAbsent, AddStage, AddMark, AddPending, AddGit, AddFinished,
     AddStaged, AddUnlock, AddMove, AddFix, AddCheck, AddDone
<1>6. ~RemoveStep(p)
  BY <1>4 DEF RemoveStep, RemoveAt, RemoveLabels, RemoveClaim, RemoveRepository, RemoveFind, RemoveLook,
     RemoveSessions, RemoveRecheck, RemoveMark, RemovePending, RemoveMove, RemoveRepair, RemoveInspect,
     RemoveGit, RemoveClear, RemoveReconcile, RemoveReconciled, RemoveRestore, RemoveBack,
     RemoveRerepair, RemoveUnstage, RemoveRestored
<1>7. SessionList(p)
  BY <1>1, <1>5, <1>6 DEF Step, SessionCreate
<1> QED BY <1>1, <1>3, <1>7 DEF SessionList

(* Two commands on one path do not hold its lock in one directory.         *)
LEMMA OneHolder ==
    ASSUME Control, NEW p \in Procs, NEW q \in Procs,
           Removing(proc[p]) \/ Using(proc[p]), Removing(proc[q]) \/ Using(proc[q]),
           proc[p].target = proc[q].target
    PROVE  p = q
<1>1. ~Adding(proc[p]) /\ ~Adding(proc[q])
  BY DEF Adding, Removing, Using, AddLabels, RemoveLabels, UseLabels
<1>2. proc[p] # Idle /\ proc[q] # Idle
  BY DEF Removing, Using, RemoveLabels, UseLabels, Idle
<1> QED BY <1>1, <1>2 DEF Control, HoldsTarget, LockDir

(* What a removal saw of its target stays so under the steps of another.   *)
LEMMA ShapeKeepsUnused ==
    ASSUME Control, FilesOK, SessionOK, Panes, NEW p \in Procs, Reshapes(p), UNCHANGED session,
           NEW q \in Procs, q # p, proc'[q] = proc[q], Unused(q)
    PROVE  Unused(q)'
<1> SUFFICES ASSUME proc[q].pc \in Validated PROVE NoSessionIn(proc[q].target)'
  BY DEF Unused
<1> DEFINE t == proc[q].target
<1>1. Removing(proc[q]) /\ t \in Targets /\ t \in Paths
  BY Kinds, OpFacts DEF Validated, RemoveLabels, Removing
<1>2. NoSessionIn(t)
  BY DEF Unused
<1> SUFFICES ASSUME NEW s \in SessionIDs, session[s].cwd # None PROVE session[s].cwd # at'[t]
  BY <1>2 DEF NoSessionIn
<1>3. session[s].cwd \in Trees /\ session[s].cwd # at[t]
  BY <1>2 DEF SessionOK, NoSessionIn
<1>4. CASE Erases
  BY <1>1, <1>3, <1>4, NothingThere DEF Erases
<1>5. CASE \E o \in Adds : Creates(o)
  <2>1. PICK o \in Adds, w \in Trees : tree[w].ref = None /\ at' = [at EXCEPT ![o] = w]
    BY <1>5 DEF Creates
  <2>2. o # t
    BY <1>1, OpFacts
  <2> QED BY <1>1, <1>3, <2>1, <2>2 DEF FilesOK
<1>6. CASE Promotes(p)
  <2>1. proc[p].op \in Adds /\ session[s].cwd # at[proc[p].op]
    BY <1>6 DEF Promotes, Adding, Panes, NoPaneInStage
  <2> QED BY <1>1, <1>3, <1>6, <2>1, NothingThere, OpFacts DEF Promotes, Adding, Move, FilesOK
<1>7. CASE Quarantines(p) \/ Restores(p)
  <2>1. Removing(proc[p]) /\ proc[p].target # t
    BY <1>1, <1>7, OneHolder DEF Quarantines, Restores
  <2>2. proc[p].op \in Paths /\ proc[p].op # t /\ proc[p].target \in Paths
    BY <1>1, <2>1, OpFacts DEF Removing
  <2>3. at'[t] = at[t]
    BY <1>1, <1>7, <2>1, <2>2 DEF Quarantines, Restores, Move, FilesOK
  <2> QED BY <1>3, <2>3
<1> QED BY <1>4, <1>5, <1>6, <1>7 DEF Reshapes

LEMMA ShapePanes ==
    ASSUME Control, FilesOK, SessionOK, Panes, RefsStay, UNCHANGED session,
           \/ Empties
           \/ \E x \in Paths : Creates(x)
           \/ \E x \in Paths, y \in Paths \ Adds : Move(x, y)
    PROVE  Panes'
<1>0. \A s \in SessionIDs : session[s].cwd # None => session[s].cwd \in Trees
  BY DEF SessionOK
<1>1. PanesNamed'
  BY DEF Panes, PanesNamed
<1>2. \A s \in SessionIDs : session[s].cwd # None => tree'[session[s].cwd].ref # None
  BY <1>0 DEF Panes, Born, RefsStay
<1>3. \A o \in Adds : o \in Paths
  BY OpFacts
<1>4. CASE Empties
  <2>1. OnePathPerTree'
    BY <1>4, NothingThere DEF Panes, OnePathPerTree, Empties
  <2>2. Born'
    BY <1>2, <1>4, NothingThere DEF Panes, Born, RefsStay, Empties
  <2>3. NoPaneInStage'
    BY <1>0, <1>3, <1>4, NothingThere DEF Panes, NoPaneInStage, Empties
  <2> QED BY <1>1, <2>1, <2>2, <2>3 DEF Panes
<1>5. ASSUME NEW x \in Paths, Creates(x) PROVE Panes'
  <2>1. PICK w \in Trees : tree[w].ref = None /\ tree'[w].ref # None /\ at' = [at EXCEPT ![x] = w]
    BY <1>5 DEF Creates
  <2>2. \A y \in Paths : at[y] # w
    BY <2>1 DEF Panes, Born
  <2>3. \A y \in Paths : at'[y] = IF y = x THEN w ELSE at[y]
    BY <2>1 DEF FilesOK
  <2>4. OnePathPerTree'
    BY <2>2, <2>3 DEF Panes, OnePathPerTree
  <2>5. Born'
    BY <1>2, <2>1, <2>3 DEF Panes, Born, RefsStay
  <2>6. \A s \in SessionIDs : session[s].cwd # None => session[s].cwd # w
    BY <2>1 DEF Panes, Born
  <2>7. NoPaneInStage'
    BY <1>3, <2>3, <2>6 DEF Panes, NoPaneInStage
  <2> QED BY <1>1, <2>4, <2>5, <2>7 DEF Panes
<1>6. ASSUME NEW x \in Paths, NEW y \in Paths \ Adds, Move(x, y) PROVE Panes'
  <2>1. \A z \in Paths : at'[z] = IF z = y THEN at[x] ELSE IF z = x THEN None ELSE at[z]
    BY <1>6 DEF FilesOK, Move
  <2>2. OnePathPerTree'
    BY <2>1, NothingThere DEF Panes, OnePathPerTree
  <2>3. Born'
    BY <1>2, <2>1, NothingThere DEF Panes, Born, RefsStay
  <2>4. NoPaneInStage'
    BY <1>3, <2>1 DEF Panes, NoPaneInStage
  <2> QED BY <1>1, <2>2, <2>3, <2>4 DEF Panes
<1> QED BY <1>4, <1>5, <1>6

(* A step of p on the paths that leaves the Sessions alone.                *)
LEMMA ReshapeSessions ==
    ASSUME Control, FilesOK, SessionOK, Sessions, NEW p \in Procs, Reshapes(p), UNCHANGED session,
           \A q \in Procs \ {p} : proc'[q] = proc[q],
           (FreeName(p) /\ Unused(p))'
    PROVE  Sessions'
<1>1. Panes'
  <2>1. CASE Promotes(p) \/ Quarantines(p) \/ Restores(p)
    BY <2>1, ShapePanes, OpFacts
       DEF Reshapes, Promotes, Quarantines, Restores, Adding, Removing, Sessions
  <2>2. CASE ~(Promotes(p) \/ Quarantines(p) \/ Restores(p))
    BY <2>2, ShapePanes, OpFacts DEF Reshapes, Sessions, Erases, Empties
  <2> QED BY <2>1, <2>2
<1>2. \A q \in Procs : (FreeName(q) /\ Unused(q))'
  <2> SUFFICES ASSUME NEW q \in Procs, q # p PROVE (FreeName(q) /\ Unused(q))'
    OBVIOUS
  <2>1. Unused(q)'
    BY ShapeKeepsUnused DEF Sessions
  <2>2. FreeName(q)'
    BY DEF FreeName, Sessions
  <2> QED BY <2>1, <2>2
<1>3. OneSessionPerWorktree'
  BY DEF OneSessionPerWorktree, Sessions
<1> QED BY <1>1, <1>2, <1>3 DEF Sessions

LEMMA SameFilesPanes == Panes /\ UNCHANGED <<at, tree, session>> => Panes'
BY DEF Panes, OnePathPerTree, Born, NoPaneInStage, PanesNamed

(* A Session is created with the lock of its Worktree, and for a Worktree  *)
(* that has none.                                                          *)
LEMMA CreateSessions ==
    ASSUME Control, FilesOK, SessionOK, Sessions, NEW p \in Procs, SessionCreate(p)
    PROVE  Sessions'
<1> DEFINE t == proc[p].target
           c == IF at[t] \in Trees THEN at[t] ELSE None
<1>1. PICK s \in SessionIDs :
        session[s] = NoSession /\ session' = [session EXCEPT ![s] = [meta |-> t, cwd |-> c]]
  BY DEF SessionCreate
<1>2. Return(p) /\ UNCHANGED <<at, tree>>
  BY DEF SessionCreate, files
<1>3. Using(proc[p]) /\ proc[p].pc = "s_create" /\ t \in Targets /\ t \in Paths
  BY Kinds, OpFacts DEF SessionCreate, UseLabels, Using
<1>4. \A r \in SessionIDs : session'[r] = IF r = s THEN [meta |-> t, cwd |-> c] ELSE session[r]
  BY <1>1 DEF SessionOK
<1>5. \A r \in SessionIDs : session[r].meta # t
  BY <1>3 DEF Sessions, FreeName
<1>6. /\ session'[s].meta = t /\ session'[s].cwd = c
      /\ c = None \/ (c \in Trees /\ c = at[t])
  BY <1>4
<1> HIDE DEF c, t
<1>7. Panes'
  <2>1. OnePathPerTree'
    BY <1>2 DEF Sessions, Panes, OnePathPerTree
  <2>2. Born'
    BY <1>2, <1>3, <1>4, <1>6 DEF Sessions, Panes, Born
  <2>3. \A o \in Adds : o \in Paths /\ o # t
    BY <1>3, OpFacts
  <2>4. NoPaneInStage'
    BY <1>2, <1>3, <1>4, <1>6, <2>3 DEF Sessions, Panes, NoPaneInStage, OnePathPerTree
  <2>5. PanesNamed'
    BY <1>3, <1>4, <1>6, OpFacts, NothingThere DEF Sessions, Panes, PanesNamed
  <2> QED BY <2>1, <2>2, <2>4, <2>5 DEF Panes
<1>8. ASSUME NEW q \in Procs PROVE (FreeName(q) /\ Unused(q))'
  <2>1. CASE q = p
    <3>1. proc'[p].pc = "idle"
      BY <1>2 DEF Return, Control, ControlOK, Idle
    <3> QED BY <2>1, <3>1 DEF FreeName, Unused, Validated
  <2>2. CASE q # p
    <3>1. proc'[q] = proc[q]
      BY <1>2, <2>2 DEF Return, Control, ControlOK
    <3>2. FreeName(q)'
      <4> SUFFICES ASSUME proc[q].pc = "s_create" PROVE FreeName(q)'
        BY <3>1 DEF FreeName
      <4>1. Using(proc[q])
        BY Kinds DEF UseLabels
      <4>2. proc[q].target # t
        BY <1>3, <2>2, <4>1, OneHolder DEF t
      <4>3. \A r \in SessionIDs : session[r].meta # proc[q].target
        BY DEF Sessions, FreeName
      <4> QED BY <1>4, <1>6, <3>1, <4>2, <4>3 DEF FreeName
    <3>3. Unused(q)'
      <4> SUFFICES ASSUME proc[q].pc \in Validated PROVE Unused(q)'
        BY <3>1 DEF Unused
      <4>1. Removing(proc[q]) /\ proc[q].target \in Paths
        BY Kinds, OpFacts DEF Validated, RemoveLabels, Removing
      <4>2. proc[q].target # t
        BY <1>3, <2>2, <4>1, OneHolder DEF t
      <4>3. NoSessionIn(proc[q].target)
        BY DEF Sessions, Unused
      <4>4. c # None => c # at[proc[q].target]
        BY <1>3, <1>6, <4>1, <4>2 DEF Sessions, Panes, OnePathPerTree
      <4> QED BY <1>2, <1>4, <1>6, <3>1, <4>2, <4>3, <4>4 DEF Unused, NoSessionIn
    <3> QED BY <3>2, <3>3
  <2> QED BY <2>1, <2>2
<1>9. OneSessionPerWorktree'
  BY <1>4, <1>5, <1>6 DEF OneSessionPerWorktree, Sessions
<1> QED BY <1>7, <1>8, <1>9 DEF Sessions

LEMMA StepSessions ==
    ASSUME Core, Sessions, NEW p \in Procs, Step(p)
    PROVE  Sessions'
<1>0. Control /\ FilesOK /\ JournalOK /\ SessionOK
  BY CoreParts
<1>1. CASE SessionCreate(p)
  BY <1>0, <1>1, CreateSessions
<1>2. CASE ~SessionCreate(p)
  <2>1. Reshapes(p) /\ UNCHANGED session
    <3>1. CASE AddStep(p)
      BY <1>0, <3>1, AddShape, AddJournal
    <3>2. CASE RemoveStep(p)
      BY <1>0, <3>2, RemoveShape, RemoveJournal
    <3>3. CASE SessionList(p)
      BY <3>3 DEF SessionList, files, Reshapes, RefsStay, Erases
    <3> QED BY <1>2, <3>1, <3>2, <3>3 DEF Step
  <2>2. \A q \in Procs \ {p} : proc'[q] = proc[q]
    BY <1>0, StepMoves DEF Moves, Goto, Return, Control, ControlOK
  <2>3. FreeName(p)'
    BY <1>0, EntersCreate DEF FreeName
  <2>4. Unused(p)'
    <3> SUFFICES ASSUME proc'[p].pc \in Validated PROVE NoSessionIn(proc[p].target)'
      BY <1>0, EntersValidated DEF Unused
    <3>1. UNCHANGED <<at, session>> /\ proc'[p].target = proc[p].target
      BY <1>0, EntersValidated
    <3>2. CASE proc[p].pc \in Validated
      BY <3>1, <3>2, EntersValidated DEF Sessions, Unused, NoSessionIn
    <3>3. CASE ManagedSessions(proc[p].target) = {}
      <4>1. Removing(proc[p]) /\ proc[p].target # None
        BY <1>0, EntersValidated, OpFacts, NothingThere DEF Removing
      <4> QED BY <3>1, <3>3, <4>1 DEF ManagedSessions, NoSessionIn, Sessions, Panes, PanesNamed
    <3> QED BY <1>0, <3>2, <3>3, EntersValidated
  <2> QED BY <1>0, <2>1, <2>2, <2>3, <2>4, ReshapeSessions
<1> QED BY <1>1, <1>2

(* Commands that begin or stop, tmux and people.                           *)
LEMMA ControlSessions ==
    ASSUME Sessions, UNCHANGED <<at, tree, session>>,
           \A q \in Procs : proc'[q].pc \notin Validated \cup {"s_create"} \/ proc'[q] = proc[q]
    PROVE  Sessions'
<1>1. Panes'
  BY SameFilesPanes DEF Sessions
<1>2. \A q \in Procs : (FreeName(q) /\ Unused(q))'
  BY DEF Sessions, FreeName, Unused, NoSessionIn
<1> QED BY <1>1, <1>2 DEF Sessions, OneSessionPerWorktree

LEMMA BeginLabels ==
    ASSUME ControlOK, NEW p \in Procs, Begin(p)
    PROVE  /\ \A q \in Procs \ {p} : proc'[q] = proc[q]
           /\ proc'[p].pc \in {"a_claim", "r_claim", "r_find", "s_list", "shell"}
<1>1. ASSUME NEW c, proc' = [proc EXCEPT ![p] = c],
             c.pc \in {"a_claim", "r_claim", "r_find", "s_list", "shell"}
      PROVE  /\ \A q \in Procs \ {p} : proc'[q] = proc[q]
             /\ proc'[p].pc \in {"a_claim", "r_claim", "r_find", "s_list", "shell"}
  BY <1>1 DEF ControlOK
<1>2. ASSUME NEW o \in Adds, AddBegin(p, o)
      PROVE  proc'[p].pc = "a_claim" /\ \A q \in Procs \ {p} : proc'[q] = proc[q]
  <2> DEFINE c == [Idle EXCEPT !.pc = "a_claim", !.op = o, !.target = o.target]
  <2>1. c.pc = "a_claim"
    BY DEF Idle
  <2>2. proc' = [proc EXCEPT ![p] = c]
    BY <1>2 DEF AddBegin
  <2> HIDE DEF c
  <2> QED BY <1>1, <2>1, <2>2 DEF ControlOK
<1>3. ASSUME NEW t \in Targets, RemoveBegin(p, t), Inspects(t)
      PROVE  proc'[p].pc = "r_claim" /\ \A q \in Procs \ {p} : proc'[q] = proc[q]
  BY <1>3 DEF RemoveBegin, ControlOK
<1>4. ASSUME NEW t \in Targets, RemoveBegin(p, t), ~Inspects(t)
      PROVE  proc'[p].pc = "r_find" /\ \A q \in Procs \ {p} : proc'[q] = proc[q]
  <2> DEFINE c == [Idle EXCEPT !.pc = "r_find", !.op = RemoveIntent(t, latest[t]), !.target = t]
  <2>1. c.pc = "r_find"
    BY DEF Idle
  <2>2. proc' = [proc EXCEPT ![p] = c]
    BY <1>4 DEF RemoveBegin
  <2> HIDE DEF c
  <2> QED BY <2>1, <2>2 DEF ControlOK
<1>5. ASSUME NEW t \in Targets, SessionBegin(p, t) \/ ShellBegin(p, t)
      PROVE  proc'[p].pc \in {"s_list", "shell"} /\ \A q \in Procs \ {p} : proc'[q] = proc[q]
  <2>1. PICK l \in {"s_list", "shell"} : proc' = [proc EXCEPT ![p] = [Idle EXCEPT !.pc = l, !.target = t]]
    BY <1>5 DEF SessionBegin, ShellBegin
  <2> DEFINE c == [Idle EXCEPT !.pc = l, !.target = t]
  <2>2. c.pc = l
    BY DEF Idle
  <2>3. proc' = [proc EXCEPT ![p] = c]
    BY <2>1
  <2> HIDE DEF c
  <2> QED BY <2>2, <2>3 DEF ControlOK
<1> QED BY <1>2, <1>3, <1>4, <1>5 DEF Begin

LEMMA TmuxSessions ==
    ASSUME Control, SessionOK, Sessions, Tmux
    PROVE  Sessions'
<1>1. UNCHANGED <<files, proc>>
  BY DEF Tmux, SessionEnd, SessionLeaves
<1>2. \A r \in SessionIDs : /\ session'[r].meta \in {session[r].meta, None}
                            /\ session'[r].cwd \in {session[r].cwd, None}
                            /\ session'[r].meta = None => session'[r].cwd = None
  <2>1. ASSUME NEW s \in SessionIDs, SessionEnd(s)
        PROVE  \A r \in SessionIDs : session'[r] = IF r = s THEN NoSession ELSE session[r]
    BY <2>1 DEF SessionEnd, SessionOK
  <2>2. ASSUME NEW s \in SessionIDs, SessionLeaves(s)
        PROVE  \A r \in SessionIDs : /\ session'[r].meta = session[r].meta
                                     /\ session'[r].cwd = IF r = s THEN None ELSE session[r].cwd
    BY <2>2 DEF SessionLeaves, SessionOK
  <2>3. \A r \in SessionIDs : session[r].meta = None => session[r].cwd = None
    BY DEF Sessions, Panes, PanesNamed
  <2> QED BY <2>1, <2>2, <2>3 DEF Tmux, NoSession
<1>3. Panes'
  BY <1>1, <1>2 DEF files, Sessions, Panes, OnePathPerTree, Born, NoPaneInStage, PanesNamed
<1>4. \A q \in Procs : proc[q].pc \in Validated \cup {"s_create"} => proc[q].target # None
  BY Kinds, OpFacts, NothingThere DEF Validated, RemoveLabels, UseLabels, Removing, Using
<1> QED BY <1>1, <1>2, <1>3, <1>4 DEF files, Sessions, FreeName, Unused, NoSessionIn, OneSessionPerWorktree

LEMMA PeopleSessions ==
    ASSUME Core, Sessions, People
    PROVE  Sessions'
<1>0. Control /\ FilesOK /\ SessionOK
  BY CoreParts
<1>1. UNCHANGED <<session, proc>>
  BY <1>0, CoreParts, PeopleFiles DEF locks
<1>2. RefsStay /\ (Empties \/ \E t \in Targets : Creates(t))
  <2>1. ASSUME NEW w \in Trees, NEW d \in {"ignored", "modified"}, Edit(w, d) \/ MoveHead(w)
        PROVE  RefsStay /\ Empties
    BY <1>0, <2>1 DEF Edit, MoveHead, RefsStay, Empties, FilesOK, Tree
  <2>2. ASSUME NEW t \in Targets, Delete(t) \/ Occupy(t)
        PROVE  RefsStay /\ Empties
    BY <1>0, <2>2, OpFacts DEF Delete, Occupy, RefsStay, Empties, FilesOK
  <2>3. ASSUME NEW t \in Targets, GitRemove(t)
        PROVE  RefsStay /\ Empties
    BY <1>0, <2>3, OpFacts, GoneShape DEF GitRemove, Inspects, RefsStay, Empties, FilesOK
  <2>4. ASSUME NEW t \in Targets, NEW ref \in Refs, GitAdd(t, ref)
        PROVE  RefsStay /\ Creates(t)
    <3>1. PICK w \in Trees : /\ NextTree(w) /\ at' = [at EXCEPT ![t] = w]
                             /\ tree' = [tree EXCEPT ![w] = Fresh(t, ref, FALSE)]
      BY <2>4 DEF GitAdd
    <3>2. tree[w].ref = None /\ tree'[w].ref # None
      BY <1>0, <3>1, NothingThere DEF NextTree, Fresh, FilesOK
    <3> QED BY <1>0, <3>1, <3>2 DEF RefsStay, Creates, FilesOK
  <2> QED BY <2>1, <2>2, <2>3, <2>4 DEF People
<1>3. Panes'
  BY <1>0, <1>1, <1>2, ShapePanes, OpFacts DEF Sessions
<1>4. ASSUME NEW q \in Procs PROVE Unused(q)'
  <2> SUFFICES ASSUME proc[q].pc \in Validated PROVE NoSessionIn(proc[q].target)'
    BY <1>1 DEF Unused
  <2>1. proc[q].target \in Paths
    BY <1>0, Kinds, OpFacts DEF Validated, RemoveLabels, Removing
  <2>2. NoSessionIn(proc[q].target)
    BY DEF Sessions, Unused
  <2>3. \A s \in SessionIDs : session[s].cwd # None => session[s].cwd \in Trees
    BY <1>0 DEF SessionOK
  <2>4. CASE Empties
    BY <1>1, <2>1, <2>2, <2>3, <2>4, NothingThere DEF NoSessionIn, Empties
  <2>5. ASSUME NEW t \in Targets, Creates(t) PROVE NoSessionIn(proc[q].target)'
    <3>1. PICK w \in Trees : tree[w].ref = None /\ at' = [at EXCEPT ![t] = w]
      BY <2>5 DEF Creates
    <3>2. \A s \in SessionIDs : session[s].cwd # None => session[s].cwd # w
      BY <3>1 DEF Sessions, Panes, Born
    <3> QED BY <1>0, <1>1, <2>1, <2>2, <3>1, <3>2 DEF NoSessionIn, FilesOK
  <2> QED BY <1>2, <2>4, <2>5
<1> QED BY <1>1, <1>3, <1>4 DEF Sessions, FreeName, OneSessionPerWorktree

LEMMA NextSessions == Core /\ Sessions /\ [Next]_vars => Sessions'
<1> SUFFICES ASSUME Core, Sessions, [Next]_vars PROVE Sessions'
  OBVIOUS
<1>0. Control /\ FilesOK /\ JournalOK /\ SessionOK /\ ControlOK
  BY CoreParts DEF Control
<1>1. ASSUME NEW p \in Procs, Begin(p) PROVE Sessions'
  <2>1. UNCHANGED <<at, tree, session>>
    BY <1>0, <1>1, BeginControls DEF files
  <2>2. \A q \in Procs : proc'[q].pc \notin Validated \cup {"s_create"} \/ proc'[q] = proc[q]
    BY <1>0, <1>1, BeginLabels DEF Validated
  <2> QED BY <2>1, <2>2, ControlSessions
<1>2. ASSUME NEW p \in Procs, Step(p) PROVE Sessions'
  BY <1>2, StepSessions
<1>3. ASSUME NEW p \in Procs, Interrupt(p) PROVE Sessions'
  <2>1. UNCHANGED <<at, tree, session>>
    BY <1>3 DEF Interrupt, files
  <2>2. \A q \in Procs : proc'[q].pc \notin Validated \cup {"s_create"} \/ proc'[q] = proc[q]
    BY <1>0, <1>3 DEF Interrupt, Return, ControlOK, Validated, Idle
  <2> QED BY <2>1, <2>2, ControlSessions
<1>4. CASE Prune
  <2>1. UNCHANGED <<at, session, proc>> /\ RefsStay
    BY <1>0, <1>4, GoneShape DEF Prune, RefsStay, FilesOK
  <2>2. Panes'
    BY <1>0, <2>1, ShapePanes DEF Empties, Sessions
  <2> QED BY <2>1, <2>2 DEF Sessions, FreeName, Unused, NoSessionIn, OneSessionPerWorktree
<1>5. CASE Tmux
  BY <1>0, <1>5, TmuxSessions
<1>6. CASE People
  BY <1>6, PeopleSessions
<1>7. CASE UNCHANGED vars
  BY <1>7, ControlSessions DEF vars
<1> QED BY <1>1, <1>2, <1>3, <1>4, <1>5, <1>6, <1>7 DEF Next, Schooner

LEMMA Inductive == Spec => [](Core /\ Sessions)
BY InitCore, NextCore, InitSessions, NextSessions, PTL DEF Spec

(* However many Sessions are started at the same time, and however often a *)
(* Worktree is replaced, at most one managed Session names it.             *)
THEOREM OneSession == Spec => []OneSessionPerWorktree
<1>1. Core /\ Sessions => OneSessionPerWorktree
  BY DEF Sessions
<1> QED BY Inductive, <1>1, PTL

(* Only the quarantine of a removal puts something at its staging path.    *)
LEMMA QuarantineStep ==
    ASSUME Core, Sessions, [Next]_vars, NEW o \in Removes, at[o] = None, at'[o] # None
    PROVE  ~InUse(o.target)
<1>0. Control /\ FilesOK /\ JournalOK /\ SessionOK
  BY CoreParts
<1>1. o \in Paths /\ o \notin Targets /\ o \notin Adds
  BY OpFacts
<1>2. ~Erases
  BY <1>1 DEF Erases
<1>3. at' # at
  OBVIOUS
<1>4. PICK p \in Procs : Step(p)
  <2>1. ~(Prune \/ Tmux \/ UNCHANGED vars \/ \E p \in Procs : Interrupt(p))
    BY <1>3 DEF Prune, Tmux, SessionEnd, SessionLeaves, vars, Interrupt, files
  <2>2. ~\E p \in Procs : Begin(p)
    BY <1>0, <1>3, BeginControls DEF files
  <2>3. ~People
    <3>1. People => at'[o] = at[o]
      BY <1>0, <1>1 DEF People, Edit, MoveHead, Delete, Occupy, GitRemove, GitAdd, FilesOK
    <3> QED BY <3>1
  <2> QED BY <2>1, <2>2, <2>3 DEF Next, Schooner
<1>5. AddStep(p) \/ RemoveStep(p)
  BY <1>3, <1>4 DEF Step, SessionList, SessionCreate, files
<1>6. Reshapes(p)
  BY <1>0, <1>5, AddShape, RemoveShape
<1>7. Quarantines(p) /\ proc[p].op = o
  <2>1. ~\E x \in Adds : Creates(x)
    BY <1>0, <1>1 DEF Creates, FilesOK
  <2>2. ~(Promotes(p) \/ Restores(p))
    BY <1>0, <1>1, OpFacts DEF Promotes, Restores, Adding, Removing, Move, FilesOK
  <2>3. Quarantines(p)
    BY <1>2, <1>6, <2>1, <2>2 DEF Reshapes
  <2> QED BY <1>0, <1>1, <2>3, OpFacts DEF Quarantines, Removing, Move, FilesOK
<1>8. Removing(proc[p]) /\ proc[p].pc = "r_move" /\ proc[p].target = o.target
  BY <1>7 DEF Quarantines, Removing
<1>9. NoSessionIn(o.target)
  BY <1>8 DEF Sessions, Unused, Validated
<1>10. ASSUME NEW q \in Procs, proc[q].pc \in {"s_create", "shell"} PROVE proc[q].target # o.target
  <2>1. Using(proc[q])
    BY <1>0, <1>10, Kinds DEF UseLabels
  <2> QED BY <1>0, <1>8, <1>10, <2>1, OneHolder
<1> QED BY <1>9, <1>10 DEF InUse, NoSessionIn

(* A removal never takes a Worktree from under a managed Session or a      *)
(* Worktree shell, in whatever order their processes take their steps and  *)
(* although the path itself is only checked, not held.                     *)
THEOREM SessionsKept == Spec => SessionKeepsTree
<1>1. Core /\ Sessions /\ [Next]_vars
        => [\A o \in Removes : at[o] = None /\ at'[o] # None => ~InUse(o.target)]_vars
  BY QuarantineStep
<1> QED BY Inductive, <1>1, PTL DEF Spec, SessionKeepsTree

-----------------------------------------------------------------------------
(* Stages and the journal.  What lies in a staging path, its directory and *)
(* the record of an operation are changed by the command that has that     *)
(* operation and by nobody else; what they show is told by its label.      *)

StagedByAdd == {"add_pending", "add_finished", "move_pending", "complete"}

StagedByRemove == {"quarantine_pending", "remove_pending", "restore_pending"}

Emptied == {"a_mark", "r_mark", "r_clear", "r_rerepair", "r_unstage", "r_restored", "r_reconciled"}

Marked == {"a_pending", "a_git", "r_pending", "r_move"}

Restoring == {"r_back", "r_rerepair", "r_unstage", "r_restored"}

Advancing == {"r_look", "r_sessions", "r_recheck", "r_mark", "r_pending", "r_move", "r_repair",
              "r_inspect", "r_git", "r_clear", "r_reconciled"}

(* What is staged, x, the stage s and the checkpoint c of an operation of  *)
(* kind k that nobody works on, and at label l of the command that does.   *)
Owned(k, x, s, c) ==
    /\ k = "remove" => c # "aborted"
    /\ x # None => /\ s = "owned"
                   /\ c \in IF k = "add" THEN StagedByAdd ELSE StagedByRemove

Phase(l, x, s, c) ==
    /\ l \in Emptied => x = None
    /\ l \in Marked => s = "owned"
    /\ l = "a_git" => c = "add_pending"
    /\ l = "r_move" => c = "quarantine_pending"
    /\ l \in RemoveLabels \ {"r_claim"} => c # "none"
    /\ l \in Restoring => c = "restore_pending"
    /\ l \in Advancing => c # "restore_pending"

OwnedAt(o) == Owned(o.kind, at[o], stage[o], record[o].ck)

Works(p) == Adding(proc[p]) \/ Removing(proc[p])

PhaseAt(p) ==
    Works(p) => Phase(proc[p].pc, at[proc[p].op], stage[proc[p].op], record[proc[p].op].ck)

LatestSaved ==
    \A t \in Targets : latest[t] # None => record[RemoveIntent(t, latest[t])].ck # "none"

Stages == (\A o \in Ops : OwnedAt(o)) /\ (\A p \in Procs : PhaseAt(p)) /\ LatestSaved

(* Two operations whose commands take the same lock. *)
Together(o1, o2) == o1.target = o2.target /\ (SharedState \/ o1.kind = o2.kind)

OneAtATime ==
    \A o1, o2 \in Ops : Together(o1, o2) /\ Incomplete(o1) /\ Incomplete(o2) => o1 = o2

NoRival(o) == \A other \in Ops \ {o} : Together(o, other) => ~Incomplete(other)

(* A command whose operation is not unfinished yet found no other that is, *)
(* or reports once more the removal recorded last.                         *)
Unrivalled(p) ==
    Works(p) =>
        \/ Incomplete(proc[p].op) \/ NoRival(proc[p].op)
        \/ proc[p].pc \in {"r_find", "r_reconcile", "r_reconciled"} /\ at[proc[p].op] = None

Rivals == OneAtATime /\ \A p \in Procs : Unrivalled(p)

-----------------------------------------------------------------------------
(* Where the tree of a removal can be. *)

Quarantine(x, t) == x \in Removes /\ x.target = t

Home(w, t) ==
    /\ tree[w].ref # None
    /\ \A x \in Paths : at[x] = w => x = t \/ Quarantine(x, t)
    /\ tree[w].reg \in Paths => tree[w].reg = t \/ Quarantine(tree[w].reg, t)

Known(o) == record[o].ck # "none" \/ \E p \in Procs : Removing(proc[p]) /\ proc[p].op = o

Displaced(o) == at[o.target] = o.of /\ tree[o.of].reg # o.target

Restored(t) == \A o \in Removes : o.target = t /\ Known(o) => ~Displaced(o)

Homes == \A o \in Removes : Known(o) => Home(o.of, o.target)

Accounted ==
    \A o \in Removes : Known(o) /\ Displaced(o) =>
        \E r \in Removes : r.target = o.target /\ record[r].ck = "restore_pending"

Registrations == \A w \in Trees, o \in Removes : tree[w].reg = o => Incomplete(o)

Settled(p) ==
    Removing(proc[p]) /\ proc[p].pc \in {"r_unstage", "r_restored"} => Restored(proc[p].target)

Whereabouts ==
    /\ Homes /\ Accounted /\ Registrations /\ RemovedIsGone
    /\ \A p \in Procs : Settled(p)

(* What Git is asked to remove. *)
Judged(p) ==
    Removing(proc[p]) /\ proc[p].pc = "r_git" =>
        LET o == proc[p].op IN
        /\ Inspects(o) /\ MatchesRemove(at[o], o)
        /\ tree[at[o]].dirt # "ignored"

LEMMA SaveFields ==
    ASSUME JournalOK, NEW o \in Ops, NEW r, Save(o, r)
    PROVE  /\ record'[o] = r
           /\ \A x \in Ops \ {o} : record'[x] = record[x]
           /\ \A t \in Targets : latest'[t] = latest[t] \/ (t = o.target /\ o.kind = "remove" /\ latest'[t] = o.of)
BY OpFacts DEF JournalOK, Save

LEMMA CheckpointFields ==
    ASSUME JournalOK, NEW o \in Ops, NEW ck \in Checkpoints, Checkpoint(o, ck)
    PROVE  /\ record'[o].ck = ck /\ record'[o].rel = record[o].rel /\ record'[o].head = record[o].head
           /\ \A x \in Ops \ {o} : record'[x] = record[x]
           /\ \A t \in Targets : latest'[t] = latest[t] \/ (t = o.target /\ o.kind = "remove" /\ latest'[t] = o.of)
<1> DEFINE r == [record[o] EXCEPT !.ck = ck]
<1>1. r.ck = ck /\ r.rel = record[o].rel /\ r.head = record[o].head
  BY DEF JournalOK, Record
<1>2. Save(o, r)
  BY DEF Checkpoint
<1> HIDE DEF r
<1> QED BY <1>1, <1>2, SaveFields

LEMMA ClearFields ==
    ASSUME FilesOK, NEW o \in Ops, Clear(o)
    PROVE  /\ at'[o] = None /\ stage'[o] = "absent"
           /\ \A x \in Paths \ {o} : at'[x] = at[x]
           /\ \A x \in Ops \ {o} : stage'[x] = stage[x]
BY OpFacts DEF FilesOK, Clear

LEMMA MoveFields ==
    ASSUME FilesOK, NEW x \in Paths, NEW y \in Paths, Move(x, y)
    PROVE  /\ at'[y] = at[x] /\ at'[x] = None /\ at[x] # None /\ at[y] = None /\ x # y
           /\ \A z \in Paths \ {x, y} : at'[z] = at[z]
BY DEF FilesOK, Move

(* A command that works on an operation.                                   *)
LEMMA WorksOn ==
    ASSUME NEW p \in Procs, Works(p)
    PROVE  /\ proc[p].op \in Ops /\ proc[p].op \in Paths /\ proc[p].op \notin Targets
           /\ proc[p].target = proc[p].op.target
           /\ proc[p].target \in Targets /\ proc[p].target \in Paths
           /\ proc[p] # Idle
           /\ Adding(proc[p]) => proc[p].op \in Adds /\ proc[p].op.kind = "add" /\ proc[p].pc \in AddLabels
           /\ Removing(proc[p]) => proc[p].op \in Removes /\ proc[p].op.kind = "remove" /\ proc[p].pc \in RemoveLabels
<1>1. proc[p].pc # "idle"
  BY DEF Works, Adding, Removing, AddLabels, RemoveLabels
<1> QED BY <1>1, OpFacts DEF Works, Adding, Removing, Idle

LEMMA StepWorks ==
    ASSUME Control, NEW p \in Procs
    PROVE  /\ AddStep(p) => Adding(proc[p]) /\ Works(p)
           /\ RemoveStep(p) => Removing(proc[p]) /\ Works(p)
<1>1. ASSUME AddStep(p) PROVE proc[p].pc \in AddLabels
  BY <1>1 DEF AddStep, AddAt, AddLabels, AddClaim, AddRepository, AddRecognise, AddConflict, AddObstructed,
     AddRepair, AddFound, AddTidy, AddAbsent, AddStage, AddMark, AddPending, AddGit, AddFinished,
     AddStaged, AddUnlock, AddMove, AddFix, AddCheck, AddDone
<1>2. ASSUME RemoveStep(p) PROVE proc[p].pc \in RemoveLabels
  BY <1>2 DEF RemoveStep, RemoveAt, RemoveLabels, RemoveClaim, RemoveRepository, RemoveFind, RemoveLook,
     RemoveSessions, RemoveRecheck, RemoveMark, RemovePending, RemoveMove, RemoveRepair, RemoveInspect,
     RemoveGit, RemoveClear, RemoveReconcile, RemoveReconciled, RemoveRestore, RemoveBack,
     RemoveRerepair, RemoveUnstage, RemoveRestored
<1> QED BY <1>1, <1>2, Kinds DEF Works

(* Two commands that work on operations of one path and one lock are one.  *)
LEMMA OneWorker ==
    ASSUME Control, NEW p \in Procs, NEW q \in Procs, Works(p), Works(q),
           Together(proc[p].op, proc[q].op)
    PROVE  p = q
<1>1. LockDir(proc[p]) = LockDir(proc[q])
  <2>1. CASE SharedState
    BY <2>1 DEF LockDir, JournalDir
  <2>2. CASE proc[p].op.kind = proc[q].op.kind
    <3>1. Adding(proc[p]) <=> Adding(proc[q])
      BY <2>2, WorksOn DEF Works
    <3> QED BY <3>1 DEF LockDir
  <2> QED BY <2>1, <2>2 DEF Together
<1>2. proc[p].target = proc[q].target /\ proc[p] # Idle /\ proc[q] # Idle
  BY WorksOn DEF Together
<1> QED BY <1>1, <1>2 DEF Control, HoldsTarget

LEMMA OneWorkerOf ==
    ASSUME Control, NEW p \in Procs, NEW q \in Procs, Works(p), Works(q), proc[p].op = proc[q].op
    PROVE  p = q
BY OneWorker DEF Together

(* A step of p within its command, or its return.                          *)
LEMMA WorkerGoes ==
    ASSUME Control, NEW p \in Procs, Works(p),
           NEW l \in IF Adding(proc[p]) THEN AddLabels ELSE RemoveLabels, Goto(p, l)
    PROVE  /\ proc'[p].op = proc[p].op /\ proc'[p].pc = l /\ proc'[p].target = proc[p].target
           /\ Works(p)'
           /\ Adding(proc[p]) <=> Adding(proc'[p])
           /\ Removing(proc[p]) <=> Removing(proc'[p])
           /\ \A q \in Procs \ {p} : proc'[q] = proc[q]
<1>1. l \in Labels /\ SameCommand(proc[p].pc, l)
  <2>1. CASE Adding(proc[p])
    BY <2>1, LabelGroups DEF SameCommand, Adding, AddLabels, RemoveLabels, UseLabels
  <2>2. CASE Removing(proc[p])
    <3>1. ~Adding(proc[p])
      BY <2>2 DEF Adding, Removing, AddLabels, RemoveLabels
    <3> QED BY <2>2, <3>1, LabelGroups DEF SameCommand, Removing, AddLabels, RemoveLabels, UseLabels
  <2> QED BY <2>1, <2>2 DEF Works
<1>2. proc[p] # Idle
  BY WorksOn
<1>3. \A q \in Procs \ {p} : proc'[q] = proc[q]
  BY DEF Goto, Control, ControlOK
<1> QED BY <1>1, <1>2, <1>3, GotoCommand DEF Works

LEMMA WorkerReturns ==
    ASSUME Control, NEW p \in Procs, Return(p)
    PROVE  /\ proc'[p] = Idle /\ ~Works(p)' /\ \A q \in Procs \ {p} : proc'[q] = proc[q]
<1>1. proc'[p] = Idle /\ \A q \in Procs \ {p} : proc'[q] = proc[q]
  BY DEF Return, Control, ControlOK
<1>2. proc'[p].pc = "idle"
  BY <1>1 DEF Idle
<1> QED BY <1>1, <1>2 DEF Works, Adding, Removing, AddLabels, RemoveLabels

-----------------------------------------------------------------------------
(* Only its own operation and its own target.                              *)

Own(p) ==
    /\ \A x \in Ops \ {proc[p].op} : at'[x] = at[x] /\ stage'[x] = stage[x] /\ record'[x] = record[x]
    /\ \A t \in Targets \ {proc[p].target} : at'[t] = at[t]
    /\ \A t \in Targets : \/ latest'[t] = latest[t]
                          \/ /\ t = proc[p].target /\ Removing(proc[p])
                             /\ latest'[t] = proc[p].op.of

OwnFiles(p) ==
    /\ \A x \in Ops \ {proc[p].op} : at'[x] = at[x] /\ stage'[x] = stage[x]
    /\ \A t \in Targets \ {proc[p].target} : at'[t] = at[t]

OwnJournal(p) ==
    /\ \A x \in Ops \ {proc[p].op} : record'[x] = record[x]
    /\ \A t \in Targets : \/ latest'[t] = latest[t]
                          \/ /\ t = proc[p].target /\ Removing(proc[p])
                             /\ latest'[t] = proc[p].op.of

LEMMA OwnParts == ASSUME NEW p \in Procs, OwnFiles(p), OwnJournal(p) PROVE Own(p)
BY DEF Own, OwnFiles, OwnJournal

LEMMA SameOwnFiles == ASSUME NEW p \in Procs, UNCHANGED <<at, stage>> PROVE OwnFiles(p)
BY DEF OwnFiles

LEMMA SameOwnJournal == ASSUME NEW p \in Procs, UNCHANGED journal PROVE OwnJournal(p)
BY DEF OwnJournal, journal

LEMMA ClearOwn ==
    ASSUME FilesOK, NEW p \in Procs, Works(p), Clear(proc[p].op)
    PROVE  OwnFiles(p)
<1>1. \A t \in Targets : t \in Paths /\ t # proc[p].op
  BY WorksOn, OpFacts
<1>2. \A x \in Ops : x \in Paths
  BY OpFacts
<1> QED BY <1>1, <1>2, WorksOn, ClearFields DEF OwnFiles

LEMMA MoveOwn ==
    ASSUME FilesOK, NEW p \in Procs, Works(p), UNCHANGED stage,
           Move(proc[p].op, proc[p].target) \/ Move(proc[p].target, proc[p].op)
    PROVE  OwnFiles(p)
<1>1. \A z \in Paths \ {proc[p].op, proc[p].target} : at'[z] = at[z]
  BY WorksOn, MoveFields
<1> QED BY <1>1, WorksOn, OpFacts DEF OwnFiles

LEMMA SaveOwn ==
    ASSUME JournalOK, NEW p \in Procs, Works(p), NEW r, Save(proc[p].op, r)
    PROVE  OwnJournal(p)
<1>1. proc[p].op.kind = "remove" => Removing(proc[p])
  BY WorksOn DEF Works
<1> QED BY <1>1, WorksOn, SaveFields DEF OwnJournal

LEMMA CheckpointOwn ==
    ASSUME JournalOK, NEW p \in Procs, Works(p), NEW ck, Checkpoint(proc[p].op, ck)
    PROVE  OwnJournal(p)
BY SaveOwn DEF Checkpoint

LEMMA StageOwn ==
    ASSUME FilesOK, NEW p \in Procs, Works(p), UNCHANGED at, NEW s,
           stage' = [stage EXCEPT ![proc[p].op] = s]
    PROVE  OwnFiles(p)
BY DEF OwnFiles, FilesOK

LEMMA AddOwn ==
    ASSUME Control, FilesOK, JournalOK, NEW p \in Procs, AddStep(p)
    PROVE  Own(p)
<1>0. Works(p) /\ Op(p) = proc[p].op /\ Op(p).target = proc[p].target /\ proc[p].op \in Ops
  BY StepWorks, WorksOn DEF Op
<1> SUFFICES OwnFiles(p) /\ OwnJournal(p)
  BY OwnParts
<1>1. CASE AddRepository(p) \/ AddObstructed(p) \/ AddRepair(p) \/ AddAbsent(p) \/ AddUnlock(p) \/ AddFix(p)
  <2>1. UNCHANGED <<at, stage>> /\ UNCHANGED journal
    BY <1>1 DEF AddRepository, AddObstructed, AddRepair, AddAbsent, AddUnlock, AddFix, files
  <2> QED BY <2>1, SameOwnFiles, SameOwnJournal
<1>2. CASE AddClaim(p) \/ AddConflict(p) \/ AddFound(p) \/ AddPending(p) \/ AddFinished(p) \/ AddDone(p)
  <2>1. UNCHANGED <<at, stage>>
    BY <1>2 DEF AddClaim, AddConflict, AddFound, AddPending, AddFinished, AddDone, files
  <2>2. UNCHANGED journal \/ \E ck \in Checkpoints : Checkpoint(Op(p), ck)
    BY <1>2 DEF AddClaim, AddConflict, AddFound, AddPending, AddFinished, AddDone, Checkpoints
  <2> QED BY <1>0, <2>1, <2>2, SameOwnFiles, SameOwnJournal, CheckpointOwn
<1>3. CASE AddStaged(p)
  <2>1. UNCHANGED <<at, stage>>
    BY <1>3 DEF AddStaged, files
  <2>2. UNCHANGED journal \/ \E r : Save(Op(p), r)
    BY <1>3 DEF AddStaged
  <2> QED BY <1>0, <2>1, <2>2, SameOwnFiles, SameOwnJournal, SaveOwn
<1>4. CASE AddRecognise(p) \/ AddTidy(p) \/ AddCheck(p)
  <2>1. UNCHANGED journal /\ (Clear(Op(p)) \/ UNCHANGED <<at, stage>>)
    BY <1>4 DEF AddRecognise, AddTidy, AddCheck, Op
  <2> QED BY <1>0, <2>1, SameOwnFiles, SameOwnJournal, ClearOwn
<1>5. CASE AddStage(p)
  <2>1. UNCHANGED journal
    BY <1>5 DEF AddStage
  <2>2. \/ UNCHANGED <<at, stage>>
        \/ at' = [at EXCEPT ![proc[p].op] = None] /\ stage' = [stage EXCEPT ![proc[p].op] = "bare"]
    BY <1>0, <1>5 DEF AddStage, files
  <2>3. OwnFiles(p)
    BY <1>0, <2>2, WorksOn, OpFacts DEF OwnFiles, FilesOK
  <2> QED BY <2>1, <2>3, SameOwnJournal
<1>6. CASE AddMark(p)
  <2>1. UNCHANGED journal /\ UNCHANGED at /\ \E s \in {"owned", "absent"} : stage' = [stage EXCEPT ![proc[p].op] = s]
    BY <1>0, <1>6 DEF AddMark, MarkStage, UnmakeStage
  <2> QED BY <1>0, <2>1, SameOwnJournal, StageOwn
<1>7. CASE AddGit(p)
  <2>1. UNCHANGED journal /\ UNCHANGED stage /\ (UNCHANGED at \/ \E w \in Trees : at' = [at EXCEPT ![proc[p].op] = w])
    BY <1>0, <1>7 DEF AddGit
  <2>2. OwnFiles(p)
    BY <1>0, <2>1, WorksOn, OpFacts DEF OwnFiles, FilesOK
  <2> QED BY <2>1, <2>2, SameOwnJournal
<1>8. CASE AddMove(p)
  <2>1. UNCHANGED journal /\ UNCHANGED stage /\ (UNCHANGED at \/ Move(proc[p].op, proc[p].target))
    BY <1>0, <1>8 DEF AddMove
  <2> QED BY <1>0, <2>1, SameOwnFiles, SameOwnJournal, MoveOwn
<1> QED BY <1>1, <1>2, <1>3, <1>4, <1>5, <1>6, <1>7, <1>8 DEF AddStep

LEMMA RemoveOwn ==
    ASSUME Control, FilesOK, JournalOK, NEW p \in Procs, RemoveStep(p)
    PROVE  Own(p)
<1>0. /\ Works(p) /\ Removal(p) = proc[p].op /\ Removal(p).target = proc[p].target
      /\ proc[p].op \in Ops
  BY StepWorks, WorksOn DEF Removal
<1> SUFFICES OwnFiles(p) /\ OwnJournal(p)
  BY OwnParts
<1>1. CASE \/ RemoveFind(p) \/ RemoveLook(p) \/ RemoveSessions(p) \/ RemoveRepair(p)
           \/ RemoveReconcile(p) \/ RemoveRerepair(p)
  <2>1. UNCHANGED <<at, stage>> /\ UNCHANGED journal
    BY <1>1 DEF RemoveFind, RemoveLook, RemoveSessions, RemoveRepair, RemoveReconcile, RemoveRerepair, files
  <2> QED BY <2>1, SameOwnFiles, SameOwnJournal
<1>2. CASE \/ RemoveClaim(p) \/ RemoveInspect(p) \/ RemoveReconciled(p) \/ RemoveRestore(p)
           \/ RemoveRestored(p)
  <2>1. UNCHANGED <<at, stage>>
    BY <1>2 DEF RemoveClaim, RemoveInspect, RemoveReconciled, RemoveRestore, RemoveRestored, files
  <2>2. UNCHANGED journal \/ \E ck \in Checkpoints : Checkpoint(Removal(p), ck)
    BY <1>2 DEF RemoveClaim, RemoveInspect, RemoveReconciled, RemoveRestore, RemoveRestored, Checkpoints
  <2> QED BY <1>0, <2>1, <2>2, SameOwnFiles, SameOwnJournal, CheckpointOwn
<1>3. CASE RemoveRepository(p) \/ RemovePending(p)
  <2>1. UNCHANGED <<at, stage>>
    BY <1>3 DEF RemoveRepository, RemovePending, files
  <2>2. UNCHANGED journal \/ \E r : Save(Removal(p), r)
    BY <1>3 DEF RemoveRepository, RemovePending
  <2> QED BY <1>0, <2>1, <2>2, SameOwnFiles, SameOwnJournal, SaveOwn
<1>4. CASE RemoveClear(p) \/ RemoveUnstage(p)
  <2>1. UNCHANGED journal /\ (Clear(Removal(p)) \/ UNCHANGED <<at, stage>>)
    BY <1>4 DEF RemoveClear, RemoveUnstage
  <2> QED BY <1>0, <2>1, SameOwnFiles, SameOwnJournal, ClearOwn
<1>5. CASE RemoveRecheck(p) \/ RemoveMark(p)
  <2>1. /\ UNCHANGED journal /\ UNCHANGED at
        /\ UNCHANGED stage \/ \E s \in {"bare", "owned", "absent"} : stage' = [stage EXCEPT ![proc[p].op] = s]
    BY <1>0, <1>5 DEF RemoveRecheck, RemoveMark, MarkStage, UnmakeStage, MakeStage
  <2> QED BY <1>0, <2>1, SameOwnFiles, SameOwnJournal, StageOwn
<1>6. CASE RemoveMove(p) \/ RemoveBack(p)
  <2>1. /\ UNCHANGED journal /\ UNCHANGED stage
        /\ \/ UNCHANGED at \/ Move(proc[p].op, proc[p].target)
           \/ Move(proc[p].target, proc[p].op)
    BY <1>0, <1>6 DEF RemoveMove, RemoveBack
  <2> QED BY <1>0, <2>1, SameOwnFiles, SameOwnJournal, MoveOwn
<1>7. CASE RemoveGit(p)
  <2>1. UNCHANGED journal /\ UNCHANGED stage /\ (UNCHANGED at \/ at' = [at EXCEPT ![proc[p].op] = None])
    BY <1>0, <1>7 DEF RemoveGit
  <2>2. OwnFiles(p)
    BY <1>0, <2>1, WorksOn, OpFacts DEF OwnFiles, FilesOK
  <2> QED BY <2>1, <2>2, SameOwnJournal
<1> QED BY <1>1, <1>2, <1>3, <1>4, <1>5, <1>6, <1>7 DEF RemoveStep

-----------------------------------------------------------------------------
(* What a step of an add shows of its operation. *)

LEMMA ViewGo ==
    ASSUME Control, NEW p \in Procs, Works(p), NEW o \in Ops, o = proc[p].op,
           NEW l \in IF Adding(proc[p]) THEN AddLabels ELSE RemoveLabels, Goto(p, l),
           Owned(o.kind, at'[o], stage'[o], record'[o].ck),
           Phase(l, at'[o], stage'[o], record'[o].ck)
    PROVE  OwnedAt(o)' /\ PhaseAt(p)'
<1>1. proc'[p].op = o /\ proc'[p].pc = l
  BY WorkerGoes
<1> QED BY <1>1 DEF OwnedAt, PhaseAt

LEMMA ViewReturn ==
    ASSUME Control, NEW p \in Procs, NEW o \in Ops, Return(p),
           Owned(o.kind, at'[o], stage'[o], record'[o].ck)
    PROVE  OwnedAt(o)' /\ PhaseAt(p)'
<1>1. ~Works(p)'
  BY WorkerReturns
<1> QED BY <1>1 DEF OwnedAt, PhaseAt

LEMMA AddPhaseFree ==
    ASSUME NEW l \in AddLabels \ {"a_mark", "a_pending", "a_git"}, NEW x, NEW s, NEW c
    PROVE  Phase(l, x, s, c)
BY DEF Phase, AddLabels, RemoveLabels, Emptied, Marked, Restoring, Advancing

LEMMA AddView ==
    ASSUME Control, FilesOK, JournalOK, NEW p \in Procs, AddStep(p),
           NEW o \in Ops, o = proc[p].op, OwnedAt(o), PhaseAt(p)
    PROVE  OwnedAt(o)' /\ PhaseAt(p)'
<1>0. /\ Works(p) /\ Adding(proc[p]) /\ Op(p) = o /\ o.kind = "add" /\ o \in Paths /\ o.target \in Paths
      /\ o # o.target
  BY StepWorks, WorksOn DEF Op
<1> DEFINE x == at[o]
           s == stage[o]
           c == record[o].ck
           y == at'[o]
           u == stage'[o]
           d == record'[o].ck
           Free == AddLabels \ {"a_mark", "a_pending", "a_git"}
<1>1. Owned("add", x, s, c) /\ Phase(proc[p].pc, x, s, c)
  BY <1>0 DEF OwnedAt, PhaseAt
<1>2. ASSUME NEW l \in Free, Goto(p, l), Owned("add", y, u, d)
      PROVE  OwnedAt(o)' /\ PhaseAt(p)'
  <2>1. Phase(l, y, u, d)
    BY <1>2, AddPhaseFree
  <2> QED BY <1>0, <1>2, <2>1, ViewGo
<1>3. ASSUME NEW l \in AddLabels, Goto(p, l), Owned("add", y, u, d), Phase(l, y, u, d)
      PROVE  OwnedAt(o)' /\ PhaseAt(p)'
  BY <1>0, <1>3, ViewGo
<1>4. ASSUME Return(p), Owned("add", y, u, d)
      PROVE  OwnedAt(o)' /\ PhaseAt(p)'
  BY <1>0, <1>4, ViewReturn
<1>5. c = "none" => x = None
  BY <1>1 DEF Owned, StagedByAdd
<1>6. c = "requested" => x = None
  BY <1>1 DEF Owned, StagedByAdd
<1>7. \A ck \in StagedByAdd : Owned("add", x, s, ck)
  BY <1>1 DEF Owned
<1>8. \A v, ck : Owned("add", None, v, ck)
  BY DEF Owned
<1>9. \A ck \in Checkpoints : Checkpoint(o, ck) => d = ck
  BY CheckpointFields
<1>10. UNCHANGED journal => d = c
  BY DEF journal
<1> HIDE DEF x, s, c, y, u, d
<1> USE <1>0, <1>1
<1>11. CASE AddClaim(p)
  <2>1. y = x /\ u = s /\ Goto(p, "a_repo")
    BY <1>11 DEF AddClaim, files, x, y, s, u
  <2>2. IF c = "none" THEN Checkpoint(o, "requested") ELSE UNCHANGED journal
    BY <1>11 DEF AddClaim, c
  <2>3. Owned("add", y, u, d)
    BY <1>5, <1>8, <1>9, <1>10, <2>1, <2>2 DEF Checkpoints
  <2> QED BY <1>2, <2>1, <2>3 DEF AddLabels
<1>12. CASE \/ AddRepository(p) \/ AddObstructed(p) \/ AddRepair(p) \/ AddAbsent(p) \/ AddUnlock(p)
            \/ AddFix(p)
  <2>1. y = x /\ u = s /\ UNCHANGED journal
    BY <1>12 DEF AddRepository, AddObstructed, AddRepair, AddAbsent, AddUnlock, AddFix, files, x, y, s, u
  <2>2. (\E l \in Free : Goto(p, l)) \/ Return(p)
    BY <1>12 DEF AddRepository, AddObstructed, AddRepair, AddAbsent, AddUnlock, AddFix, AddLabels
  <2>3. Owned("add", y, u, d)
    BY <1>10, <2>1
  <2> QED BY <1>2, <1>4, <2>2, <2>3
<1>13. CASE AddRecognise(p) \/ AddTidy(p) \/ AddCheck(p)
  <2>1. UNCHANGED journal /\ (Clear(o) \/ UNCHANGED <<at, stage>>)
    BY <1>13 DEF AddRecognise, AddTidy, AddCheck, Op
  <2>2. (\E l \in Free : Goto(p, l)) \/ Return(p)
    BY <1>13 DEF AddRecognise, AddTidy, AddCheck, AddLabels
  <2>3. Owned("add", y, u, d)
    <3>1. CASE Clear(o)
      BY <1>8, <3>1, ClearFields DEF y
    <3>2. CASE UNCHANGED <<at, stage>>
      BY <1>10, <2>1, <3>2 DEF x, y, s, u
    <3> QED BY <2>1, <3>1, <3>2
  <2> QED BY <1>2, <1>4, <2>2, <2>3
<1>14. CASE AddConflict(p)
  <2>1. y = x /\ u = s /\ Return(p)
    BY <1>14 DEF AddConflict, files, x, y, s, u
  <2>2. IF c = "requested" THEN Checkpoint(o, "aborted") ELSE UNCHANGED journal
    BY <1>14 DEF AddConflict, c
  <2>3. Owned("add", y, u, d)
    BY <1>6, <1>8, <1>9, <1>10, <2>1, <2>2 DEF Checkpoints
  <2> QED BY <1>4, <2>1, <2>3
<1>15. CASE AddFound(p) \/ AddFinished(p) \/ AddDone(p)
  <2>1. y = x /\ u = s
    BY <1>15 DEF AddFound, AddFinished, AddDone, files, x, y, s, u
  <2>2. (\E l \in Free : Goto(p, l)) \/ Return(p)
    BY <1>15 DEF AddFound, AddFinished, AddDone, AddLabels
  <2>3. Checkpoint(o, "complete") \/ Checkpoint(o, "add_finished") \/ UNCHANGED journal
    BY <1>15 DEF AddFound, AddFinished, AddDone
  <2>4. Owned("add", y, u, d)
    BY <1>7, <1>9, <1>10, <2>1, <2>3 DEF Checkpoints, StagedByAdd
  <2> QED BY <1>2, <1>4, <2>2, <2>4
<1>16. CASE AddStage(p)
  <2>1. UNCHANGED journal
    BY <1>16 DEF AddStage
  <2>2. \/ y = x /\ u = s /\ Return(p)
        \/ y = None /\ Goto(p, "a_mark")
    BY <1>16 DEF AddStage, files, FilesOK, x, y, s, u
  <2>3. Phase("a_mark", None, u, d)
    BY DEF Phase, RemoveLabels, Emptied, Marked, Restoring, Advancing
  <2> QED BY <1>3, <1>4, <1>8, <1>10, <2>1, <2>2, <2>3 DEF AddLabels
<1>17. CASE AddMark(p)
  <2>1. x = None
    BY <1>17 DEF AddMark, AddAt, Phase, Emptied
  <2>2. y = x /\ UNCHANGED journal
    BY <1>17 DEF AddMark, x, y
  <2>3. (u = "owned" /\ Goto(p, "a_pending")) \/ Return(p)
    BY <1>17 DEF AddMark, MarkStage, FilesOK, u
  <2>4. Phase("a_pending", y, "owned", d)
    BY DEF Phase, RemoveLabels, Emptied, Marked, Restoring, Advancing
  <2> QED BY <1>3, <1>4, <1>8, <2>1, <2>2, <2>3, <2>4 DEF AddLabels
<1>18. CASE AddPending(p)
  <2>1. y = x /\ u = s /\ Goto(p, "a_git")
    BY <1>18 DEF AddPending, files, x, y, s, u
  <2>2. d = "add_pending"
    BY <1>9, <1>18 DEF AddPending, Checkpoints
  <2>3. s = "owned"
    BY <1>18 DEF AddPending, AddAt, Phase, Marked
  <2>4. Phase("a_git", y, u, d)
    BY <2>1, <2>2, <2>3 DEF Phase, RemoveLabels, Emptied, Marked, Restoring, Advancing
  <2>5. Owned("add", y, u, d)
    BY <1>7, <2>1, <2>2 DEF StagedByAdd
  <2> QED BY <1>3, <2>1, <2>4, <2>5 DEF AddLabels
<1>19. CASE AddGit(p)
  <2>1. s = "owned" /\ c = "add_pending"
    BY <1>19 DEF AddGit, AddAt, Phase, Marked
  <2>2. u = s /\ d = c
    BY <1>10, <1>19 DEF AddGit, s, u
  <2>3. Goto(p, "a_finished") \/ Return(p)
    BY <1>19 DEF AddGit
  <2>4. Owned("add", y, u, d)
    BY <2>1, <2>2 DEF Owned, StagedByAdd
  <2> QED BY <1>2, <1>4, <2>3, <2>4 DEF AddLabels
<1>20. CASE AddStaged(p)
  <2>1. y = x /\ u = s
    BY <1>20 DEF AddStaged, files, x, y, s, u
  <2>2. Goto(p, "a_unlock") \/ Return(p)
    BY <1>20 DEF AddStaged
  <2>3. d = c \/ d = "move_pending"
    <3> DEFINE h == tree[at[o]].head
               r == [record[o] EXCEPT !.ck = "move_pending", !.head = h]
    <3>1. UNCHANGED journal \/ Save(o, r)
      BY <1>20 DEF AddStaged
    <3>2. r.ck = "move_pending"
      BY DEF JournalOK, Record
    <3> HIDE DEF r
    <3> QED BY <1>10, <3>1, <3>2, SaveFields DEF d
  <2>4. Owned("add", y, u, d)
    BY <1>7, <2>1, <2>3 DEF StagedByAdd
  <2> QED BY <1>2, <1>4, <2>2, <2>4 DEF AddLabels
<1>21. CASE AddMove(p)
  <2>1. u = s /\ d = c
    BY <1>10, <1>21 DEF AddMove, s, u
  <2>2. y = None \/ y = x
    BY <1>21, MoveFields DEF AddMove, x, y
  <2>3. Goto(p, "a_fix") \/ Return(p)
    BY <1>21 DEF AddMove
  <2> QED BY <1>2, <1>4, <1>8, <2>1, <2>2, <2>3 DEF AddLabels
<1> QED BY <1>11, <1>12, <1>13, <1>14, <1>15, <1>16, <1>17, <1>18, <1>19, <1>20, <1>21 DEF AddStep

(* And a step of a removal. *)

RemoveFree == {"r_claim", "r_repo", "r_look", "r_sessions", "r_recheck", "r_repair", "r_inspect", "r_git",
               "r_find", "r_reconcile", "r_restore"}

LEMMA RemovePhaseFree ==
    ASSUME NEW l \in RemoveFree, NEW x, NEW s, NEW c,
           c # "none", l \in Advancing => c # "restore_pending"
    PROVE  Phase(l, x, s, c)
BY DEF Phase, RemoveFree, Emptied, Marked, Restoring

LEMMA RemoveView ==
    ASSUME Control, FilesOK, JournalOK, NEW p \in Procs, RemoveStep(p),
           NEW o \in Ops, o = proc[p].op, OwnedAt(o), PhaseAt(p)
    PROVE  OwnedAt(o)' /\ PhaseAt(p)'
<1>0. /\ Works(p) /\ Removing(proc[p]) /\ ~Adding(proc[p]) /\ Removal(p) = o /\ o.kind = "remove"
      /\ o \in Paths /\ o.target \in Paths /\ o # o.target
  BY StepWorks, WorksOn DEF Removal, Adding, Removing, AddLabels, RemoveLabels
<1> DEFINE x == at[o]
           s == stage[o]
           c == record[o].ck
           y == at'[o]
           u == stage'[o]
           d == record'[o].ck
           l0 == proc[p].pc
<1>1. Owned("remove", x, s, c) /\ Phase(l0, x, s, c) /\ l0 \in RemoveLabels
  BY <1>0, WorksOn DEF OwnedAt, PhaseAt
<1>2. ASSUME NEW l \in RemoveFree, Goto(p, l), Owned("remove", y, u, d), d # "none",
             l \in Advancing => d # "restore_pending"
      PROVE  OwnedAt(o)' /\ PhaseAt(p)'
  <2>1. Phase(l, y, u, d)
    BY <1>2, RemovePhaseFree
  <2>2. l \in RemoveLabels
    BY DEF RemoveFree, RemoveLabels
  <2> QED BY <1>0, <1>2, <2>1, <2>2, ViewGo
<1>3. ASSUME NEW l \in RemoveLabels, Goto(p, l), Owned("remove", y, u, d), Phase(l, y, u, d)
      PROVE  OwnedAt(o)' /\ PhaseAt(p)'
  BY <1>0, <1>3, ViewGo
<1>4. ASSUME Return(p), Owned("remove", y, u, d)
      PROVE  OwnedAt(o)' /\ PhaseAt(p)'
  BY <1>0, <1>4, ViewReturn
<1>5. c \in {"none", "requested"} => x = None
  BY <1>1 DEF Owned, StagedByRemove
<1>6. c # "aborted"
  BY <1>1 DEF Owned
<1>7. \A ck \in StagedByRemove : Owned("remove", x, s, ck)
  BY <1>1 DEF Owned, StagedByRemove
<1>8. \A v, ck : ck # "aborted" => Owned("remove", None, v, ck)
  BY DEF Owned
<1>9. \A ck \in Checkpoints : Checkpoint(o, ck) => d = ck
  BY CheckpointFields
<1>10. UNCHANGED journal => d = c
  BY DEF journal
<1>11. l0 # "r_claim" => c # "none"
  BY <1>1 DEF Phase
<1>12. l0 \in Advancing => c # "restore_pending"
  BY <1>1 DEF Phase
<1>13. l0 \in Emptied => x = None
  BY <1>1 DEF Phase
<1> HIDE DEF x, s, c, y, u, d, l0
<1> USE <1>0, <1>1
<1>14. CASE RemoveClaim(p)
  <2>1. y = x /\ u = s /\ Goto(p, "r_repo")
    BY <1>14 DEF RemoveClaim, files, x, y, s, u
  <2>2. IF c = "none" THEN Checkpoint(o, "requested") ELSE UNCHANGED journal
    BY <1>14 DEF RemoveClaim, c
  <2>3. d # "none" /\ Owned("remove", y, u, d)
    BY <1>5, <1>8, <1>9, <1>10, <2>1, <2>2 DEF Checkpoints
  <2> QED BY <1>2, <2>1, <2>3 DEF RemoveFree, Advancing
<1>15. CASE RemoveRepository(p)
  <2>1. y = x /\ u = s /\ l0 = "r_repo"
    BY <1>15 DEF RemoveRepository, RemoveAt, files, x, y, s, u, l0
  <2>2. Goto(p, IF c = "restore_pending" THEN "r_restore" ELSE "r_look")
    BY <1>15 DEF RemoveRepository, c
  <2>3. d = c
    <3> DEFINE h == proc[p].seed
               r == [record[o] EXCEPT !.rel = TRUE, !.head = h]
    <3>1. UNCHANGED journal \/ Save(o, r)
      BY <1>15 DEF RemoveRepository
    <3>2. r.ck = c
      BY DEF JournalOK, Record, c
    <3> HIDE DEF r
    <3> QED BY <1>10, <3>1, <3>2, SaveFields DEF d
  <2>4. Owned("remove", y, u, d) /\ d # "none"
    BY <1>11, <2>1, <2>3
  <2> QED BY <1>2, <2>2, <2>3, <2>4 DEF RemoveFree, Advancing
<1>16. CASE RemoveFind(p) \/ RemoveLook(p) \/ RemoveSessions(p) \/ RemoveRepair(p)
  <2>1. y = x /\ u = s /\ UNCHANGED journal
    BY <1>16 DEF RemoveFind, RemoveLook, RemoveSessions, RemoveRepair, files, x, y, s, u
  <2>2. \/ Goto(p, "r_reconcile")
        \/ l0 \in Advancing /\ \E l \in {"r_sessions", "r_recheck", "r_inspect"} : Goto(p, l)
        \/ Return(p)
    BY <1>16 DEF RemoveFind, RemoveLook, RemoveSessions, RemoveRepair, RemoveAt, Advancing, l0
  <2>3. l0 # "r_claim"
    BY <1>16 DEF RemoveFind, RemoveLook, RemoveSessions, RemoveRepair, RemoveAt, l0
  <2>4. Owned("remove", y, u, d) /\ d = c /\ d # "none"
    BY <1>10, <1>11, <2>1, <2>3
  <2>5. CASE Goto(p, "r_reconcile")
    BY <1>2, <2>4, <2>5 DEF RemoveFree, Advancing
  <2>6. CASE l0 \in Advancing /\ \E l \in {"r_sessions", "r_recheck", "r_inspect"} : Goto(p, l)
    BY <1>2, <1>12, <2>4, <2>6 DEF RemoveFree
  <2> QED BY <1>4, <2>2, <2>4, <2>5, <2>6
<1>17. CASE RemoveRecheck(p)
  <2>1. y = x /\ UNCHANGED journal /\ l0 = "r_recheck"
    BY <1>17 DEF RemoveRecheck, RemoveAt, x, y, l0
  <2>2. \/ u = s /\ Goto(p, "r_reconcile")
        \/ u = s /\ Return(p)
        \/ u = s /\ s = "owned" /\ Goto(p, "r_pending")
        \/ s = "absent" /\ Goto(p, "r_mark")
    BY <1>17 DEF RemoveRecheck, MakeStage, s, u
  <2>3. d = c /\ d # "none" /\ d # "aborted" /\ d # "restore_pending"
    BY <1>6, <1>10, <1>11, <1>12, <2>1 DEF Advancing
  <2>4. u = s => Owned("remove", y, u, d)
    BY <2>1, <2>3
  <2>5. CASE Goto(p, "r_reconcile") /\ u = s
    BY <1>2, <2>3, <2>4, <2>5 DEF RemoveFree
  <2>6. CASE u = s /\ s = "owned" /\ Goto(p, "r_pending")
    <3>1. Phase("r_pending", y, u, d)
      BY <2>3, <2>6 DEF Phase, Emptied, Marked, Restoring
    <3> QED BY <1>3, <2>4, <2>6, <3>1 DEF RemoveLabels
  <2>7. CASE s = "absent" /\ Goto(p, "r_mark")
    <3>1. x = None
      BY <2>7 DEF Owned
    <3>2. Phase("r_mark", y, u, d) /\ Owned("remove", y, u, d)
      BY <2>1, <2>3, <3>1 DEF Phase, Emptied, Marked, Restoring, Owned
    <3> QED BY <1>3, <2>7, <3>2 DEF RemoveLabels
  <2> QED BY <1>4, <2>2, <2>4, <2>5, <2>6, <2>7
<1>18. CASE RemoveMark(p)
  <2>1. y = x /\ UNCHANGED journal /\ l0 = "r_mark"
    BY <1>18 DEF RemoveMark, RemoveAt, x, y, l0
  <2>2. (u = "owned" /\ Goto(p, "r_pending")) \/ Return(p)
    BY <1>18 DEF RemoveMark, MarkStage, FilesOK, u
  <2>3. d = c /\ d # "none" /\ d # "aborted" /\ d # "restore_pending" /\ x = None
    BY <1>6, <1>10, <1>11, <1>12, <1>13, <2>1 DEF Advancing, Emptied
  <2>4. Owned("remove", y, u, d)
    BY <1>8, <2>1, <2>3
  <2>5. Phase("r_pending", y, "owned", d)
    BY <2>3 DEF Phase, Emptied, Marked, Restoring
  <2> QED BY <1>3, <1>4, <2>2, <2>4, <2>5 DEF RemoveLabels
<1>19. CASE RemovePending(p)
  <2>1. y = x /\ u = s /\ Goto(p, "r_move") /\ l0 = "r_pending"
    BY <1>19 DEF RemovePending, RemoveAt, files, x, y, s, u, l0
  <2>2. d = "quarantine_pending"
    <3> DEFINE h == proc[p].seed
               r == [record[o] EXCEPT !.ck = "quarantine_pending", !.head = h]
    <3>1. Save(o, r)
      BY <1>19 DEF RemovePending
    <3>2. r.ck = "quarantine_pending"
      BY DEF JournalOK, Record
    <3> HIDE DEF r
    <3> QED BY <3>1, <3>2, SaveFields DEF d
  <2>3. s = "owned"
    BY <2>1 DEF Phase, Marked
  <2>4. Phase("r_move", y, u, d)
    BY <2>1, <2>2, <2>3 DEF Phase, Emptied, Marked, Restoring
  <2>5. Owned("remove", y, u, d)
    BY <1>7, <2>1, <2>2 DEF StagedByRemove
  <2> QED BY <1>3, <2>1, <2>4, <2>5 DEF RemoveLabels
<1>20. CASE RemoveMove(p)
  <2>1. u = s /\ UNCHANGED journal /\ l0 = "r_move"
    BY <1>20 DEF RemoveMove, RemoveAt, s, u, l0
  <2>2. Goto(p, "r_repair") \/ Return(p)
    BY <1>20 DEF RemoveMove
  <2>3. s = "owned" /\ c = "quarantine_pending" /\ d = c
    BY <1>10, <2>1 DEF Phase, Marked
  <2>4. Owned("remove", y, u, d)
    BY <2>1, <2>3 DEF Owned, StagedByRemove
  <2> QED BY <1>2, <1>4, <2>2, <2>3, <2>4 DEF RemoveFree
<1>21. CASE RemoveInspect(p)
  <2>1. y = x /\ u = s /\ l0 = "r_inspect"
    BY <1>21 DEF RemoveInspect, RemoveAt, files, x, y, s, u, l0
  <2>2. \/ UNCHANGED journal /\ (Return(p) \/ Goto(p, "r_restore"))
        \/ Checkpoint(o, "remove_pending") /\ Goto(p, "r_git")
    BY <1>21 DEF RemoveInspect
  <2>3. CASE UNCHANGED journal /\ (Return(p) \/ Goto(p, "r_restore"))
    <3>1. d = c /\ d # "none" /\ Owned("remove", y, u, d)
      BY <1>10, <1>11, <2>1, <2>3
    <3> QED BY <1>2, <1>4, <2>3, <3>1 DEF RemoveFree, Advancing
  <2>4. CASE Checkpoint(o, "remove_pending") /\ Goto(p, "r_git")
    <3>1. d = "remove_pending"
      BY <1>9, <2>4 DEF Checkpoints
    <3>2. Owned("remove", y, u, d)
      BY <1>7, <2>1, <3>1 DEF StagedByRemove
    <3> QED BY <1>2, <2>4, <3>1, <3>2 DEF RemoveFree
  <2> QED BY <2>2, <2>3, <2>4
<1>22. CASE RemoveGit(p)
  <2>1. u = s /\ UNCHANGED journal /\ l0 = "r_git"
    BY <1>22 DEF RemoveGit, RemoveAt, s, u, l0
  <2>2. \/ y = None /\ (Goto(p, "r_clear") \/ Return(p))
        \/ y = x /\ Goto(p, "r_restore")
    BY <1>22 DEF RemoveGit, FilesOK, x, y
  <2>3. d = c /\ d # "none" /\ d # "aborted" /\ d # "restore_pending"
    BY <1>6, <1>10, <1>11, <1>12, <2>1 DEF Advancing
  <2>4. Owned("remove", y, u, d)
    BY <1>8, <2>1, <2>2, <2>3
  <2>5. Phase("r_clear", None, u, d)
    BY <2>3 DEF Phase, Emptied, Marked, Restoring
  <2> QED BY <1>2, <1>3, <1>4, <2>2, <2>3, <2>4, <2>5 DEF RemoveFree, RemoveLabels, Advancing
<1>23. CASE RemoveClear(p)
  <2>1. UNCHANGED journal /\ l0 = "r_clear"
    BY <1>23 DEF RemoveClear, RemoveAt, l0
  <2>2. \/ y = None /\ Goto(p, "r_reconciled")
        \/ y = x /\ u = s /\ Return(p)
    BY <1>23, ClearFields DEF RemoveClear, x, y, s, u
  <2>3. d = c /\ d # "none" /\ d # "aborted" /\ d # "restore_pending" /\ x = None
    BY <1>6, <1>10, <1>11, <1>12, <1>13, <2>1 DEF Advancing, Emptied
  <2>4. Owned("remove", y, u, d)
    BY <1>8, <2>2, <2>3
  <2>5. Phase("r_reconciled", None, u, d)
    BY <2>3 DEF Phase, Emptied, Marked, Restoring
  <2> QED BY <1>3, <1>4, <2>2, <2>4, <2>5 DEF RemoveLabels
<1>24. CASE RemoveReconcile(p)
  <2>1. y = x /\ u = s /\ UNCHANGED journal /\ l0 = "r_reconcile"
    BY <1>24 DEF RemoveReconcile, RemoveAt, files, x, y, s, u, l0
  <2>2. \/ c = "restore_pending" /\ Goto(p, "r_restore")
        \/ c # "restore_pending" /\ Goto(p, "r_repair")
        \/ c # "restore_pending" /\ x = None /\ Goto(p, "r_reconciled")
    BY <1>24 DEF RemoveReconcile, c, x
  <2>3. d = c /\ d # "none" /\ Owned("remove", y, u, d)
    BY <1>10, <1>11, <2>1
  <2>4. c # "restore_pending" => Phase("r_reconciled", None, u, d)
    BY <2>3 DEF Phase, Emptied, Marked, Restoring
  <2>5. CASE c = "restore_pending" /\ Goto(p, "r_restore")
    BY <1>2, <2>3, <2>5 DEF RemoveFree, Advancing
  <2>6. CASE c # "restore_pending" /\ Goto(p, "r_repair")
    BY <1>2, <2>3, <2>6 DEF RemoveFree
  <2>7. CASE c # "restore_pending" /\ x = None /\ Goto(p, "r_reconciled")
    BY <1>3, <2>1, <2>3, <2>4, <2>7 DEF RemoveLabels
  <2> QED BY <2>2, <2>5, <2>6, <2>7
<1>25. CASE RemoveReconciled(p) \/ RemoveRestored(p)
  <2>1. y = x /\ u = s /\ l0 \in Emptied /\ Return(p)
    BY <1>25 DEF RemoveReconciled, RemoveRestored, RemoveAt, files, x, y, s, u, l0, Emptied
  <2>2. Checkpoint(o, "complete") \/ Checkpoint(o, "requested") \/ UNCHANGED journal
    BY <1>25 DEF RemoveReconciled, RemoveRestored
  <2>3. d # "aborted" /\ y = None
    BY <1>6, <1>9, <1>10, <1>13, <2>1, <2>2 DEF Checkpoints
  <2> QED BY <1>4, <1>8, <2>1, <2>3
<1>26. CASE RemoveRestore(p)
  <2>1. y = x /\ u = s /\ Goto(p, "r_back")
    BY <1>26 DEF RemoveRestore, files, x, y, s, u
  <2>2. d = "restore_pending"
    BY <1>9, <1>26 DEF RemoveRestore, Checkpoints
  <2>3. Owned("remove", y, u, d)
    BY <1>7, <2>1, <2>2 DEF StagedByRemove
  <2>4. Phase("r_back", y, u, d)
    BY <2>2 DEF Phase, Emptied, Marked, Advancing
  <2> QED BY <1>3, <2>1, <2>3, <2>4 DEF RemoveLabels
<1>27. CASE RemoveBack(p)
  <2>1. u = s /\ UNCHANGED journal /\ l0 = "r_back"
    BY <1>27 DEF RemoveBack, RemoveAt, s, u, l0
  <2>2. \/ y = x /\ Return(p)
        \/ y = None /\ Goto(p, "r_rerepair")
    BY <1>27, MoveFields DEF RemoveBack, x, y
  <2>3. d = "restore_pending" /\ d = c
    BY <1>10, <2>1 DEF Phase, Restoring
  <2>4. Owned("remove", y, u, d)
    BY <1>8, <2>1, <2>2, <2>3
  <2>5. Phase("r_rerepair", None, u, d)
    BY <2>3 DEF Phase, Emptied, Marked, Advancing
  <2> QED BY <1>3, <1>4, <2>2, <2>4, <2>5 DEF RemoveLabels
<1>28. CASE RemoveRerepair(p) \/ RemoveUnstage(p)
  <2>1. UNCHANGED journal /\ l0 \in {"r_rerepair", "r_unstage"}
    BY <1>28 DEF RemoveRerepair, RemoveUnstage, RemoveAt, l0
  <2>2. y = None \/ (y = x /\ u = s)
    BY <1>28, ClearFields DEF RemoveRerepair, RemoveUnstage, x, y, s, u
  <2>3. Goto(p, "r_unstage") \/ Goto(p, "r_restored") \/ Return(p)
    BY <1>28 DEF RemoveRerepair, RemoveUnstage
  <2>4. d = "restore_pending" /\ d = c /\ x = None
    BY <1>10, <1>13, <2>1 DEF Phase, Restoring, Emptied
  <2>5. y = None /\ Owned("remove", y, u, d)
    BY <1>8, <2>2, <2>4
  <2>6. Phase("r_unstage", None, u, d) /\ Phase("r_restored", None, u, d)
    BY <2>4 DEF Phase, Emptied, Marked, Advancing
  <2> QED BY <1>3, <1>4, <2>3, <2>5, <2>6 DEF RemoveLabels
<1> QED BY <1>14, <1>15, <1>16, <1>17, <1>18, <1>19, <1>20, <1>21, <1>22, <1>23, <1>24, <1>25, <1>26,
           <1>27, <1>28 DEF RemoveStep

-----------------------------------------------------------------------------
(* Commands that begin.                                                    *)

LEMMA AddBegins ==
    ASSUME Control, NEW p \in Procs, NEW o \in Adds, AddBegin(p, o)
    PROVE  /\ proc'[p].pc = "a_claim" /\ proc'[p].op = o /\ proc'[p].target = o.target
           /\ Adding(proc'[p]) /\ ~Removing(proc'[p]) /\ Works(p)' /\ ~Works(p)
           /\ \A q \in Procs \ {p} : proc'[q] = proc[q]
<1> DEFINE c == [Idle EXCEPT !.pc = "a_claim", !.op = o, !.target = o.target]
<1>1. proc' = [proc EXCEPT ![p] = c] /\ proc[p] = Idle
  BY DEF AddBegin
<1>2. c.pc = "a_claim" /\ c.op = o /\ c.target = o.target
  BY DEF Idle
<1> HIDE DEF c
<1>3. proc'[p] = c /\ \A q \in Procs \ {p} : proc'[q] = proc[q]
  BY <1>1 DEF Control, ControlOK
<1>4. Adding(proc'[p]) /\ ~Removing(proc'[p])
  BY <1>2, <1>3 DEF Adding, Removing, AddLabels, RemoveLabels
<1>5. ~Works(p)
  BY <1>1, WorksOn
<1> QED BY <1>2, <1>3, <1>4, <1>5 DEF Works

LEMMA RemoveBegins ==
    ASSUME Control, FilesOK, JournalOK, NEW p \in Procs, NEW t \in Targets, RemoveBegin(p, t)
    PROVE  \E w \in Trees :
              /\ proc'[p].op = RemoveIntent(t, w) /\ proc'[p].target = t
              /\ RemoveIntent(t, w) \in Removes
              /\ \/ proc'[p].pc = "r_claim" /\ Inspects(t) /\ at[t] = w /\ ~IncompleteConflict(RemoveIntent(t, w))
                 \/ proc'[p].pc = "r_find" /\ latest[t] = w
              /\ Removing(proc'[p]) /\ ~Adding(proc'[p]) /\ Works(p)' /\ ~Works(p)
              /\ \A q \in Procs \ {p} : proc'[q] = proc[q]
<1>1. ASSUME NEW w \in Trees, NEW c, c.op = RemoveIntent(t, w), c.target = t, c.pc \in {"r_claim", "r_find"},
             proc' = [proc EXCEPT ![p] = c]
      PROVE  /\ proc'[p] = c /\ Removing(proc'[p]) /\ ~Adding(proc'[p]) /\ Works(p)' /\ ~Works(p)
             /\ \A q \in Procs \ {p} : proc'[q] = proc[q]
             /\ RemoveIntent(t, w) \in Removes
  <2>1. proc'[p] = c /\ \A q \in Procs \ {p} : proc'[q] = proc[q]
    BY <1>1 DEF Control, ControlOK
  <2>2. RemoveIntent(t, w) \in Removes /\ RemoveIntent(t, w).target = t
    BY IntentOp DEF RemoveIntent
  <2>3. Removing(c) /\ ~Adding(c)
    BY <1>1, <2>2 DEF Removing, Adding, RemoveLabels, AddLabels
  <2>4. ~Works(p)
    BY WorksOn DEF RemoveBegin
  <2> QED BY <2>1, <2>2, <2>3, <2>4 DEF Works
<1>2. CASE Inspects(t)
  <2> DEFINE w == at[t]
             c == [pc |-> "r_claim", op |-> RemoveIntent(t, w), target |-> t, seed |-> tree[at[t]].head]
  <2>1. w \in Trees
    BY <1>2 DEF Inspects
  <2>2. proc' = [proc EXCEPT ![p] = c] /\ ~IncompleteConflict(RemoveIntent(t, w))
    BY <1>2 DEF RemoveBegin
  <2>3. c.pc = "r_claim" /\ c.op = RemoveIntent(t, w) /\ c.target = t
    OBVIOUS
  <2>4. at[t] = w
    OBVIOUS
  <2> HIDE DEF c, w
  <2> QED BY <1>1, <1>2, <2>1, <2>2, <2>3, <2>4
<1>3. CASE ~Inspects(t)
  <2> DEFINE w == latest[t]
             c == [Idle EXCEPT !.pc = "r_find", !.op = RemoveIntent(t, w), !.target = t]
  <2>1. w \in Trees
    BY <1>3 DEF RemoveBegin, JournalOK
  <2>2. proc' = [proc EXCEPT ![p] = c]
    BY <1>3 DEF RemoveBegin
  <2>3. c.pc = "r_find" /\ c.op = RemoveIntent(t, w) /\ c.target = t
    BY DEF Idle
  <2>4. latest[t] = w
    OBVIOUS
  <2> HIDE DEF c, w
  <2> QED BY <1>1, <2>1, <2>2, <2>3, <2>4
<1> QED BY <1>2, <1>3

LEMMA UseBegins ==
    ASSUME Control, NEW p \in Procs, NEW t \in Targets, SessionBegin(p, t) \/ ShellBegin(p, t)
    PROVE  /\ ~Works(p)' /\ ~Works(p) /\ \A q \in Procs \ {p} : proc'[q] = proc[q]
<1>1. proc[p] = Idle
  BY DEF SessionBegin, ShellBegin
<1>2. PICK l \in {"s_list", "shell"} : proc' = [proc EXCEPT ![p] = [Idle EXCEPT !.pc = l, !.target = t]]
  BY DEF SessionBegin, ShellBegin
<1> DEFINE c == [Idle EXCEPT !.pc = l, !.target = t]
<1>3. c.pc = l
  BY DEF Idle
<1>4. proc' = [proc EXCEPT ![p] = c]
  BY <1>2
<1> HIDE DEF c
<1>5. proc'[p].pc = l /\ \A q \in Procs \ {p} : proc'[q] = proc[q]
  BY <1>3, <1>4 DEF Control, ControlOK
<1> QED BY <1>1, <1>5, WorksOn DEF Works, Adding, Removing, AddLabels, RemoveLabels

LEMMA BeginFiles ==
    ASSUME NEW p \in Procs, Begin(p)
    PROVE  UNCHANGED <<at, tree, stage, record, latest>>
BY DEF Begin, AddBegin, RemoveBegin, SessionBegin, ShellBegin, files, journal

(* A record is never taken out of the journal, and a step of a removal     *)
(* past its first has one.                                                 *)
LEMMA Recorded ==
    ASSUME Control, JournalOK, NEW p \in Procs, RemoveStep(p), PhaseAt(p)
    PROVE  record'[proc[p].op].ck # "none"
<1> DEFINE o == proc[p].op
           c == record[o].ck
           d == record'[o].ck
<1>0. Works(p) /\ Removing(proc[p]) /\ Removal(p) = o /\ o \in Ops
  BY StepWorks, WorksOn DEF Removal
<1>1. proc[p].pc # "r_claim" => c # "none"
  BY <1>0, WorksOn DEF PhaseAt, Phase
<1>2. \A ck \in Checkpoints : Checkpoint(o, ck) => d = ck
  BY <1>0, CheckpointFields
<1>3. CASE RemoveClaim(p)
  <2>1. IF c = "none" THEN Checkpoint(o, "requested") ELSE UNCHANGED journal
    BY <1>0, <1>3 DEF RemoveClaim
  <2> QED BY <1>2, <2>1 DEF Checkpoints, journal
<1>4. CASE RemoveRepository(p) \/ RemovePending(p)
  <2>1. c # "none"
    BY <1>1, <1>4 DEF RemoveRepository, RemovePending, RemoveAt
  <2> DEFINE h == proc[p].seed
             r1 == [record[o] EXCEPT !.rel = TRUE, !.head = h]
             r2 == [record[o] EXCEPT !.ck = "quarantine_pending", !.head = h]
  <2>2. UNCHANGED journal \/ Save(o, r1) \/ Save(o, r2)
    BY <1>0, <1>4 DEF RemoveRepository, RemovePending
  <2>3. r1.ck = c /\ r2.ck = "quarantine_pending"
    BY <1>0 DEF JournalOK, Record
  <2> HIDE DEF r1, r2
  <2> QED BY <1>0, <2>1, <2>2, <2>3, SaveFields DEF journal
<1>5. CASE RemoveInspect(p) \/ RemoveReconciled(p) \/ RemoveRestore(p) \/ RemoveRestored(p)
  <2>1. c # "none"
    BY <1>1, <1>5 DEF RemoveInspect, RemoveReconciled, RemoveRestore, RemoveRestored, RemoveAt
  <2>2. \/ UNCHANGED journal
        \/ \E ck \in {"remove_pending", "complete", "restore_pending", "requested"} : Checkpoint(o, ck)
    BY <1>0, <1>5 DEF RemoveInspect, RemoveReconciled, RemoveRestore, RemoveRestored
  <2> QED BY <1>2, <2>1, <2>2 DEF Checkpoints, journal
<1>6. CASE \/ RemoveFind(p) \/ RemoveLook(p) \/ RemoveSessions(p) \/ RemoveRecheck(p) \/ RemoveMark(p)
           \/ RemoveMove(p) \/ RemoveRepair(p) \/ RemoveGit(p) \/ RemoveClear(p) \/ RemoveReconcile(p)
           \/ RemoveBack(p) \/ RemoveRerepair(p) \/ RemoveUnstage(p)
  <2>1. proc[p].pc # "r_claim"
    BY <1>6 DEF RemoveFind, RemoveLook, RemoveSessions, RemoveRecheck, RemoveMark,
     RemoveMove, RemoveRepair, RemoveGit, RemoveClear, RemoveReconcile, RemoveBack, RemoveRerepair,
     RemoveUnstage, RemoveAt
  <2>2. UNCHANGED journal
    BY <1>6 DEF RemoveFind, RemoveLook, RemoveSessions, RemoveRecheck, RemoveMark,
     RemoveMove, RemoveRepair, RemoveGit, RemoveClear, RemoveReconcile, RemoveBack, RemoveRerepair,
     RemoveUnstage
  <2> QED BY <1>1, <2>1, <2>2 DEF journal
<1> QED BY <1>3, <1>4, <1>5, <1>6 DEF RemoveStep

-----------------------------------------------------------------------------
(* The stages and the journal belong together. *)

LEMMA InitStages == Init => Stages
<1> SUFFICES ASSUME Init PROVE Stages
  OBVIOUS
<1>1. \A o \in Ops : OwnedAt(o)
  BY OpFacts DEF Init, NoRecord, OwnedAt, Owned
<1>2. \A p \in Procs : PhaseAt(p)
  BY WorksOn DEF Init, PhaseAt
<1> QED BY <1>1, <1>2 DEF Init, Stages, LatestSaved

LEMMA SameViews ==
    ASSUME Control, Stages, NEW q \in Procs, proc'[q] = proc[q], PhaseAt(q),
           Works(q) => LET o == proc[q].op IN
                       at'[o] = at[o] /\ stage'[o] = stage[o] /\ record'[o] = record[o]
    PROVE  PhaseAt(q)'
BY DEF PhaseAt, Works

LEMMA StepStages ==
    ASSUME Control, FilesOK, JournalOK, Stages, NEW p \in Procs, AddStep(p) \/ RemoveStep(p)
    PROVE  Stages'
<1>1. Works(p) /\ Own(p)
  BY StepWorks, AddOwn, RemoveOwn
<1>2. proc[p].op \in Ops
  BY <1>1, WorksOn
<1>3. PICK o \in Ops : o = proc[p].op
  BY <1>2
<1>4. OwnedAt(o)' /\ PhaseAt(p)'
  BY <1>3, AddView, RemoveView DEF Stages
<1>5. ASSUME NEW x \in Ops PROVE OwnedAt(x)'
  <2>1. CASE x # o
    BY <1>1, <1>3, <2>1 DEF Own, Stages, OwnedAt
  <2> QED BY <1>4, <2>1
<1>6. ASSUME NEW q \in Procs PROVE PhaseAt(q)'
  <2>1. CASE q # p
    <3>1. proc'[q] = proc[q]
      BY <2>1, StepMoves DEF Step, Moves, Goto, Return, Control, ControlOK
    <3>2. Works(q) => proc[q].op \in Ops \ {o}
      BY <1>1, <1>3, <2>1, OneWorkerOf, WorksOn
    <3> QED BY <1>1, <1>3, <3>1, <3>2, SameViews DEF Own, Stages
  <2> QED BY <1>4, <2>1
<1>7. LatestSaved'
  <2> SUFFICES ASSUME NEW t \in Targets, latest'[t] # None
               PROVE  record'[RemoveIntent(t, latest'[t])].ck # "none"
    BY DEF LatestSaved
  <2>1. CASE latest'[t] = latest[t]
    <3>1. latest[t] \in Trees /\ RemoveIntent(t, latest[t]) \in Removes
      BY <2>1, IntentOp DEF JournalOK
    <3>2. record[RemoveIntent(t, latest[t])].ck # "none"
      BY <2>1 DEF Stages, LatestSaved
    <3>3. RemoveIntent(t, latest[t]) = o => RemoveStep(p)
      BY <1>3, <3>1, StepWorks, WorksOn, OpFacts
    <3> QED BY <1>1, <1>3, <2>1, <3>1, <3>2, <3>3, OpFacts, Recorded DEF Own, Stages
  <2>2. CASE latest'[t] # latest[t]
    <3>1. t = proc[p].target /\ Removing(proc[p]) /\ latest'[t] = proc[p].op.of
      BY <1>1, <2>2 DEF Own
    <3>2. RemoveIntent(t, latest'[t]) = proc[p].op
      BY <3>1, WorksOn DEF Works, RemoveIntent, Removes, Ops
    <3>3. RemoveStep(p)
      BY <3>1, StepWorks DEF Adding, Removing, AddLabels, RemoveLabels
    <3> QED BY <3>2, <3>3, Recorded DEF Stages
  <2> QED BY <2>1, <2>2
<1> QED BY <1>5, <1>6, <1>7 DEF Stages

(* The rest of the system does not touch them. *)
LEMMA OtherStages ==
    ASSUME Control, FilesOK, Stages, UNCHANGED <<stage, record, latest>>,
           \A x \in Ops : at'[x] = at[x],
           \A q \in Procs : PhaseAt(q)' \/ proc'[q] = proc[q]
    PROVE  Stages'
<1>1. \A x \in Ops : OwnedAt(x)'
  BY DEF Stages, OwnedAt
<1>2. \A q \in Procs : PhaseAt(q)'
  BY WorksOn, SameViews DEF Stages
<1> QED BY <1>1, <1>2 DEF Stages, LatestSaved

LEMMA BeginStages ==
    ASSUME Control, FilesOK, JournalOK, Stages, NEW p \in Procs, Begin(p)
    PROVE  Stages'
<1>1. UNCHANGED <<at, stage, record, latest>>
  BY BeginFiles
<1>2. ASSUME NEW o \in Adds, AddBegin(p, o)
      PROVE  \A q \in Procs : PhaseAt(q)' \/ proc'[q] = proc[q]
  <2>1. PhaseAt(p)'
    BY <1>2, AddBegins, AddPhaseFree DEF PhaseAt, AddLabels
  <2> QED BY <1>2, <2>1, AddBegins
<1>3. ASSUME NEW t \in Targets, RemoveBegin(p, t)
      PROVE  \A q \in Procs : PhaseAt(q)' \/ proc'[q] = proc[q]
  <2>1. PICK w \in Trees :
              /\ proc'[p].op = RemoveIntent(t, w) /\ proc'[p].target = t
              /\ RemoveIntent(t, w) \in Removes
              /\ \/ proc'[p].pc = "r_claim"
                 \/ proc'[p].pc = "r_find" /\ latest[t] = w
              /\ \A q \in Procs \ {p} : proc'[q] = proc[q]
    BY <1>3, RemoveBegins
  <2>2. proc'[p].pc = "r_find" => record[RemoveIntent(t, w)].ck # "none"
    BY <2>1, NothingThere DEF Stages, LatestSaved
  <2>3. PhaseAt(p)'
    BY <1>1, <2>1, <2>2 DEF PhaseAt, Phase, Emptied, Marked, Restoring, Advancing
  <2> QED BY <2>1, <2>3
<1>4. ASSUME NEW t \in Targets, SessionBegin(p, t) \/ ShellBegin(p, t)
      PROVE  \A q \in Procs : PhaseAt(q)' \/ proc'[q] = proc[q]
  BY <1>4, UseBegins DEF PhaseAt
<1>5. \A q \in Procs : PhaseAt(q)' \/ proc'[q] = proc[q]
  BY <1>2, <1>3, <1>4 DEF Begin
<1> QED BY <1>1, <1>5, OtherStages

(* People act on targets, not on what lies in a stage.                     *)
LEMMA PeopleStay == ASSUME FilesOK, People PROVE \A x \in Ops : at'[x] = at[x]
<1>1. ASSUME NEW w \in Trees, NEW d \in {"ignored", "modified"}, Edit(w, d) \/ MoveHead(w)
      PROVE  UNCHANGED at
  BY <1>1 DEF Edit, MoveHead
<1>2. ASSUME NEW t \in Targets,
             Delete(t) \/ Occupy(t) \/ GitRemove(t) \/ \E ref \in Refs : GitAdd(t, ref)
      PROVE  \E v : at' = [at EXCEPT ![t] = v]
  BY <1>2 DEF Delete, Occupy, GitRemove, GitAdd
<1>3. ASSUME NEW t \in Targets, NEW v, at' = [at EXCEPT ![t] = v] PROVE \A x \in Ops : at'[x] = at[x]
  BY <1>3, OpFacts DEF FilesOK
<1> QED BY <1>1, <1>2, <1>3 DEF People

(* What people, Git, tmux and returning commands leave of the stages, the  *)
(* journal and the commands.                                               *)
Elsewhere ==
    /\ UNCHANGED <<stage, record, latest>>
    /\ \A x \in Ops : at'[x] = at[x]
    /\ \A q \in Procs : ~Works(q)' \/ proc'[q] = proc[q]

LEMMA ElsewhereSteps ==
    ASSUME Core, [Next]_vars
    PROVE  \/ \E p \in Procs : Begin(p) \/ AddStep(p) \/ RemoveStep(p)
           \/ Elsewhere
<1>0. Control /\ FilesOK /\ JournalOK /\ SessionOK /\ acts \in 0..MaxActs
  BY CoreParts
<1>1. ASSUME NEW p \in Procs, SessionList(p) \/ SessionCreate(p) PROVE Elsewhere
  <2>1. UNCHANGED <<at, stage, record, latest>>
    BY <1>1 DEF SessionList, SessionCreate, files, journal
  <2>2. \A q \in Procs \ {p} : proc'[q] = proc[q]
    BY <1>0, <1>1, StepMoves DEF Step, Moves, Goto, Return, Control, ControlOK
  <2>3. ~Works(p)'
    <3>1. Goto(p, "s_create") => proc'[p].pc = "s_create"
      BY <1>0 DEF Goto, Control, ControlOK, Command
    <3>2. Goto(p, "s_create") => ~Works(p)'
      BY <3>1 DEF Works, Adding, Removing, AddLabels, RemoveLabels
    <3> QED BY <1>0, <1>1, <3>2, WorkerReturns DEF SessionList, SessionCreate
  <2> QED BY <2>1, <2>2, <2>3 DEF Elsewhere
<1>2. ASSUME NEW p \in Procs, Interrupt(p) PROVE Elsewhere
  BY <1>0, <1>2, WorkerReturns DEF Interrupt, Elsewhere, files, journal
<1>3. CASE Prune \/ Tmux \/ UNCHANGED vars
  BY <1>3 DEF Prune, Tmux, SessionEnd, SessionLeaves, vars, files, journal, Elsewhere
<1>4. CASE People
  <2>1. UNCHANGED <<stage, journal, proc>>
    BY <1>0, <1>4, PeopleFiles
  <2>2. \A x \in Ops : at'[x] = at[x]
    BY <1>0, <1>4, PeopleStay
  <2> QED BY <2>1, <2>2 DEF journal, Elsewhere
<1> QED BY <1>1, <1>2, <1>3, <1>4 DEF Next, Schooner, Step

LEMMA NextStages == Core /\ Stages /\ [Next]_vars => Stages'
<1> SUFFICES ASSUME Core, Stages, [Next]_vars PROVE Stages'
  OBVIOUS
<1>0. Control /\ FilesOK /\ JournalOK
  BY CoreParts
<1>1. ASSUME Elsewhere PROVE Stages'
  BY <1>0, <1>1, OtherStages DEF Elsewhere, PhaseAt
<1> QED BY <1>0, <1>1, BeginStages, StepStages, ElsewhereSteps

LEMMA StagesInductive == Spec => [](Core /\ Sessions /\ Stages)
BY Inductive, InitStages, NextStages, PTL DEF Spec

(* A checkout in a staging path carries the marker of its operation, and   *)
(* the journal says what was being done there, wherever a command stopped  *)
(* and whatever people did: the next invocation can find it.               *)
THEOREM StagedOwned == Spec => []StagedIsOwned
<1>1. Stages => StagedIsOwned
  BY OpFacts DEF Stages, OwnedAt, Owned, StagedIsOwned, StagedByAdd, StagedByRemove, Adds, Removes, Ops
<1> QED BY StagesInductive, <1>1, PTL

-----------------------------------------------------------------------------
(* One operation at a time on a path and a lock. *)

Reporting == {"r_find", "r_reconcile", "r_reconciled"}

LEMMA InitRivals == Init => Rivals
<1> SUFFICES ASSUME Init PROVE Rivals
  OBVIOUS
<1>1. \A o \in Ops : ~Incomplete(o)
  BY DEF Init, NoRecord, Incomplete
<1>2. \A p \in Procs : ~Works(p)
  BY WorksOn DEF Init
<1> QED BY <1>1, <1>2 DEF Rivals, OneAtATime, Unrivalled

LEMMA TogetherFacts ==
    ASSUME NEW o1 \in Ops, NEW o2 \in Ops
    PROVE  Together(o1, o2) <=> Together(o2, o1)
BY DEF Together

(* What a step of a command that found nothing to do leaves unfinished.    *)
LEMMA StaysQuiet ==
    ASSUME Control, FilesOK, JournalOK, NEW p \in Procs, AddStep(p) \/ RemoveStep(p),
           NEW o \in Ops, o = proc[p].op, proc[p].pc \in Reporting, ~Incomplete(o), at[o] = None
    PROVE  /\ ~Incomplete(o)'
           /\ Works(p)' => proc'[p].op = o /\ proc'[p].pc \in Reporting /\ at'[o] = None
<1>1. RemoveStep(p) /\ Works(p) /\ Removal(p) = o
  BY StepWorks DEF Adding, AddLabels, Reporting, Removal
<1>2. \A ck \in Checkpoints : Checkpoint(o, ck) => record'[o].ck = ck
  BY CheckpointFields
<1>3. RemoveFind(p) \/ RemoveReconcile(p) \/ RemoveReconciled(p)
  BY <1>1 DEF RemoveStep, RemoveAt, Reporting, RemoveClaim, RemoveRepository, RemoveLook,
     RemoveSessions, RemoveRecheck, RemoveMark, RemovePending, RemoveMove, RemoveRepair, RemoveInspect,
     RemoveGit, RemoveClear, RemoveRestore, RemoveBack,
     RemoveRerepair, RemoveUnstage, RemoveRestored
<1>4. at'[o] = None
  BY <1>3 DEF RemoveFind, RemoveReconcile, RemoveReconciled, files
<1>5. ~Incomplete(o)'
  <2>1. UNCHANGED journal \/ Checkpoint(o, "complete")
    BY <1>1, <1>3 DEF RemoveFind, RemoveReconcile, RemoveReconciled
  <2> QED BY <1>2, <2>1 DEF Checkpoints, journal, Incomplete
<1>6. Return(p) \/ \E l \in {"r_reconcile", "r_reconciled"} : Goto(p, l)
  BY <1>1, <1>3 DEF RemoveFind, RemoveReconcile, RemoveReconciled, Incomplete
<1>7. \A l \in {"r_reconcile", "r_reconciled"} : l \in IF Adding(proc[p]) THEN AddLabels ELSE RemoveLabels
  BY DEF Adding, AddLabels, RemoveLabels, Reporting
<1> QED BY <1>1, <1>4, <1>5, <1>6, <1>7, WorkerGoes, WorkerReturns DEF Reporting

LEMMA StepRivals ==
    ASSUME Control, FilesOK, JournalOK, Rivals, NEW p \in Procs, AddStep(p) \/ RemoveStep(p)
    PROVE  Rivals'
<1>1. Works(p) /\ Own(p)
  BY StepWorks, AddOwn, RemoveOwn
<1>2. proc[p].op \in Ops
  BY <1>1, WorksOn
<1>3. PICK o \in Ops : o = proc[p].op
  BY <1>2
<1>4. \A x \in Ops \ {o} : record'[x] = record[x] /\ at'[x] = at[x]
  BY <1>1, <1>3 DEF Own
<1>5. \A x \in Ops \ {o} : Incomplete(x)' <=> Incomplete(x)
  BY <1>4 DEF Incomplete
<1>6. NoRival(o) => NoRival(o)'
  BY <1>5 DEF NoRival
<1>7. Incomplete(o) => NoRival(o)
  BY DEF Rivals, OneAtATime, NoRival
<1>8. \/ NoRival(o)'
      \/ /\ ~Incomplete(o)'
         /\ Works(p)' => proc'[p].op = o /\ proc'[p].pc \in Reporting /\ at'[o] = None
  <2>1. CASE NoRival(o)
    BY <1>6, <2>1
  <2>2. CASE ~NoRival(o)
    <3>1. ~Incomplete(o) /\ proc[p].pc \in Reporting /\ at[o] = None
      BY <1>1, <1>3, <1>7, <2>2 DEF Rivals, Unrivalled, Reporting
    <3> QED BY <1>3, <3>1, StaysQuiet
  <2> QED BY <2>1, <2>2
<1>9. OneAtATime'
  <2> SUFFICES ASSUME NEW o1 \in Ops, NEW o2 \in Ops, Together(o1, o2), Incomplete(o1)', Incomplete(o2)', o1 # o2
               PROVE  FALSE
    BY DEF OneAtATime, Together
  <2>1. CASE o1 # o /\ o2 # o
    BY <1>5, <2>1 DEF Rivals, OneAtATime
  <2>2. CASE o1 = o
    BY <1>8, <2>2 DEF NoRival
  <2>3. CASE o2 = o
    BY <1>8, <2>3, TogetherFacts DEF NoRival
  <2> QED BY <2>1, <2>2, <2>3
<1>10. ASSUME NEW q \in Procs PROVE Unrivalled(q)'
  <2>1. CASE q = p
    <3>1. Works(p)' => proc'[p].op = o
      BY <1>1, <1>3, StepMoves, GotoCommand, WorkerReturns DEF Step, Moves
    <3> QED BY <1>8, <2>1, <3>1 DEF Unrivalled, Reporting
  <2>2. CASE q # p
    <3>1. proc'[q] = proc[q]
      BY <2>2, StepMoves DEF Step, Moves, Goto, Return, Control, ControlOK
    <3> SUFFICES ASSUME Works(q) PROVE Unrivalled(q)'
      BY <3>1 DEF Unrivalled, Works
    <3>2. proc[q].op \in Ops /\ ~Together(proc[q].op, o)
      BY <1>1, <1>3, <2>2, OneWorker, WorksOn, TogetherFacts
    <3>3. proc[q].op # o
      BY <3>2 DEF Together
    <3>4. PICK x \in Ops : x = proc[q].op
      BY <3>2
    <3>5. NoRival(x) => NoRival(x)'
      BY <1>5, <3>2, <3>4 DEF NoRival
    <3> QED BY <1>4, <1>5, <3>1, <3>3, <3>4, <3>5 DEF Rivals, Unrivalled
  <2> QED BY <2>1, <2>2
<1> QED BY <1>9, <1>10 DEF Rivals

LEMMA OtherRivals ==
    ASSUME Control, Rivals, UNCHANGED record, \A x \in Ops : at'[x] = at[x],
           \A q \in Procs : Unrivalled(q)' \/ proc'[q] = proc[q]
    PROVE  Rivals'
<1>1. \A x \in Ops : (Incomplete(x)' <=> Incomplete(x)) /\ (NoRival(x)' <=> NoRival(x))
  BY DEF Incomplete, NoRival
<1>2. OneAtATime'
  BY <1>1 DEF Rivals, OneAtATime
<1>3. ASSUME NEW q \in Procs, proc'[q] = proc[q] PROVE Unrivalled(q)'
  <2> SUFFICES ASSUME Works(q) PROVE Unrivalled(q)'
    BY <1>3 DEF Unrivalled, Works
  <2>1. PICK x \in Ops : x = proc[q].op
    BY WorksOn
  <2> QED BY <1>1, <1>3, <2>1 DEF Rivals, Unrivalled
<1> QED BY <1>2, <1>3 DEF Rivals

LEMMA BeginRivals ==
    ASSUME Control, FilesOK, JournalOK, Stages, Rivals, NEW p \in Procs, Begin(p)
    PROVE  Rivals'
<1>1. UNCHANGED <<at, record>>
  BY BeginFiles
<1>2. ASSUME NEW o \in Ops, ~IncompleteConflict(o), proc'[p].op = o
      PROVE  Unrivalled(p)'
  <2>1. NoRival(o)'
    BY <1>1, <1>2 DEF IncompleteConflict, NoRival, Together, Incomplete
  <2> QED BY <1>2, <2>1 DEF Unrivalled
<1>3. ASSUME NEW o \in Adds, AddBegin(p, o)
      PROVE  \A q \in Procs : Unrivalled(q)' \/ proc'[q] = proc[q]
  <2>1. ~IncompleteConflict(o) /\ o \in Ops
    BY <1>3, OpFacts DEF AddBegin
  <2> QED BY <1>2, <1>3, <2>1, AddBegins
<1>4. ASSUME NEW t \in Targets, RemoveBegin(p, t)
      PROVE  \A q \in Procs : Unrivalled(q)' \/ proc'[q] = proc[q]
  <2>1. PICK w \in Trees :
              /\ proc'[p].op = RemoveIntent(t, w)
              /\ RemoveIntent(t, w) \in Removes
              /\ \/ ~IncompleteConflict(RemoveIntent(t, w))
                 \/ proc'[p].pc = "r_find" /\ latest[t] = w
              /\ \A q \in Procs \ {p} : proc'[q] = proc[q]
    BY <1>4, RemoveBegins
  <2>2. PICK o \in Removes : o = RemoveIntent(t, w)
    BY <2>1
  <2>3. o \in Ops /\ o.kind = "remove"
    BY OpFacts
  <2>4. CASE proc'[p].pc = "r_find"
    <3>1. Incomplete(o) \/ at[o] = None
      BY <2>3 DEF Stages, OwnedAt, Owned, StagedByRemove, Incomplete
    <3> QED BY <1>1, <2>1, <2>2, <2>4, <3>1 DEF Unrivalled, Incomplete
  <2>5. CASE ~IncompleteConflict(o)
    BY <1>2, <2>1, <2>2, <2>3, <2>5
  <2> QED BY <2>1, <2>2, <2>4, <2>5
<1>5. ASSUME NEW t \in Targets, SessionBegin(p, t) \/ ShellBegin(p, t)
      PROVE  \A q \in Procs : Unrivalled(q)' \/ proc'[q] = proc[q]
  BY <1>5, UseBegins DEF Unrivalled
<1>6. \A q \in Procs : Unrivalled(q)' \/ proc'[q] = proc[q]
  BY <1>3, <1>4, <1>5 DEF Begin
<1> QED BY <1>1, <1>6, OtherRivals

LEMMA NextRivals == Core /\ Stages /\ Rivals /\ [Next]_vars => Rivals'
<1> SUFFICES ASSUME Core, Stages, Rivals, [Next]_vars PROVE Rivals'
  OBVIOUS
<1>0. Control /\ FilesOK /\ JournalOK
  BY CoreParts
<1>1. ASSUME NEW p \in Procs, Begin(p) PROVE Rivals'
  BY <1>0, <1>1, BeginRivals
<1>2. ASSUME NEW p \in Procs, AddStep(p) \/ RemoveStep(p) PROVE Rivals'
  BY <1>0, <1>2, StepRivals
<1>3. CASE Elsewhere
  BY <1>0, <1>3, OtherRivals DEF Elsewhere, Unrivalled
<1> QED BY <1>1, <1>2, <1>3, ElsewhereSteps

LEMMA RivalsInductive == Spec => [](Core /\ Sessions /\ Stages /\ Rivals)
BY StagesInductive, InitCore, NextCore, InitRivals, NextRivals, InitStages, NextStages, PTL DEF Spec

(* When the journal lies beside the locks, the scan for an unfinished      *)
(* operation and the save of a new record are never separated: no two      *)
(* operations on a path are unfinished together, however many commands,    *)
(* paths and references there are.                                         *)
THEOREM OneIncomplete == ASSUME SharedState PROVE Spec => []OneIncompletePerTarget
<1>1. Rivals => OneIncompletePerTarget
  BY DEF Rivals, OneAtATime, Together, OneIncompletePerTarget
<1> QED BY RivalsInductive, <1>1, PTL

-----------------------------------------------------------------------------
(* What a step does to registrations. *)

RegStep(w) ==
    \/ tree'[w].reg = tree[w].reg
    \/ /\ tree'[w].reg = None
       /\ tree[w].reg \in Adds \/ at[tree[w].reg] # w \/ at'[tree[w].reg] # w
    \/ /\ tree[w].reg # None /\ UNCHANGED <<at, record>>
       /\ \E x \in Paths : at[x] = w /\ tree'[w].reg = x
    \/ tree[w].ref = None /\ tree'[w].reg \in Adds \cup Targets

Regs == \A w \in Trees : RegStep(w)

LEMMA SameRegs == ASSUME UNCHANGED tree PROVE Regs
BY DEF Regs, RegStep

LEMMA GoneReg == ASSUME FilesOK, NEW w \in Trees PROVE Gone(w).reg = None
BY DEF FilesOK, Gone, Tree

LEMMA RepairRegs ==
    ASSUME FilesOK, NEW x \in Paths, CanRepair(x), Repair(x), UNCHANGED <<at, record>>
    PROVE  Regs
<1>1. at[x] \in Trees /\ tree[at[x]].reg # None
  BY DEF CanRepair
<1>2. \A w \in Trees : tree'[w].reg = IF w = at[x] THEN x ELSE tree[w].reg
  BY <1>1 DEF Repair, FilesOK, Tree
<1> QED BY <1>1, <1>2 DEF Regs, RegStep

LEMMA AddRegs ==
    ASSUME Control, FilesOK, NEW p \in Procs, AddStep(p)
    PROVE  Regs
<1>0. Op(p) \in Adds /\ Op(p) \in Paths /\ Op(p).target \in Paths
  BY StepWorks, WorksOn DEF Op
<1>1. CASE \/ AddClaim(p) \/ AddRepository(p) \/ AddRecognise(p) \/ AddConflict(p) \/ AddObstructed(p)
           \/ AddFound(p) \/ AddTidy(p) \/ AddAbsent(p) \/ AddMark(p) \/ AddPending(p) \/ AddFinished(p)
           \/ AddStaged(p) \/ AddMove(p) \/ AddCheck(p) \/ AddDone(p)
  <2>1. UNCHANGED tree
    BY <1>1 DEF files, AddClaim, AddRepository, AddRecognise, AddConflict, AddObstructed,
     AddFound, AddTidy, AddAbsent, AddMark, AddPending, AddFinished, AddStaged, AddMove, AddCheck, AddDone
  <2> QED BY <2>1, SameRegs
<1>2. CASE AddRepair(p) \/ AddFix(p)
  <2>1. /\ UNCHANGED <<at, record>>
        /\ UNCHANGED tree \/ (CanRepair(Op(p).target) /\ Repair(Op(p).target))
    BY <1>2 DEF AddRepair, AddFix, journal
  <2> QED BY <1>0, <2>1, SameRegs, RepairRegs
<1>3. CASE AddStage(p)
  <2>1. \A w \in Trees : tree'[w] = tree[w] \/ (tree[w].reg = Op(p) /\ tree'[w] = Gone(w))
    BY <1>3 DEF AddStage, files
  <2> QED BY <1>0, <2>1, GoneReg DEF Regs, RegStep
<1>4. CASE AddGit(p)
  <2>1. PICK w \in Trees : NextTree(w) /\ tree' = [tree EXCEPT ![w] = Fresh(Op(p), Op(p).of, TRUE)]
    BY <1>4 DEF AddGit
  <2>2. tree[w].ref = None /\ tree'[w].reg = Op(p) /\ \A v \in Trees \ {w} : tree'[v] = tree[v]
    BY <2>1 DEF NextTree, Fresh, FilesOK
  <2> QED BY <1>0, <2>2 DEF Regs, RegStep
<1>5. CASE AddUnlock(p)
  <2>1. \A w \in Trees : tree'[w].reg = tree[w].reg
    BY <1>5 DEF AddUnlock, FilesOK, Tree
  <2> QED BY <2>1 DEF Regs, RegStep
<1> QED BY <1>1, <1>2, <1>3, <1>4, <1>5 DEF AddStep

LEMMA RemoveRegs ==
    ASSUME Control, FilesOK, OnePathPerTree, NEW p \in Procs, RemoveStep(p)
    PROVE  Regs
<1>0. Removal(p) \in Ops /\ Removal(p) \in Paths /\ Removal(p).target \in Paths
  BY StepWorks, WorksOn DEF Removal
<1>1. CASE \/ RemoveClaim(p) \/ RemoveRepository(p) \/ RemoveFind(p) \/ RemoveLook(p) \/ RemoveSessions(p)
           \/ RemoveRecheck(p) \/ RemoveMark(p) \/ RemovePending(p) \/ RemoveMove(p) \/ RemoveInspect(p)
           \/ RemoveClear(p) \/ RemoveReconcile(p) \/ RemoveReconciled(p) \/ RemoveRestore(p)
           \/ RemoveBack(p) \/ RemoveUnstage(p) \/ RemoveRestored(p)
  <2>1. UNCHANGED tree
    BY <1>1 DEF files, RemoveClaim, RemoveRepository, RemoveFind, RemoveLook, RemoveSessions, RemoveRecheck,
     RemoveMark, RemovePending, RemoveMove, RemoveInspect, RemoveClear, RemoveReconcile, RemoveReconciled,
     RemoveRestore, RemoveBack, RemoveUnstage, RemoveRestored
  <2> QED BY <2>1, SameRegs
<1>2. CASE RemoveRepair(p) \/ RemoveRerepair(p)
  <2>1. /\ UNCHANGED <<at, record>>
        /\ \/ UNCHANGED tree
           \/ \E x \in {Removal(p), Removal(p).target} : CanRepair(x) /\ Repair(x)
    BY <1>2 DEF RemoveRepair, RemoveRerepair, journal
  <2> QED BY <1>0, <2>1, SameRegs, RepairRegs
<1>3. CASE RemoveGit(p)
  <2> DEFINE o == Removal(p)
  <2>1. \/ UNCHANGED tree
        \/ /\ at[o] \in Trees /\ at' = [at EXCEPT ![o] = None]
           /\ tree' = [tree EXCEPT ![at[o]] = Gone(at[o])]
    BY <1>3 DEF RemoveGit
  <2>2. CASE UNCHANGED tree
    BY <2>2, SameRegs
  <2>3. CASE /\ at[o] \in Trees /\ at' = [at EXCEPT ![o] = None]
             /\ tree' = [tree EXCEPT ![at[o]] = Gone(at[o])]
    <3>1. \A w \in Trees \ {at[o]} : tree'[w] = tree[w]
      BY <2>3 DEF FilesOK
    <3>2. tree'[at[o]].reg = None
      BY <2>3, GoneReg DEF FilesOK
    <3>3. at'[o] = None /\ at[o] # None
      BY <1>0, <2>3, NothingThere DEF FilesOK
    <3>4. tree[at[o]].reg \in Paths \cup {None}
      BY <2>3 DEF FilesOK, Tree
    <3>5. tree[at[o]].reg \in Paths \ {o} => at[tree[at[o]].reg] # at[o]
      BY <1>0, <2>3 DEF OnePathPerTree
    <3>6. RegStep(at[o])
      BY <3>2, <3>3, <3>4, <3>5 DEF RegStep
    <3> QED BY <3>1, <3>6 DEF Regs, RegStep
  <2> QED BY <2>1, <2>2, <2>3
<1> QED BY <1>1, <1>2, <1>3 DEF RemoveStep

LEMMA PruneRegs == ASSUME FilesOK, Prune PROVE Regs
<1>1. \A w \in Trees :
        tree'[w] = tree[w] \/ (tree[w].reg # None /\ at[tree[w].reg] \notin Trees /\ tree'[w] = Gone(w))
  BY DEF Prune
<1> QED BY <1>1, GoneReg DEF Regs, RegStep

LEMMA PeopleRegs == ASSUME FilesOK, People PROVE Regs
<1>1. ASSUME NEW w \in Trees, NEW d \in {"ignored", "modified"}, Edit(w, d) \/ MoveHead(w) PROVE Regs
  <2>1. \A v \in Trees : tree'[v].reg = tree[v].reg
    BY <1>1 DEF Edit, MoveHead, FilesOK, Tree
  <2> QED BY <2>1 DEF Regs, RegStep
<1>2. ASSUME NEW t \in Targets, Delete(t) \/ Occupy(t) PROVE Regs
  BY <1>2, SameRegs DEF Delete, Occupy
<1>3. ASSUME NEW t \in Targets, GitRemove(t) PROVE Regs
  <2>1. at[t] \in Trees /\ tree[at[t]].reg = t /\ t \in Paths
    BY <1>3, OpFacts DEF GitRemove, Inspects
  <2>2. at'[t] = None /\ at[t] # None
    BY <1>3, <2>1, NothingThere DEF GitRemove, FilesOK
  <2>3. \A w \in Trees \ {at[t]} : tree'[w] = tree[w]
    BY <1>3 DEF GitRemove, FilesOK
  <2>4. tree'[at[t]].reg = None
    BY <1>3, <2>1, GoneReg DEF GitRemove, FilesOK
  <2> QED BY <2>1, <2>2, <2>3, <2>4 DEF Regs, RegStep
<1>4. ASSUME NEW t \in Targets, NEW ref \in Refs, GitAdd(t, ref) PROVE Regs
  <2>1. PICK w \in Trees : NextTree(w) /\ tree' = [tree EXCEPT ![w] = Fresh(t, ref, FALSE)]
    BY <1>4 DEF GitAdd
  <2>2. tree[w].ref = None /\ tree'[w].reg = t /\ \A v \in Trees \ {w} : tree'[v] = tree[v]
    BY <2>1 DEF NextTree, Fresh, FilesOK
  <2> QED BY <2>2 DEF Regs, RegStep
<1> QED BY <1>1, <1>2, <1>3, <1>4 DEF People

(* The shape of every step on the paths and the trees.                     *)
Moved(p) == Promotes(p) \/ Quarantines(p) \/ Restores(p)

Shape ==
    /\ RefsStay /\ Regs
    /\ \/ Empties
       \/ \E x \in Paths : Creates(x)
       \/ \E p \in Procs : Moved(p) /\ UNCHANGED <<tree, record>>

LEMMA PeopleShape == ASSUME FilesOK, People PROVE Shape
<1>1. ASSUME NEW w \in Trees, NEW d \in {"ignored", "modified"}, Edit(w, d) \/ MoveHead(w)
      PROVE  RefsStay /\ Empties
  BY <1>1 DEF Edit, MoveHead, RefsStay, Empties, FilesOK, Tree
<1>2. ASSUME NEW t \in Targets, Delete(t) \/ Occupy(t)
      PROVE  RefsStay /\ Empties
  BY <1>2, OpFacts DEF Delete, Occupy, RefsStay, Empties, FilesOK
<1>3. ASSUME NEW t \in Targets, GitRemove(t)
      PROVE  RefsStay /\ Empties
  BY <1>3, OpFacts, GoneShape DEF GitRemove, Inspects, RefsStay, Empties, FilesOK
<1>4. ASSUME NEW t \in Targets, NEW ref \in Refs, GitAdd(t, ref)
      PROVE  RefsStay /\ Creates(t) /\ t \in Paths
  <2>1. PICK w \in Trees : /\ NextTree(w) /\ at' = [at EXCEPT ![t] = w]
                           /\ tree' = [tree EXCEPT ![w] = Fresh(t, ref, FALSE)]
    BY <1>4 DEF GitAdd
  <2>2. tree[w].ref = None /\ tree'[w].ref # None
    BY <2>1, NothingThere DEF NextTree, Fresh, FilesOK
  <2> QED BY <2>1, <2>2, OpFacts DEF RefsStay, Creates, FilesOK
<1> QED BY <1>1, <1>2, <1>3, <1>4, PeopleRegs DEF People, Shape

LEMMA StepShape ==
    ASSUME Control, FilesOK, JournalOK, OnePathPerTree, NEW p \in Procs, AddStep(p) \/ RemoveStep(p)
    PROVE  Shape
<1>1. Reshapes(p) /\ Regs
  BY AddShape, RemoveShape, AddRegs, RemoveRegs
<1>2. Moved(p) => UNCHANGED <<tree, record>>
  <2> SUFFICES ASSUME Moved(p) PROVE UNCHANGED <<tree, record>>
    OBVIOUS
  <2>1. Works(p) /\ at'[proc[p].op] # at[proc[p].op]
    BY MoveFields, WorksOn DEF Moved, Promotes, Quarantines, Restores, Works
  <2>2. at'[proc[p].target] # at[proc[p].target]
    BY <2>1, MoveFields, WorksOn DEF Moved, Promotes, Quarantines, Restores
  <2>3. proc[p].target = Op(p).target /\ proc[p].op = Op(p) /\ proc[p].op = Removal(p) /\ Op(p) \in Ops
    BY <2>1, WorksOn DEF Op, Removal
  <2>4. proc[p].target \in Paths \ Ops
    BY <2>1, WorksOn, OpFacts
  <2>5. ~Clear(Op(p))
    BY <2>2, <2>3, <2>4, ClearFields
  <2>6. ~(AddStep(p) /\ ~AddMove(p))
    <3>1. ASSUME NEW v, at' = [at EXCEPT ![Op(p)] = v] PROVE FALSE
      BY <2>2, <2>3, <2>4, <3>1 DEF FilesOK
    <3>2. at' # at
      BY <2>2
    <3>3. AddStep(p) /\ ~AddMove(p) => UNCHANGED at \/ Clear(Op(p)) \/ \E v : at' = [at EXCEPT ![Op(p)] = v]
      BY DEF AddStep, files, AddClaim, AddRepository, AddRecognise, AddConflict, AddObstructed,
     AddRepair, AddFound, AddTidy, AddAbsent, AddStage, AddMark, AddPending, AddGit, AddFinished,
     AddStaged, AddUnlock, AddFix, AddCheck, AddDone
    <3> QED BY <2>5, <3>1, <3>2, <3>3
  <2>7. ~(RemoveStep(p) /\ ~RemoveMove(p) /\ ~RemoveBack(p))
    <3>1. ASSUME NEW v, at' = [at EXCEPT ![Removal(p)] = v] PROVE FALSE
      BY <2>2, <2>3, <2>4, <3>1 DEF FilesOK
    <3>2. at' # at
      BY <2>2
    <3>3. RemoveStep(p) /\ ~RemoveMove(p) /\ ~RemoveBack(p)
            => UNCHANGED at \/ Clear(Removal(p)) \/ \E v : at' = [at EXCEPT ![Removal(p)] = v]
      BY DEF RemoveStep, files, RemoveClaim, RemoveRepository, RemoveFind, RemoveLook, RemoveSessions,
     RemoveRecheck, RemoveMark, RemovePending, RemoveRepair, RemoveInspect,
     RemoveGit, RemoveClear, RemoveReconcile, RemoveReconciled, RemoveRestore,
     RemoveRerepair, RemoveUnstage, RemoveRestored
    <3> QED BY <2>3, <2>5, <3>1, <3>2, <3>3
  <2> QED BY <2>6, <2>7 DEF AddMove, RemoveMove, RemoveBack, journal
<1>3. Erases => Empties
  BY DEF Erases, Empties
<1> QED BY <1>1, <1>2, <1>3, OpFacts DEF Reshapes, Shape, Moved

LEMMA NextShape ==
    ASSUME Core, Sessions, [Next]_vars
    PROVE  Shape
<1>0. Control /\ FilesOK /\ JournalOK /\ OnePathPerTree
  BY CoreParts DEF Sessions, Panes
<1>1. ASSUME UNCHANGED <<at, tree>> PROVE Shape
  BY <1>1, SameRegs DEF Shape, RefsStay, Empties
<1>2. ASSUME NEW p \in Procs, Begin(p) PROVE Shape
  BY <1>1, <1>2, BeginFiles
<1>3. ASSUME NEW p \in Procs, Step(p) PROVE Shape
  <2>1. SessionList(p) \/ SessionCreate(p) => UNCHANGED <<at, tree>>
    BY DEF SessionList, SessionCreate, files
  <2> QED BY <1>0, <1>1, <1>3, <2>1, StepShape DEF Step
<1>4. CASE Prune
  <2>1. UNCHANGED at /\ RefsStay
    BY <1>0, <1>4, GoneShape DEF Prune, RefsStay, FilesOK
  <2> QED BY <1>0, <1>4, <2>1, PruneRegs DEF Shape, Empties
<1>5. CASE People
  BY <1>0, <1>5, PeopleShape
<1>6. CASE Tmux \/ UNCHANGED vars \/ \E p \in Procs : Interrupt(p)
  BY <1>1, <1>6 DEF Tmux, SessionEnd, SessionLeaves, vars, files, Interrupt
<1> QED BY <1>2, <1>3, <1>4, <1>5, <1>6 DEF Next, Schooner

-----------------------------------------------------------------------------
(* A tree that a removal was asked for stays at home. *)

LEMMA HomeStays ==
    ASSUME Core, Sessions, Shape, NEW o \in Removes, Home(o.of, o.target)
    PROVE  Home(o.of, o.target)'
<1> DEFINE w == o.of
           t == o.target
<1>0. Control /\ FilesOK /\ OnePathPerTree /\ Born
  BY CoreParts DEF Sessions, Panes
<1>1. w \in Trees /\ t \in Targets /\ t \in Paths /\ t \notin Adds /\ t \notin Removes
  BY OpFacts
<1>2. tree[w].ref # None /\ tree'[w].ref # None
  BY <1>1 DEF Home, Shape, RefsStay
<1>3. \A x \in Paths : at[x] = w => x = t \/ Quarantine(x, t)
  BY DEF Home
<1>4. ASSUME NEW x \in Paths, at'[x] = w PROVE x = t \/ Quarantine(x, t)
  <2>1. CASE Empties
    BY <1>1, <1>3, <1>4, <2>1, NothingThere DEF Empties
  <2>2. CASE \E y \in Paths : Creates(y)
    <3>1. PICK y \in Paths, v \in Trees : tree[v].ref = None /\ at' = [at EXCEPT ![y] = v]
      BY <2>2 DEF Creates
    <3> QED BY <1>0, <1>2, <1>3, <1>4, <3>1 DEF FilesOK
  <2>3. CASE \E p \in Procs : Moved(p)
    <3>1. PICK p \in Procs : Moved(p)
      BY <2>3
    <3>2. Works(p) /\ proc[p].op \in Paths /\ proc[p].target \in Paths /\ proc[p].target = proc[p].op.target
      BY <3>1, WorksOn DEF Moved, Promotes, Quarantines, Restores, Works
    <3>3. CASE at[x] = w
      BY <1>3, <3>3
    <3>4. CASE at[x] # w
      <4>1. CASE Promotes(p)
        <5>1. x = proc[p].target /\ at[proc[p].op] = w
          BY <1>0, <1>1, <1>4, <3>2, <3>4, <4>1, MoveFields, NothingThere DEF Promotes
        <5>2. proc[p].op \in Adds
          BY <4>1 DEF Promotes, Adding
        <5> QED BY <1>1, <1>3, <3>2, <5>1, <5>2, OpFacts DEF Quarantine
      <4>2. CASE Quarantines(p)
        <5>1. x = proc[p].op /\ at[proc[p].target] = w
          BY <1>0, <1>1, <1>4, <3>2, <3>4, <4>2, MoveFields, NothingThere DEF Quarantines
        <5>2. proc[p].op \in Removes /\ proc[p].target \in Targets
          BY <3>2, <4>2, OpFacts DEF Quarantines, Removing
        <5>3. proc[p].target = t
          BY <1>3, <3>2, <5>1, <5>2, OpFacts DEF Quarantine
        <5> QED BY <3>2, <5>1, <5>2, <5>3 DEF Quarantine
      <4>3. CASE Restores(p)
        <5>1. x = proc[p].target /\ at[proc[p].op] = w
          BY <1>0, <1>1, <1>4, <3>2, <3>4, <4>3, MoveFields, NothingThere DEF Restores
        <5>2. proc[p].op \in Removes
          BY <4>3 DEF Restores, Removing
        <5>3. proc[p].op # t
          BY <1>1, <5>2
        <5> QED BY <1>3, <3>2, <5>1, <5>3 DEF Quarantine
      <4> QED BY <3>1, <4>1, <4>2, <4>3 DEF Moved
    <3> QED BY <3>3, <3>4
  <2> QED BY <2>1, <2>2, <2>3 DEF Shape
<1>5. tree'[w].reg \in Paths => tree'[w].reg = t \/ Quarantine(tree'[w].reg, t)
  <2>1. RegStep(w)
    BY <1>1 DEF Shape, Regs
  <2>2. tree[w].reg \in Paths => tree[w].reg = t \/ Quarantine(tree[w].reg, t)
    BY DEF Home
  <2> QED BY <1>2, <1>3, <2>1, <2>2, NothingThere DEF RegStep
<1> HIDE DEF w, t
<1>6. tree'[w].ref # None /\ \A x \in Paths : at'[x] = w => x = t \/ Quarantine(x, t)
  BY <1>2, <1>4
<1> QED BY <1>5, <1>6 DEF Home, Quarantine, w, t

(* Which trees removals know of.                                           *)
LEMMA KnownStep ==
    ASSUME Core, Stages, [Next]_vars, NEW o \in Removes, Known(o)'
    PROVE  \/ Known(o)
           \/ Inspects(o.target) /\ at[o.target] = o.of /\ UNCHANGED <<at, tree, record>>
<1>0. Control /\ FilesOK /\ JournalOK /\ o \in Ops /\ o \notin Adds
  BY CoreParts, OpFacts
<1>1. ASSUME NEW p \in Procs, AddStep(p) \/ RemoveStep(p) PROVE Known(o)
  <2>1. Works(p) /\ Own(p)
    BY <1>0, <1>1, StepWorks, AddOwn, RemoveOwn
  <2>2. CASE proc[p].op = o
    BY <1>0, <2>1, <2>2, WorksOn DEF Works, Known
  <2>3. CASE proc[p].op # o
    <3>1. record'[o] = record[o]
      BY <1>0, <2>1, <2>3 DEF Own
    <3>2. \A q \in Procs \ {p} : proc'[q] = proc[q]
      BY <1>0, <1>1, StepMoves DEF Step, Moves, Goto, Return, Control, ControlOK
    <3>3. ~(Removing(proc'[p]) /\ proc'[p].op = o)
      BY <1>0, <1>1, <2>1, <2>3, StepMoves, GotoCommand, WorkerReturns, WorksOn DEF Step, Moves, Works
    <3> QED BY <3>1, <3>2, <3>3 DEF Known
  <2> QED BY <2>2, <2>3
<1>2. CASE Elsewhere
  BY <1>2 DEF Elsewhere, Known, Works
<1>3. ASSUME NEW p \in Procs, Begin(p), ~Known(o)
      PROVE  Inspects(o.target) /\ at[o.target] = o.of /\ UNCHANGED <<at, tree, record>>
  <2>1. UNCHANGED <<at, tree, record>>
    BY <1>3, BeginFiles
  <2>2. ASSUME \A q \in Procs \ {p} : proc'[q] = proc[q] PROVE Removing(proc'[p]) /\ proc'[p].op = o
    BY <1>3, <2>1, <2>2 DEF Known
  <2>3. ASSUME NEW a \in Adds, AddBegin(p, a) PROVE FALSE
    BY <1>0, <2>2, <2>3, AddBegins
  <2>4. ASSUME NEW t \in Targets, SessionBegin(p, t) \/ ShellBegin(p, t) PROVE FALSE
    BY <1>0, <2>2, <2>4, UseBegins DEF Works
  <2>5. ASSUME NEW t \in Targets, RemoveBegin(p, t) PROVE Inspects(o.target) /\ at[o.target] = o.of
    <3>1. PICK w \in Trees :
              /\ proc'[p].op = RemoveIntent(t, w)
              /\ \/ Inspects(t) /\ at[t] = w
                 \/ latest[t] = w
              /\ \A q \in Procs \ {p} : proc'[q] = proc[q]
      BY <1>0, <2>5, RemoveBegins
    <3>2. o = RemoveIntent(t, w) /\ o.target = t /\ o.of = w
      BY <2>2, <3>1 DEF RemoveIntent
    <3>3. latest[t] # w
      BY <1>3, <3>2, NothingThere DEF Stages, LatestSaved, Known
    <3> QED BY <3>1, <3>2, <3>3
  <2> QED BY <1>3, <2>1, <2>3, <2>4, <2>5 DEF Begin
<1> QED BY <1>1, <1>2, <1>3, ElsewhereSteps

LEMMA NextHomes ==
    ASSUME Core, Sessions, Stages, Homes, [Next]_vars
    PROVE  Homes'
<1> SUFFICES ASSUME NEW o \in Removes, Known(o)' PROVE Home(o.of, o.target)'
  BY DEF Homes
<1>1. Shape
  BY NextShape
<1>2. CASE Known(o)
  BY <1>1, <1>2, HomeStays DEF Homes
<1>3. CASE ~Known(o)
  <2>1. Inspects(o.target) /\ at[o.target] = o.of /\ o.target \in Paths
    BY <1>3, KnownStep, OpFacts
  <2>2. Home(o.of, o.target)
    BY <2>1 DEF Inspects, Home, Sessions, Panes, OnePathPerTree, Born
  <2> QED BY <1>1, <2>2, HomeStays
<1> QED BY <1>2, <1>3

-----------------------------------------------------------------------------
(* A displaced tree is being put back. *)

(* A known tree is displaced only by the renaming back of a quarantine.    *)
LEMMA NewlyDisplaced ==
    ASSUME Core, Sessions, Stages, Homes, [Next]_vars, NEW o \in Removes, Known(o)', Displaced(o)'
    PROVE  /\ Known(o)
           /\ \/ Displaced(o)
              \/ \E p \in Procs : Restores(p) /\ proc[p].target = o.target /\ UNCHANGED record
<1> DEFINE w == o.of
           t == o.target
<1>0. Control /\ FilesOK /\ OnePathPerTree
  BY CoreParts DEF Sessions, Panes
<1>1. w \in Trees /\ t \in Targets /\ t \in Paths /\ t \notin Adds /\ t \notin Removes
  BY OpFacts
<1>2. at'[t] = w /\ tree'[w].reg # t
  BY DEF Displaced
<1>3. Known(o)
  BY <1>2, KnownStep DEF Inspects
<1>4. Home(w, t)
  BY <1>3 DEF Homes
<1>5. Shape
  BY NextShape
<1> HIDE DEF w, t
<1>6. CASE at[t] = w
  <2>1. RegStep(w)
    BY <1>1, <1>5 DEF Shape, Regs
  <2>2. \A x \in Paths : at[x] = w => x = t
    BY <1>1, <1>6, <1>0 DEF OnePathPerTree
  <2>3. tree[w].reg # t
    BY <1>1, <1>2, <1>4, <1>6, <2>1, <2>2 DEF RegStep, Home
  <2> QED BY <1>3, <1>6, <2>3 DEF Displaced, w, t
<1>7. CASE at[t] # w
  <2>1. ~Empties
    BY <1>1, <1>2, <1>7, NothingThere DEF Empties
  <2>2. ~\E x \in Paths : Creates(x)
    BY <1>0, <1>1, <1>2, <1>4, <1>7 DEF Creates, Home, FilesOK
  <2>3. PICK p \in Procs : Moved(p) /\ UNCHANGED record
    BY <1>5, <2>1, <2>2 DEF Shape
  <2>4. Works(p) /\ proc[p].op \in Paths /\ proc[p].target \in Paths
    BY <2>3, WorksOn DEF Moved, Promotes, Quarantines, Restores, Works
  <2>5. ~Promotes(p)
    <3> SUFFICES ASSUME Promotes(p) PROVE FALSE
      OBVIOUS
    <3>1. at[proc[p].op] = w
      BY <1>0, <1>1, <1>2, <1>7, <2>4, MoveFields, NothingThere DEF Promotes
    <3>2. proc[p].op \in Adds
      BY DEF Promotes, Adding
    <3> QED BY <1>1, <1>4, <2>4, <3>1, <3>2, OpFacts DEF Home, Quarantine
  <2>6. ~Quarantines(p)
    <3> SUFFICES ASSUME Quarantines(p) PROVE FALSE
      OBVIOUS
    <3>1. proc[p].op = t
      BY <1>0, <1>1, <1>2, <1>7, <2>4, MoveFields, NothingThere DEF Quarantines
    <3> QED BY <1>1, <2>4, <3>1, WorksOn
  <2>7. Restores(p)
    BY <2>3, <2>5, <2>6 DEF Moved
  <2>8. proc[p].target = t
    BY <1>0, <1>1, <1>2, <1>7, <2>4, <2>7, MoveFields, NothingThere DEF Restores
  <2> QED BY <1>3, <2>3, <2>7, <2>8 DEF t
<1> QED BY <1>6, <1>7

(* The record of a restoration ends with it.                               *)
LEMMA RestoreEnds ==
    ASSUME Control, JournalOK, NEW p \in Procs, RemoveStep(p), PhaseAt(p),
           record[proc[p].op].ck = "restore_pending", record'[proc[p].op].ck # "restore_pending"
    PROVE  RemoveRestored(p) /\ proc[p].pc = "r_restored" /\ UNCHANGED <<at, tree>>
<1> DEFINE o == proc[p].op
           c == record[o].ck
           d == record'[o].ck
<1>0. Works(p) /\ Removing(proc[p]) /\ Removal(p) = o /\ o \in Ops
  BY StepWorks, WorksOn DEF Removal
<1>1. proc[p].pc \notin Advancing /\ proc[p].pc # "r_move"
  BY <1>0 DEF PhaseAt, Phase
<1>2. \A ck \in Checkpoints : Checkpoint(o, ck) => d = ck
  BY <1>0, CheckpointFields
<1>3. ~UNCHANGED journal
  BY DEF journal
<1>4. ~(RemoveClaim(p) \/ RemoveRestore(p))
  <2>1. RemoveClaim(p) => UNCHANGED journal
    BY <1>0 DEF RemoveClaim
  <2>2. RemoveRestore(p) => d = "restore_pending"
    BY <1>0, <1>2 DEF RemoveRestore, Checkpoints
  <2> QED BY <1>3, <2>1, <2>2
<1>5. ~RemoveRepository(p)
  <2> SUFFICES ASSUME RemoveRepository(p) PROVE FALSE
    OBVIOUS
  <2> DEFINE h == proc[p].seed
             r == [record[o] EXCEPT !.rel = TRUE, !.head = h]
  <2>1. Save(o, r)
    BY <1>0, <1>3 DEF RemoveRepository
  <2>2. r.ck = c
    BY <1>0 DEF JournalOK, Record
  <2> HIDE DEF r
  <2> QED BY <1>0, <2>1, <2>2, SaveFields
<1>6. ~(RemovePending(p) \/ RemoveInspect(p) \/ RemoveReconciled(p))
  BY <1>1 DEF RemovePending, RemoveInspect, RemoveReconciled, RemoveAt, Advancing
<1>7. ~(\/ RemoveFind(p) \/ RemoveLook(p) \/ RemoveSessions(p) \/ RemoveRecheck(p) \/ RemoveMark(p)
        \/ RemoveMove(p) \/ RemoveRepair(p) \/ RemoveGit(p) \/ RemoveClear(p) \/ RemoveReconcile(p)
        \/ RemoveBack(p) \/ RemoveRerepair(p) \/ RemoveUnstage(p))
  BY <1>3 DEF RemoveFind, RemoveLook, RemoveSessions, RemoveRecheck, RemoveMark,
     RemoveMove, RemoveRepair, RemoveGit, RemoveClear, RemoveReconcile, RemoveBack, RemoveRerepair,
     RemoveUnstage
<1>8. RemoveRestored(p)
  BY <1>4, <1>5, <1>6, <1>7 DEF RemoveStep
<1> QED BY <1>8 DEF RemoveRestored, RemoveAt, files

LEMMA NextAccounted ==
    ASSUME Core, Sessions, Stages, Whereabouts, [Next]_vars
    PROVE  Accounted'
<1> SUFFICES ASSUME NEW o \in Removes, Known(o)', Displaced(o)'
             PROVE  \E r \in Removes : r.target = o.target /\ record'[r].ck = "restore_pending"
  BY DEF Accounted
<1>0. Control /\ FilesOK /\ JournalOK
  BY CoreParts
<1>1. Known(o) /\ (Displaced(o) \/ \E p \in Procs : Restores(p) /\ proc[p].target = o.target /\ UNCHANGED record)
  BY NewlyDisplaced DEF Whereabouts
<1>2. CASE \E p \in Procs : Restores(p) /\ proc[p].target = o.target /\ UNCHANGED record
  <2>1. PICK p \in Procs : Restores(p) /\ proc[p].target = o.target /\ UNCHANGED record
    BY <1>2
  <2>2. Works(p) /\ Removing(proc[p]) /\ proc[p].pc = "r_back"
    BY <2>1 DEF Restores, Works
  <2>3. record[proc[p].op].ck = "restore_pending"
    BY <2>2 DEF Stages, PhaseAt, Phase, Restoring
  <2> QED BY <2>1, <2>2, <2>3, WorksOn
<1>3. CASE Displaced(o)
  <2>1. PICK r \in Removes : r.target = o.target /\ record[r].ck = "restore_pending"
    BY <1>1, <1>3 DEF Whereabouts, Accounted
  <2>2. r \in Ops /\ r \notin Adds
    BY OpFacts
  <2> SUFFICES ASSUME record'[r].ck # "restore_pending" PROVE FALSE
    BY <2>1
  <2>3. PICK p \in Procs : AddStep(p) \/ RemoveStep(p)
    BY <2>1, ElsewhereSteps, BeginFiles DEF Elsewhere
  <2>4. Works(p) /\ Own(p)
    BY <1>0, <2>3, StepWorks, AddOwn, RemoveOwn
  <2>5. proc[p].op = r
    BY <2>1, <2>2, <2>4 DEF Own
  <2>6. RemoveStep(p) /\ Removing(proc[p])
    BY <1>0, <2>2, <2>3, <2>4, <2>5, StepWorks, WorksOn DEF Works
  <2>7. proc[p].pc = "r_restored"
    BY <1>0, <2>1, <2>5, <2>6, RestoreEnds DEF Stages
  <2>8. Restored(proc[p].target) /\ proc[p].target = o.target
    BY <2>1, <2>4, <2>5, <2>6, <2>7, WorksOn DEF Whereabouts, Settled
  <2> QED BY <1>1, <1>3, <2>8 DEF Restored
<1> QED BY <1>1, <1>2, <1>3

-----------------------------------------------------------------------------
(* What was put back is registered again. *)

LEMMA EntersSettled ==
    ASSUME Control, FilesOK, NEW p \in Procs, AddStep(p) \/ RemoveStep(p),
           Removing(proc'[p]), proc'[p].pc \in {"r_unstage", "r_restored"}
    PROVE  /\ Removing(proc[p]) /\ proc'[p].target = proc[p].target
           /\ \/ /\ UNCHANGED at
                 /\ CanRepair(proc[p].target) /\ Repair(proc[p].target)
              \/ /\ proc[p].pc = "r_unstage"
                 /\ UNCHANGED tree /\ at'[proc[p].target] = at[proc[p].target]
<1>0. Works(p)
  BY StepWorks
<1>1. ~Return(p)
  BY WorkerReturns DEF Works
<1>2. PICK l \in Labels : SameCommand(proc[p].pc, l) /\ Goto(p, l) /\ proc[p] # Idle
  BY <1>1, StepMoves DEF Step, Moves
<1>3. proc'[p].pc = l /\ proc'[p].target = proc[p].target /\ Removing(proc[p])
  BY <1>2, GotoCommand
<1>4. RemoveStep(p) /\ Removal(p) = proc[p].op /\ Removal(p).target = proc[p].target /\ Removal(p) \in Ops
      /\ proc[p].target \in Paths /\ proc[p].target # Removal(p)
  BY <1>0, <1>3, StepWorks, WorksOn DEF Removal, Adding, Removing, AddLabels, RemoveLabels
<1>5. \A m \in Labels : Goto(p, m) => m = l
  BY <1>3 DEF Goto, Control, ControlOK, Command
<1>6. RemoveRerepair(p) \/ RemoveUnstage(p)
  <2> USE DEF Labels
  <2>1. ~(RemoveClaim(p) \/ RemoveRepository(p) \/ RemoveFind(p) \/ RemoveLook(p) \/ RemoveSessions(p))
    BY <1>1, <1>3, <1>5 DEF RemoveClaim, RemoveRepository, RemoveFind, RemoveLook, RemoveSessions
  <2>2. ~(RemoveRecheck(p) \/ RemoveMark(p) \/ RemovePending(p) \/ RemoveMove(p) \/ RemoveRepair(p))
    BY <1>1, <1>3, <1>5 DEF RemoveRecheck, RemoveMark, RemovePending, RemoveMove, RemoveRepair
  <2>3. ~(RemoveInspect(p) \/ RemoveGit(p) \/ RemoveClear(p) \/ RemoveReconcile(p) \/ RemoveReconciled(p))
    BY <1>1, <1>3, <1>5 DEF RemoveInspect, RemoveGit, RemoveClear, RemoveReconcile, RemoveReconciled
  <2>4. ~(RemoveRestore(p) \/ RemoveBack(p) \/ RemoveRestored(p))
    BY <1>1, <1>3, <1>5 DEF RemoveRestore, RemoveBack, RemoveRestored
  <2> QED BY <1>4, <2>1, <2>2, <2>3, <2>4 DEF RemoveStep
<1>7. CASE RemoveRerepair(p)
  BY <1>1, <1>3, <1>4, <1>7 DEF RemoveRerepair
<1>8. CASE RemoveUnstage(p)
  <2>1. proc[p].pc = "r_unstage" /\ UNCHANGED tree /\ Clear(Removal(p))
    BY <1>1, <1>8 DEF RemoveUnstage, RemoveAt
  <2> QED BY <1>3, <1>4, <2>1, ClearFields
<1> QED BY <1>6, <1>7, <1>8

LEMMA NextSettled ==
    ASSUME Core, Sessions, Stages, Whereabouts, [Next]_vars, NEW q \in Procs
    PROVE  Settled(q)'
<1> SUFFICES ASSUME Removing(proc'[q]), proc'[q].pc \in {"r_unstage", "r_restored"},
                    NEW o \in Removes, o.target = proc'[q].target, Known(o)', Displaced(o)'
             PROVE  FALSE
  BY DEF Settled, Restored
<1>0. Control /\ FilesOK /\ JournalOK /\ OnePathPerTree
  BY CoreParts DEF Sessions, Panes
<1>1. Works(q)'
  BY DEF Works
<1>2. Known(o) /\ (Displaced(o) \/ \E p \in Procs : Restores(p) /\ proc[p].target = o.target)
  BY NewlyDisplaced DEF Whereabouts
<1>3. ASSUME NEW p \in Procs, Restores(p), proc[p].target = o.target,
             Removing(proc[q]), proc[q].target = o.target
      PROVE  p = q /\ proc[q].pc = "r_back"
  BY <1>0, <1>3, OneHolder DEF Restores
<1>4. CASE proc'[q] = proc[q]
  <2>1. Settled(q) /\ Removing(proc[q]) /\ proc[q].target = o.target
    BY <1>4 DEF Whereabouts
  <2>2. ~Displaced(o)
    BY <1>2, <1>4, <2>1 DEF Settled, Restored
  <2> QED BY <1>2, <1>3, <1>4, <2>1, <2>2
<1>5. CASE proc'[q] # proc[q]
  <2>1. ~Begin(q)
    <3>1. ASSUME NEW a \in Adds PROVE ~AddBegin(q, a)
      BY <1>0, AddBegins
    <3>2. ASSUME NEW t \in Targets PROVE ~RemoveBegin(q, t)
      BY <1>0, RemoveBegins
    <3>3. ASSUME NEW t \in Targets PROVE ~(SessionBegin(q, t) \/ ShellBegin(q, t))
      BY <1>0, <1>1, UseBegins
    <3> QED BY <3>1, <3>2, <3>3 DEF Begin
  <2>2. AddStep(q) \/ RemoveStep(q)
    <3>1. ASSUME NEW p \in Procs, Begin(p), p # q PROVE FALSE
      BY <1>0, <1>5, <3>1, AddBegins, RemoveBegins, UseBegins DEF Begin
    <3>2. ASSUME NEW p \in Procs, AddStep(p) \/ RemoveStep(p), p # q PROVE FALSE
      BY <1>0, <1>5, <3>2, StepMoves DEF Step, Moves, Goto, Return, Control, ControlOK
    <3> QED BY <1>1, <1>5, <2>1, <3>1, <3>2, ElsewhereSteps DEF Elsewhere
  <2>3. /\ Removing(proc[q]) /\ proc'[q].target = proc[q].target
        /\ \/ /\ UNCHANGED at
              /\ CanRepair(proc[q].target) /\ Repair(proc[q].target)
           \/ /\ proc[q].pc = "r_unstage"
              /\ UNCHANGED tree /\ at'[proc[q].target] = at[proc[q].target]
    BY <1>0, <2>2, EntersSettled
  <2>4. o.of \in Trees /\ at'[o.target] = o.of /\ tree'[o.of].reg # o.target
    BY OpFacts DEF Displaced
  <2>5. ~(UNCHANGED at /\ CanRepair(o.target) /\ Repair(o.target))
    BY <1>0, <2>4 DEF CanRepair, Repair, FilesOK, Tree
  <2>6. proc[q].pc = "r_unstage" /\ UNCHANGED tree /\ at'[o.target] = at[o.target]
    BY <2>3, <2>5
  <2>7. Displaced(o)
    BY <2>4, <2>6 DEF Displaced
  <2> QED BY <1>2, <2>3, <2>6, <2>7 DEF Whereabouts, Settled, Restored
<1> QED BY <1>4, <1>5

-----------------------------------------------------------------------------
(* A removal is recorded as complete only when nothing of its tree is left. *)

LEMMA Completes ==
    ASSUME Control, JournalOK, NEW p \in Procs, RemoveStep(p), PhaseAt(p),
           record'[proc[p].op].ck \in {"none", "complete", "aborted"},
           record'[proc[p].op].ck # record[proc[p].op].ck
    PROVE  /\ RemoveReconciled(p) /\ UNCHANGED <<at, tree>>
           /\ ~Registered(proc[p].op.target) /\ ~Registered(proc[p].op)
<1> DEFINE o == proc[p].op
           d == record'[o].ck
<1>0. Works(p) /\ Removing(proc[p]) /\ Removal(p) = o /\ o \in Ops
  BY StepWorks, WorksOn DEF Removal
<1>1. d # "none"
  BY Recorded
<1>2. \A ck \in Checkpoints : Checkpoint(o, ck) => d = ck
  BY <1>0, CheckpointFields
<1>3. ~UNCHANGED journal
  BY DEF journal
<1>4. ~(RemoveClaim(p) \/ RemoveRestore(p) \/ RemoveInspect(p) \/ RemoveRestored(p))
  <2>1. ASSUME NEW ck \in {"requested", "restore_pending", "remove_pending"} PROVE ~Checkpoint(o, ck)
    BY <1>2 DEF Checkpoints
  <2> QED BY <1>0, <1>3, <2>1 DEF RemoveClaim, RemoveRestore, RemoveInspect, RemoveRestored
<1>5. ~(RemoveRepository(p) \/ RemovePending(p))
  <2> SUFFICES ASSUME RemoveRepository(p) \/ RemovePending(p) PROVE FALSE
    OBVIOUS
  <2> DEFINE h == proc[p].seed
             r == [record[o] EXCEPT !.rel = TRUE, !.head = h]
             r2 == [record[o] EXCEPT !.ck = "quarantine_pending", !.head = h]
  <2>1. Save(o, r) \/ Save(o, r2)
    BY <1>0, <1>3 DEF RemoveRepository, RemovePending
  <2>2. r.ck = record[o].ck /\ r2.ck = "quarantine_pending"
    BY <1>0 DEF JournalOK, Record
  <2> HIDE DEF r, r2
  <2> QED BY <1>0, <2>1, <2>2, SaveFields
<1>6. ~(\/ RemoveFind(p) \/ RemoveLook(p) \/ RemoveSessions(p) \/ RemoveRecheck(p) \/ RemoveMark(p)
        \/ RemoveMove(p) \/ RemoveRepair(p) \/ RemoveGit(p) \/ RemoveClear(p) \/ RemoveReconcile(p)
        \/ RemoveBack(p) \/ RemoveRerepair(p) \/ RemoveUnstage(p))
  BY <1>3 DEF RemoveFind, RemoveLook, RemoveSessions, RemoveRecheck, RemoveMark,
     RemoveMove, RemoveRepair, RemoveGit, RemoveClear, RemoveReconcile, RemoveBack, RemoveRerepair,
     RemoveUnstage
<1>7. RemoveReconciled(p)
  BY <1>4, <1>5, <1>6 DEF RemoveStep
<1> QED BY <1>0, <1>3, <1>7 DEF RemoveReconciled, files

LEMMA NextRegistrations ==
    ASSUME Core, Sessions, Stages, Whereabouts, [Next]_vars
    PROVE  Registrations'
<1> SUFFICES ASSUME NEW w \in Trees, NEW o \in Removes, tree'[w].reg = o PROVE Incomplete(o)'
  BY DEF Registrations
<1>0. Control /\ FilesOK /\ JournalOK /\ o \in Ops /\ o \in Paths /\ o \notin Adds /\ o \notin Targets
  BY CoreParts, OpFacts
<1>1. Shape
  BY NextShape
<1>2. RegStep(w)
  BY <1>1 DEF Shape, Regs
<1>3. CASE tree[w].reg # o
  <2>1. at[o] # None /\ UNCHANGED record
    BY <1>0, <1>2, <1>3, NothingThere DEF RegStep
  <2>2. Incomplete(o)
    BY <1>0, <2>1, OpFacts DEF Stages, OwnedAt, Owned, StagedByRemove, Removes, Incomplete
  <2> QED BY <2>1, <2>2 DEF Incomplete
<1>4. CASE tree[w].reg = o
  <2>1. Incomplete(o)
    BY <1>4 DEF Whereabouts, Registrations
  <2> SUFFICES ASSUME ~Incomplete(o)' PROVE FALSE
    OBVIOUS
  <2>2. PICK p \in Procs : AddStep(p) \/ RemoveStep(p)
    BY <2>1, ElsewhereSteps, BeginFiles DEF Elsewhere, Incomplete
  <2>3. Works(p) /\ Own(p)
    BY <1>0, <2>2, StepWorks, AddOwn, RemoveOwn
  <2>4. proc[p].op = o
    BY <1>0, <2>1, <2>3 DEF Own, Incomplete
  <2>5. RemoveStep(p)
    BY <1>0, <2>2, <2>3, <2>4, StepWorks, WorksOn DEF Works
  <2>6. ~Registered(o)
    BY <1>0, <2>1, <2>4, <2>5, Completes DEF Stages, Incomplete
  <2> QED BY <1>4, <2>6 DEF Registered
<1> QED BY <1>3, <1>4

(* When a removal is about to be recorded, its tree is nowhere.            *)
LEMMA NothingLeft ==
    ASSUME Core, Stages, Rivals, Whereabouts, NEW p \in Procs, NEW o \in Removes,
           Removing(proc[p]), proc[p].op = o, proc[p].pc = "r_reconciled",
           ~Registered(o.target), ~Registered(o)
    PROVE  tree[o.of].reg = None /\ \A x \in Paths : at[x] # o.of
<1> DEFINE w == o.of
           t == o.target
<1>0. Control /\ FilesOK /\ o \in Ops /\ w \in Trees /\ t \in Targets /\ t \in Paths /\ Works(p)
  BY CoreParts, OpFacts DEF Works
<1>1. at[o] = None /\ record[o].ck \notin {"none", "restore_pending", "aborted"}
  <2>1. PhaseAt(p) /\ OwnedAt(o) /\ o.kind = "remove"
    BY <1>0, OpFacts DEF Stages
  <2> QED BY <1>0, <2>1 DEF PhaseAt, Phase, Emptied, Advancing, RemoveLabels, OwnedAt, Owned
<1>2. CASE ~Incomplete(o)
  <2>1. record[o].ck = "complete"
    BY <1>1, <1>2 DEF Incomplete
  <2> QED BY <2>1 DEF Whereabouts, RemovedIsGone
<1>3. CASE Incomplete(o)
  <2>1. ASSUME NEW r \in Removes, r.target = t, Incomplete(r) PROVE r = o
    <3>1. r \in Ops /\ o \in Ops /\ Together(o, r)
      BY <2>1, OpFacts DEF Together
    <3> QED BY <1>3, <2>1, <3>1 DEF Rivals, OneAtATime
  <2>2. Known(o) /\ Home(w, t)
    BY DEF Known, Whereabouts, Homes
  <2>3. tree[w].reg = None
    <3>1. tree[w].reg \in Paths \cup {None}
      BY <1>0 DEF FilesOK, Tree
    <3>2. tree[w].reg # t /\ tree[w].reg # o
      BY <1>0 DEF Registered
    <3>3. ASSUME tree[w].reg \in Removes, tree[w].reg.target = t PROVE FALSE
      BY <1>0, <2>1, <3>2, <3>3 DEF Whereabouts, Registrations
    <3> QED BY <2>2, <3>1, <3>2, <3>3 DEF Home, Quarantine
  <2>4. at[t] # w
    <3> SUFFICES ASSUME at[t] = w PROVE FALSE
      OBVIOUS
    <3>1. Displaced(o)
      BY <1>0, <2>3, NothingThere DEF Displaced
    <3>2. PICK r \in Removes : r.target = t /\ record[r].ck = "restore_pending"
      BY <2>2, <3>1 DEF Whereabouts, Accounted
    <3>3. r = o
      BY <2>1, <3>2 DEF Incomplete
    <3> QED BY <1>1, <3>2, <3>3
  <2>5. ASSUME NEW r \in Removes, r.target = t, at[r] = w PROVE FALSE
    <3>1. Incomplete(r)
      BY <1>0, <2>5, OpFacts, NothingThere DEF Stages, OwnedAt, Owned, StagedByRemove, Incomplete
    <3> QED BY <1>0, <1>1, <2>1, <2>5, <3>1, NothingThere
  <2> QED BY <2>2, <2>3, <2>4, <2>5 DEF Home, Quarantine
<1> QED BY <1>2, <1>3

LEMMA GoneStays ==
    ASSUME Core, Sessions, Shape, NEW w \in Trees, tree[w].ref # None, tree[w].reg = None,
           \A x \in Paths : at[x] # w
    PROVE  tree'[w].reg = None /\ \A x \in Paths : at'[x] # w
<1>0. Control /\ FilesOK
  BY CoreParts
<1>1. RegStep(w)
  BY DEF Shape, Regs
<1>2. tree'[w].reg = None
  BY <1>1 DEF RegStep
<1>3. ASSUME NEW x \in Paths PROVE at'[x] # w
  <2>1. CASE Empties
    BY <2>1, NothingThere DEF Empties
  <2>2. CASE \E y \in Paths : Creates(y)
    BY <1>0, <2>2 DEF Creates, FilesOK
  <2>3. CASE \E p \in Procs : Moved(p)
    <3>1. PICK p \in Procs : Moved(p)
      BY <2>3
    <3>2. proc[p].op \in Paths /\ proc[p].target \in Paths
      BY <3>1, WorksOn DEF Moved, Promotes, Quarantines, Restores, Works
    <3> QED BY <1>0, <3>1, <3>2, MoveFields, NothingThere DEF Moved, Promotes, Quarantines, Restores
  <2> QED BY <2>1, <2>2, <2>3 DEF Shape
<1> QED BY <1>2, <1>3

LEMMA NextRemoved ==
    ASSUME Core, Sessions, Stages, Rivals, Whereabouts, [Next]_vars
    PROVE  RemovedIsGone'
<1> SUFFICES ASSUME NEW o \in Removes, record'[o].ck = "complete"
             PROVE  tree'[o.of].reg = None /\ \A x \in Paths : at'[x] # o.of
  BY DEF RemovedIsGone
<1>0. Control /\ FilesOK /\ JournalOK /\ o \in Ops /\ o.of \in Trees /\ o \notin Adds
  BY CoreParts, OpFacts
<1>1. Shape
  BY NextShape
<1>2. CASE record[o].ck = "complete"
  <2>1. tree[o.of].reg = None /\ \A x \in Paths : at[x] # o.of
    BY <1>2 DEF Whereabouts, RemovedIsGone
  <2>2. Home(o.of, o.target)
    BY <1>2 DEF Whereabouts, Homes, Known
  <2> QED BY <1>0, <1>1, <2>1, <2>2, GoneStays DEF Home
<1>3. CASE record[o].ck # "complete"
  <2>1. PICK p \in Procs : AddStep(p) \/ RemoveStep(p)
    BY <1>3, ElsewhereSteps, BeginFiles DEF Elsewhere
  <2>2. Works(p) /\ Own(p)
    BY <1>0, <2>1, StepWorks, AddOwn, RemoveOwn
  <2>3. proc[p].op = o
    BY <1>0, <1>3, <2>2 DEF Own
  <2>4. RemoveStep(p) /\ Removing(proc[p])
    BY <1>0, <2>1, <2>2, <2>3, StepWorks, WorksOn DEF Works
  <2>5. /\ RemoveReconciled(p) /\ UNCHANGED <<at, tree>>
        /\ ~Registered(o.target) /\ ~Registered(o)
    BY <1>0, <1>3, <2>3, <2>4, Completes DEF Stages
  <2>6. proc[p].pc = "r_reconciled"
    BY <2>5 DEF RemoveReconciled, RemoveAt
  <2> QED BY <2>3, <2>4, <2>5, <2>6, NothingLeft
<1> QED BY <1>2, <1>3

LEMMA InitWhereabouts == Init => Whereabouts
<1> SUFFICES ASSUME Init PROVE Whereabouts
  OBVIOUS
<1>1. \A o \in Removes : ~Known(o) /\ record[o].ck = "none"
  <2>1. \A p \in Procs : ~Removing(proc[p])
    BY DEF Init, Idle, Removing, RemoveLabels
  <2> QED BY <2>1, OpFacts DEF Init, NoRecord, Known
<1>2. Registrations
  BY OpFacts, NothingThere DEF Init, Unborn, Registrations
<1>3. \A p \in Procs : Settled(p)
  BY DEF Init, Idle, Removing, RemoveLabels, Settled
<1> QED BY <1>1, <1>2, <1>3 DEF Whereabouts, Homes, Accounted, RemovedIsGone

LEMMA NextWhereabouts == Core /\ Sessions /\ Stages /\ Rivals /\ Whereabouts /\ [Next]_vars => Whereabouts'
BY NextHomes, NextAccounted, NextRegistrations, NextRemoved, NextSettled DEF Whereabouts

LEMMA WhereaboutsInductive == Spec => [](Core /\ Sessions /\ Stages /\ Rivals /\ Whereabouts)
BY RivalsInductive, InitWhereabouts, NextWhereabouts, PTL DEF Spec

(* A removal that is recorded as complete left nothing of its Worktree,    *)
(* neither at its path nor in anybody's quarantine nor in Git's            *)
(* registrations, although adds, prunes, people and other removals act at  *)
(* the same time and any of them may stop anywhere.                        *)
THEOREM RemovedGone == Spec => []RemovedIsGone
<1>1. Whereabouts => RemovedIsGone
  BY DEF Whereabouts
<1> QED BY WhereaboutsInductive, <1>1, PTL

-----------------------------------------------------------------------------
(* What Git is asked to remove was inspected and stays as it was found. *)

KeepsData(w) ==
    \/ tree'[w].reg = None \/ tree[w].ref = None
    \/ tree'[w].head = tree[w].head /\ tree'[w].dirt = tree[w].dirt

KeepsAll == \A w \in Trees : KeepsData(w)

LEMMA SameData == ASSUME UNCHANGED tree PROVE KeepsAll
BY DEF KeepsAll, KeepsData

LEMMA RepairData ==
    ASSUME FilesOK, NEW x \in Paths, CanRepair(x), Repair(x)
    PROVE  KeepsAll
<1>1. \A w \in Trees : tree'[w].head = tree[w].head /\ tree'[w].dirt = tree[w].dirt
  BY DEF CanRepair, Repair, FilesOK, Tree
<1> QED BY <1>1 DEF KeepsAll, KeepsData

LEMMA GoneData ==
    ASSUME FilesOK, \A w \in Trees : tree'[w] = tree[w] \/ tree'[w] = Gone(w)
    PROVE  KeepsAll
BY GoneReg DEF KeepsAll, KeepsData

LEMMA AddData ==
    ASSUME Control, FilesOK, NEW p \in Procs, AddStep(p)
    PROVE  KeepsAll
<1>0. Op(p) \in Paths /\ Op(p).target \in Paths
  BY StepWorks, WorksOn DEF Op
<1>1. CASE \/ AddClaim(p) \/ AddRepository(p) \/ AddRecognise(p) \/ AddConflict(p) \/ AddObstructed(p)
           \/ AddFound(p) \/ AddTidy(p) \/ AddAbsent(p) \/ AddMark(p) \/ AddPending(p) \/ AddFinished(p)
           \/ AddStaged(p) \/ AddMove(p) \/ AddCheck(p) \/ AddDone(p)
  <2>1. UNCHANGED tree
    BY <1>1 DEF files, AddClaim, AddRepository, AddRecognise, AddConflict, AddObstructed,
     AddFound, AddTidy, AddAbsent, AddMark, AddPending, AddFinished, AddStaged, AddMove, AddCheck, AddDone
  <2> QED BY <2>1, SameData
<1>2. CASE AddRepair(p) \/ AddFix(p)
  <2>1. UNCHANGED tree \/ (CanRepair(Op(p).target) /\ Repair(Op(p).target))
    BY <1>2 DEF AddRepair, AddFix
  <2> QED BY <1>0, <2>1, SameData, RepairData
<1>3. CASE AddStage(p)
  <2>1. \A w \in Trees : tree'[w] = tree[w] \/ tree'[w] = Gone(w)
    BY <1>3 DEF AddStage, files
  <2> QED BY <2>1, GoneData
<1>4. CASE AddGit(p)
  <2>1. PICK w \in Trees : NextTree(w) /\ tree' = [tree EXCEPT ![w] = Fresh(Op(p), Op(p).of, TRUE)]
    BY <1>4 DEF AddGit
  <2>2. tree[w].ref = None /\ \A v \in Trees \ {w} : tree'[v] = tree[v]
    BY <2>1 DEF NextTree, FilesOK
  <2> QED BY <2>2 DEF KeepsAll, KeepsData
<1>5. CASE AddUnlock(p)
  <2>1. \A w \in Trees : tree'[w].head = tree[w].head /\ tree'[w].dirt = tree[w].dirt
    BY <1>5 DEF AddUnlock, FilesOK, Tree
  <2> QED BY <2>1 DEF KeepsAll, KeepsData
<1> QED BY <1>1, <1>2, <1>3, <1>4, <1>5 DEF AddStep

LEMMA RemoveData ==
    ASSUME Control, FilesOK, NEW p \in Procs, RemoveStep(p)
    PROVE  KeepsAll
<1>0. Removal(p) \in Paths /\ Removal(p).target \in Paths
  BY StepWorks, WorksOn DEF Removal
<1>1. CASE \/ RemoveClaim(p) \/ RemoveRepository(p) \/ RemoveFind(p) \/ RemoveLook(p) \/ RemoveSessions(p)
           \/ RemoveRecheck(p) \/ RemoveMark(p) \/ RemovePending(p) \/ RemoveMove(p) \/ RemoveInspect(p)
           \/ RemoveClear(p) \/ RemoveReconcile(p) \/ RemoveReconciled(p) \/ RemoveRestore(p)
           \/ RemoveBack(p) \/ RemoveUnstage(p) \/ RemoveRestored(p)
  <2>1. UNCHANGED tree
    BY <1>1 DEF files, RemoveClaim, RemoveRepository, RemoveFind, RemoveLook, RemoveSessions, RemoveRecheck,
     RemoveMark, RemovePending, RemoveMove, RemoveInspect, RemoveClear, RemoveReconcile, RemoveReconciled,
     RemoveRestore, RemoveBack, RemoveUnstage, RemoveRestored
  <2> QED BY <2>1, SameData
<1>2. CASE RemoveRepair(p) \/ RemoveRerepair(p)
  <2>1. UNCHANGED tree \/ \E x \in {Removal(p), Removal(p).target} : CanRepair(x) /\ Repair(x)
    BY <1>2 DEF RemoveRepair, RemoveRerepair
  <2> QED BY <1>0, <2>1, SameData, RepairData
<1>3. CASE RemoveGit(p)
  <2>1. \A w \in Trees : tree'[w] = tree[w] \/ tree'[w] = Gone(w)
    BY <1>3 DEF RemoveGit, FilesOK
  <2> QED BY <2>1, GoneData
<1> QED BY <1>1, <1>2, <1>3 DEF RemoveStep

(* The files of a tree change while it is not about to be removed.         *)
LEMMA PeopleData ==
    ASSUME FilesOK, People, NEW p \in Procs, RemoveAt(p, "r_git"), at[proc[p].op] \in Trees,
           tree[at[proc[p].op]].ref # None
    PROVE  LET w == at[proc[p].op] IN
           \/ tree'[w].reg = None
           \/ /\ tree'[w].head = tree[w].head
              /\ tree'[w].dirt \in {tree[w].dirt, "modified"}
<1> DEFINE v == at[proc[p].op]
<1>0. LastWindow(v) /\ v \in Trees
  BY DEF LastWindow
<1> SUFFICES \/ tree'[v].reg = None
             \/ tree'[v].head = tree[v].head /\ tree'[v].dirt \in {tree[v].dirt, "modified"}
  OBVIOUS
<1> HIDE DEF v
<1>1. ASSUME NEW w \in Trees, NEW d \in {"ignored", "modified"}, Edit(w, d)
      PROVE  tree'[v].head = tree[v].head /\ tree'[v].dirt \in {tree[v].dirt, "modified"}
  <2>1. CASE w = v
    <3>1. d = "modified" /\ tree' = [tree EXCEPT ![v].dirt = "modified"]
      BY <1>0, <1>1, <2>1 DEF Edit
    <3> QED BY <1>0, <3>1 DEF FilesOK, Tree
  <2>2. CASE w # v
    BY <1>0, <1>1, <2>2 DEF Edit, FilesOK
  <2> QED BY <2>1, <2>2
<1>2. ASSUME NEW w \in Trees, MoveHead(w) PROVE tree'[v] = tree[v]
  <2>1. w # v
    BY <1>0, <1>2 DEF MoveHead
  <2> QED BY <1>0, <1>2, <2>1 DEF MoveHead, FilesOK
<1>3. ASSUME NEW t \in Targets, Delete(t) \/ Occupy(t) PROVE tree'[v] = tree[v]
  BY <1>3 DEF Delete, Occupy
<1>4. ASSUME NEW t \in Targets, GitRemove(t) PROVE tree'[v] = tree[v] \/ tree'[v].reg = None
  <2>1. tree'[v] = tree[v] \/ tree'[v] = Gone(v)
    BY <1>0, <1>4 DEF GitRemove, Inspects, FilesOK
  <2> QED BY <1>0, <2>1, GoneReg
<1>5. ASSUME NEW t \in Targets, NEW ref \in Refs, GitAdd(t, ref) PROVE tree'[v] = tree[v]
  <2>1. PICK w \in Trees : NextTree(w) /\ tree' = [tree EXCEPT ![w] = Fresh(t, ref, FALSE)]
    BY <1>5 DEF GitAdd
  <2>2. w # v
    BY <1>0, <2>1 DEF NextTree, v
  <2> QED BY <1>0, <2>1, <2>2 DEF FilesOK
<1> QED BY <1>1, <1>2, <1>3, <1>4, <1>5 DEF People

LEMMA EntersGit ==
    ASSUME Control, JournalOK, NEW p \in Procs, AddStep(p) \/ RemoveStep(p),
           Removing(proc'[p]), proc'[p].pc = "r_git"
    PROVE  /\ RemoveStep(p) /\ proc'[p].op = proc[p].op /\ proc[p].op \in Ops
           /\ Inspects(proc[p].op) /\ MatchesRemove(at[proc[p].op], proc[p].op) /\ ~Dirty(at[proc[p].op])
           /\ UNCHANGED <<at, tree>> /\ record'[proc[p].op].head = record[proc[p].op].head
<1>0. Works(p)
  BY StepWorks
<1>1. ~Return(p)
  BY WorkerReturns DEF Works
<1>2. PICK l \in Labels : SameCommand(proc[p].pc, l) /\ Goto(p, l) /\ proc[p] # Idle
  BY <1>1, StepMoves DEF Step, Moves
<1>3. l = "r_git" /\ proc'[p].op = proc[p].op /\ Removing(proc[p])
  BY <1>2, GotoCommand
<1>4. RemoveStep(p) /\ Removal(p) = proc[p].op /\ Removal(p) \in Ops
  BY <1>0, <1>3, StepWorks, WorksOn DEF Removal, Adding, Removing, AddLabels, RemoveLabels
<1>5. \A m \in Labels : Goto(p, m) => m = "r_git"
  <2>1. proc'[p].pc = "r_git"
    OBVIOUS
  <2> QED BY <2>1 DEF Goto, Control, ControlOK, Command
<1>6. RemoveInspect(p)
  <2> USE DEF Labels
  <2>1. ~(RemoveClaim(p) \/ RemoveRepository(p) \/ RemoveFind(p) \/ RemoveLook(p) \/ RemoveSessions(p))
    BY <1>1, <1>5 DEF RemoveClaim, RemoveRepository, RemoveFind, RemoveLook, RemoveSessions
  <2>2. ~(RemoveRecheck(p) \/ RemoveMark(p) \/ RemovePending(p) \/ RemoveMove(p) \/ RemoveRepair(p))
    BY <1>1, <1>5 DEF RemoveRecheck, RemoveMark, RemovePending, RemoveMove, RemoveRepair
  <2>3. ~(RemoveGit(p) \/ RemoveClear(p) \/ RemoveReconcile(p) \/ RemoveReconciled(p))
    BY <1>1, <1>5 DEF RemoveGit, RemoveClear, RemoveReconcile, RemoveReconciled
  <2>4. ~(RemoveRestore(p) \/ RemoveBack(p) \/ RemoveRerepair(p) \/ RemoveUnstage(p) \/ RemoveRestored(p))
    BY <1>1, <1>5 DEF RemoveRestore, RemoveBack, RemoveRerepair, RemoveUnstage, RemoveRestored
  <2> QED BY <1>4, <2>1, <2>2, <2>3, <2>4 DEF RemoveStep
<1>7. ~Goto(p, "r_restore")
  BY <1>5 DEF Labels
<1>8. Inspects(proc[p].op) /\ MatchesRemove(at[proc[p].op], proc[p].op) /\ ~Dirty(at[proc[p].op])
  BY <1>1, <1>4, <1>6, <1>7 DEF RemoveInspect
<1>9. Checkpoint(proc[p].op, "remove_pending") /\ UNCHANGED <<at, tree>>
  BY <1>1, <1>4, <1>6, <1>7 DEF RemoveInspect, files
<1>10. record'[proc[p].op].head = record[proc[p].op].head
  BY <1>4, <1>9, CheckpointFields DEF Checkpoints
<1> QED BY <1>3, <1>4, <1>8, <1>9, <1>10

(* Everything else leaves the tree that Git is asked to remove alone.      *)
LEMMA JudgedStays ==
    ASSUME Core, Sessions, Shape, NEW q \in Procs, Judged(q), Removing(proc[q]), proc[q].pc = "r_git",
           proc'[q] = proc[q], at'[proc[q].op] = at[proc[q].op], record'[proc[q].op] = record[proc[q].op],
           People \/ KeepsAll
    PROVE  Judged(q)'
<1> DEFINE o == proc[q].op
           w == at[o]
<1>0. Control /\ FilesOK /\ OnePathPerTree /\ Born /\ o \in Paths /\ o \in Removes /\ o \notin Adds
  BY CoreParts, OpFacts DEF Sessions, Panes, Removing
<1>1. Inspects(o) /\ MatchesRemove(w, o) /\ tree[w].dirt # "ignored" /\ w \in Trees /\ tree[w].reg = o
  BY DEF Judged, Inspects
<1>2. tree[w].ref # None
  BY <1>0, <1>1 DEF Born
<1>3. tree'[w].reg = o
  <2>1. RegStep(w)
    BY <1>1 DEF Shape, Regs
  <2>2. \A x \in Paths : at[x] = w => x = o
    BY <1>0, <1>1 DEF OnePathPerTree
  <2>3. at'[o] = w
    OBVIOUS
  <2> QED BY <1>0, <1>1, <1>2, <2>1, <2>2, <2>3 DEF RegStep
<1>4. tree'[w].head = tree[w].head /\ tree'[w].dirt \in {tree[w].dirt, "modified"}
  <2>1. CASE People
    <3>1. RemoveAt(q, "r_git")
      BY DEF RemoveAt, Removing
    <3> QED BY <1>0, <1>1, <1>2, <1>3, <2>1, <3>1, PeopleData, NothingThere
  <2>2. CASE KeepsAll
    BY <1>0, <1>1, <1>2, <1>3, <2>2, NothingThere DEF KeepsAll, KeepsData
  <2> QED BY <2>1, <2>2
<1>5. at'[o] = w /\ proc'[q].op = o
  OBVIOUS
<1>6. PICK v, u : v = w /\ u = o
  OBVIOUS
<1> HIDE DEF o, w
<1>7. at'[u] = v /\ v \in Trees /\ tree'[v].reg = u /\ v = u.of /\ tree'[v].head = record[u].head
      /\ tree'[v].dirt # "ignored"
  BY <1>1, <1>3, <1>4, <1>5, <1>6 DEF MatchesRemove
<1>8. record'[u] = record[u] /\ proc'[q].op = u
  BY <1>5, <1>6 DEF o
<1> QED BY <1>7, <1>8 DEF Judged, Inspects, MatchesRemove

LEMMA NextJudged ==
    ASSUME Core, Sessions, Stages, \A p \in Procs : Judged(p), [Next]_vars, NEW q \in Procs
    PROVE  Judged(q)'
<1> SUFFICES ASSUME Removing(proc'[q]), proc'[q].pc = "r_git" PROVE Judged(q)'
  BY DEF Judged
<1>0. Control /\ FilesOK /\ JournalOK /\ Shape
  BY CoreParts, NextShape
<1>1. ASSUME AddStep(q) \/ RemoveStep(q) PROVE Judged(q)'
  <2>1. PICK o \in Ops : o = proc[q].op
    BY <1>0, <1>1, EntersGit
  <2>2. /\ proc'[q].op = o /\ Inspects(o) /\ MatchesRemove(at[o], o) /\ ~Dirty(at[o])
        /\ UNCHANGED <<at, tree>> /\ record'[o].head = record[o].head
    BY <1>0, <1>1, <2>1, EntersGit
  <2> QED BY <2>2 DEF Judged, Inspects, MatchesRemove, Dirty
<1>2. ASSUME NEW p \in Procs, p # q, AddStep(p) \/ RemoveStep(p) PROVE Judged(q)'
  <2>1. proc'[q] = proc[q]
    BY <1>0, <1>2, StepMoves DEF Step, Moves, Goto, Return, Control, ControlOK
  <2>2. Works(p) /\ Own(p) /\ Works(q) /\ Removing(proc[q])
    BY <1>0, <1>2, <2>1, StepWorks, AddOwn, RemoveOwn DEF Works
  <2>3. proc[q].op # proc[p].op /\ proc[q].op \in Ops
    BY <1>0, <1>2, <2>2, OneWorkerOf, WorksOn
  <2>4. at'[proc[q].op] = at[proc[q].op] /\ record'[proc[q].op] = record[proc[q].op]
    BY <2>2, <2>3 DEF Own
  <2>5. KeepsAll
    BY <1>0, <1>2, AddData, RemoveData
  <2> QED BY <1>0, <2>1, <2>2, <2>4, <2>5, JudgedStays
<1>3. ASSUME NEW p \in Procs, Begin(p) PROVE Judged(q)'
  <2>1. p # q
    <3>1. ASSUME NEW a \in Adds, AddBegin(q, a) PROVE FALSE
      BY <1>0, <3>1, AddBegins
    <3>2. ASSUME NEW t \in Targets, RemoveBegin(q, t) PROVE FALSE
      BY <1>0, <3>2, RemoveBegins
    <3>3. ASSUME NEW t \in Targets, SessionBegin(q, t) \/ ShellBegin(q, t) PROVE FALSE
      BY <1>0, <3>3, UseBegins DEF Works
    <3> QED BY <1>3, <3>1, <3>2, <3>3 DEF Begin
  <2>2. proc'[q] = proc[q]
    BY <1>0, <1>3, <2>1, AddBegins, RemoveBegins, UseBegins DEF Begin
  <2>3. UNCHANGED <<at, tree, record>>
    BY <1>3, BeginFiles
  <2> QED BY <2>2, <2>3 DEF Judged, Inspects, MatchesRemove
<1>4. ASSUME Elsewhere, People \/ KeepsAll PROVE Judged(q)'
  <2>1. proc'[q] = proc[q] /\ Removing(proc[q])
    BY <1>4 DEF Elsewhere, Works
  <2>2. proc[q].op \in Ops
    BY <2>1, WorksOn DEF Works
  <2> QED BY <1>0, <1>4, <2>1, <2>2, JudgedStays DEF Elsewhere
<1>5. \/ \E p \in Procs : Begin(p) \/ AddStep(p) \/ RemoveStep(p)
      \/ Elsewhere /\ (People \/ KeepsAll)
  <2>1. CASE Prune
    <3>1. \A w \in Trees : tree'[w] = tree[w] \/ tree'[w] = Gone(w)
      BY <2>1 DEF Prune
    <3> QED BY <1>0, <2>1, <3>1, GoneData DEF Prune, Elsewhere, journal
  <2>2. CASE Tmux \/ UNCHANGED vars \/ \E p \in Procs : Interrupt(p)
    <3>1. UNCHANGED tree
      BY <2>2 DEF Tmux, SessionEnd, SessionLeaves, vars, files, Interrupt
    <3>2. UNCHANGED <<at, stage, record, latest>>
      BY <2>2 DEF Tmux, SessionEnd, SessionLeaves, vars, files, journal, Interrupt
    <3>3. \A p \in Procs : ~Works(p)' \/ proc'[p] = proc[p]
      BY <1>0, <2>2, WorkerReturns DEF Tmux, SessionEnd, SessionLeaves, vars, Interrupt
    <3> QED BY <3>1, <3>2, <3>3, SameData DEF Elsewhere
  <2>3. CASE People
    BY <2>3, ElsewhereSteps
  <2>4. CASE \E p \in Procs : SessionList(p) \/ SessionCreate(p)
    <3>1. UNCHANGED tree
      BY <2>4 DEF SessionList, SessionCreate, files
    <3> QED BY <3>1, SameData, ElsewhereSteps
  <2> QED BY <2>1, <2>2, <2>3, <2>4 DEF Next, Schooner, Step
<1> QED BY <1>1, <1>2, <1>3, <1>4, <1>5

-----------------------------------------------------------------------------
(* What is deleted: only what lies in the stage of the command, an add's   *)
(* own checkout or the Worktree that a removal inspected there.            *)

LEMMA MovesKeep ==
    ASSUME FilesOK, NEW x \in Paths, NEW y \in Paths, Move(x, y), NEW w \in Trees
    PROVE  ~Discards(w)
<1>1. \A z \in Paths : at[z] = w => at'[z] = w \/ at'[y] = w
  BY MoveFields, NothingThere
<1> QED BY <1>1 DEF Discards, Lies

LEMMA ErasedFrom ==
    ASSUME NEW o \in Paths, \A x \in Paths \ {o} : at'[x] = at[x], NEW w \in Trees, Discards(w)
    PROVE  at[o] = w
BY DEF Discards, Lies

LEMMA SameKeeps == ASSUME UNCHANGED at, NEW w PROVE ~Discards(w)
BY DEF Discards, Lies

LEMMA AddDiscards ==
    ASSUME Control, FilesOK, NEW p \in Procs, AddStep(p), NEW w \in Trees, Discards(w)
    PROVE  proc[p].op \in Ops /\ proc[p].op \notin Removes /\ at[proc[p].op] = w
<1>0. /\ Op(p) = proc[p].op /\ Op(p) \in Ops /\ Op(p) \in Paths /\ Op(p).target \in Paths /\ Op(p) \in Adds
  BY StepWorks, WorksOn DEF Op
<1>1. Op(p) \notin Removes
  BY <1>0 DEF Adds, Removes
<1>2. CASE \/ AddClaim(p) \/ AddRepository(p) \/ AddConflict(p) \/ AddObstructed(p) \/ AddRepair(p)
           \/ AddFound(p) \/ AddAbsent(p) \/ AddMark(p) \/ AddPending(p) \/ AddFinished(p)
           \/ AddStaged(p) \/ AddUnlock(p) \/ AddFix(p) \/ AddDone(p)
  <2>1. UNCHANGED at
    BY <1>2 DEF files, AddClaim, AddRepository, AddConflict, AddObstructed, AddRepair, AddFound,
     AddAbsent, AddMark, AddPending, AddFinished, AddStaged, AddUnlock, AddFix, AddDone
  <2> QED BY <2>1, SameKeeps
<1>3. CASE AddRecognise(p) \/ AddTidy(p) \/ AddCheck(p)
  <2>1. Clear(Op(p)) \/ UNCHANGED at
    BY <1>3 DEF AddRecognise, AddTidy, AddCheck, Op
  <2> QED BY <1>0, <1>1, <2>1, SameKeeps, ClearFields, ErasedFrom
<1>4. CASE AddStage(p) \/ AddGit(p)
  <2>1. UNCHANGED at \/ \E v \in Trees \cup {None} : at' = [at EXCEPT ![Op(p)] = v]
    BY <1>4 DEF AddStage, AddGit, files
  <2>2. \A x \in Paths \ {Op(p)} : at'[x] = at[x]
    BY <1>0, <2>1 DEF FilesOK
  <2> QED BY <1>0, <1>1, <2>2, ErasedFrom
<1>5. CASE AddMove(p)
  <2>1. Move(Op(p), Op(p).target) \/ UNCHANGED at
    BY <1>5 DEF AddMove
  <2> QED BY <1>0, <2>1, SameKeeps, MovesKeep
<1> QED BY <1>2, <1>3, <1>4, <1>5 DEF AddStep

LEMMA RemoveDiscards ==
    ASSUME Control, FilesOK, NEW p \in Procs, RemoveStep(p), PhaseAt(p), Judged(p),
           NEW w \in Trees, Discards(w)
    PROVE  /\ proc[p].op \in Ops /\ at[proc[p].op] = w
           /\ MatchesRemove(w, proc[p].op) /\ ~Dirty(w)
<1>0. /\ Removal(p) = proc[p].op /\ Removal(p) \in Ops /\ Removal(p) \in Paths /\ Removal(p).target \in Paths
      /\ Removing(proc[p]) /\ Works(p)
  BY StepWorks, WorksOn DEF Removal
<1>1. CASE \/ RemoveClaim(p) \/ RemoveRepository(p) \/ RemoveFind(p) \/ RemoveLook(p) \/ RemoveSessions(p)
           \/ RemoveRecheck(p) \/ RemoveMark(p) \/ RemovePending(p) \/ RemoveRepair(p) \/ RemoveInspect(p)
           \/ RemoveReconcile(p) \/ RemoveReconciled(p) \/ RemoveRestore(p) \/ RemoveRerepair(p)
           \/ RemoveRestored(p)
  <2>1. UNCHANGED at
    BY <1>1 DEF files, RemoveClaim, RemoveRepository, RemoveFind, RemoveLook, RemoveSessions, RemoveRecheck,
     RemoveMark, RemovePending, RemoveRepair, RemoveInspect, RemoveReconcile, RemoveReconciled,
     RemoveRestore, RemoveRerepair, RemoveRestored
  <2> QED BY <2>1, SameKeeps
<1>2. CASE RemoveMove(p) \/ RemoveBack(p)
  <2>1. \/ UNCHANGED at \/ Move(Removal(p), Removal(p).target)
        \/ Move(Removal(p).target, Removal(p))
    BY <1>2 DEF RemoveMove, RemoveBack
  <2> QED BY <1>0, <2>1, SameKeeps, MovesKeep
<1>3. CASE RemoveClear(p) \/ RemoveUnstage(p)
  <2>1. UNCHANGED at \/ Clear(Removal(p))
    BY <1>3 DEF RemoveClear, RemoveUnstage
  <2>2. at[Removal(p)] = None
    BY <1>0, <1>3 DEF RemoveClear, RemoveUnstage, RemoveAt, PhaseAt, Phase, Emptied
  <2> QED BY <1>0, <2>1, <2>2, SameKeeps, ClearFields, ErasedFrom, NothingThere
<1>4. CASE RemoveGit(p)
  <2>1. UNCHANGED at \/ (tree[at[Removal(p)]].dirt # "modified" /\ at' = [at EXCEPT ![Removal(p)] = None])
    BY <1>4 DEF RemoveGit
  <2>2. \A x \in Paths \ {Removal(p)} : at'[x] = at[x]
    BY <1>0, <2>1 DEF FilesOK
  <2>3. at[Removal(p)] = w /\ tree[w].dirt # "modified"
    BY <1>0, <2>1, <2>2, ErasedFrom, SameKeeps
  <2>4. MatchesRemove(w, Removal(p)) /\ tree[w].dirt # "ignored"
    BY <1>0, <1>4, <2>3 DEF Judged, RemoveGit, RemoveAt
  <2>5. tree[w].dirt \in {"clean", "ignored", "modified"}
    BY DEF FilesOK, Tree
  <2> QED BY <1>0, <2>3, <2>4, <2>5 DEF Dirty
<1> QED BY <1>1, <1>2, <1>3, <1>4 DEF RemoveStep

LEMMA StepDiscards ==
    ASSUME Core, Stages, \A p \in Procs : Judged(p), Schooner, NEW w \in Trees, Discards(w)
    PROVE  \E o \in Ops : at[o] = w /\ (o \in Removes => MatchesRemove(w, o) /\ ~Dirty(w))
<1>0. Control /\ FilesOK
  BY CoreParts
<1>1. PICK p \in Procs : AddStep(p) \/ RemoveStep(p)
  <2>1. ~Prune
    BY SameKeeps DEF Prune
  <2>2. \A p \in Procs : ~Begin(p)
    BY BeginFiles, SameKeeps DEF files
  <2>3. \A p \in Procs : ~SessionList(p) /\ ~SessionCreate(p)
    BY SameKeeps DEF SessionList, SessionCreate, files
  <2> QED BY <2>1, <2>2, <2>3 DEF Schooner, Step
<1>2. CASE AddStep(p)
  BY <1>0, <1>2, AddDiscards
<1>3. CASE RemoveStep(p)
  <2>1. PhaseAt(p) /\ Judged(p)
    BY DEF Stages
  <2> QED BY <1>0, <1>3, <2>1, RemoveDiscards
<1> QED BY <1>1, <1>2, <1>3

LEMMA JudgedInductive ==
    Spec => [](Core /\ Sessions /\ Stages /\ \A p \in Procs : Judged(p))
<1> DEFINE AllJudged == \A p \in Procs : Judged(p)
<1>1. Init => AllJudged
  BY DEF Init, Idle, Judged, Removing, RemoveLabels
<1>2. Core /\ Sessions /\ Stages /\ AllJudged /\ [Next]_vars => AllJudged'
  BY NextJudged
<1> HIDE DEF AllJudged
<1>3. Spec => [](Core /\ Sessions /\ Stages /\ AllJudged)
  BY StagesInductive, <1>1, <1>2, PTL DEF Spec
<1> QED BY <1>3 DEF AllJudged

(* Whatever the commands do and wherever they stop, what they delete is a  *)
(* checkout in an add's own stage or the clean Worktree, at the recorded   *)
(* HEAD, that the removal was asked for: a Worktree that a person put in   *)
(* its place or edited while it was being removed is never deleted.        *)
THEOREM NothingIsLost == Spec => NothingLost
<1>1. (Core /\ Sessions /\ Stages /\ \A p \in Procs : Judged(p)) /\ [Next]_vars
        => [Schooner => \A w \in Trees : Discards(w) =>
              \E o \in Ops : at[o] = w /\ (o \in Removes => MatchesRemove(w, o) /\ ~Dirty(w))]_vars
  BY StepDiscards
<1> QED BY JudgedInductive, <1>1, PTL DEF Spec, NothingLost
=============================================================================
