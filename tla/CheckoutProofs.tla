---------------------------- MODULE CheckoutProofs ----------------------------
(* What holds of HEAD, the branches and the index under one application of a *)
(* payload, for any files and directories, any number of failing calls and   *)
(* of acts of people.                                                        *)
EXTENDS CheckoutApply, TLAPS

Bindings == Branches \cup {"detached"}
Errors   == {"conflict", "failed", "unknown"}
Update   == [known : BOOLEAN, binding : Bindings \cup {"none"}, head : Commits, ref : Commits,
             headChanged : BOOLEAN, refChanged : BOOLEAN]

First   == {"observe", "import", "index"}
FileLabels == {"stage", "clear", "cleared", "compare", "displace", "verify", "install", "drop", "applied"}
HeadLabels   == {"head", "bind", "move", "promote"}
Locked   == {"reobserve"} \cup FileLabels \cup HeadLabels
Going    == First \cup Locked \cup {"final"}
Undoing  == {"undo_files", "undo", "undo_take", "undo_verify", "undo_clear", "undo_cleared",
             "undo_put", "undo_end"}
Ending   == {"release", "unlock", "done"}

(* A transaction is a record with the fields of Begun. *)
Fields  == DOMAIN Begun
IsTx(t) == DOMAIN t = Fields /\ t = [f \in Fields |-> t[f]]

(* A step that is about files keeps these.                                   *)
Same(t, u) ==
  /\ IsTx(u)
  /\ u.lock = t.lock /\ u.promoted = t.promoted /\ u.update = t.update

Keeps(t, u) == Same(t, u) /\ u.restoreFailed = t.restoreFailed

World ==
  /\ plan \in PlanType
  /\ ref \in [Bindings -> Commits] /\ binding \in Bindings
  /\ IsTx(tx) /\ tx.update \in Update

(* index.lock is the application's while it has recorded that, and it keeps  *)
(* everybody else from the index until its own becomes the index.            *)
Locking ==
  /\ tx.lock \in BOOLEAN /\ tx.promoted \in BOOLEAN
  /\ tx.lock <=> indexLock = "ours"
  /\ tx.pc \in Locked => tx.lock
  /\ tx.pc \in Locked \ {"reobserve"} => index = "old"

(* What is known at each label.                                              *)
Course ==
  /\ tx.pc \in Going \cup {"undo_index", "undo_head", "undo_look", "undo_bind"} \cup Undoing \cup Ending
  /\ tx.pc \in Going => tx.error = "none"
  /\ tx.pc \in Going \ {"final"} => ~tx.promoted
  /\ tx.pc \in HeadLabels \cup {"final"} => tx.mutated
  /\ tx.pc \in {"bind", "move"} => tx.update.ref # "theirs"
  /\ tx.pc = "move" \/ tx.update.refChanged => ~Detached
  /\ tx.pc = "undo_bind" => tx.update.headChanged
  /\ tx.pc = "bind" \/ tx.update.headChanged => tx.update.binding \in Bindings
  /\ result = "pending" <=> tx.pc # "done"
  /\ result # "pending" => ~tx.lock
  /\ result = "refused" => tx.error # "none" /\ ~tx.restoreFailed

(* Where a branch was, HEAD and branch as they were found, and as they are   *)
(* after what the application recorded that it changed.                      *)
Start(b) == IF b = "topic" THEN plan.topic ELSE "old"

FoundAs(u) ==
  /\ u.binding = plan.from /\ u.head = "old"
  /\ ~Detached => u.ref = Start(plan.to)

Bound(u) ==
  /\ binding = IF u.headChanged THEN plan.to ELSE plan.from
  /\ ref["detached"] = IF u.headChanged /\ Detached THEN "new" ELSE "old"

Meant(u) ==
  /\ Bound(u)
  /\ \A b \in Branches : ref[b] = IF u.refChanged /\ b = plan.to THEN "new" ELSE Start(b)
  /\ IF u.known THEN FoundAs(u) ELSE ~u.headChanged /\ ~u.refChanged

Rebound(u) ==
  /\ Bound(u) /\ FoundAs(u)
  /\ \A b \in Branches : ref[b] = Start(b)

Restored ==
  binding = plan.from /\ HEAD = "old" /\ index = "old" /\ ref["topic"] = plan.topic

(* If nobody uses Git meanwhile, HEAD, branches and index are at each label  *)
(* what the application made of them and remembers, so that it can go back.  *)
Alone ==
  /\ tx.pc \in Going \cup {"undo_index", "undo_head"} => Meant(tx.update)
  /\ tx.pc \in First \cup {"reobserve", "head"} \cup FileLabels => ~tx.update.known
  /\ tx.pc = "bind" => FoundAs(tx.update) /\ ~tx.update.known
  /\ tx.pc = "move" => tx.update.known /\ ~tx.update.refChanged
  /\ tx.pc \in Going \cup {"undo_index"} => index = IF tx.promoted THEN "new" ELSE "old"
  /\ tx.pc \in {"undo_head", "undo_look", "undo_bind"} => tx.restoreFailed \/ index = "old"
  /\ tx.pc \in {"undo_look", "undo_bind"} => Rebound(tx.update)
  /\ tx.pc \in Undoing \/ (tx.pc \in Ending /\ tx.error # "none") => tx.restoreFailed \/ Restored

IInv == World /\ Locking /\ Course /\ ("git" \notin touched => Alone)

-----------------------------------------------------------------------------
(* How a transaction moves on, how it fails and how its rollback gives up.   *)
LEMMA FieldSet ==
    Fields = {"pc", "k", "error", "mutated", "lock", "promoted", "indexBackup", "update",
              "restoreFailed", "keepPath", "keepBackup", "keepAside", "pinned", "made", "remade",
              "abandoned"}
BY DEF Fields, Begun

LEMMA FailsTx ==
    ASSUME NEW t, NEW e, IsTx(t)
    PROVE  /\ Keeps(t, Fails(t, e)) /\ Fails(t, e).error = e
           /\ Fails(t, e).pc = IF t.mutated THEN "undo_index" ELSE "release"
BY FieldSet DEF Fails, Keeps, Same, IsTx

LEMMA FailsMutated == ASSUME NEW t, NEW e, IsTx(t) PROVE Fails(t, e).mutated = t.mutated
BY FieldSet DEF Fails, IsTx

LEMMA GiveUpTx ==
    ASSUME NEW t, IsTx(t)
    PROVE  /\ Same(t, GiveUp(t)) /\ GiveUp(t).restoreFailed = TRUE
           /\ GiveUp(t).error = t.error /\ GiveUp(t).pc = "release"
BY FieldSet DEF GiveUp, Same, IsTx

LEMMA TurnTx ==
    ASSUME NEW t, IsTx(t), NextRecord(t) \/ Previously(t)
    PROVE  /\ Keeps(t, tx') /\ tx'.error = t.error
           /\ NextRecord(t) => tx'.pc \in {"clear", "applied"}
           /\ Previously(t) => tx'.pc \in {"undo", "undo_end"}
<1>1. CASE NextRecord(t)
  <2>1. \/ tx' = [t EXCEPT !.pc = "applied"]
        \/ \E k \in Entries : tx' = [t EXCEPT !.k = k, !.pc = "clear"]
    BY <1>1 DEF NextRecord
  <2>2. Previously(t) => tx'.pc \in {"undo", "undo_end"}
    BY FieldSet DEF Previously, IsTx
  <2> QED BY <2>1, <2>2, FieldSet DEF Keeps, Same, IsTx
<1>2. CASE ~NextRecord(t) /\ Previously(t)
  <2>1. \/ tx' = [t EXCEPT !.pc = "undo_end"]
        \/ \E k \in Entries : tx' = [t EXCEPT !.k = k, !.pc = "undo"]
    BY <1>2 DEF Previously
  <2> QED BY <1>2, <2>1, FieldSet DEF Keeps, Same, IsTx
<1> QED BY <1>1, <1>2

(* A step that moves no file, or one that does so once a file was moved.     *)
Still == (\A n \in Names : at'[n] = at[n]) \/ tx.pc \in {"cleared", "verify"}

(* A step of the application that changes files and no more.                 *)
Works ==
  /\ UNCHANGED <<plan, touched, edited, gitState, result>> /\ Keeps(tx, tx')
  /\ \/ tx'.pc \in FileLabels /\ tx'.error = tx.error
     \/ tx'.pc = "head" /\ tx'.error = tx.error /\ tx'.mutated
     \/ tx'.error \in Errors /\ tx'.pc = "undo_index"
     \/ tx'.error \in Errors /\ tx'.pc = "release" /\ ~tx.mutated /\ Still

LEMMA FailsWorks ==
    ASSUME IsTx(tx), NEW e \in Errors, UNCHANGED <<plan, touched, edited, gitState, result>>, Still,
           tx' = Fails(tx, e)
    PROVE  Works
BY FailsTx DEF Works, Errors

LEMMA ApplyFilesStep ==
    ASSUME IsTx(tx), ApplyFiles
    PROVE  tx.pc \in FileLabels /\ Works
<1> USE DEF gitState, At, Goto, Fail, files, material
<1>1. CASE Stage
  <2>0. tx.pc \in FileLabels /\ UNCHANGED <<plan, touched, edited, gitState, result>>
    BY <1>1 DEF Stage, FileLabels
  <2> DEFINE t == [tx EXCEPT !.pinned = Pinned, !.made = {d \in Missing(StagedIn) : plan.old[d] # "file"}]
  <2>1. NextRecord(t) \/ (tx' = Fails(tx, "conflict") /\ Still)
    BY <1>1 DEF Stage, Still
  <2>2. CASE tx' = Fails(tx, "conflict") /\ Still
    BY <2>0, <2>2, FailsWorks DEF Errors
  <2>3. Keeps(tx, t) /\ t.error = tx.error
    BY FieldSet DEF Keeps, Same, IsTx
  <2> HIDE DEF t
  <2>4. CASE NextRecord(t)
    BY <2>0, <2>3, <2>4, TurnTx DEF Works, Keeps, Same, FileLabels
  <2> QED BY <2>1, <2>2, <2>4
<1>2. CASE Clear
  <2>0. tx.pc \in FileLabels /\ UNCHANGED <<plan, touched, edited, gitState, result>>
    BY <1>2 DEF Clear, FileLabels
  <2>1. \/ tx' = [tx EXCEPT !.pc = "compare"] \/ tx' = [tx EXCEPT !.pc = "cleared", !.mutated = TRUE]
        \/ tx' = Fails(tx, "conflict") /\ Still
    BY <1>2 DEF Clear, Still
  <2>2. CASE tx' = Fails(tx, "conflict") /\ Still
    BY <2>0, <2>2, FailsWorks DEF Errors
  <2> QED BY <2>0, <2>1, <2>2, FieldSet DEF Works, Keeps, Same, IsTx, FileLabels
<1>3. CASE Cleared
  <2>0. tx.pc \in FileLabels /\ UNCHANGED <<plan, touched, edited, gitState, result>> /\ Still
    BY <1>3 DEF Cleared, FileLabels, Still
  <2>1. \/ tx' = [tx EXCEPT !.pc = "compare"]
        \/ tx' = Fails(tx, "conflict") \/ tx' = Fails(tx, "unknown")
    BY <1>3 DEF Cleared
  <2>2. CASE tx' = Fails(tx, "conflict") \/ tx' = Fails(tx, "unknown")
    BY <2>0, <2>2, FailsWorks DEF Errors
  <2> QED BY <2>0, <2>1, <2>2, FieldSet DEF Works, Keeps, Same, IsTx, FileLabels
<1>4. CASE Compare
  <2>0. tx.pc \in FileLabels /\ UNCHANGED <<plan, touched, edited, gitState, result>>
    BY <1>4 DEF Compare, FileLabels
  <2> DEFINE dirs == IF Will(Record) /\ Up(Record) # Top THEN Missing({Up(Record)}) ELSE {}
             t == [tx EXCEPT !.made = @ \cup dirs, !.mutated = @ \/ dirs # {}]
  <2>1. tx' = Fails(t, "conflict") \/ tx' = [t EXCEPT !.pc = "displace"] \/ tx' = [t EXCEPT !.pc = "install"]
    BY <1>4 DEF Compare
  <2>4. dirs = {} => Still
    BY <1>4 DEF Compare, MakeDirs, Still
  <2> HIDE DEF dirs
  <2>2. Keeps(tx, t) /\ t.error = tx.error
    BY FieldSet DEF Keeps, Same, IsTx
  <2>5. ~t.mutated => ~tx.mutated /\ dirs = {}
    BY FieldSet DEF IsTx
  <2> HIDE DEF t
  <2>3. CASE tx' = [t EXCEPT !.pc = "displace"] \/ tx' = [t EXCEPT !.pc = "install"]
    BY <2>0, <2>2, <2>3, FieldSet DEF Works, Keeps, Same, IsTx, FileLabels
  <2> QED BY <2>0, <2>1, <2>2, <2>3, <2>4, <2>5, FailsTx DEF Works, Keeps, Same, FileLabels, Errors
<1>5. CASE Displace
  <2>0. tx.pc \in FileLabels /\ UNCHANGED <<plan, touched, edited, gitState, result>>
    BY <1>5 DEF Displace, FileLabels
  <2>1. tx' = [tx EXCEPT !.pc = "verify", !.mutated = TRUE] \/ (tx' = Fails(tx, "conflict") /\ Still)
    BY <1>5 DEF Displace, Still
  <2>2. CASE tx' = Fails(tx, "conflict") /\ Still
    BY <2>0, <2>2, FailsWorks DEF Errors
  <2> QED BY <2>0, <2>1, <2>2, FieldSet DEF Works, Keeps, Same, IsTx, FileLabels
<1>6. CASE VerifyAside
  <2>0. tx.pc \in FileLabels /\ UNCHANGED <<plan, touched, edited, gitState, result>> /\ Still
    BY <1>6 DEF VerifyAside, FileLabels, Still
  <2> DEFINE t == [tx EXCEPT !.keepPath = @ \cup {Record}]
             s == [t EXCEPT !.keepAside = @ \cup Within(Record)]
  <2>1. \/ tx' = [tx EXCEPT !.pc = IF Will(Record) THEN "install" ELSE "drop"]
        \/ tx' = Fails(t, "conflict") \/ tx' = Fails(s, "unknown")
    BY <1>6 DEF VerifyAside
  <2>2. /\ Keeps(tx, t) /\ t.error = tx.error /\ t.mutated = tx.mutated
        /\ Keeps(tx, s) /\ s.error = tx.error /\ s.mutated = tx.mutated
    BY FieldSet DEF Keeps, Same, IsTx
  <2> HIDE DEF t, s
  <2>3. CASE tx' = [tx EXCEPT !.pc = IF Will(Record) THEN "install" ELSE "drop"]
    BY <2>0, <2>2, <2>3, FieldSet DEF Works, Keeps, Same, IsTx, FileLabels
  <2> QED BY <2>0, <2>1, <2>2, <2>3, FailsTx DEF Works, Keeps, Same, FileLabels, Errors
<1>7. CASE Install
  <2>0. tx.pc \in FileLabels /\ UNCHANGED <<plan, touched, edited, gitState, result>>
    BY <1>7 DEF Install, FileLabels
  <2> DEFINE t == [tx EXCEPT !.mutated = @ \/ (InDir(Record) /\ (Up(Record) \in tx.made => at[Up(Record)] = "mdir"))]
             s == [t EXCEPT !.keepPath = @ \cup {Record}]
  <2>1. \/ tx' = [t EXCEPT !.pc = "drop"]
        \/ (tx' = Fails(t, "conflict") \/ tx' = Fails(s, "conflict")) /\ Still
    BY <1>7 DEF Install, Still
  <2>2. Keeps(tx, t) /\ t.error = tx.error /\ Keeps(tx, s) /\ s.error = tx.error
    BY FieldSet DEF Keeps, Same, IsTx
  <2>4. (~t.mutated => ~tx.mutated) /\ (~s.mutated => ~tx.mutated)
    BY FieldSet DEF IsTx
  <2> HIDE DEF t, s
  <2>3. CASE tx' = [t EXCEPT !.pc = "drop"]
    BY <2>0, <2>2, <2>3, FieldSet DEF Works, Keeps, Same, IsTx, FileLabels
  <2> QED BY <2>0, <2>1, <2>2, <2>3, <2>4, FailsTx DEF Works, Keeps, Same, FileLabels, Errors
<1>8. CASE Drop
  <2>0. tx.pc \in FileLabels /\ UNCHANGED <<plan, touched, edited, gitState, result>>
    BY <1>8 DEF Drop, FileLabels
  <2>1. NextRecord(tx) \/ (tx' = Fails(tx, "unknown") /\ Still)
    BY <1>8 DEF Drop, Still
  <2>2. CASE tx' = Fails(tx, "unknown") /\ Still
    BY <2>0, <2>2, FailsWorks DEF Errors
  <2> QED BY <2>0, <2>1, <2>2, TurnTx DEF Works, Keeps, Same, FileLabels
<1>9. CASE Applied
  <2>0. tx.pc \in FileLabels /\ UNCHANGED <<plan, touched, edited, gitState, result>>
    BY <1>9 DEF Applied, FileLabels
  <2>1. tx' = [tx EXCEPT !.pc = "head", !.mutated = TRUE] \/ (tx' = Fails(tx, "unknown") /\ Still)
    BY <1>9 DEF Applied, Still
  <2>2. CASE tx' = Fails(tx, "unknown") /\ Still
    BY <2>0, <2>2, FailsWorks DEF Errors
  <2> QED BY <2>0, <2>1, <2>2, FieldSet DEF Works, Keeps, Same, IsTx, FileLabels
<1>10. CASE ApplyFault
  <2>0. tx.pc \in FileLabels /\ UNCHANGED <<plan, touched, edited, gitState, result>> /\ Still
    BY <1>10 DEF ApplyFault, FileLabels, Still
  <2> DEFINE t == [tx EXCEPT !.keepPath = @ \cup {Record}, !.abandoned = {Record}]
  <2>1. tx' = Fails(tx, "failed") \/ tx' = Fails(tx, "unknown") \/ tx' = Fails(t, "conflict")
    BY <1>10 DEF ApplyFault
  <2>2. Keeps(tx, t) /\ t.error = tx.error /\ t.mutated = tx.mutated
    BY FieldSet DEF Keeps, Same, IsTx
  <2> HIDE DEF t
  <2> QED BY <2>0, <2>1, <2>2, FailsTx DEF Works, Keeps, Same, Errors
<1> QED BY <1>1, <1>2, <1>3, <1>4, <1>5, <1>6, <1>7, <1>8, <1>9, <1>10 DEF ApplyFiles

(* A step of the rollback of the files, or their release.                    *)
PutsBack ==
  /\ UNCHANGED <<plan, touched, edited, gitState, result>>
  /\ Same(tx, tx') /\ (tx.restoreFailed => tx'.restoreFailed) /\ tx'.error = tx.error
  /\ \/ tx.pc \in Undoing /\ tx'.pc \in Undoing
     \/ tx.pc \in Undoing /\ tx'.pc = "release" /\ (tx'.restoreFailed \/ tx.pc = "undo_end")
     \/ tx.pc = "release" /\ tx'.pc = "unlock" /\ tx'.restoreFailed = tx.restoreFailed

LEMMA Onward ==
    ASSUME IsTx(tx), NEW t, Keeps(tx, t), t.error = tx.error, tx.pc \in Undoing,
           UNCHANGED <<plan, touched, edited, gitState, result>>,
           \/ tx' = GiveUp(t) \/ Previously(t)
           \/ \E pc \in Undoing : tx' = [t EXCEPT !.pc = pc]
    PROVE  PutsBack
<1>1. IsTx(t)
  BY DEF Keeps, Same
<1>2. CASE tx' = GiveUp(t)
  BY <1>1, <1>2, GiveUpTx DEF PutsBack, Keeps, Same
<1>3. CASE Previously(t)
  BY <1>1, <1>3, TurnTx DEF PutsBack, Keeps, Same, Undoing
<1>4. ASSUME NEW pc \in Undoing, tx' = [t EXCEPT !.pc = pc]
      PROVE  PutsBack
  <2>1. Keeps(t, tx') /\ tx'.error = t.error /\ tx'.pc = pc
    BY <1>1, <1>4, FieldSet DEF Keeps, Same, IsTx
  <2> QED BY <2>1 DEF PutsBack, Keeps, Same
<1> QED BY <1>2, <1>3, <1>4

LEMMA UndoFilesStep ==
    ASSUME IsTx(tx), UndoFiles
    PROVE  PutsBack
<1> USE DEF gitState, At, Goto, files, material
<1> DEFINE Moves == \/ tx' = GiveUp(tx) \/ Previously(tx)
                    \/ \E pc \in Undoing : tx' = [tx EXCEPT !.pc = pc]
           Rests == tx.pc \in Undoing /\ UNCHANGED <<plan, touched, edited, gitState, result>>
<1>0. Keeps(tx, tx)
  BY DEF Keeps, Same
<1>1. CASE UndoCheck
  <2>1. Rests
    BY <1>1 DEF UndoCheck, Undoing
  <2> DEFINE t == [tx EXCEPT !.k = 2 * Half + 1]
  <2>2. tx' = GiveUp(tx) \/ Previously(t)
    BY <1>1 DEF UndoCheck
  <2>3. Keeps(tx, t) /\ t.error = tx.error
    BY FieldSet DEF Keeps, Same, IsTx
  <2> HIDE DEF t
  <2> QED BY <1>0, <2>1, <2>2, <2>3, Onward
<1>2. CASE Undo
  <2>1. Moves /\ Rests
    BY <1>2 DEF Undo, Undoing
  <2> QED BY <1>0, <2>1, Onward
<1>3. CASE UndoTake
  <2>1. Moves /\ Rests
    BY <1>3 DEF UndoTake, Undoing
  <2> QED BY <1>0, <2>1, Onward
<1>4. CASE UndoVerify
  <2>1. Moves /\ Rests
    BY <1>4 DEF UndoVerify, Undoing
  <2> QED BY <1>0, <2>1, Onward
<1>5. CASE UndoClear
  <2>1. Moves /\ Rests
    BY <1>5 DEF UndoClear, Undoing
  <2> QED BY <1>0, <2>1, Onward
<1>6. CASE UndoCleared
  <2>1. Moves /\ Rests
    BY <1>6 DEF UndoCleared, Undoing
  <2> QED BY <1>0, <2>1, Onward
<1>7. CASE UndoPut
  <2> DEFINE t == [tx EXCEPT !.remade = @ \cup (IF Up(Record) = Top THEN {} ELSE Missing({Up(Record)}))]
  <2>1. Rests /\ (Previously(t) \/ tx' = GiveUp(t))
    BY <1>7 DEF UndoPut, Undoing
  <2>2. Keeps(tx, t) /\ t.error = tx.error
    BY FieldSet DEF Keeps, Same, IsTx
  <2> HIDE DEF t
  <2> QED BY <2>1, <2>2, Onward
<1>8. CASE UndoEnd
  <2>1. /\ Rests /\ tx.pc = "undo_end"
        /\ tx' = [tx EXCEPT !.mutated = FALSE, !.pc = "release"] \/ tx' = GiveUp(tx)
    BY <1>8 DEF UndoEnd, Undoing
  <2>2. CASE tx' = [tx EXCEPT !.mutated = FALSE, !.pc = "release"]
    BY <2>1, <2>2, FieldSet DEF PutsBack, Same, IsTx
  <2> QED BY <1>0, <2>1, <2>2, Onward
<1>9. CASE ReleaseFiles
  <2>1. /\ tx.pc = "release" /\ tx' = [tx EXCEPT !.pc = "unlock"]
        /\ UNCHANGED <<plan, touched, edited, gitState, result>>
    BY <1>9 DEF ReleaseFiles
  <2> QED BY <2>1, FieldSet DEF PutsBack, Same, IsTx
<1> QED BY <1>1, <1>2, <1>3, <1>4, <1>5, <1>6, <1>7, <1>8, <1>9 DEF UndoFiles

-----------------------------------------------------------------------------
(* Steps that leave Git alone keep the invariant.                            *)
LEMMA WorksKeeps ==
    ASSUME IInv, tx.pc \in FileLabels, Works
    PROVE  IInv'
<1>1. /\ tx'.lock = tx.lock /\ tx'.promoted = tx.promoted /\ tx'.update = tx.update
      /\ tx'.restoreFailed = tx.restoreFailed /\ IsTx(tx')
      /\ UNCHANGED <<plan, touched, binding, ref, index, indexLock, result>>
  BY DEF Works, Keeps, Same, gitState
<1>2. World'
  BY <1>1 DEF IInv, World
<1>3. Locking'
  BY <1>1 DEF IInv, Locking, Works, FileLabels, Locked, HeadLabels
<1>4. Course'
  BY <1>1 DEF IInv, Course, Locking, Works, FileLabels, Locked, HeadLabels, Going, First, Ending,
              Undoing, Errors, Detached
<1>5. ASSUME "git" \notin touched
      PROVE  Alone'
  <2>1. /\ Meant(tx.update) /\ ~tx.update.known /\ ~tx.promoted /\ index = "old"
    BY <1>5 DEF IInv, Alone, Course, Going, Locked, FileLabels
  <2>2. Meant(tx.update)'
    BY <1>1, <2>1 DEF Meant, Bound, FoundAs, Detached, Start
  <2>3. Restored
    BY <2>1, PlansAssumption DEF IInv, World, PlanType, Meant, Bound, Start, Restored, HEAD, Branches
  <2>4. Restored'
    BY <1>1, <2>3 DEF Restored, HEAD
  <2> QED BY <1>1, <2>1, <2>2, <2>4
       DEF Alone, Works, FileLabels, First, Going, Locked, HeadLabels, Undoing, Ending
<1> QED BY <1>1, <1>2, <1>3, <1>4, <1>5 DEF IInv

LEMMA PutsBackKeeps ==
    ASSUME IInv, PutsBack
    PROVE  IInv'
<1>1. /\ tx'.lock = tx.lock /\ tx'.promoted = tx.promoted /\ tx'.update = tx.update
      /\ IsTx(tx') /\ UNCHANGED <<plan, touched, binding, ref, index, indexLock, result>>
  BY DEF PutsBack, Same, gitState
<1>2. World'
  BY <1>1 DEF IInv, World
<1>3. Locking'
  BY <1>1 DEF IInv, Locking, PutsBack, FileLabels, Locked, HeadLabels, Undoing
<1>4. Course'
  BY <1>1 DEF IInv, Course, Locking, PutsBack, FileLabels, Locked, HeadLabels, Going, First, Ending,
              Undoing, Detached
<1>5. ASSUME "git" \notin touched
      PROVE  Alone'
  <2>1. tx.restoreFailed \/ Restored \/ (tx.pc = "release" /\ tx.error = "none")
    BY <1>5 DEF IInv, Alone, PutsBack, Ending
  <2>2. Restored => Restored'
    BY <1>1 DEF Restored, HEAD
  <2> QED BY <1>1, <2>1, <2>2
       DEF Alone, PutsBack, FileLabels, First, Going, Locked, HeadLabels, Undoing, Ending
<1> QED BY <1>1, <1>2, <1>3, <1>4, <1>5 DEF IInv

(* The observations before the first change.                                 *)
LEMMA LookStep ==
    ASSUME IInv, Observe \/ Import \/ Reobserve
    PROVE  IInv' /\ UNCHANGED gitState
<1> USE DEF gitState, At, Goto, Fail
<1>1. /\ tx.pc \in {"observe", "import", "reobserve"}
      /\ UNCHANGED <<plan, touched, binding, ref, index, indexLock, result>>
      /\ \/ tx.pc = "observe" /\ tx' = [tx EXCEPT !.pc = "import"]
         \/ tx.pc = "import" /\ tx' = [tx EXCEPT !.pc = "index"]
         \/ tx.pc = "reobserve" /\ index = "old" /\ tx' = [tx EXCEPT !.pc = "stage"]
         \/ \E e \in Errors : tx' = Fails(tx, e)
  BY DEF Observe, Import, Reobserve, LooksPrevious, Errors, files
<1>2. /\ Keeps(tx, tx')
      /\ \/ tx.pc = "observe" /\ tx'.pc = "import" /\ tx'.error = tx.error
         \/ tx.pc = "import" /\ tx'.pc = "index" /\ tx'.error = tx.error
         \/ tx.pc = "reobserve" /\ index = "old" /\ tx'.pc = "stage" /\ tx'.error = tx.error
         \/ tx'.error \in Errors /\ tx'.pc \in {"undo_index", "release"}
  <2>1. CASE \E e \in Errors : tx' = Fails(tx, e)
    BY <2>1, FailsTx DEF IInv, World
  <2> QED BY <1>1, <2>1, FieldSet DEF IInv, World, Keeps, Same, IsTx
<1>3. /\ tx'.lock = tx.lock /\ tx'.promoted = tx.promoted /\ tx'.update = tx.update
      /\ tx'.restoreFailed = tx.restoreFailed /\ IsTx(tx')
  BY <1>2 DEF Keeps, Same
<1>4. World'
  BY <1>1, <1>3 DEF IInv, World
<1>5. Locking'
  BY <1>1, <1>2, <1>3 DEF IInv, Locking, FileLabels, Locked, HeadLabels
<1>6. Course'
  BY <1>1, <1>2, <1>3 DEF IInv, Course, Locking, FileLabels, Locked, HeadLabels, Going, First,
                          Ending, Undoing, Errors, Detached
<1>7. ASSUME "git" \notin touched
      PROVE  Alone'
  <2>1. /\ Meant(tx.update) /\ ~tx.update.known /\ ~tx.promoted /\ index = "old"
    BY <1>1, <1>7 DEF IInv, Alone, Course, Going, Locked, First
  <2>2. Meant(tx.update)'
    BY <1>1, <1>3, <2>1 DEF Meant, Bound, FoundAs, Detached, Start
  <2>3. Restored
    BY <2>1 DEF IInv, World, PlanType, Meant, Bound, Start, Restored, HEAD, Branches
  <2>4. Restored'
    BY <1>1, <2>3 DEF Restored, HEAD
  <2> QED BY <1>2, <1>3, <2>1, <2>2, <2>4, <1>1
       DEF Alone, FileLabels, First, Going, Locked, HeadLabels, Undoing, Ending, Errors
<1> QED BY <1>1, <1>4, <1>5, <1>6, <1>7 DEF IInv

-----------------------------------------------------------------------------
(* The steps on the index, HEAD and the branches.                            *)

(* Nothing anybody else did to a branch or the index is overwritten, nor     *)
(* their lock removed.                                                       *)
Respects ==
  /\ \A b \in Branches : ref[b] = "theirs" => ref'[b] = "theirs"
  /\ index = "theirs" => index' = "theirs"
  /\ indexLock = "theirs" /\ tx' # tx => indexLock' = "theirs"

(* From any label before HEAD is changed, a failure finds Git as it was.     *)
LEMMA AtStart ==
    ASSUME IInv, Alone, tx.pc \in First \cup {"reobserve", "head"} \cup FileLabels
    PROVE  Restored
BY DEF IInv, World, PlanType, Alone, Course, Going, Locked, HeadLabels, Meant, Bound, Start, Restored,
       HEAD, Branches, First, FileLabels

LEMMA PrepareIndexStep ==
    ASSUME IInv, PrepareIndex
    PROVE  IInv' /\ Respects
<1> USE DEF At, Fail
<1>1. tx.pc = "index" /\ UNCHANGED <<plan, touched, binding, ref, index, result>>
  BY DEF PrepareIndex, files
<1>2. CASE /\ indexLock = "free" /\ indexLock' = "ours"
           /\ tx' = [tx EXCEPT !.pc = "reobserve", !.lock = TRUE, !.indexBackup = TRUE]
  <2>1. /\ IsTx(tx') /\ tx'.pc = "reobserve" /\ tx'.lock = TRUE /\ tx'.promoted = tx.promoted
        /\ tx'.update = tx.update /\ tx'.error = tx.error /\ tx'.restoreFailed = tx.restoreFailed
    BY <1>2, FieldSet DEF IInv, World, IsTx
  <2>2. World' /\ Locking'
    BY <1>1, <1>2, <2>1 DEF IInv, World, Locking, Locked, FileLabels, HeadLabels
  <2>3. Course'
    BY <1>1, <1>2, <2>1 DEF IInv, Course, Locked, FileLabels, HeadLabels, Going, First, Detached
  <2>4. ASSUME "git" \notin touched PROVE Alone'
    <3>1. /\ Meant(tx.update) /\ ~tx.update.known /\ ~tx.promoted /\ index = "old"
      BY <1>1, <2>4 DEF IInv, Alone, Course, Going, First
    <3>2. Meant(tx.update)'
      BY <1>1, <2>1, <3>1 DEF Meant, Bound, FoundAs, Detached, Start
    <3> QED BY <1>1, <2>1, <3>1, <3>2 DEF Alone, Undoing, Ending
  <2> QED BY <1>1, <1>2, <2>2, <2>3, <2>4 DEF IInv, Respects
<1>3. CASE tx' = Fails(tx, "conflict") /\ UNCHANGED indexLock
  <2>1. /\ Keeps(tx, tx') /\ tx'.error = "conflict" /\ tx'.pc \in {"undo_index", "release"}
    BY <1>3, FailsTx DEF IInv, World
  <2>2. World' /\ Locking'
    BY <1>1, <1>3, <2>1 DEF IInv, World, Locking, Locked, FileLabels, HeadLabels, Keeps, Same
  <2>3. Course'
    BY <1>1, <1>3, <2>1 DEF IInv, Course, Locked, FileLabels, HeadLabels, Going, First, Ending,
                            Undoing, Detached, Keeps, Same
  <2>4. ASSUME "git" \notin touched PROVE Alone'
    <3>1. /\ Meant(tx.update) /\ ~tx.update.known /\ ~tx.promoted /\ index = "old" /\ Restored
      BY <1>1, <2>4, AtStart DEF IInv, Alone, Course, Going, First
    <3>2. Meant(tx.update)' /\ Restored'
      BY <1>1, <2>1, <3>1 DEF Meant, Bound, FoundAs, Detached, Start, Keeps, Same, Restored, HEAD
    <3> QED BY <1>1, <2>1, <3>1, <3>2 DEF Alone, Undoing, Ending, Keeps, Same, Going, First, Locked,
                                          FileLabels, HeadLabels
  <2> QED BY <1>1, <1>3, <2>2, <2>3, <2>4 DEF IInv, Respects
<1> QED BY <1>2, <1>3 DEF PrepareIndex

LEMMA FreshUpdate ==
    ASSUME NEW a, NEW b, NEW c
    PROVE  [NoUpdate EXCEPT !.binding = a, !.head = b, !.ref = c]
             = [known |-> FALSE, binding |-> a, head |-> b, ref |-> c, headChanged |-> FALSE, refChanged |-> FALSE]
<1> DEFINE r == [NoUpdate EXCEPT !.binding = a, !.head = b, !.ref = c]
           s == [known |-> FALSE, binding |-> a, head |-> b, ref |-> c, headChanged |-> FALSE, refChanged |-> FALSE]
           D == {"known", "binding", "head", "ref", "headChanged", "refChanged"}
<1>1. s = [f \in D |-> s[f]]
  OBVIOUS
<1>2. r = [f \in D |-> r[f]]
  BY DEF NoUpdate
<1>3. \A f \in D : r[f] = s[f]
  <2>1. r["known"] = s["known"]
    BY DEF NoUpdate
  <2>2. r["binding"] = s["binding"]
    BY DEF NoUpdate
  <2>3. r["head"] = s["head"]
    BY DEF NoUpdate
  <2>4. r["ref"] = s["ref"]
    BY DEF NoUpdate
  <2>5. r["headChanged"] = s["headChanged"]
    BY DEF NoUpdate
  <2>6. r["refChanged"] = s["refChanged"]
    BY DEF NoUpdate
  <2> QED BY <2>1, <2>2, <2>3, <2>4, <2>5, <2>6
<1> HIDE DEF r, s
<1>4. r = s
  BY <1>1, <1>2, <1>3
<1> QED BY <1>4 DEF r, s

LEMMA UpdateHEADStep ==
    ASSUME IInv, UpdateHEAD
    PROVE  IInv' /\ Respects
<1> DEFINE u == [known |-> FALSE, binding |-> binding, head |-> HEAD,
                 ref |-> IF Detached THEN "none" ELSE ref[plan.to],
                 headChanged |-> FALSE, refChanged |-> FALSE]
           t == [tx EXCEPT !.update = u]
<1>1. tx.pc = "head" /\ tx.mutated /\ UNCHANGED <<plan, touched, binding, ref, index, indexLock, result>>
  BY DEF UpdateHEAD, files, gitState, At, IInv, Course, HeadLabels
<1>2. CASE /\ plan.rewind => ref[plan.to] = "old"
           /\ BranchFits /\ tx' = [t EXCEPT !.pc = "bind"]
  <2>1. u \in Update /\ u.ref # "theirs"
    BY <1>2 DEF IInv, World, PlanType, Update, HEAD, BranchFits, Contained, Detached, Commits, Bindings, Branches
  <2>2. ~u.known /\ ~u.headChanged /\ ~u.refChanged /\ u.binding = binding /\ u.head = HEAD
        /\ (~Detached => u.ref = ref[plan.to])
    OBVIOUS
  <2> HIDE DEF u
  <2>3. /\ IsTx(tx') /\ tx'.pc = "bind" /\ tx'.update = u /\ tx'.lock = tx.lock /\ tx'.mutated = tx.mutated
        /\ tx'.promoted = tx.promoted /\ tx'.error = tx.error /\ tx'.restoreFailed = tx.restoreFailed
    BY <1>2, FieldSet DEF IInv, World, IsTx
  <2>4. World' /\ Locking'
    BY <1>1, <2>1, <2>3 DEF IInv, World, Locking, Locked, FileLabels, HeadLabels
  <2>5. Course'
    BY <1>1, <2>1, <2>2, <2>3 DEF IInv, World, Course, Locked, FileLabels, HeadLabels, Going, First, Detached
  <2>6. ASSUME "git" \notin touched PROVE Alone'
    <3>1. /\ Meant(tx.update) /\ ~tx.update.known /\ ~tx.promoted /\ index = "old" /\ Restored
      BY <1>1, <2>6, AtStart DEF IInv, Alone, Course, Going, Locked, HeadLabels
    <3>2. FoundAs(u)
      BY <2>2, <3>1 DEF FoundAs, Meant, Bound, Restored, Start, Branches, Detached, IInv, World, PlanType
    <3>3. Meant(u)
      BY <2>2, <3>1 DEF Meant, Bound
    <3>4. (Meant(tx.update) /\ FoundAs(tx.update))'
      BY <1>1, <2>3, <3>2, <3>3 DEF Meant, Bound, FoundAs, Detached, Start
    <3> QED BY <1>1, <2>2, <2>3, <3>1, <3>4 DEF Alone, First, Going, Locked, FileLabels, HeadLabels, Undoing, Ending
  <2> QED BY <1>1, <2>4, <2>5, <2>6 DEF IInv, Respects
<1>3. CASE tx' = Fails(tx, "conflict")
  <2>1. Keeps(tx, tx') /\ tx'.error = "conflict" /\ tx'.pc = "undo_index"
    BY <1>1, <1>3, FailsTx DEF IInv, World
  <2>2. World' /\ Locking'
    BY <1>1, <2>1 DEF IInv, World, Locking, Locked, FileLabels, HeadLabels, Keeps, Same
  <2>3. Course'
    BY <1>1, <2>1 DEF IInv, Course, Locked, FileLabels, HeadLabels, Going, First, Ending,
                      Undoing, Detached, Keeps, Same
  <2>4. ASSUME "git" \notin touched PROVE Alone'
    <3>1. Meant(tx.update) /\ ~tx.promoted /\ index = "old"
      BY <1>1, <2>4 DEF IInv, Alone, Course, Going, Locked, HeadLabels
    <3>2. Meant(tx.update)'
      BY <1>1, <2>1, <3>1 DEF Meant, Bound, FoundAs, Detached, Start, Keeps, Same
    <3> QED BY <1>1, <2>1, <3>1, <3>2 DEF Alone, Undoing, Ending, Keeps, Same, Going, First, Locked,
                                          FileLabels, HeadLabels
  <2> QED BY <1>1, <2>2, <2>3, <2>4 DEF IInv, Respects
<1>4. \/ tx' = Fails(tx, "conflict")
      \/ (plan.rewind => ref[plan.to] = "old") /\ BranchFits /\ tx' = [t EXCEPT !.pc = "bind"]
  <2>1. [NoUpdate EXCEPT !.binding = binding, !.head = HEAD, !.ref = IF Detached THEN "none" ELSE ref[plan.to]] = u
    BY FreshUpdate
  <2> HIDE DEF u
  <2> QED BY <2>1 DEF UpdateHEAD
<1> QED BY <1>2, <1>3, <1>4

(* What is recorded of HEAD and the branch, on the way and at a failure.     *)
Noted(t, r) ==
  /\ IsTx(r) /\ r.update \in Update
  /\ r.lock = t.lock /\ r.promoted = t.promoted /\ r.restoreFailed = t.restoreFailed
  /\ r.mutated = t.mutated
  /\ r.update.binding = t.update.binding /\ r.update.head = t.update.head /\ r.update.ref = t.update.ref

Knows(t)            == [t EXCEPT !.update.known = TRUE]
KnowsHead(t, h)     == [t EXCEPT !.update.known = TRUE, !.update.headChanged = h]
KnowsHeadAt(t, h, p) == [t EXCEPT !.update.known = TRUE, !.update.headChanged = h, !.pc = p]

LEMMA KnowsTx ==
    ASSUME NEW t, IsTx(t), t.update \in Update
    PROVE  /\ Noted(t, Knows(t)) /\ Knows(t).error = t.error
           /\ Knows(t).update.known
           /\ Knows(t).update.headChanged = t.update.headChanged
           /\ Knows(t).update.refChanged = t.update.refChanged
<1> DEFINE r == Knows(t)
<1>1. r.update = [t.update EXCEPT !.known = TRUE]
  BY FieldSet DEF IsTx, Knows
<1>2. /\ IsTx(r) /\ r.lock = t.lock /\ r.promoted = t.promoted /\ r.restoreFailed = t.restoreFailed
      /\ r.mutated = t.mutated /\ r.error = t.error
  BY FieldSet DEF IsTx, Knows
<1> HIDE DEF r
<1>3. r.update \in Update /\ r.update.known /\ r.update.headChanged = t.update.headChanged
  BY <1>1 DEF Update
<1>4. /\ r.update.binding = t.update.binding /\ r.update.head = t.update.head /\ r.update.ref = t.update.ref
      /\ r.update.refChanged = t.update.refChanged
  BY <1>1 DEF Update
<1>5. Noted(t, r)
  BY <1>2, <1>3, <1>4 DEF Noted
<1> QED BY <1>2, <1>3, <1>4, <1>5 DEF r

LEMMA KnowsHeadTx ==
    ASSUME NEW t, IsTx(t), t.update \in Update, NEW h \in BOOLEAN
    PROVE  /\ Noted(t, KnowsHead(t, h)) /\ KnowsHead(t, h).error = t.error
           /\ KnowsHead(t, h).update.known
           /\ KnowsHead(t, h).update.headChanged = h
           /\ KnowsHead(t, h).update.refChanged = t.update.refChanged
<1> DEFINE r == KnowsHead(t, h)
<1>1. r.update = [t.update EXCEPT !.known = TRUE, !.headChanged = h]
  BY FieldSet DEF IsTx, KnowsHead
<1>2. /\ IsTx(r) /\ r.lock = t.lock /\ r.promoted = t.promoted /\ r.restoreFailed = t.restoreFailed
      /\ r.mutated = t.mutated /\ r.error = t.error
  BY FieldSet DEF IsTx, KnowsHead
<1> HIDE DEF r
<1>3. r.update \in Update /\ r.update.known /\ r.update.headChanged = h
  BY <1>1 DEF Update
<1>4. /\ r.update.binding = t.update.binding /\ r.update.head = t.update.head /\ r.update.ref = t.update.ref
      /\ r.update.refChanged = t.update.refChanged
  BY <1>1 DEF Update
<1>5. Noted(t, r)
  BY <1>2, <1>3, <1>4 DEF Noted
<1> QED BY <1>2, <1>3, <1>4, <1>5 DEF r

LEMMA KnowsHeadAtTx ==
    ASSUME NEW t, IsTx(t), t.update \in Update, NEW h \in BOOLEAN, NEW p
    PROVE  /\ Noted(t, KnowsHeadAt(t, h, p)) /\ KnowsHeadAt(t, h, p).error = t.error /\ KnowsHeadAt(t, h, p).pc = p
           /\ KnowsHeadAt(t, h, p).update.known
           /\ KnowsHeadAt(t, h, p).update.headChanged = h
           /\ KnowsHeadAt(t, h, p).update.refChanged = t.update.refChanged
<1> DEFINE r == KnowsHeadAt(t, h, p)
<1>1. r.update = [t.update EXCEPT !.known = TRUE, !.headChanged = h]
  BY FieldSet DEF IsTx, KnowsHeadAt
<1>2. /\ IsTx(r) /\ r.lock = t.lock /\ r.promoted = t.promoted /\ r.restoreFailed = t.restoreFailed
      /\ r.mutated = t.mutated /\ r.error = t.error /\ r.pc = p
  BY FieldSet DEF IsTx, KnowsHeadAt
<1> HIDE DEF r
<1>3. r.update \in Update /\ r.update.known /\ r.update.headChanged = h
  BY <1>1 DEF Update
<1>4. /\ r.update.binding = t.update.binding /\ r.update.head = t.update.head /\ r.update.ref = t.update.ref
      /\ r.update.refChanged = t.update.refChanged
  BY <1>1 DEF Update
<1>5. Noted(t, r)
  BY <1>2, <1>3, <1>4 DEF Noted
<1> QED BY <1>2, <1>3, <1>4, <1>5 DEF r

LEMMA BindHEADStep ==
    ASSUME IInv, BindHEAD
    PROVE  IInv' /\ Respects
<1> DEFINE u == tx.update
           h == u.binding # plan.to \/ (Detached /\ u.head # "new")
           swaps == Detached => HEAD = u.head
           moved == /\ binding' = plan.to
                    /\ ref' = IF Detached THEN [ref EXCEPT !["detached"] = "new"] ELSE ref
           stays == UNCHANGED <<binding, ref>>
           reached == binding' = plan.to /\ (Detached => HEAD' = "new")
<1>1. /\ tx.pc = "bind" /\ tx.mutated /\ u.ref # "theirs" /\ u \in Update /\ IsTx(tx)
      /\ plan.to \in Bindings /\ index = "old"
      /\ UNCHANGED <<plan, touched, index, indexLock, result>>
  BY DEF BindHEAD, files, At, IInv, Course, HeadLabels, World, PlanType, Bindings, Locking, Locked
<1>2. /\ \/ swaps /\ moved
         \/ stays
      /\ \/ /\ moved /\ tx' = [tx EXCEPT !.update.known = TRUE, !.update.headChanged = h,
                                         !.pc = IF Detached THEN "promote" ELSE "move"]
         \/ tx' = Reconciled(tx)
  BY DEF BindHEAD
<1>3. h \in BOOLEAN /\ u.headChanged \in BOOLEAN
  BY <1>1 DEF Update
<1>4. /\ Noted(tx, tx') /\ tx'.update.known /\ tx'.update.refChanged = u.refChanged
      /\ \/ /\ moved /\ tx'.update.headChanged = h /\ tx'.error = tx.error
            /\ tx'.pc = IF Detached THEN "promote" ELSE "move"
         \/ /\ tx'.pc = "undo_index" /\ tx'.error \in Errors
            /\ IF reached THEN tx'.update.headChanged = h ELSE tx'.update.headChanged = u.headChanged
  <2> DEFINE q == IF Detached THEN "promote" ELSE "move"
             r == KnowsHeadAt(tx, h, q)
             a == KnowsHead(tx, h)
             b == Knows(tx)
  <2>1. /\ Noted(tx, r) /\ r.error = tx.error /\ r.pc = q /\ r.update.known
        /\ r.update.headChanged = h /\ r.update.refChanged = tx.update.refChanged
    <3> HIDE DEF h, q
    <3> QED BY <1>1, <1>3, KnowsHeadAtTx
  <2>3. /\ Noted(tx, a) /\ a.update.known /\ a.update.headChanged = h
        /\ a.update.refChanged = tx.update.refChanged
    <3> HIDE DEF h
    <3> QED BY <1>1, <1>3, KnowsHeadTx
  <2>4. /\ Noted(tx, b) /\ b.update.known /\ b.update.headChanged = tx.update.headChanged
        /\ b.update.refChanged = tx.update.refChanged
    BY <1>1, KnowsTx
  <2>5. CASE moved /\ tx' = r
    <3> HIDE DEF h, r
    <3> QED BY <2>1, <2>5
  <2>6. CASE reached /\ tx' = Fails(a, "failed")
    <3> HIDE DEF a, h
    <3>1. /\ Keeps(a, tx') /\ tx'.error = "failed" /\ tx'.pc = "undo_index"
      BY <1>1, <2>3, <2>6, FailsTx DEF Noted
    <3>2. tx'.mutated = a.mutated
      BY <2>3, <2>6, FieldSet DEF Fails, Noted, IsTx
    <3> QED BY <2>3, <2>6, <3>1, <3>2 DEF Noted, Keeps, Same, Errors
  <2>7. ASSUME NEW e \in Errors, ~reached, tx' = Fails(b, e)
        PROVE  /\ Noted(tx, tx') /\ tx'.update.known /\ tx'.update.refChanged = u.refChanged
               /\ tx'.pc = "undo_index" /\ tx'.error \in Errors /\ tx'.update.headChanged = u.headChanged
    <3> HIDE DEF b, h
    <3>1. /\ Keeps(b, tx') /\ tx'.error = e /\ tx'.pc = "undo_index"
      BY <1>1, <2>4, <2>7, FailsTx DEF Noted
    <3>2. tx'.mutated = b.mutated
      BY <2>4, <2>7, FieldSet DEF Fails, Noted, IsTx
    <3> QED BY <2>4, <2>7, <3>1, <3>2 DEF Noted, Keeps, Same, Errors
  <2>8. tx' = Reconciled(tx) => \/ reached /\ tx' = Fails(a, "failed")
                                \/ \E e \in Errors : ~reached /\ tx' = Fails(b, e)
    BY DEF Reconciled, Errors, Knows, KnowsHead
  <2>9. \/ moved /\ tx' = r
        \/ tx' = Reconciled(tx)
    BY <1>2 DEF KnowsHeadAt
  <2> HIDE DEF a, b, r
  <2> QED BY <2>5, <2>6, <2>7, <2>8, <2>9
<1>5. binding' \in Bindings /\ ref' \in [Bindings -> Commits] /\ \A b \in Branches : ref'[b] = ref[b]
  BY <1>1, <1>2 DEF IInv, World, Bindings, Branches, Commits
<1>6. World' /\ Locking'
  BY <1>1, <1>4, <1>5 DEF IInv, World, Noted, Locking, Locked, FileLabels, HeadLabels
<1>7. Course'
  <2> HIDE DEF h
  <2> QED BY <1>1, <1>4 DEF IInv, Noted, Course, Locked, FileLabels, HeadLabels, Going, First, Ending, Undoing,
                            Detached, Errors
<1>8. ASSUME "git" \notin touched PROVE Alone'
  <2>1. /\ Meant(u) /\ FoundAs(u) /\ ~tx.promoted /\ ~u.headChanged /\ ~u.refChanged
    BY <1>1, <1>8 DEF IInv, Alone, Course, Going, Locked, HeadLabels, Meant
  <2>2. /\ binding = plan.from /\ ref["detached"] = "old"
        /\ \A b \in Branches : ref[b] = Start(b)
    BY <2>1 DEF Meant, Bound
  <2>3. h <=> (plan.from # plan.to \/ Detached)
    BY <2>1 DEF FoundAs
  <2>4. Bound(tx.update)'
    <3>1. CASE moved
      <4>1. reached
        BY <1>1, <3>1 DEF HEAD, Detached, IInv, World, Bindings
      <4> QED BY <1>1, <1>4, <2>2, <2>3, <3>1, <4>1 DEF Bound, Detached, IInv, World, Bindings
    <3>2. CASE stays /\ tx'.pc = "undo_index"
      <4>1. reached => plan.from = plan.to /\ ~Detached
        BY <2>2, <3>2 DEF HEAD, Detached
      <4>2. ~tx'.update.headChanged
        BY <1>3, <1>4, <2>1, <2>3, <3>2, <4>1
      <4> QED BY <2>2, <3>2, <4>2, <1>1 DEF Bound, Detached
    <3> QED BY <1>2, <1>4, <3>1, <3>2
  <2>5. FoundAs(tx.update)' /\ tx'.update.known
    BY <1>1, <1>4, <2>1 DEF FoundAs, Noted, Detached, Start
  <2>6. Meant(tx.update)'
    BY <1>1, <1>4, <1>5, <2>1, <2>2, <2>4, <2>5 DEF Meant, Start
  <2> QED BY <1>1, <1>4, <2>1, <2>5, <2>6 DEF Alone, Noted, Undoing, Ending, Going, First, Locked, FileLabels, HeadLabels
<1>9. Respects
  BY <1>1, <1>5 DEF Respects
<1> QED BY <1>1, <1>6, <1>7, <1>8, <1>9 DEF IInv

LEMMA AdvancedTx ==
    ASSUME NEW t, IsTx(t), t.update \in Update
    PROVE  /\ Noted(t, Advanced(t)) /\ Advanced(t).error = t.error
           /\ Advanced(t).update.known = t.update.known
           /\ Advanced(t).update.headChanged = t.update.headChanged
           /\ Advanced(t).update.refChanged = (t.update.ref # "new")
<1> DEFINE r == Advanced(t)
           c == t.update.ref # "new"
<1>1. r.update = [t.update EXCEPT !.refChanged = c]
  BY FieldSet DEF IsTx, Advanced
<1>2. /\ IsTx(r) /\ r.lock = t.lock /\ r.promoted = t.promoted /\ r.restoreFailed = t.restoreFailed
      /\ r.mutated = t.mutated /\ r.error = t.error
  BY FieldSet DEF IsTx, Advanced
<1>3. c \in BOOLEAN
  OBVIOUS
<1> HIDE DEF r, c
<1>4. r.update \in Update /\ r.update.refChanged = c
  BY <1>1, <1>3 DEF Update
<1>5. /\ r.update.binding = t.update.binding /\ r.update.head = t.update.head /\ r.update.ref = t.update.ref
      /\ r.update.known = t.update.known /\ r.update.headChanged = t.update.headChanged
  BY <1>1 DEF Update
<1>6. Noted(t, r)
  BY <1>2, <1>4, <1>5 DEF Noted
<1> QED BY <1>2, <1>4, <1>5, <1>6 DEF r, c

LEMMA MoveBranchStep ==
    ASSUME IInv, MoveBranch
    PROVE  IInv' /\ Respects
<1> DEFINE u == tx.update
           b == plan.to
           moved == ref' = [ref EXCEPT ![b] = "new"]
           a == Advanced(tx)
<1>1. /\ tx.pc = "move" /\ tx.mutated /\ u.ref # "theirs" /\ u \in Update /\ IsTx(tx)
      /\ b \in Branches /\ b # "detached" /\ ~Detached /\ index = "old" /\ ref \in [Bindings -> Commits]
      /\ UNCHANGED <<plan, touched, binding, index, indexLock, result>>
  BY DEF MoveBranch, files, At, IInv, Course, HeadLabels, World, PlanType, Bindings, Locking, Locked,
         Detached, Branches
<1>2. /\ Noted(tx, a) /\ a.error = tx.error /\ a.update.known = u.known
      /\ a.update.headChanged = u.headChanged /\ a.update.refChanged = (u.ref # "new")
  BY <1>1, AdvancedTx
<1>3. Noted(tx, tx)
  BY <1>1 DEF Noted
<1>4. /\ Noted(tx, tx') /\ tx'.update.known = u.known /\ tx'.update.headChanged = u.headChanged
      /\ \/ /\ ref[b] = u.ref /\ moved /\ tx'.update.refChanged = (u.ref # "new")
            /\ tx'.pc = "promote" /\ tx'.error = tx.error
         \/ /\ (ref[b] = u.ref /\ moved) \/ UNCHANGED ref
            /\ tx'.pc = "undo_index" /\ tx'.error \in Errors
            /\ \/ ref'[b] = "new" /\ tx'.update.refChanged = (u.ref # "new")
               \/ ref'[b] # "new" /\ tx'.update.refChanged = u.refChanged
  <2> HIDE DEF a
  <2>1. CASE ref[b] = u.ref /\ moved /\ tx' = [a EXCEPT !.pc = "promote"]
    <3>1. /\ IsTx(tx') /\ tx'.update = a.update /\ tx'.error = a.error /\ tx'.pc = "promote"
          /\ tx'.lock = a.lock /\ tx'.promoted = a.promoted /\ tx'.restoreFailed = a.restoreFailed
          /\ tx'.mutated = a.mutated
      BY <1>2, <2>1, FieldSet DEF Noted, IsTx
    <3> QED BY <1>2, <2>1, <3>1 DEF Noted
  <2>2. ASSUME NEW t \in {tx, a}, NEW e \in Errors, tx' = Fails(t, e)
        PROVE  /\ Noted(tx, tx') /\ tx'.update = t.update /\ tx'.error \in Errors /\ tx'.pc = "undo_index"
    <3>1. Noted(tx, t)
      BY <1>2, <1>3
    <3>2. IsTx(t) /\ t.mutated
      BY <1>1, <3>1 DEF Noted
    <3>3. /\ Keeps(t, tx') /\ tx'.error = e /\ tx'.pc = "undo_index"
          /\ tx'.mutated = t.mutated
      BY ONLY <2>2, <3>2, FailsTx, FailsMutated
    <3> QED BY <2>2, <3>1, <3>3 DEF Noted, Keeps, Same
  <2>3. \/ ref[b] = u.ref /\ moved /\ tx' = [a EXCEPT !.pc = "promote"]
        \/ /\ (ref[b] = u.ref /\ moved) \/ UNCHANGED ref
           /\ \/ ref'[b] = "new" /\ tx' = Fails(a, "failed")
              \/ ref'[b] # "new" /\ (tx' = Fails(tx, "failed") \/ tx' = Fails(tx, "unknown"))
    BY DEF MoveBranch, a
  <2>4. CASE ref'[b] = "new" /\ tx' = Fails(a, "failed")
    <3>1. Noted(tx, tx') /\ tx'.update = a.update /\ tx'.error \in Errors /\ tx'.pc = "undo_index"
      BY <2>2, <2>4 DEF Errors
    <3> QED BY <1>2, <2>1, <2>3, <2>4, <3>1
  <2>5. CASE ref'[b] # "new" /\ (tx' = Fails(tx, "failed") \/ tx' = Fails(tx, "unknown"))
    <3>1. Noted(tx, tx') /\ tx'.update = tx.update /\ tx'.error \in Errors /\ tx'.pc = "undo_index"
      BY <2>2, <2>5 DEF Errors
    <3> QED BY <2>1, <2>3, <2>5, <3>1
  <2> QED BY <1>2, <2>1, <2>3, <2>4, <2>5
<1> HIDE DEF a
<1>5. /\ ref' \in [Bindings -> Commits]
      /\ \A x \in Bindings : ref'[x] = ref[x] \/ (x = b /\ ref'[x] = "new" /\ ref[x] = u.ref)
  BY <1>1, <1>4 DEF Bindings, Commits
<1>6. World' /\ Locking'
  BY <1>1, <1>4, <1>5 DEF IInv, World, Noted, Locking, Locked, FileLabels, HeadLabels
<1>7. Course'
  BY <1>1, <1>4 DEF IInv, Noted, Course, Locked, FileLabels, HeadLabels, Going, First, Ending, Undoing,
                    Detached, Errors
<1>8. ASSUME "git" \notin touched PROVE Alone'
  <2>1. /\ Meant(u) /\ FoundAs(u) /\ ~tx.promoted /\ u.known /\ ~u.refChanged
    BY <1>1, <1>8 DEF IInv, Alone, Course, Going, Locked, HeadLabels, Meant
  <2>2. Bound(u) /\ u.ref = Start(b) /\ \A x \in Branches : ref[x] = Start(x)
    BY <1>1, <2>1 DEF Meant, FoundAs
  <2>3. FoundAs(tx.update)' /\ tx'.update.known /\ Bound(tx.update)'
    BY <1>1, <1>4, <1>5, <2>1, <2>2 DEF FoundAs, Noted, Detached, Start, Bound, Bindings
  <2>4. \A x \in Branches : ref'[x] = IF tx'.update.refChanged /\ x = b THEN "new" ELSE Start(x)
    <3>1. \A x \in Branches \ {b} : ref'[x] = Start(x)
      BY <1>5, <2>2 DEF Bindings
    <3>2. ref'[b] = IF tx'.update.refChanged THEN "new" ELSE Start(b)
      <4>1. ref[b] = Start(b)
        BY <1>1, <2>2
      <4>2. \/ ref'[b] = "new" /\ tx'.update.refChanged = (u.ref # "new")
            \/ ref'[b] = ref[b] /\ tx'.update.refChanged = u.refChanged
        BY <1>1, <1>4 DEF Bindings
      <4>3. CASE ref'[b] = "new" /\ tx'.update.refChanged = (u.ref # "new")
        BY <2>2, <4>3
      <4>4. CASE ref'[b] = ref[b] /\ tx'.update.refChanged = u.refChanged
        BY <2>1, <4>1, <4>4
      <4> QED BY <4>2, <4>3, <4>4
    <3> QED BY <3>1, <3>2
  <2>5. Meant(tx.update)'
    BY <1>1, <2>3, <2>4 DEF Meant, Start
  <2> QED BY <1>1, <1>4, <2>1, <2>3, <2>5 DEF Alone, Noted, Undoing, Ending, Going, First, Locked, FileLabels, HeadLabels
<1>9. Respects
  BY <1>1, <1>5 DEF Respects, Bindings
<1> QED BY <1>1, <1>6, <1>7, <1>8, <1>9 DEF IInv

(* A failure once HEAD and branch may have been changed.                     *)
LEMMA LateFailure ==
    ASSUME IInv, NEW e \in Errors, tx' = Fails(tx, e), tx.pc \in {"promote", "final"},
           UNCHANGED <<plan, touched, gitState, result>>
    PROVE  IInv'
<1>1. tx.mutated /\ UNCHANGED <<plan, touched, binding, ref, index, indexLock, result>>
  BY DEF IInv, Course, HeadLabels, gitState
<1>2. Keeps(tx, tx') /\ tx'.error = e /\ tx'.pc = "undo_index"
  BY <1>1, FailsTx DEF IInv, World
<1>3. World' /\ Locking'
  BY <1>1, <1>2 DEF IInv, World, Locking, Locked, FileLabels, HeadLabels, Keeps, Same
<1>4. Course'
  BY <1>1, <1>2 DEF IInv, Course, Locked, FileLabels, HeadLabels, Going, First, Ending,
                    Undoing, Detached, Keeps, Same
<1>5. ASSUME "git" \notin touched PROVE Alone'
  <2>1. Meant(tx.update) /\ index = IF tx.promoted THEN "new" ELSE "old"
    BY <1>5 DEF IInv, Alone, Course, Going, Locked, HeadLabels
  <2>2. Meant(tx.update)'
    BY <1>1, <1>2, <2>1 DEF Meant, Bound, FoundAs, Detached, Start, Keeps, Same
  <2> QED BY <1>1, <1>2, <2>1, <2>2 DEF Alone, Undoing, Ending, Keeps, Same, Going, First, Locked,
                                        FileLabels, HeadLabels
<1> QED BY <1>1, <1>3, <1>4, <1>5 DEF IInv

LEMMA PromoteStep ==
    ASSUME IInv, Promote
    PROVE  IInv' /\ Respects
<1> USE DEF At, Fail
<1>1. /\ tx.pc = "promote" /\ tx.lock /\ indexLock = "ours" /\ index = "old" /\ tx.mutated
      /\ UNCHANGED <<plan, touched, binding, ref, result>>
  BY DEF Promote, files, IInv, Locking, Locked, HeadLabels, Course
<1>2. CASE /\ index' = "new" /\ indexLock' = "free"
           /\ tx' = [tx EXCEPT !.promoted = TRUE, !.lock = FALSE, !.pc = "final"]
  <2>1. /\ IsTx(tx') /\ tx'.pc = "final" /\ tx'.lock = FALSE /\ tx'.promoted = TRUE
        /\ tx'.update = tx.update /\ tx'.error = tx.error /\ tx'.restoreFailed = tx.restoreFailed
        /\ tx'.mutated = tx.mutated
    BY <1>2, FieldSet DEF IInv, World, IsTx
  <2>2. World' /\ Locking'
    BY <1>1, <1>2, <2>1 DEF IInv, World, Locking, Locked, FileLabels, HeadLabels
  <2>3. Course'
    BY <1>1, <1>2, <2>1 DEF IInv, Course, Locked, FileLabels, HeadLabels, Going, First, Detached, Ending
  <2>4. ASSUME "git" \notin touched PROVE Alone'
    <3>1. Meant(tx.update)
      BY <1>1, <2>4 DEF IInv, Alone, Going, Locked, HeadLabels
    <3>2. Meant(tx.update)'
      BY <1>1, <2>1, <3>1 DEF Meant, Bound, FoundAs, Detached, Start
    <3> QED BY <1>1, <1>2, <2>1, <3>2 DEF Alone, Undoing, Ending, First, FileLabels
  <2> QED BY <1>1, <1>2, <2>2, <2>3, <2>4 DEF IInv, Respects
<1>3. CASE tx' = Fails(tx, "failed") /\ UNCHANGED <<index, indexLock>>
  <2>1. IInv'
    BY <1>1, <1>3, LateFailure DEF Errors, gitState
  <2> QED BY <1>1, <1>3, <2>1 DEF Respects
<1> QED BY <1>2, <1>3 DEF Promote

LEMMA FinalStep ==
    ASSUME IInv, Final
    PROVE  IInv' /\ UNCHANGED gitState
<1>1. /\ tx.pc = "final" /\ UNCHANGED <<plan, touched, gitState, result>>
      /\ \/ tx' = [tx EXCEPT !.pc = "release"]
         \/ \E e \in Errors : tx' = Fails(tx, e)
  BY DEF Final, files, At, Fail, Errors
<1>2. UNCHANGED <<binding, ref, index, indexLock>>
  BY <1>1 DEF gitState
<1>3. CASE tx' = [tx EXCEPT !.pc = "release"]
  <2>1. Keeps(tx, tx') /\ tx'.error = "none" /\ tx'.pc = "release"
    BY <1>1, <1>3, FieldSet DEF IInv, World, Course, Going, Keeps, Same, IsTx
  <2>2. World' /\ Locking'
    BY <1>1, <1>2, <2>1 DEF IInv, World, Locking, Locked, FileLabels, HeadLabels, Keeps, Same
  <2>3. Course'
    BY <1>1, <1>2, <2>1 DEF IInv, Course, Locked, FileLabels, HeadLabels, Going, First, Ending,
                            Undoing, Detached, Keeps, Same
  <2>4. Alone'
    BY <2>1 DEF Alone, Undoing, Ending, Going, First, Locked, FileLabels, HeadLabels
  <2> QED BY <1>1, <2>2, <2>3, <2>4 DEF IInv
<1>4. CASE \E e \in Errors : tx' = Fails(tx, e)
  BY <1>1, <1>4, LateFailure
<1> QED BY <1>1, <1>3, <1>4

-----------------------------------------------------------------------------
(* Going back.                                                               *)
LEMMA UndoIndexStep ==
    ASSUME IInv, UndoIndex
    PROVE  IInv' /\ Respects
<1> USE DEF At, Goto
<1>1. /\ tx.pc = "undo_index" /\ UNCHANGED <<plan, touched, binding, ref, indexLock, result>>
  BY DEF UndoIndex, files
<1>2. \/ ~tx.promoted /\ UNCHANGED index /\ tx' = [tx EXCEPT !.pc = "undo_head"]
      \/ /\ tx.promoted /\ index = "new" /\ index' = "old"
         /\ tx' = [tx EXCEPT !.promoted = FALSE, !.indexBackup = FALSE, !.pc = "undo_head"]
      \/ UNCHANGED index /\ tx' = [tx EXCEPT !.restoreFailed = TRUE, !.pc = "undo_head"]
  BY DEF UndoIndex
<1>3. /\ IsTx(tx') /\ tx'.pc = "undo_head" /\ tx'.lock = tx.lock /\ tx'.update = tx.update
      /\ tx'.error = tx.error /\ tx'.promoted \in BOOLEAN
      /\ \/ UNCHANGED index /\ tx'.restoreFailed
         \/ UNCHANGED index /\ ~tx.promoted /\ tx'.restoreFailed = tx.restoreFailed
         \/ index = "new" /\ index' = "old" /\ tx'.restoreFailed = tx.restoreFailed
  BY <1>2, FieldSet DEF IInv, World, Locking, IsTx
<1>4. World' /\ Locking'
  BY <1>1, <1>3 DEF IInv, World, Locking, Locked, FileLabels, HeadLabels
<1>5. Course'
  BY <1>1, <1>3 DEF IInv, Course, Locked, FileLabels, HeadLabels, Going, First, Ending, Undoing, Detached
<1>6. ASSUME "git" \notin touched PROVE Alone'
  <2>1. Meant(tx.update) /\ index = IF tx.promoted THEN "new" ELSE "old"
    BY <1>1, <1>6 DEF IInv, Alone
  <2>2. Meant(tx.update)'
    BY <1>1, <1>3, <2>1 DEF Meant, Bound, FoundAs, Detached, Start
  <2> QED BY <1>3, <2>1, <2>2 DEF Alone, Undoing, Ending, Going, First, Locked, FileLabels, HeadLabels
<1> QED BY <1>1, <1>3, <1>4, <1>5, <1>6 DEF IInv, Respects

(* The rollback of HEAD gives up, or goes on without changing anything.      *)
LEMMA GoesOn ==
    ASSUME IInv, tx.pc \in {"undo_head", "undo_look", "undo_bind"},
           UNCHANGED <<plan, touched, gitState, result>>,
           \/ tx' = NotRestored
           \/ tx' = [tx EXCEPT !.pc = "undo_files"] /\ ("git" \notin touched => tx.restoreFailed \/ Restored)
           \/ /\ tx' = [tx EXCEPT !.pc = "undo_look"]
              /\ "git" \notin touched => Rebound(tx.update)
           \/ /\ tx' = [tx EXCEPT !.pc = "undo_bind"] /\ tx.update.headChanged
              /\ "git" \notin touched => Rebound(tx.update)
    PROVE  IInv'
<1>1. UNCHANGED <<plan, touched, binding, ref, index, indexLock, result>>
  BY DEF gitState
<1>2. /\ Same(tx, tx') /\ tx'.error = tx.error /\ (tx.restoreFailed => tx'.restoreFailed)
      /\ tx'.pc \in {"undo_files", "undo_look", "undo_bind"}
      /\ tx'.pc = "undo_files" /\ "git" \notin touched => tx'.restoreFailed \/ Restored
      /\ tx'.pc # "undo_files" /\ "git" \notin touched => Rebound(tx.update)
      /\ tx'.pc = "undo_bind" => tx.update.headChanged
  BY FieldSet DEF NotRestored, Same, IInv, World, IsTx
<1>3. World' /\ Locking'
  BY <1>1, <1>2 DEF IInv, World, Locking, Locked, FileLabels, HeadLabels, Same
<1>4. Course'
  BY <1>1, <1>2 DEF IInv, Course, Locked, FileLabels, HeadLabels, Going, First, Ending, Undoing, Detached, Same
<1>5. ASSUME "git" \notin touched PROVE Alone'
  <2>1. tx.restoreFailed \/ index = "old"
    BY <1>5 DEF IInv, Alone
  <2>2. /\ Restored => Restored'
        /\ Rebound(tx.update) => Rebound(tx.update)'
    BY <1>1, <1>2 DEF Restored, HEAD, Rebound, Bound, FoundAs, Detached, Start, Same
  <2> QED BY <1>1, <1>2, <1>5, <2>1, <2>2
       DEF Alone, Undoing, Ending, Going, First, Locked, FileLabels, HeadLabels, Same
<1> QED BY <1>1, <1>3, <1>4, <1>5 DEF IInv

LEMMA UndoBranchStep ==
    ASSUME IInv, UndoBranch
    PROVE  IInv' /\ Respects
<1> DEFINE u == tx.update
           b == plan.to
<1>1. /\ tx.pc = "undo_head" /\ IsTx(tx) /\ u \in Update /\ ref \in [Bindings -> Commits] /\ b \in Bindings
      /\ UNCHANGED <<plan, touched, binding, index, indexLock, result>>
  BY DEF UndoBranch, At, files, IInv, World, PlanType, Bindings
<1>2. \/ /\ u.known /\ u.refChanged /\ ref[b] = "new"
         /\ ref' = [ref EXCEPT ![b] = u.ref] /\ tx' = [tx EXCEPT !.pc = "undo_look"]
      \/ tx' = NotRestored /\ UNCHANGED ref
      \/ u.known /\ ~u.refChanged /\ tx' = [tx EXCEPT !.pc = "undo_look"] /\ UNCHANGED ref
      \/ ~u.known /\ tx' = [tx EXCEPT !.pc = "undo_files"] /\ UNCHANGED ref
  BY DEF UndoBranch, Goto
<1>3. CASE UNCHANGED ref
  <2>1. "git" \notin touched => Meant(u) /\ (tx.restoreFailed \/ index = "old")
    BY <1>1 DEF IInv, Alone
  <2>2. "git" \notin touched /\ ~u.known => tx.restoreFailed \/ Restored
    BY <2>1 DEF Meant, Bound, Restored, HEAD, Start, Branches, IInv, World, PlanType
  <2>3. "git" \notin touched /\ u.known /\ ~u.refChanged => Rebound(u)
    BY <2>1 DEF Meant, Rebound
  <2>4. IInv'
    <3> HIDE DEF u
    <3>1. CASE tx' = NotRestored
      BY <1>1, <1>3, <3>1, GoesOn DEF gitState
    <3>2. CASE u.known /\ ~u.refChanged /\ tx' = [tx EXCEPT !.pc = "undo_look"]
      BY <1>1, <1>3, <2>3, <3>2, GoesOn DEF gitState, u
    <3>3. CASE ~u.known /\ tx' = [tx EXCEPT !.pc = "undo_files"]
      BY <1>1, <1>3, <2>2, <3>3, GoesOn DEF gitState
    <3>4. CASE u.known /\ u.refChanged /\ ref[b] = "new" /\ ref' = [ref EXCEPT ![b] = u.ref]
               /\ tx' = [tx EXCEPT !.pc = "undo_look"]
      <4>1. "git" \notin touched => Rebound(u)
        BY <1>1, <1>3, <2>1, <3>4 DEF Meant, Rebound, FoundAs, u, Bindings, Branches, Detached
      <4> QED BY <1>1, <1>3, <4>1, <3>4, GoesOn DEF gitState, u
    <3> QED BY <1>2, <3>1, <3>2, <3>3, <3>4
  <2> QED BY <1>1, <1>3, <2>4 DEF Respects
<1>4. CASE /\ u.known /\ u.refChanged /\ ref[b] = "new"
           /\ ref' = [ref EXCEPT ![b] = u.ref] /\ tx' = [tx EXCEPT !.pc = "undo_look"]
  <2>1. /\ Keeps(tx, tx') /\ tx'.error = tx.error /\ tx'.pc = "undo_look"
    BY <1>1, <1>4, FieldSet DEF Keeps, Same, IsTx
  <2>2. u.ref \in Commits /\ ref' \in [Bindings -> Commits]
    BY <1>1, <1>4 DEF Update
  <2>3. World' /\ Locking'
    BY <1>1, <2>1, <2>2 DEF IInv, World, Locking, Locked, FileLabels, HeadLabels, Keeps, Same
  <2>4. Course'
    BY <1>1, <2>1 DEF IInv, Course, Locked, FileLabels, HeadLabels, Going, First, Ending, Undoing,
                      Detached, Keeps, Same
  <2>5. ASSUME "git" \notin touched PROVE Alone'
    <3>1. Meant(u) /\ (tx.restoreFailed \/ index = "old")
      BY <1>1, <2>5 DEF IInv, Alone
    <3>2. Bound(u) /\ FoundAs(u)
      BY <1>4, <3>1 DEF Meant
    <3>3. ~Detached
      BY <1>4 DEF IInv, Course
    <3>4. u.ref = Start(b) /\ ref'["detached"] = ref["detached"]
      BY <1>1, <1>4, <3>2, <3>3 DEF FoundAs, Detached, Bindings
    <3>5. \A x \in Branches : ref'[x] = Start(x)
      BY <1>1, <1>4, <3>1, <3>4 DEF Meant, Bindings
    <3>6. Rebound(tx.update)'
      BY <1>1, <2>1, <3>2, <3>4, <3>5 DEF Rebound, Bound, FoundAs, Detached, Start, Keeps, Same
    <3> QED BY <1>1, <2>1, <3>1, <3>6
         DEF Alone, Undoing, Ending, Going, First, Locked, FileLabels, HeadLabels, Keeps, Same
  <2>6. Respects
    BY <1>1, <1>4 DEF Respects, Bindings, Branches
  <2> QED BY <1>1, <2>3, <2>4, <2>5, <2>6 DEF IInv
<1> QED BY <1>2, <1>3, <1>4

LEMMA UndoLookStep ==
    ASSUME IInv, UndoLook
    PROVE  IInv' /\ UNCHANGED gitState
<1>1. /\ tx.pc = "undo_look" /\ UNCHANGED <<plan, touched, gitState, result>>
      /\ \/ ~tx.update.headChanged /\ tx' = [tx EXCEPT !.pc = "undo_files"]
         \/ tx.update.headChanged /\ tx' = [tx EXCEPT !.pc = "undo_bind"]
         \/ tx' = NotRestored
  BY DEF UndoLook, At, files
<1>2. "git" \notin touched => Rebound(tx.update) /\ (tx.restoreFailed \/ index = "old")
  BY <1>1 DEF IInv, Alone
<1>3. "git" \notin touched /\ ~tx.update.headChanged => tx.restoreFailed \/ Restored
  BY <1>2 DEF Rebound, Bound, Restored, HEAD, Start, Branches, IInv, World, PlanType
<1> QED BY <1>1, <1>2, <1>3, GoesOn

LEMMA UndoBindStep ==
    ASSUME IInv, UndoBind
    PROVE  IInv' /\ Respects
<1> DEFINE u == tx.update
<1>1. /\ tx.pc = "undo_bind" /\ IsTx(tx) /\ u \in Update /\ ref \in [Bindings -> Commits]
      /\ plan \in PlanType /\ UNCHANGED <<plan, touched, index, indexLock, result>>
  BY DEF UndoBind, At, files, IInv, World
<1>2. \/ u.binding # "detached" /\ binding' = u.binding /\ tx' = [tx EXCEPT !.pc = "undo_files"] /\ UNCHANGED ref
      \/ /\ u.binding = "detached" /\ binding' = "detached" /\ ref' = [ref EXCEPT !["detached"] = u.head]
         /\ tx' = [tx EXCEPT !.pc = "undo_files"]
      \/ tx' = NotRestored /\ UNCHANGED <<binding, ref>>
  BY DEF UndoBind, Goto
<1>3. CASE tx' = NotRestored /\ UNCHANGED <<binding, ref>>
  <2>1. IInv'
    BY <1>1, <1>3, GoesOn DEF gitState
  <2> QED BY <1>1, <1>3, <2>1 DEF Respects
<1>4. CASE /\ tx' = [tx EXCEPT !.pc = "undo_files"] /\ binding' = u.binding
           /\ \/ u.binding # "detached" /\ UNCHANGED ref
              \/ u.binding = "detached" /\ ref' = [ref EXCEPT !["detached"] = u.head]
  <2>1. Keeps(tx, tx') /\ tx'.error = tx.error /\ tx'.pc = "undo_files"
    BY <1>1, <1>4, FieldSet DEF Keeps, Same, IsTx
  <2>2. ref' \in [Bindings -> Commits] /\ \A x \in Branches : ref'[x] = ref[x]
    BY <1>1, <1>4 DEF Update, Bindings, Branches
  <2>3. World' /\ Locking'
    BY <1>1, <1>4, <2>1, <2>2 DEF IInv, World, Course, Locking, Locked, FileLabels, HeadLabels, Keeps, Same
  <2>4. Course'
    BY <1>1, <2>1 DEF IInv, Course, Locked, FileLabels, HeadLabels, Going, First, Ending, Undoing,
                      Detached, Keeps, Same
  <2>5. ASSUME "git" \notin touched PROVE Alone'
    <3>1. Rebound(u) /\ (tx.restoreFailed \/ index = "old")
      BY <1>1, <2>5 DEF IInv, Alone
    <3>2. binding' = plan.from /\ ref'[plan.from] = "old" /\ ref'["topic"] = plan.topic
      BY <1>1, <1>4, <2>2, <3>1 DEF Rebound, FoundAs, Start, PlanType, Bindings, Branches
    <3>3. (tx.restoreFailed \/ Restored)'
      BY <1>1, <2>1, <3>1, <3>2 DEF Restored, HEAD, Keeps, Same
    <3> QED BY <2>1, <3>3 DEF Alone, Undoing, Ending, Going, First, Locked, FileLabels, HeadLabels
  <2>6. Respects
    BY <1>1, <2>2 DEF Respects
  <2> QED BY <1>1, <2>3, <2>4, <2>5, <2>6 DEF IInv
<1> QED BY <1>2, <1>3, <1>4

LEMMA ReleaseIndexStep ==
    ASSUME IInv, ReleaseIndex
    PROVE  IInv' /\ Respects
<1>1. /\ tx.pc = "unlock" /\ UNCHANGED <<plan, touched, binding, ref, index>>
      /\ indexLock' = (IF tx.lock THEN "free" ELSE indexLock)
      /\ result' = CASE tx.error = "none" -> "applied"
                     [] tx.restoreFailed \/ tx.error = "unknown" -> "unknown"
                     [] OTHER -> "refused"
      /\ tx' = [tx EXCEPT !.lock = FALSE, !.indexBackup = FALSE, !.pc = "done"]
  BY DEF ReleaseIndex, At, files
<1>2. /\ IsTx(tx') /\ tx'.pc = "done" /\ tx'.lock = FALSE /\ tx'.promoted = tx.promoted
      /\ tx'.update = tx.update /\ tx'.error = tx.error /\ tx'.restoreFailed = tx.restoreFailed
  BY <1>1, FieldSet DEF IInv, World, IsTx
<1>3. result' # "pending" /\ (result' = "refused" => tx.error # "none" /\ ~tx.restoreFailed)
  BY <1>1
<1>4. World' /\ Locking'
  BY <1>1, <1>2 DEF IInv, World, Locking, Locked, FileLabels, HeadLabels
<1>5. Course'
  BY <1>1, <1>2, <1>3 DEF IInv, Course, Locked, FileLabels, HeadLabels, Going, First, Ending, Undoing, Detached
<1>6. ASSUME "git" \notin touched PROVE Alone'
  <2>1. tx.error # "none" => tx.restoreFailed \/ Restored
    BY <1>1, <1>6 DEF IInv, Alone, Ending
  <2>2. Restored => Restored'
    BY <1>1 DEF Restored, HEAD
  <2> QED BY <1>2, <2>1, <2>2 DEF Alone, Undoing, Ending, Going, First, Locked, FileLabels, HeadLabels
<1>7. Respects
  BY <1>1 DEF Respects, IInv, Locking
<1> QED BY <1>1, <1>4, <1>5, <1>6, <1>7 DEF IInv

-----------------------------------------------------------------------------
(* People do not touch what the application remembers.                       *)
LEMMA PeopleStep ==
    ASSUME IInv, People
    PROVE  IInv' /\ Respects
<1> DEFINE OthersGit == /\ "git" \in touched'
                        /\ ref' \in [Bindings -> Commits] /\ \A b \in Bindings : ref'[b] \in {ref[b], "theirs"}
                        /\ binding' \in Bindings
                        /\ \/ UNCHANGED indexLock /\ UNCHANGED index
                           \/ indexLock = "free" /\ UNCHANGED indexLock /\ index' = "theirs"
                           \/ indexLock = "free" /\ indexLock' = "theirs" /\ UNCHANGED index
           Leaves == /\ indexLock = "theirs" /\ indexLock' = "free"
                     /\ UNCHANGED <<touched, binding, ref, index>>
<1> USE DEF Act, OnFiles, OnGit, gitState, material, files, bounds
<1>1. /\ UNCHANGED <<plan, tx, result>>
      /\ \/ UNCHANGED gitState /\ touched \subseteq touched'
         \/ OthersGit
         \/ Leaves
  <2>1. ASSUME NEW n \in Names, Write(n) \/ Edit(n) \/ Remove(n) \/ MakeDir(n) \/ RemoveDir(n)
        PROVE  UNCHANGED <<plan, tx, result>> /\ UNCHANGED gitState /\ touched \subseteq touched'
    BY <2>1 DEF Write, Edit, Remove, MakeDir, RemoveDir
  <2>2. CASE Commit
    BY <2>2 DEF Commit, IInv, World, Bindings, Commits
  <2>3. CASE GitAdd
    BY <2>3 DEF GitAdd, IInv, World
  <2>4. CASE HoldIndex
    BY <2>4 DEF HoldIndex, IInv, World
  <2>5. CASE LeaveIndex
    BY <2>5 DEF LeaveIndex
  <2>6. ASSUME NEW b \in Branches, Switch(b)
        PROVE  UNCHANGED <<plan, tx, result>> /\ OthersGit
    BY <2>6 DEF Switch, IInv, World, Bindings
  <2>7. ASSUME NEW b \in Branches, MoveRef(b)
        PROVE  UNCHANGED <<plan, tx, result>> /\ OthersGit
    BY <2>7 DEF MoveRef, IInv, World, Bindings, Commits
  <2> QED BY <2>1, <2>2, <2>3, <2>4, <2>5, <2>6, <2>7 DEF People
<1>2. World' /\ Locking' /\ Course' /\ Respects
  <2>1. World'
    BY <1>1 DEF IInv, World
  <2>2. Locking'
    BY <1>1 DEF IInv, Locking
  <2>3. Course'
    BY <1>1 DEF IInv, Course, Detached
  <2>4. Respects
    BY <1>1 DEF Respects, Bindings
  <2> QED BY <2>1, <2>2, <2>3, <2>4
<1>3. ASSUME "git" \notin touched' PROVE Alone'
  <2>1. UNCHANGED <<plan, tx, binding, ref, index>> /\ Alone
    BY <1>1, <1>3 DEF IInv
  <2> QED BY <2>1 DEF Alone, Meant, Rebound, Bound, FoundAs, Restored, Detached, Start, HEAD
<1> QED BY <1>2, <1>3 DEF IInv

LEMMA InitIInv == Init => IInv
<1> SUFFICES ASSUME Init PROVE IInv
  OBVIOUS
<1> USE DEF Init
<1>1. plan \in PlanType
  BY PlansAssumption
<1>2. /\ IsTx(tx) /\ tx.update = NoUpdate /\ tx.pc = "observe" /\ tx.error = "none"
      /\ tx.lock = FALSE /\ tx.promoted = FALSE
  BY FieldSet DEF IsTx, Begun
<1>3. NoUpdate \in Update /\ ~NoUpdate.known /\ ~NoUpdate.headChanged /\ ~NoUpdate.refChanged
  BY DEF NoUpdate, Update, Commits
<1>4. ref \in [Bindings -> Commits] /\ ref["main"] = "old" /\ ref["detached"] = "old" /\ ref["topic"] = plan.topic
  BY <1>1 DEF PlanType, Bindings, Branches, Commits
<1>5. World /\ Locking
  BY <1>1, <1>2, <1>3, <1>4 DEF World, Locking, Locked, FileLabels, HeadLabels, PlanType, Bindings, Branches
<1>6. Course
  BY <1>2, <1>3 DEF Course, Locked, FileLabels, HeadLabels, Going, First, Ending, Undoing
<1>7. Alone
  BY <1>2, <1>3, <1>4 DEF Alone, Meant, Bound, Start, Branches, Locked, FileLabels, HeadLabels, Going,
                          First, Ending, Undoing
<1> QED BY <1>5, <1>6, <1>7 DEF IInv

LEMMA NextIInv ==
    ASSUME IInv, [Next]_vars
    PROVE  IInv' /\ Respects
<1>0. UNCHANGED <<indexLock, index, ref>> => Respects
  BY DEF Respects
<1>1. CASE Observe \/ Import \/ Reobserve
  BY <1>0, <1>1, LookStep DEF gitState
<1>2. CASE ApplyFiles
  <2>1. tx.pc \in FileLabels /\ Works
    BY <1>2, ApplyFilesStep DEF IInv, World
  <2> QED BY <1>0, <2>1, WorksKeeps DEF Works, gitState
<1>3. CASE ApplyGit
  BY <1>3, PrepareIndexStep, UpdateHEADStep, BindHEADStep, MoveBranchStep, PromoteStep DEF ApplyGit
<1>4. CASE Final
  BY <1>0, <1>4, FinalStep DEF gitState
<1>5. CASE UndoFiles
  <2>1. PutsBack
    BY <1>5, UndoFilesStep DEF IInv, World
  <2> QED BY <1>0, <2>1, PutsBackKeeps DEF PutsBack, gitState
<1>6. CASE UndoGit
  BY <1>0, <1>6, UndoIndexStep, UndoBranchStep, UndoLookStep, UndoBindStep, ReleaseIndexStep DEF UndoGit, gitState
<1>7. CASE People
  BY <1>7, PeopleStep
<1>8. CASE UNCHANGED vars
  <2>1. UNCHANGED <<plan, touched, binding, ref, index, indexLock, tx, result>>
    BY <1>8 DEF vars, gitState, files
  <2>2. World' /\ Locking' /\ Course'
    BY <2>1 DEF IInv, World, Locking, Course, Detached
  <2>3. Alone => Alone'
    BY <2>1 DEF Alone, Meant, Rebound, Bound, FoundAs, Restored, Detached, Start, HEAD
  <2> QED BY <1>0, <2>1, <2>2, <2>3 DEF IInv
<1> QED BY <1>1, <1>2, <1>3, <1>4, <1>5, <1>6, <1>7, <1>8 DEF Next, Transaction

LEMMA Invariance == Spec => []IInv
<1>1. IInv /\ [Next]_vars => IInv'
  BY NextIInv
<1> QED BY InitIInv, <1>1, PTL DEF Spec

(* Neither on its way nor going back does an application overwrite a commit  *)
(* somebody made on a branch meanwhile (updateBranchRef and its rollback     *)
(* compare and swap), nor an index somebody changed, nor does it remove      *)
(* somebody else's index.lock (Promote, Restore and Release).                *)
THEOREM NothingOverwritten == Spec => GitKept
<1>1. IInv /\ [Next]_vars =>
        [/\ \A b \in Branches : ref[b] = "theirs" => ref'[b] = "theirs"
         /\ index = "theirs" => index' = "theirs"
         /\ indexLock = "theirs" /\ tx' # tx => indexLock' = "theirs"]_vars
  BY NextIInv DEF Respects
<1> QED BY Invariance, <1>1, PTL DEF Spec, GitKept

(* An application that reports a refusal leaves no index.lock of its own     *)
(* behind, and if nobody used Git meanwhile, HEAD, the branches and the      *)
(* index are as it found them (checkoutHEADUpdate.Restore and                *)
(* preparedCheckoutIndex.Restore and Release).                               *)
THEOREM RefusalRestores == Spec => []RefusedGit
<1>1. IInv => RefusedGit
  <2> SUFFICES ASSUME IInv, result # "pending"
               PROVE  indexLock # "ours" /\ (result = "refused" /\ "git" \notin touched => Restored)
    BY DEF RefusedGit, Restored
  <2>1. tx.pc = "done" /\ ~tx.lock
    BY DEF IInv, Course
  <2>2. indexLock # "ours"
    BY <2>1 DEF IInv, Locking
  <2>3. result = "refused" /\ "git" \notin touched => Restored
    BY <2>1 DEF IInv, Course, Alone, Ending
  <2> QED BY <2>2, <2>3
<1> QED BY Invariance, <1>1, PTL
===============================================================================
