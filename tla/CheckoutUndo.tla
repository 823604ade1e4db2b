----------------------------- MODULE CheckoutUndo -----------------------------
(***************************************************************************)
(* Putting the files of a failed application back, and letting go of the   *)
(* recovery material: preparedCheckoutFiles.Rollback and Release           *)
(* (internal/repository/checkout_apply.go).                                *)
(***************************************************************************)
EXTENDS CheckoutFiles

Known == {n \in Names : Was(n) \/ Will(n)}

(* checkoutFileForTransition: a leaf below a known leaf, and a directory   *)
(* that holds known leaves only, are outgoing shapes and not collisions.   *)
Seen(n) ==
    CASE Dir(n) \in FileNodes -> IF Up(n) \in Known THEN "none" ELSE "error"
      [] InDir(n) /\ at[n] \in DirNodes ->
            IF /\ \E c \in Kids(n) : c \in Known
               /\ \A c \in Kids(n) : at[c] # "none" => c \in Known
              THEN "none" ELSE "error"
      [] OTHER -> at[n]

(* A failed rollback keeps every backup. *)
GiveUp(t) == [t EXCEPT !.restoreFailed = TRUE, !.keepBackup = Known, !.pc = "release"]

(* Rollback's second loop: the entry before, or the end. *)
Previously(t) ==
    LET earlier == {k \in Entries : k < t.k} IN
    \/ earlier = {} /\ tx' = [t EXCEPT !.pc = "undo_end"]
    \/ \E k \in earlier : (\A j \in earlier : j <= k) /\ tx' = [t EXCEPT !.k = k, !.pc = "undo"]

(* The first pass only looks: nothing is put back when something a person  *)
(* did is in the way.                                                      *)
BackupIntact(n) == n \in backup => <<"old", n>> \notin edited

Expected(n) ==
    n \in tx.keepPath \/ (BackupIntact(n) /\ (Seen(n) = "none" \/ IsPrevious(n) \/ IsIncoming(n)))

UndoCheck ==
    /\ At("undo_files")
    /\ IF \A n \in Known : Expected(n) THEN Previously([tx EXCEPT !.k = 2 * Half + 1]) ELSE tx' = GiveUp(tx)
    /\ UNCHANGED <<plan, files, material, gitState, result, bounds>>

(* The second pass, in the reverse order. *)
Undo ==
    LET n == Record IN
    /\ At("undo")
    /\ CASE n \in tx.keepPath -> Previously(tx)
         [] n \notin tx.keepPath /\ Seen(n) = "none" -> IF Was(n) THEN Goto("undo_clear") ELSE Previously(tx)
         [] n \notin tx.keepPath /\ IsPrevious(n) -> Previously(tx)
         [] n \notin tx.keepPath /\ IsIncoming(n) -> Goto("undo_take")
         [] OTHER -> tx' = GiveUp(tx)
    /\ UNCHANGED <<plan, files, material, gitState, result, bounds>>

(* removeRecoveryFile: the incoming leaf is set aside, verified, dropped. *)
UndoTake ==
    LET n == Record IN
    /\ At("undo_take")
    /\ IF InDir(n) /\ at[n] # "none"
         THEN /\ taken' = With(n, at, taken) /\ at' = Without(n, at)
              /\ Goto("undo_verify")
         ELSE tx' = GiveUp(tx) /\ UNCHANGED <<at, taken>>
    /\ UNCHANGED <<plan, edited, written, touched, backup, staged, aside, quarantine, gitState, result, bounds>>

UndoVerify ==
    LET n == Record IN
    /\ At("undo_verify")
    /\ CASE taken[n] = "new" /\ <<"new", n>> \notin edited ->
                /\ taken' = [taken EXCEPT ![n] = "none"] /\ UNCHANGED at
                /\ IF Was(n) THEN Goto("undo_clear") ELSE Previously(tx)
         [] ~(taken[n] = "new" /\ <<"new", n>> \notin edited) /\ CanReturn(n) ->
                /\ at' = With(n, taken, at) /\ taken' = Without(n, taken)
                /\ tx' = GiveUp(tx)
         [] ~(taken[n] = "new" /\ <<"new", n>> \notin edited) /\ ~CanReturn(n) ->
                tx' = GiveUp(tx) /\ UNCHANGED <<at, taken>>
    /\ UNCHANGED <<plan, edited, written, touched, backup, staged, aside, quarantine, gitState, result, bounds>>

(* A directory the transaction made where the leaf was goes first. *)
UndoClear ==
    LET n == Record IN
    /\ At("undo_clear")
    /\ IF n \in tx.made /\ at[n] # "none"
         THEN Quarantine(n) /\ Goto("undo_cleared")
         ELSE Goto("undo_put") /\ UNCHANGED <<at, quarantine>>
    /\ UNCHANGED <<plan, edited, written, touched, backup, staged, aside, taken, gitState, result, bounds>>

UndoCleared ==
    LET n == Record IN
    /\ At("undo_cleared")
    /\ CASE Removable(n, "mdir") -> quarantine' = Without(n, quarantine) /\ Goto("undo_put") /\ UNCHANGED at
         [] ~Removable(n, "mdir") /\ CanReturn(n) -> Unquarantine(n) /\ tx' = GiveUp(tx)
         [] ~Removable(n, "mdir") /\ ~CanReturn(n) -> tx' = GiveUp(tx) /\ UNCHANGED <<at, quarantine>>
    /\ UNCHANGED <<plan, edited, written, touched, backup, staged, aside, taken, gitState, result, bounds>>

(* restoreBackupAt: a second link to the backup is verified and renamed to *)
(* the path, replacing nothing; only then does the backup go.              *)
UndoPut ==
    LET n == Record
        dirs == IF Up(n) = Top THEN {} ELSE Missing({Up(n)})
        t == [tx EXCEPT !.remade = @ \cup dirs]
        fits == /\ Dir(n) \in DirNodes \cup {"none"} /\ at[n] = "none"
                /\ n \in backup /\ BackupIntact(n) IN
    /\ At("undo_put")
    /\ \/ /\ fits
          /\ at' = [MakeDirs(dirs) EXCEPT ![n] = "old"] /\ backup' = backup \ {n}
          /\ Previously(t) /\ UNCHANGED faults
       \/ /\ IF fits THEN Fault ELSE UNCHANGED faults
          /\ at' = MakeDirs(dirs) /\ tx' = GiveUp(t) /\ UNCHANGED backup
    /\ UNCHANGED <<plan, edited, written, touched, staged, aside, taken, quarantine, gitState, result, edits>>

(* restoreRemovedEmptyDirectories and verifyRestoredBackup. *)
UndoEnd ==
    LET dirs == Missing(tx.pinned)
        restored == /\ \A d \in tx.pinned : at[d] \in {"none", "odir"} \/ (at[d] = "mdir" /\ d \in tx.remade)
                    /\ \A n \in Known \ tx.keepPath : Was(n) => IsPrevious(n) IN
    /\ At("undo_end")
    /\ at' = MakeDirs(dirs)
    /\ tx' = IF restored THEN [tx EXCEPT !.mutated = FALSE, !.pc = "release"] ELSE GiveUp(tx)
    /\ UNCHANGED <<plan, edited, written, touched, material, gitState, result, bounds>>

-----------------------------------------------------------------------------
(* Mutant: a failed rollback keeps no backup. *)
KeptIfEdited(n) == <<"old", n>> \in edited

(* Mutant: a backup that was written into goes as well. *)
KeptIfMarked(n) == n \in tx.keepBackup

(* Release, on every return: what is staged, the backups that still have   *)
(* what was captured, what was set aside, and empty directories that were  *)
(* made.                                                                   *)
Kept(n) == n \in tx.keepBackup \/ <<"old", n>> \in edited

Hollow == {d \in tx.made : at[d] = "mdir" /\ \A c \in Kids(d) : at[c] = "none"}

ReleaseFiles ==
    /\ At("release")
    /\ staged' = {}
    /\ backup' = {n \in backup : Kept(n)}
    /\ aside' = [n \in Names |-> IF n \in tx.keepAside THEN aside[n] ELSE "none"]
    /\ at' = [n \in Names |-> IF n \in Hollow THEN "none" ELSE at[n]]
    /\ Goto("unlock")
    /\ UNCHANGED <<plan, edited, written, touched, taken, quarantine, gitState, result, bounds>>

UndoFiles == UndoCheck \/ Undo \/ UndoTake \/ UndoVerify \/ UndoClear \/ UndoCleared \/ UndoPut
             \/ UndoEnd \/ ReleaseFiles
=============================================================================
