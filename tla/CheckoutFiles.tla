---------------------------- MODULE CheckoutFiles ----------------------------
(***************************************************************************)
(* The files of a workspace application: preparedCheckoutFiles             *)
(* (internal/repository/checkout_apply.go).  Every leaf is captured by a   *)
(* hard link and its replacement staged beside it; then each one is set    *)
(* aside without replacing anything, verified where it cannot be reached   *)
(* by its name, replaced without replacing anything, and dropped.          *)
(***************************************************************************)
EXTENDS CheckoutState

(* prepareCheckoutFiles: links, staged leaves, and the directories these   *)
(* are staged in.  A directory that stands where a file stood is made      *)
(* later: its leaves are staged beside that file.                          *)
StagedIn == {Up(n) : n \in {m \in Names : Will(m)}} \ {Top}

MakeDirs(D) == [n \in Names |-> IF n \in D /\ at[n] = "none" THEN "mdir" ELSE at[n]]

Missing(D) == {d \in D : at[d] = "none"}

Stage ==
    LET dirs == {d \in Missing(StagedIn) : plan.old[d] # "file"} IN
    /\ At("stage")
    /\ IF /\ \A n \in Names : Was(n) => Readable(n) /\ IsPrevious(n)
          /\ \A d \in StagedIn : at[d] \in DirNodes \cup {"none"} \/ plan.old[d] = "file"
         THEN /\ backup' = {n \in Names : Was(n)} /\ staged' = {n \in Names : Will(n)}
              /\ at' = MakeDirs(dirs)
              /\ NextRecord([tx EXCEPT !.pinned = Pinned, !.made = dirs])
         ELSE Fail("conflict") /\ UNCHANGED <<at, backup, staged>>
    /\ UNCHANGED <<plan, edited, written, touched, aside, taken, quarantine, gitState, result, bounds>>

-----------------------------------------------------------------------------
(* removeCheckoutDirectory: a directory is moved away with what is in it,  *)
(* then verified, and removed when it is empty.                            *)
Quarantine(d) == quarantine' = With(d, at, quarantine) /\ at' = Without(d, at)

Unquarantine(d) == at' = With(d, quarantine, at) /\ quarantine' = Without(d, quarantine)

(* An empty directory with the identity the transaction knows. *)
Removable(d, id) == quarantine[d] = id /\ \A c \in Kids(d) : quarantine[c] = "none"

(* renameCheckoutNoReplace puts a path back. *)
CanReturn(n) == InDir(n) /\ at[n] = "none"

(* removeReplacedDirectories, before the leaf that replaces the directory. *)
Clear ==
    LET n == Record IN
    /\ At("clear")
    /\ CASE n \notin tx.pinned -> Goto("compare") /\ UNCHANGED <<at, quarantine>>
         [] n \in tx.pinned /\ at[n] = "odir" ->
                Quarantine(n) /\ tx' = [tx EXCEPT !.pc = "cleared", !.mutated = TRUE]
         [] n \in tx.pinned /\ at[n] # "odir" -> Fail("conflict") /\ UNCHANGED <<at, quarantine>>
    /\ UNCHANGED <<plan, edited, written, touched, backup, staged, aside, taken, gitState, result, bounds>>

Cleared ==
    LET n == Record IN
    /\ At("cleared")
    /\ CASE Removable(n, "odir") -> quarantine' = Without(n, quarantine) /\ Goto("compare") /\ UNCHANGED at
         [] ~Removable(n, "odir") /\ CanReturn(n) -> Unquarantine(n) /\ Fail("conflict")
         [] ~Removable(n, "odir") /\ ~CanReturn(n) -> Fail("unknown") /\ UNCHANGED <<at, quarantine>>
    /\ UNCHANGED <<plan, edited, written, touched, backup, staged, aside, taken, gitState, result, bounds>>

(* Apply: the directories of the leaf are made, and it is still what was   *)
(* captured.                                                               *)
Compare ==
    LET n == Record
        dirs == IF Will(n) /\ Up(n) # Top THEN Missing({Up(n)}) ELSE {}
        t == [tx EXCEPT !.made = @ \cup dirs, !.mutated = @ \/ dirs # {}]
        unchanged == Readable(n) /\ IF Was(n) THEN IsPrevious(n) ELSE at[n] = "none" IN
    /\ At("compare")
    /\ at' = MakeDirs(dirs)
    /\ tx' = CASE ~unchanged -> Fails(t, "conflict")
               [] unchanged /\ Was(n) -> [t EXCEPT !.pc = "displace"]
               [] unchanged /\ ~Was(n) -> [t EXCEPT !.pc = "install"]
    /\ UNCHANGED <<plan, edited, written, touched, material, gitState, result, bounds>>

(* displaceAndVerify: rename, then read what was renamed. *)
Displace ==
    LET n == Record IN
    /\ At("displace")
    /\ IF at[n] # "none"
         THEN /\ aside' = With(n, at, aside) /\ at' = Without(n, at)
              /\ tx' = [tx EXCEPT !.pc = "verify", !.mutated = TRUE]
         ELSE Fail("conflict") /\ UNCHANGED <<at, aside>>
    /\ UNCHANGED <<plan, edited, written, touched, backup, staged, taken, quarantine, gitState, result, bounds>>

VerifyAside ==
    LET n == Record
        good == aside[n] = "old" /\ <<"old", n>> \notin edited
        kept == [tx EXCEPT !.keepPath = @ \cup {n}] IN
    /\ At("verify")
    /\ \/ /\ good
          /\ Goto(IF Will(n) THEN "install" ELSE "drop") /\ UNCHANGED <<at, aside, faults>>
       \/ /\ IF good THEN Fault ELSE UNCHANGED faults
          /\ IF CanReturn(n)
               THEN /\ at' = With(n, aside, at) /\ aside' = Without(n, aside)
                    /\ tx' = Fails(kept, "conflict")
               ELSE /\ tx' = Fails([kept EXCEPT !.keepAside = @ \cup Within(n)], "unknown")
                    /\ UNCHANGED <<at, aside>>
    /\ UNCHANGED <<plan, edited, written, touched, backup, staged, taken, quarantine, gitState, result, edits>>

(* installIncomingAt: the rename replaces nothing, below a directory that  *)
(* is still the one the transaction made.  A leaf that appeared stays.     *)
Install ==
    LET n == Record
        same == Up(n) \in tx.made => at[Up(n)] = "mdir"
        t == [tx EXCEPT !.mutated = @ \/ (InDir(n) /\ same)] IN
    /\ At("install")
    /\ CASE InDir(n) /\ same /\ at[n] = "none" ->
                /\ at' = [at EXCEPT ![n] = "new"] /\ staged' = staged \ {n}
                /\ tx' = [t EXCEPT !.pc = "drop"] /\ UNCHANGED aside
         [] InDir(n) /\ ~(same /\ at[n] = "none") /\ Was(n) ->
                /\ tx' = Fails([t EXCEPT !.keepPath = @ \cup {n}], "conflict")
                /\ aside' = [aside EXCEPT ![n] = "none"] /\ UNCHANGED <<at, staged>>
         [] ~InDir(n) \/ (~(same /\ at[n] = "none") /\ ~Was(n)) ->
                tx' = Fails(t, "conflict") /\ UNCHANGED <<at, staged, aside>>
    /\ UNCHANGED <<plan, edited, written, touched, backup, taken, quarantine, gitState, result, bounds>>

(* What the leaf was installed below is looked at again, and may be found  *)
(* changed when somebody touched it.  Then removeDisplaced; the hard link  *)
(* still has what is dropped.                                              *)
Drop ==
    LET n == Record
        same == Up(n) \in tx.made => at[Up(n)] = "mdir" IN
    /\ At("drop")
    /\ \/ /\ Will(n) => InDir(n) /\ same
          /\ aside' = [aside EXCEPT ![n] = "none"]
          /\ NextRecord(tx)
       \/ /\ Will(n) /\ Up(n) \in touched
          /\ Fail("unknown") /\ UNCHANGED aside
    /\ UNCHANGED <<plan, files, backup, staged, taken, quarantine, gitState, result, bounds>>

(* The directories that were made are still the same ones. *)
Applied ==
    /\ At("applied")
    /\ tx' = IF \A d \in tx.made : at[d] = "mdir"
               THEN [tx EXCEPT !.pc = "head", !.mutated = TRUE]
               ELSE Fails(tx, "unknown")
    /\ UNCHANGED <<plan, files, material, gitState, result, bounds>>

(* Every call may fail.  When it is the rename of installIncomingAt, the   *)
(* destination is taken to be somebody else's: the leaf that was set aside *)
(* is removed, and the rollback leaves its path alone.                     *)
Abandons == At("install") /\ Was(Record)

ApplyFault ==
    LET n == Record IN
    /\ tx.pc \in {"clear", "compare", "displace", "install", "drop"}
    /\ Fault
    /\ \E abandoned \in {FALSE} \cup {Abandons} :
          /\ \/ abandoned /\ tx' = Fails([tx EXCEPT !.keepPath = @ \cup {n}, !.abandoned = {n}], "conflict")
             \/ ~abandoned /\ Fail("failed")
             \/ ~abandoned /\ At("drop") /\ Will(n) /\ Fail("unknown")
          /\ aside' = IF abandoned THEN [aside EXCEPT ![n] = "none"] ELSE aside
    /\ UNCHANGED <<plan, files, backup, staged, taken, quarantine, gitState, result, edits>>

ApplyFiles == Stage \/ Clear \/ Cleared \/ Compare \/ Displace \/ VerifyAside \/ Install \/ Drop
              \/ Applied \/ ApplyFault
=============================================================================
