-------------------------- MODULE CheckoutFilesProofs -------------------------
(* What holds of the files and of the recovery material under one            *)
(* application of a payload, for any paths in one level of directories, any  *)
(* number of failing calls and of acts of people.                            *)
EXTENDS CheckoutProofs

(* The sets of labels the invariant is stated on, and the invariant.         *)
Before     == First \cup {"reobserve", "stage"}
Applying   == (FileLabels \ {"stage"}) \cup HeadLabels \cup {"final"}
UndoLabels == {"undo_index", "undo_head", "undo_look", "undo_bind"} \cup Undoing
Turned     == {"clear", "cleared", "compare", "displace", "verify", "install", "drop"}
Returned   == {"undo", "undo_take", "undo_verify", "undo_clear", "undo_cleared", "undo_put"}

(* What TypeOK says of the index and of the counters, and what is reported.  *)
Counted ==
  /\ index \in {"old", "new", "theirs"} /\ indexLock \in {"free", "ours", "theirs"}
  /\ result \in {"pending", "applied", "refused", "unknown"}
  /\ result = "applied" => tx.error = "none"
  /\ result = "refused" => tx.error # "unknown"
  /\ edits \in 0..MaxEdits /\ faults \in 0..MaxFaults

(* A function from paths to nodes holds the captured and the staged inode of *)
(* a path at that path only, and directories in the Worktree itself.         *)
Place(f, p, t) ==
  /\ f \in [Names -> Nodes]
  /\ \A n \in Names :
       /\ f[n] = "old" => p.old[n] = "file"
       /\ f[n] = "new" => p.new[n] = "file"
       /\ f[n] = "usr" => n \in t
       /\ f[n] = "odir" => p.old[n] = "dir"
       /\ f[n] \in DirNodes => Up(n) = Top

(* What has a path below a directory lies in that directory: everywhere in   *)
(* the Worktree, and in what was moved out of it at n.                       *)
Tree(f)      == \A n \in Names : f[n] # "none" /\ Up(n) # Top => f[Up(n)] \in DirNodes
Bundle(f, n) == \A c \in Kids(n) : f[c] # "none" => f[n] \in DirNodes
Only(f, n)   == \A m \in Names \ Within(n) : f[m] = "none"

Base ==
  /\ plan \in Plans
  /\ Place(at, plan, touched) /\ Place(aside, plan, touched)
  /\ Place(taken, plan, touched) /\ Place(quarantine, plan, touched)
  /\ Tree(at)
  /\ backup \subseteq {n \in Names : Was(n)} /\ staged \subseteq Names
  /\ edited \subseteq {"old", "new"} \X Names /\ written \subseteq FileNodes \X Names
  /\ touched \subseteq Names \cup {"git"}
  /\ \A n \in Names :
       /\ <<"old", n>> \in edited \/ <<"new", n>> \in edited => n \in touched
       /\ <<"old", n>> \in written => <<"old", n>> \in edited
       /\ <<"new", n>> \in written => <<"new", n>> \in edited
  /\ tx.k \in Nat /\ (tx.pc \in Turned \cup Returned => tx.k \in Entries)
  /\ tx.mutated \in BOOLEAN
  /\ tx.pinned \subseteq {d \in Names : Up(d) = Top /\ plan.old[d] = "dir"}
  /\ tx.made \subseteq {d \in Names : Up(d) = Top}
  /\ tx.keepPath \subseteq {n \in Names : Was(n)} /\ tx.keepAside \subseteq Names
  /\ tx.abandoned \subseteq Names

(* The file v of path n is where it will stay, or in a backup.               *)
Stays(v, n) ==
  \/ v \in {at[n], taken[n], quarantine[n]}
  \/ n \in tx.keepAside /\ aside[n] = v

Solid(n)   == Stays("old", n)
Safe(v, n) == Stays(v, n) \/ (v = "old" /\ n \in backup)

AsFound == \A n \in Names \ touched : IF Was(n) THEN at[n] = "old" ELSE at[n] \notin FileNodes
Clean   == taken = None /\ quarantine = None /\ aside = None

(* Before anything is captured.                                              *)
Outset ==
  /\ Clean /\ backup = {} /\ ~tx.mutated /\ AsFound /\ tx.k = 0
  /\ tx.made = {} /\ tx.pinned = {} /\ tx.keepPath = {} /\ tx.keepAside = {} /\ tx.abandoned = {}

(* The entries that have been applied: what had to go has gone.              *)
Passed ==
  IF tx.pc \in {"applied", "final"} \cup HeadLabels THEN Entries ELSE {k \in Entries : k < tx.k}

(* While files are applied every captured file has its backup, and only the  *)
(* entry whose turn it is has something set aside.                           *)
Forward ==
  /\ backup = {n \in Names : Was(n)} /\ taken = None
  /\ tx.keepPath = {} /\ tx.keepAside = {} /\ tx.abandoned = {}
  /\ \A n \in Names : Up(n) \in tx.made => at[n] # "old" /\ aside[n] # "old"
  /\ ~tx.mutated => AsFound
  /\ IF tx.pc = "cleared"
       THEN tx.mutated /\ Record \in tx.pinned /\ Only(quarantine, Record) /\ Bundle(quarantine, Record)
       ELSE quarantine = None
  /\ tx.pc \notin {"verify", "install", "drop"} => aside = None
  /\ \A k \in Passed : ~Will(Entry(k)) => at[Entry(k)] # "old"

(* The entry whose turn it is, from its comparison to the drop of what was   *)
(* set aside.                                                                *)
Turning ==
  /\ tx.pc = "displace" => Was(Record) /\ (at[Record] = "old" \/ Record \in touched)
  /\ tx.pc = "verify" =>
       /\ tx.mutated /\ Was(Record) /\ Only(aside, Record) /\ Bundle(aside, Record)
       /\ aside[Record] = "old" \/ Record \in touched
  /\ tx.pc = "install" => Will(Record) /\ (Was(Record) => tx.mutated)
  /\ tx.pc = "drop" => tx.mutated
  /\ tx.pc \in {"verify", "install"} => at[Record] = "none" \/ Record \in touched
  /\ tx.pc \in {"verify", "install", "drop"} => at[Record] # "old"
  /\ tx.pc \in {"install", "drop"} =>
       \A n \in Names : aside[n] = IF n = Record /\ Was(n) THEN "old" ELSE "none"

(* While files are put back, and when they are released after a failure: what *)
(* was set aside is the captured file or is kept, every captured file has a   *)
(* backup or is where it stays, and a path the rollback leaves alone was      *)
(* touched or abandoned, or is as it was.                                     *)
Held ==
  /\ tx.error # "none"
  /\ \A n \in Names : aside[n] # "none" => n \in tx.keepAside \/ aside[n] = "old"
  /\ tx.keepAside # {} => tx.error = "unknown"
  /\ \A n \in Names \ touched : Was(n) => n \in backup \/ Solid(n)

Spared == \A n \in tx.keepPath : n \in touched \cup tx.abandoned \/ Solid(n)

(* What a failed Cleared left in its quarantine.                             *)
Stuck(n) == tx.error = "unknown" /\ \E d \in tx.pinned : n \in Within(d)

(* The entries that have been put back: what was installed has gone.         *)
Undone ==
  IF tx.pc = "undo_end" THEN Entries
  ELSE IF tx.pc \in Returned THEN {k \in Entries : k > tx.k} ELSE {}

Backward ==
  /\ tx.mutated /\ Held /\ Spared
  /\ IF tx.pc = "undo_verify"
       THEN Only(taken, Record) /\ Bundle(taken, Record) /\ (Record \in touched \/ at[Record] \notin FileNodes)
       ELSE taken = None
  /\ \A n \in Names : quarantine[n] # "none" => Stuck(n) \/ (tx.pc = "undo_cleared" /\ n \in Within(Record))
  /\ tx.pc = "undo_cleared" => Bundle(quarantine, Record)
  /\ tx.pc \in {"undo_clear", "undo_cleared", "undo_put"} => Was(Record)
  /\ \A k \in Undone : ~Was(Entry(k)) => Entry(k) \in touched \/ at[Entry(k)] \notin FileNodes

(* At the end after a failure.                                               *)
Failed ==
  /\ taken # None => tx.restoreFailed
  /\ quarantine # None => tx.restoreFailed \/ tx.error = "unknown"
  /\ tx.pc = "release" =>
       /\ Held
       /\ \A n \in Names \ touched :
            Was(n) => Solid(n) \/ n \in backup \cap tx.keepBackup \/ n \in tx.abandoned \ tx.keepBackup
  /\ tx.pc # "release" =>
       /\ \A n \in Names : aside[n] # "none" => n \in tx.keepAside
       /\ tx.keepAside # {} => tx.error = "unknown"
       /\ \A n \in Names \ touched :
            Was(n) => Solid(n) \/ n \in backup \/ n \in tx.abandoned \ tx.keepBackup

(* What people wrote is safe at every step, but for the time between the     *)
(* rename that sets a file aside and the look at what was renamed.           *)
Writings ==
  \A w \in written : Safe(w[1], w[2]) \/ (tx.pc = "verify" /\ w[1] = aside[w[2]])

Stages ==
  /\ tx.pc \in Before => Outset
  /\ tx.pc \in Applying => Forward /\ Turning
  /\ tx.pc \in UndoLabels => Backward
  /\ tx.pc \in Ending => IF tx.error = "none" THEN Clean ELSE Failed

FInv == Base /\ Stages /\ Writings

-----------------------------------------------------------------------------
(* What a transaction keeps when it moves on.                                *)
SameMaterial(t, u) ==
  /\ IsTx(u)
  /\ u.pinned = t.pinned /\ u.made = t.made /\ u.keepPath = t.keepPath /\ u.keepAside = t.keepAside
  /\ u.abandoned = t.abandoned

LEMMA FailsMaterial ==
    ASSUME NEW t, NEW e, IsTx(t)
    PROVE  /\ SameMaterial(t, Fails(t, e)) /\ Fails(t, e).k = t.k /\ Fails(t, e).mutated = t.mutated
           /\ Fails(t, e).error = e /\ Fails(t, e).pc = IF t.mutated THEN "undo_index" ELSE "release"
BY FieldSet DEF Fails, SameMaterial, IsTx

LEMMA GiveUpMaterial ==
    ASSUME NEW t, IsTx(t)
    PROVE  /\ SameMaterial(t, GiveUp(t)) /\ GiveUp(t).k = t.k /\ GiveUp(t).mutated = t.mutated
           /\ GiveUp(t).keepBackup = Known /\ GiveUp(t).pc = "release" /\ GiveUp(t).error = t.error
           /\ GiveUp(t).restoreFailed = TRUE
BY FieldSet DEF GiveUp, SameMaterial, IsTx

LEMMA GotoMaterial ==
    ASSUME NEW t, NEW l, IsTx(t)
    PROVE  LET u == [t EXCEPT !.pc = l] IN
           SameMaterial(t, u) /\ u.k = t.k /\ u.mutated = t.mutated /\ u.pc = l /\ u.error = t.error
BY FieldSet DEF SameMaterial, IsTx

LEMMA NextMaterial ==
    ASSUME NEW t, IsTx(t), NextRecord(t)
    PROVE  /\ SameMaterial(t, tx') /\ tx'.mutated = t.mutated /\ tx'.error = t.error
           /\ \/ tx'.pc = "applied" /\ tx'.k = t.k /\ \A j \in Entries : ~(j > t.k)
              \/ tx'.pc = "clear" /\ tx'.k \in Entries /\ \A j \in Entries : j > t.k => tx'.k <= j
<1>1. CASE {k \in Entries : k > t.k} = {} /\ tx' = [t EXCEPT !.pc = "applied"]
  BY <1>1, FieldSet DEF SameMaterial, IsTx
<1>2. ASSUME NEW k \in Entries, \A j \in {i \in Entries : i > t.k} : k <= j,
             tx' = [t EXCEPT !.k = k, !.pc = "clear"]
      PROVE  /\ SameMaterial(t, tx') /\ tx'.mutated = t.mutated /\ tx'.error = t.error
             /\ tx'.pc = "clear" /\ tx'.k = k
  BY <1>2, FieldSet DEF SameMaterial, IsTx
<1> QED BY <1>1, <1>2 DEF NextRecord

LEMMA PreviousMaterial ==
    ASSUME NEW t, IsTx(t), Previously(t)
    PROVE  /\ SameMaterial(t, tx') /\ tx'.mutated = t.mutated /\ tx'.error = t.error
           /\ \/ tx'.pc = "undo_end" /\ tx'.k = t.k /\ \A j \in Entries : ~(j < t.k)
              \/ tx'.pc = "undo" /\ tx'.k \in Entries /\ \A j \in Entries : j < t.k => j <= tx'.k
<1>1. CASE {k \in Entries : k < t.k} = {} /\ tx' = [t EXCEPT !.pc = "undo_end"]
  BY <1>1, FieldSet DEF SameMaterial, IsTx
<1>2. ASSUME NEW k \in Entries, \A j \in {i \in Entries : i < t.k} : j <= k,
             tx' = [t EXCEPT !.k = k, !.pc = "undo"]
      PROVE  /\ SameMaterial(t, tx') /\ tx'.mutated = t.mutated /\ tx'.error = t.error
             /\ tx'.pc = "undo" /\ tx'.k = k
  BY <1>2, FieldSet DEF SameMaterial, IsTx
<1> QED BY <1>1, <1>2 DEF Previously

(* Every entry is about a path, and says what happens to it.                 *)
LEMMA EntryType ==
    ASSUME NEW k \in Entries
    PROVE  /\ k \in Nat /\ k <= 2 * Half /\ k > 0
           /\ Entry(k) \in Names /\ (Was(Entry(k)) \/ Will(Entry(k)))
<1>1. Half \in Nat /\ PathOrder \in Seq(Names)
  BY PathsAssumption DEF Half
<1>2. k \in 1..2 * Half
  BY DEF Entries
<1>3. (IF k <= Half THEN k ELSE k - Half) \in 1..Half
  BY <1>1, <1>2
<1>4. Entry(k) \in Names
  BY <1>1, <1>3 DEF Entry, Half
<1>5. Was(Entry(k)) \/ Will(Entry(k))
  BY DEF Entries
<1> QED BY <1>1, <1>2, <1>4, <1>5

-----------------------------------------------------------------------------
(* Paths, and what moves with a path.                                        *)
LEMMA Paths ==
    ASSUME NEW n \in Names
    PROVE  /\ Up(n) # n /\ Kids(n) \subseteq Names /\ n \in Within(n) /\ Within(n) \subseteq Names
           /\ Up(n) # Top => Up(n) \in Names /\ Up(Up(n)) = Top /\ n \in Kids(Up(n)) /\ Kids(n) = {}
           /\ Up(n) \notin Within(n)
           /\ \A c \in Kids(n) : Up(c) = n /\ Up(n) = Top /\ c # n
BY PathsAssumption DEF Kids, Within

LEMMA Moving ==
    ASSUME NEW n \in Names, NEW f \in [Names -> Nodes], NEW g \in [Names -> Nodes]
    PROVE  /\ Without(n, f) \in [Names -> Nodes] /\ With(n, f, g) \in [Names -> Nodes]
           /\ \A m \in Names : m \in Within(n) => Without(n, f)[m] = "none" /\ With(n, f, g)[m] = f[m]
           /\ \A m \in Names : m \notin Within(n) => Without(n, f)[m] = f[m] /\ With(n, f, g)[m] = g[m]
BY DEF Without, With, Nodes

LEMMA PlaceMoves ==
    ASSUME NEW n \in Names, NEW f, NEW g, NEW p, NEW t, Place(f, p, t), Place(g, p, t)
    PROVE  Place(Without(n, f), p, t) /\ Place(With(n, f, g), p, t)
<1>1. f \in [Names -> Nodes] /\ g \in [Names -> Nodes]
  BY DEF Place
<1> DEFINE out == Without(n, f)
           in  == With(n, f, g)
<1>2. /\ out \in [Names -> Nodes] /\ in \in [Names -> Nodes]
      /\ \A m \in Names : m \in Within(n) => out[m] = "none" /\ in[m] = f[m]
      /\ \A m \in Names : m \notin Within(n) => out[m] = f[m] /\ in[m] = g[m]
  <2>1. out \in [Names -> Nodes] /\ in \in [Names -> Nodes]
    BY <1>1, Moving
  <2>2. \A m \in Names : m \in Within(n) => out[m] = "none" /\ in[m] = f[m]
    BY <1>1, Moving
  <2>3. \A m \in Names : m \notin Within(n) => out[m] = f[m] /\ in[m] = g[m]
    BY <1>1, Moving
  <2> QED BY <2>1, <2>2, <2>3
<1> HIDE DEF out, in
<1>3. Place(out, p, t)
  BY <1>2 DEF Place, DirNodes
<1>4. Place(in, p, t)
  BY <1>2 DEF Place, DirNodes
<1> QED BY <1>3, <1>4 DEF out, in

LEMMA TreeOut ==
    ASSUME NEW n \in Names, NEW f \in [Names -> Nodes], Tree(f)
    PROVE  Tree(Without(n, f))
<1> SUFFICES ASSUME NEW m \in Names, Without(n, f)[m] # "none", Up(m) # Top
             PROVE  Without(n, f)[Up(m)] \in DirNodes
  BY DEF Tree
<1>1. m \notin Within(n) /\ Without(n, f)[m] = f[m]
  BY Moving
<1>2. Up(m) \in Names /\ Up(m) \notin Within(n)
  BY <1>1, Paths DEF Within, Kids
<1>3. Without(n, f)[Up(m)] = f[Up(m)]
  BY <1>2, Moving
<1> QED BY <1>1, <1>3 DEF Tree

LEMMA TreeBack ==
    ASSUME NEW n \in Names, NEW f \in [Names -> Nodes], NEW g \in [Names -> Nodes], Tree(g), Bundle(f, n),
           Up(n) # Top => g[Up(n)] \in DirNodes
    PROVE  Tree(With(n, f, g))
<1> SUFFICES ASSUME NEW m \in Names, With(n, f, g)[m] # "none", Up(m) # Top
             PROVE  With(n, f, g)[Up(m)] \in DirNodes
  BY DEF Tree
<1>0. Up(m) \in Names /\ Up(Up(m)) = Top /\ m \in Kids(Up(m))
  BY Paths
<1>1. CASE m \in Kids(n)
  <2>1. Up(m) = n /\ m \in Within(n) /\ n \in Within(n)
    BY <1>1 DEF Kids, Within
  <2> QED BY <1>0, <1>1, <2>1, Moving DEF Bundle
<1>2. CASE m = n
  <2>1. Up(n) \notin Within(n)
    BY Paths
  <2> QED BY <1>0, <1>2, <2>1, Moving
<1>3. CASE m \notin Within(n)
  <2>1. Up(m) \notin Within(n)
    BY <1>0, <1>3, Paths DEF Within, Kids
  <2> QED BY <1>0, <1>3, <2>1, Moving DEF Tree
<1> QED BY <1>1, <1>2, <1>3 DEF Within

(* What leaves a place whose other paths are empty leaves nothing there.     *)
LEMMA OnlyOut ==
    ASSUME NEW n \in Names, NEW f \in [Names -> Nodes], Only(f, n)
    PROVE  Without(n, f) = None
BY DEF Only, Without, None

LEMMA OnlyIn ==
    ASSUME NEW n \in Names, NEW f \in [Names -> Nodes], Tree(f)
    PROVE  With(n, f, None) \in [Names -> Nodes] /\ Only(With(n, f, None), n) /\ Bundle(With(n, f, None), n)
<1>1. None \in [Names -> Nodes]
  BY DEF None, Nodes
<1>2. Only(With(n, f, None), n)
  BY <1>1, Moving DEF Only, None
<1>3. Bundle(With(n, f, None), n)
  <2> SUFFICES ASSUME NEW c \in Kids(n), With(n, f, None)[c] # "none"
               PROVE  With(n, f, None)[n] \in DirNodes
    BY DEF Bundle
  <2>1. c \in Names /\ Up(c) = n /\ Up(c) # Top /\ c \in Within(n) /\ n \in Within(n)
    BY PathsAssumption DEF Kids, Within
  <2>2. f[c] # "none" /\ With(n, f, None)[n] = f[n]
    BY <1>1, <2>1, Moving
  <2> QED BY <2>1, <2>2 DEF Tree
<1> QED BY <1>1, <1>2, <1>3, Moving

(* Directories are made where nothing is.                                    *)
LEMMA Making ==
    ASSUME NEW D, at \in [Names -> Nodes]
    PROVE  /\ MakeDirs(D) \in [Names -> Nodes]
           /\ \A n \in Names : MakeDirs(D)[n] = IF n \in D /\ at[n] = "none" THEN "mdir" ELSE at[n]
BY DEF MakeDirs, Nodes, DirNodes

LEMMA MakingTree ==
    ASSUME NEW D, D \subseteq {d \in Names : Up(d) = Top}, NEW p, NEW t, Place(at, p, t), Tree(at)
    PROVE  Place(MakeDirs(D), p, t) /\ Tree(MakeDirs(D))
<1>1. /\ MakeDirs(D) \in [Names -> Nodes]
      /\ \A n \in Names : MakeDirs(D)[n] = IF n \in D /\ at[n] = "none" THEN "mdir" ELSE at[n]
  BY Making DEF Place
<1> HIDE DEF MakeDirs
<1>2. Place(MakeDirs(D), p, t)
  BY <1>1 DEF Place, DirNodes
<1>3. Tree(MakeDirs(D))
  BY <1>1, PathsAssumption DEF Tree, DirNodes
<1> QED BY <1>2, <1>3

-----------------------------------------------------------------------------
(* What has to be shown of the state a step leads to.                        *)
AllSafe == \A w \in written : Safe(w[1], w[2])

LEMMA SafeWhenSeen == Writings /\ tx.pc # "verify" => AllSafe
BY DEF Writings, AllSafe

LEMMA Labels ==
    /\ tx.pc \in Before => tx.pc \notin Applying \cup UndoLabels \cup Ending
    /\ tx.pc \in Applying => tx.pc \notin Before \cup UndoLabels \cup Ending
    /\ tx.pc \in UndoLabels => tx.pc \notin Before \cup Applying \cup Ending
    /\ tx.pc \in Ending => tx.pc \notin Before \cup Applying \cup UndoLabels
BY DEF Before, Applying, UndoLabels, Undoing, First, FileLabels, HeadLabels, Ending

LEMMA ToForward ==
    ASSUME Base', AllSafe' \/ Writings', tx'.pc \in Applying, Forward', Turning'
    PROVE  FInv'
<1>1. /\ tx'.pc \notin Before \cup UndoLabels \cup Ending
  BY DEF Before, Applying, UndoLabels, Undoing, First, FileLabels, HeadLabels, Ending
<1>2. Stages'
  BY <1>1 DEF Stages
<1>3. Writings'
  BY DEF Writings, AllSafe
<1> QED BY <1>2, <1>3 DEF FInv

LEMMA ToBackward ==
    ASSUME Base', AllSafe', tx'.pc \in UndoLabels, Backward'
    PROVE  FInv'
<1>1. /\ tx'.pc \notin Before \cup Applying \cup Ending
  BY DEF Before, Applying, UndoLabels, Undoing, First, FileLabels, HeadLabels, Ending
<1>2. Stages'
  BY <1>1 DEF Stages
<1>3. Writings'
  BY DEF Writings, AllSafe
<1> QED BY <1>2, <1>3 DEF FInv

LEMMA ToEnd ==
    ASSUME Base', AllSafe', tx'.pc \in Ending, IF tx'.error = "none" THEN Clean' ELSE Failed'
    PROVE  FInv'
<1>1. /\ tx'.pc \notin Before \cup Applying \cup UndoLabels
  BY DEF Before, Applying, UndoLabels, Undoing, First, FileLabels, HeadLabels, Ending
<1>2. Stages'
  BY <1>1 DEF Stages
<1>3. Writings'
  BY DEF Writings, AllSafe
<1> QED BY <1>2, <1>3 DEF FInv

(* A failing step: to the rollback, or to the end when there is nothing to   *)
(* put back.                                                                 *)
LEMMA Retreat ==
    ASSUME Base', AllSafe', Held', Spared', taken' = None,
           \A n \in Names : quarantine'[n] # "none" => Stuck(n)',
           ~tx'.mutated => AsFound' /\ quarantine' = None,
           tx'.pc = IF tx'.mutated THEN "undo_index" ELSE "release"
    PROVE  FInv'
<1>1. CASE tx'.mutated
  <2>1. tx'.pc = "undo_index" /\ tx'.pc \in UndoLabels
    BY <1>1 DEF UndoLabels
  <2>2. Undone' = {}
    BY <2>1 DEF Undone, Returned
  <2>3. Backward'
    BY <1>1, <2>1, <2>2 DEF Backward
  <2> QED BY <2>1, <2>3, ToBackward
<1>2. CASE ~tx'.mutated
  <2>1. tx'.pc = "release" /\ tx'.pc \in Ending /\ tx'.error # "none"
    BY <1>2 DEF Ending, Held
  <2>2. \A n \in Names \ touched' : Was(n)' => Solid(n)'
    BY <1>2 DEF AsFound, Solid, Stays
  <2>3. Failed'
    BY <1>2, <2>1, <2>2 DEF Failed
  <2> QED BY <2>1, <2>3, ToEnd
<1> QED BY <1>1, <1>2 DEF Base

(* A rollback that gives up.                                                 *)
LEMMA GivesUp ==
    ASSUME Base', AllSafe', Held', tx'.pc = "release", tx'.restoreFailed, tx'.keepBackup = Known'
    PROVE  FInv'
<1>1. tx'.pc \in Ending /\ tx'.error # "none"
  BY DEF Ending, Held
<1>2. \A n \in Names \ touched' : Was(n)' => Solid(n)' \/ n \in backup' \cap tx'.keepBackup
  BY DEF Held, Known
<1>3. Failed'
  BY <1>1, <1>2 DEF Failed
<1> QED BY <1>1, <1>3, ToEnd

-----------------------------------------------------------------------------
(* Steps that change no file and no recovery material.                       *)
still == <<plan, at, edited, written, touched, backup, staged, aside, taken, quarantine>>

LEMMA BaseStill ==
    ASSUME Base, UNCHANGED still, SameMaterial(tx, tx'), tx'.mutated \in BOOLEAN, tx'.k \in Nat,
           tx'.pc \in Turned \cup Returned => tx'.k \in Entries'
    PROVE  Base'
BY DEF Base, still, SameMaterial, Was

LEMMA EntriesStill ==
    ASSUME plan' = plan
    PROVE  /\ Entries' = Entries
           /\ \A n \in Names : Was(n)' = Was(n) /\ Will(n)' = Will(n)
BY DEF Entries, Was, Will, Entry

LEMMA StaysStill ==
    ASSUME UNCHANGED still, tx'.keepAside = tx.keepAside
    PROVE  /\ \A v, n : Stays(v, n)' <=> Stays(v, n)
           /\ \A n : Solid(n)' <=> Solid(n)
           /\ AllSafe' <=> AllSafe
           /\ AsFound' <=> AsFound
           /\ Clean' <=> Clean
BY DEF still, Stays, Solid, AllSafe, Safe, AsFound, Clean, Was

LEMMA CalmStart ==
    ASSUME FInv, UNCHANGED still, SameMaterial(tx, tx'), tx'.mutated = tx.mutated, tx'.k = tx.k,
           tx.pc \in Before, tx'.pc \in Before
    PROVE  FInv'
<1>1. Base /\ Outset /\ AllSafe
  BY SafeWhenSeen DEF FInv, Stages, Before, First
<1>2. tx'.pc \notin Applying \cup UndoLabels \cup Ending \cup Turned \cup Returned
  BY DEF Before, Applying, UndoLabels, Undoing, First, FileLabels, HeadLabels, Ending, Turned, Returned
<1>3. Base'
  BY <1>1, <1>2, BaseStill DEF Base
<1>4. AllSafe' /\ AsFound' /\ Clean'
  BY <1>1, StaysStill DEF Outset, SameMaterial
<1>5. Outset'
  BY <1>1, <1>4 DEF Outset, SameMaterial, still
<1>6. Stages'
  BY <1>2, <1>5 DEF Stages
<1>7. Writings'
  BY <1>4 DEF Writings, AllSafe
<1> QED BY <1>3, <1>6, <1>7 DEF FInv

Past == {"applied", "final"} \cup HeadLabels

LEMMA CalmHead ==
    ASSUME FInv, UNCHANGED still, SameMaterial(tx, tx'), tx'.mutated = TRUE, tx'.k = tx.k,
           tx.pc \in Past, tx'.pc \in Past
    PROVE  FInv'
<1>1. /\ tx.pc \in Applying /\ tx'.pc \in Applying /\ tx.pc # "verify"
      /\ tx.pc \notin Turned \cup Returned /\ tx'.pc \notin Turned \cup Returned
  BY DEF Past, HeadLabels, Applying, FileLabels, Turned, Returned
<1>2. Base /\ Forward /\ AllSafe
  BY <1>1, SafeWhenSeen DEF FInv, Stages
<1>3. Base'
  BY <1>1, <1>2, BaseStill DEF Base
<1>4. AllSafe'
  BY <1>2, StaysStill DEF SameMaterial
<1>5. Passed = Entries /\ Passed' = Entries /\ \A n \in Names : Was(n)' = Was(n) /\ Will(n)' = Will(n)
  BY EntriesStill DEF Passed, Past, still
<1>6. Forward'
  BY <1>1, <1>2, <1>5 DEF Forward, Turned, still, SameMaterial, Was, Will
<1>7. Turning'
  BY <1>1 DEF Turning, Turned
<1> QED BY <1>1, <1>3, <1>4, <1>6, <1>7, ToForward

LEMMA CalmFail ==
    ASSUME FInv, UNCHANGED still, SameMaterial(tx, tx'), tx'.k = tx.k,
           tx'.mutated \in BOOLEAN, tx.mutated => tx'.mutated, tx'.error # "none",
           tx.pc \in Before \cup (Applying \ {"verify", "cleared"}),
           tx'.pc = IF tx'.mutated THEN "undo_index" ELSE "release"
    PROVE  FInv'
<1>1. Base /\ AllSafe /\ (tx.pc \in Before => Outset) /\ (tx.pc \in Applying => Forward /\ Turning)
  BY SafeWhenSeen DEF FInv, Stages, Before, First
<1>2. tx'.pc \notin Turned \cup Returned
  BY DEF Turned, Returned
<1>3. Base'
  BY <1>1, <1>2, BaseStill DEF Base
<1>4. /\ taken = None /\ quarantine = None /\ tx.keepPath = {} /\ tx.keepAside = {} /\ tx.abandoned = {}
      /\ ~tx.mutated => AsFound
  BY <1>1 DEF Outset, Forward, Clean
<1>5. \A n \in Names : aside[n] # "none" => aside[n] = "old"
  <2>1. CASE tx.pc \in {"install", "drop"}
    BY <1>1, <2>1 DEF Turning, Applying, FileLabels
  <2>2. CASE tx.pc \notin {"install", "drop"}
    BY <1>1, <2>2 DEF Outset, Forward, Clean, None
  <2> QED BY <2>1, <2>2
<1>6. \A n \in Names \ touched : Was(n) => n \in backup \/ Solid(n)
  BY <1>1 DEF Outset, Forward, AsFound, Solid, Stays
<1>7. AllSafe' /\ (AsFound' <=> AsFound) /\ \A n : Solid(n)' <=> Solid(n)
  BY <1>1, StaysStill DEF SameMaterial
<1>8. Held' /\ Spared'
  BY <1>4, <1>5, <1>6, <1>7 DEF Held, Spared, still, SameMaterial, Was
<1>9. taken' = None /\ quarantine' = None
  BY <1>4 DEF still
<1> QED BY <1>3, <1>4, <1>7, <1>8, <1>9, Retreat DEF None

LEMMA CalmUndo ==
    ASSUME FInv, UNCHANGED still, SameMaterial(tx, tx'), tx'.mutated = tx.mutated, tx'.k = tx.k,
           tx'.error = tx.error,
           tx.pc \in {"undo_index", "undo_head", "undo_look", "undo_bind"},
           tx'.pc \in {"undo_head", "undo_look", "undo_bind", "undo_files"}
    PROVE  FInv'
<1>1. /\ tx.pc \in UndoLabels /\ tx'.pc \in UndoLabels /\ tx.pc # "verify"
      /\ tx.pc \notin Turned \cup Returned /\ tx'.pc \notin Turned \cup Returned
  BY DEF UndoLabels, Undoing, Turned, Returned
<1>2. Base /\ Backward /\ AllSafe
  BY <1>1, SafeWhenSeen DEF FInv, Stages
<1>3. Base'
  BY <1>1, <1>2, BaseStill DEF Base
<1>4. AllSafe' /\ \A n : Solid(n)' <=> Solid(n)
  BY <1>2, StaysStill DEF SameMaterial
<1>5. Undone' = {}
  BY <1>1 DEF Undone
<1>6. Held' /\ Spared'
  BY <1>2, <1>4 DEF Backward, Held, Spared, still, SameMaterial, Was
<1>7. \A n \in Names : quarantine'[n] # "none" => Stuck(n)'
  BY <1>2 DEF Backward, Stuck, still, SameMaterial
<1>8. Backward'
  BY <1>2, <1>5, <1>6, <1>7 DEF Backward, still
<1> QED BY <1>1, <1>3, <1>4, <1>8, ToBackward

(* The end of a transfer that applied everything, and the last step.         *)
LEMMA CalmEnd ==
    ASSUME FInv, UNCHANGED still, SameMaterial(tx, tx'), tx'.mutated \in BOOLEAN, tx'.k = tx.k,
           tx'.error = tx.error, tx'.restoreFailed = tx.restoreFailed, tx'.keepBackup = tx.keepBackup,
           \/ tx.pc = "final" /\ tx'.pc = "release" /\ tx.error = "none"
           \/ tx.pc = "unlock" /\ tx'.pc = "done"
    PROVE  FInv'
<1>1. /\ tx'.pc \in Ending /\ tx.pc # "verify" /\ tx'.pc \notin Turned \cup Returned
  BY DEF Ending, Turned, Returned
<1>2. Base /\ AllSafe
  BY <1>1, SafeWhenSeen DEF FInv
<1>3. Base'
  BY <1>1, <1>2, BaseStill DEF Base
<1>4. AllSafe' /\ (Clean' <=> Clean) /\ \A n : Solid(n)' <=> Solid(n)
  BY <1>2, StaysStill DEF SameMaterial
<1>5. CASE tx.error = "none"
  <2>1. Clean
    BY <1>5 DEF FInv, Stages, Applying, Ending, Forward, Clean
  <2> QED BY <1>1, <1>3, <1>4, <1>5, <2>1, ToEnd
<1>6. CASE tx.error # "none"
  <2>1. tx.pc = "unlock" /\ Failed
    BY <1>6 DEF FInv, Stages, Ending
  <2>2. Failed'
    BY <1>4, <2>1 DEF Failed, still, SameMaterial, Was
  <2> QED BY <1>1, <1>3, <1>4, <1>6, <2>2, ToEnd
<1> QED BY <1>5, <1>6

-----------------------------------------------------------------------------
(* The steps of the transaction that are not about files.                    *)
LEMMA LookMaterial ==
    ASSUME IInv, FInv, Observe \/ Import \/ Reobserve
    PROVE  FInv'
<1> USE DEF files, material, still, At, Goto, Fail
<1>1. /\ UNCHANGED still /\ IsTx(tx) /\ tx.pc \in {"observe", "import", "reobserve"}
      /\ \/ \E l \in {"import", "index", "stage"} : tx' = [tx EXCEPT !.pc = l]
         \/ \E e \in {"conflict", "failed"} : tx' = Fails(tx, e)
  BY DEF Observe, Import, Reobserve, IInv, World
<1>2. tx.pc \in Before /\ tx.k \in Nat /\ tx.mutated \in BOOLEAN
  BY <1>1 DEF Before, First, FInv, Base
<1>3. ASSUME NEW l \in {"import", "index", "stage"}, tx' = [tx EXCEPT !.pc = l]
      PROVE  FInv'
  <2>1. /\ SameMaterial(tx, tx') /\ tx'.mutated = tx.mutated /\ tx'.k = tx.k /\ tx'.pc \in Before
    BY <1>1, <1>3, GotoMaterial DEF Before, First
  <2> QED BY <1>1, <1>2, <2>1, CalmStart
<1>4. ASSUME NEW e \in {"conflict", "failed"}, tx' = Fails(tx, e)
      PROVE  FInv'
  BY <1>1, <1>2, <1>4, FailsMaterial, CalmFail
<1> QED BY <1>1, <1>3, <1>4

LEMMA PrepareIndexMaterial ==
    ASSUME IInv, FInv, PrepareIndex
    PROVE  FInv'
<1>1. /\ UNCHANGED still /\ IsTx(tx) /\ tx.pc = "index"
      /\ \/ tx' = [tx EXCEPT !.pc = "reobserve", !.lock = TRUE, !.indexBackup = TRUE]
         \/ tx' = Fails(tx, "conflict")
  BY DEF PrepareIndex, IInv, World, At, Fail, files, material, still
<1>2. tx.pc \in Before /\ tx.k \in Nat /\ tx.mutated \in BOOLEAN
  BY <1>1 DEF Before, First, FInv, Base
<1>3. CASE tx' = [tx EXCEPT !.pc = "reobserve", !.lock = TRUE, !.indexBackup = TRUE]
  <2>1. SameMaterial(tx, tx') /\ tx'.mutated = tx.mutated /\ tx'.k = tx.k /\ tx'.pc = "reobserve"
    BY <1>1, <1>3, FieldSet DEF SameMaterial, IsTx
  <2> QED BY <1>1, <1>2, <2>1, CalmStart DEF Before
<1>4. CASE tx' = Fails(tx, "conflict")
  BY <1>1, <1>2, <1>4, FailsMaterial, CalmFail
<1> QED BY <1>1, <1>3, <1>4

(* HEAD and the branch change the record of the transaction in `update`      *)
(* only.                                                                     *)
LEMMA HeadMaterial ==
    ASSUME IInv, FInv, UNCHANGED still, tx.pc \in Past, tx.mutated, NEW t, SameMaterial(tx, t),
           t.mutated = tx.mutated, t.k = tx.k,
           \/ \E l \in Past : tx' = [t EXCEPT !.pc = l]
           \/ \E e \in Errors : tx' = Fails(t, e)
    PROVE  FInv' /\ tx'.pc \notin Ending
<1>1. IsTx(t) /\ tx.k \in Nat
  BY DEF SameMaterial, FInv, Base
<1>2. ASSUME NEW l \in Past, tx' = [t EXCEPT !.pc = l]
      PROVE  FInv' /\ tx'.pc \notin Ending
  <2>1. SameMaterial(t, tx') /\ tx'.mutated = t.mutated /\ tx'.k = t.k /\ tx'.pc = l
    BY <1>1, <1>2, GotoMaterial
  <2>2. tx'.pc \notin Ending
    BY <2>1 DEF Past, HeadLabels, Ending
  <2> QED BY <2>1, <2>2, CalmHead DEF SameMaterial, FInv, Base
<1>3. ASSUME NEW e \in Errors, tx' = Fails(t, e)
      PROVE  FInv' /\ tx'.pc \notin Ending
  <2>0. e # "none"
    BY DEF Errors
  <2>1. SameMaterial(t, tx') /\ tx'.mutated = t.mutated /\ tx'.k = t.k /\ tx'.error # "none"
        /\ tx'.pc = IF tx'.mutated THEN "undo_index" ELSE "release"
    BY ONLY <1>1, <1>3, <2>0, FailsMaterial
  <2>2. tx.pc \in Applying \ {"verify", "cleared"}
    BY DEF Past, Applying, FileLabels, HeadLabels
  <2>3. tx'.pc \notin Ending
    BY <2>1 DEF Ending
  <2> QED BY <2>1, <2>2, <2>3, CalmFail DEF SameMaterial, FInv, Base
<1> QED BY <1>2, <1>3

LEMMA AppliedMaterial ==
    ASSUME IInv, FInv, Applied
    PROVE  FInv'
<1>1. /\ UNCHANGED still /\ IsTx(tx) /\ tx.pc = "applied"
      /\ \/ tx' = [tx EXCEPT !.pc = "head", !.mutated = TRUE]
         \/ tx' = Fails(tx, "unknown")
  BY DEF Applied, IInv, World, At, files, material, still
<1>2. tx.pc \in Applying \ {"verify", "cleared"} /\ tx.k \in Nat /\ tx.mutated \in BOOLEAN
  BY <1>1 DEF Applying, FileLabels, FInv, Base
<1>3. CASE tx' = [tx EXCEPT !.pc = "head", !.mutated = TRUE]
  <2>1. SameMaterial(tx, tx') /\ tx'.mutated = TRUE /\ tx'.k = tx.k /\ tx'.pc = "head"
    BY <1>1, <1>3, FieldSet DEF SameMaterial, IsTx
  <2> QED BY <1>1, <2>1, CalmHead DEF Past, HeadLabels
<1>4. CASE tx' = Fails(tx, "unknown")
  BY <1>1, <1>2, <1>4, FailsMaterial, CalmFail
<1> QED BY <1>1, <1>3, <1>4

LEMMA OnHead ==
    ASSUME IInv, tx.pc \in HeadLabels \cup {"final"}
    PROVE  tx.pc \in Past /\ tx.mutated /\ IsTx(tx)
BY DEF IInv, Course, World, Past

LEMMA UpdateHEADMaterial ==
    ASSUME IInv, FInv, UpdateHEAD
    PROVE  FInv' /\ tx'.pc \notin Ending
<1>1. UNCHANGED still /\ tx.pc = "head"
  BY DEF UpdateHEAD, At, files, material, still
<1>2. tx.pc \in Past /\ tx.mutated /\ IsTx(tx)
  BY <1>1, OnHead DEF HeadLabels
<1> DEFINE u == [NoUpdate EXCEPT !.binding = binding, !.head = HEAD,
                                 !.ref = IF Detached THEN "none" ELSE ref[plan.to]]
           t == [tx EXCEPT !.update = u]
<1>3. \/ tx' = [t EXCEPT !.pc = "bind"] \/ tx' = Fails(tx, "conflict")
  BY DEF UpdateHEAD
<1> HIDE DEF u
<1>4. SameMaterial(tx, t) /\ t.mutated = tx.mutated /\ t.k = tx.k
      /\ SameMaterial(tx, tx)
  BY <1>2, FieldSet DEF SameMaterial, IsTx
<1> HIDE DEF t
<1>5. "bind" \in Past /\ "conflict" \in Errors
  BY DEF Past, HeadLabels, Errors
<1>6. CASE tx' = [t EXCEPT !.pc = "bind"]
  BY <1>1, <1>2, <1>4, <1>5, <1>6, HeadMaterial
<1>7. CASE tx' = Fails(tx, "conflict")
  BY <1>1, <1>2, <1>4, <1>5, <1>7, HeadMaterial
<1> QED BY <1>3, <1>6, <1>7

LEMMA BindHEADMaterial ==
    ASSUME IInv, FInv, BindHEAD
    PROVE  FInv' /\ tx'.pc \notin Ending
<1>1. UNCHANGED still /\ tx.pc = "bind"
  BY DEF BindHEAD, At, files, material, still
<1>2. tx.pc \in Past /\ tx.mutated /\ IsTx(tx)
  BY <1>1, OnHead DEF HeadLabels
<1> DEFINE changed == tx.update.binding # plan.to \/ (Detached /\ tx.update.head # "new")
           t == [tx EXCEPT !.update.known = TRUE, !.update.headChanged = changed]
           s == [tx EXCEPT !.update.known = TRUE]
<1>3. \/ tx' = [tx EXCEPT !.update.known = TRUE, !.update.headChanged = changed,
                          !.pc = IF Detached THEN "promote" ELSE "move"]
      \/ tx' = Reconciled(tx)
  BY DEF BindHEAD
<1>4. tx' = Reconciled(tx) => tx' = Fails(t, "failed") \/ tx' = Fails(s, "failed") \/ tx' = Fails(s, "unknown")
  BY DEF Reconciled
<1> HIDE DEF changed
<1>5. tx' = [tx EXCEPT !.update.known = TRUE, !.update.headChanged = changed,
                          !.pc = IF Detached THEN "promote" ELSE "move"]
      => tx' = [t EXCEPT !.pc = IF Detached THEN "promote" ELSE "move"]
  OBVIOUS
<1>6. /\ SameMaterial(tx, t) /\ t.mutated = tx.mutated /\ t.k = tx.k
      /\ SameMaterial(tx, s) /\ s.mutated = tx.mutated /\ s.k = tx.k
  BY <1>2, FieldSet DEF SameMaterial, IsTx
<1> HIDE DEF t, s
<1>7. "promote" \in Past /\ "move" \in Past /\ "failed" \in Errors /\ "unknown" \in Errors
  BY DEF Past, HeadLabels, Errors
<1>8. CASE tx' = [t EXCEPT !.pc = IF Detached THEN "promote" ELSE "move"]
  BY <1>1, <1>2, <1>6, <1>7, <1>8, HeadMaterial
<1>9. CASE \E e \in Errors : tx' = Fails(t, e)
  BY <1>1, <1>2, <1>6, <1>9, HeadMaterial
<1>10. CASE \E e \in Errors : tx' = Fails(s, e)
  BY <1>1, <1>2, <1>6, <1>10, HeadMaterial
<1> QED BY <1>3, <1>4, <1>5, <1>7, <1>8, <1>9, <1>10

LEMMA MoveBranchMaterial ==
    ASSUME IInv, FInv, MoveBranch
    PROVE  FInv' /\ tx'.pc \notin Ending
<1>1. UNCHANGED still /\ tx.pc = "move"
  BY DEF MoveBranch, At, files, material, still
<1>2. tx.pc \in Past /\ tx.mutated /\ IsTx(tx)
  BY <1>1, OnHead DEF HeadLabels
<1> DEFINE t == Advanced(tx)
<1>3. \/ tx' = [t EXCEPT !.pc = "promote"] \/ tx' = Fails(t, "failed")
      \/ tx' = Fails(tx, "failed") \/ tx' = Fails(tx, "unknown")
  BY DEF MoveBranch
<1>4. /\ SameMaterial(tx, t) /\ t.mutated = tx.mutated /\ t.k = tx.k /\ SameMaterial(tx, tx)
  BY <1>2, FieldSet DEF SameMaterial, IsTx, Advanced
<1> HIDE DEF t
<1>5. "promote" \in Past /\ "failed" \in Errors /\ "unknown" \in Errors
  BY DEF Past, HeadLabels, Errors
<1>6. CASE tx' = [t EXCEPT !.pc = "promote"]
  BY <1>1, <1>2, <1>4, <1>5, <1>6, HeadMaterial
<1>7. CASE \E e \in Errors : tx' = Fails(t, e)
  BY <1>1, <1>2, <1>4, <1>7, HeadMaterial
<1>8. CASE \E e \in Errors : tx' = Fails(tx, e)
  BY <1>1, <1>2, <1>4, <1>8, HeadMaterial
<1> QED BY <1>3, <1>5, <1>6, <1>7, <1>8

LEMMA PromoteMaterial ==
    ASSUME IInv, FInv, Promote
    PROVE  FInv' /\ tx'.pc \notin Ending
<1>1. UNCHANGED still /\ tx.pc = "promote"
  BY DEF Promote, At, files, material, still
<1>2. tx.pc \in Past /\ tx.mutated /\ IsTx(tx)
  BY <1>1, OnHead DEF HeadLabels
<1> DEFINE t == [tx EXCEPT !.promoted = TRUE, !.lock = FALSE]
<1>3. tx' = [t EXCEPT !.pc = "final"] \/ tx' = Fails(tx, "failed")
  BY DEF Promote, Fail
<1>4. /\ SameMaterial(tx, t) /\ t.mutated = tx.mutated /\ t.k = tx.k /\ SameMaterial(tx, tx)
  BY <1>2, FieldSet DEF SameMaterial, IsTx
<1> HIDE DEF t
<1>5. "final" \in Past /\ "failed" \in Errors
  BY DEF Past, Errors
<1>6. CASE tx' = [t EXCEPT !.pc = "final"]
  BY <1>1, <1>2, <1>4, <1>5, <1>6, HeadMaterial
<1>7. CASE tx' = Fails(tx, "failed")
  BY <1>1, <1>2, <1>4, <1>5, <1>7, HeadMaterial
<1> QED BY <1>3, <1>6, <1>7

LEMMA FinalMaterial ==
    ASSUME IInv, FInv, Final
    PROVE  FInv'
<1>1. UNCHANGED still /\ tx.pc = "final"
  BY DEF Final, At, files, material, still
<1>2. tx.pc \in Past /\ tx.mutated /\ IsTx(tx) /\ tx.error = "none"
  BY <1>1, OnHead DEF IInv, Course, Going
<1>3. \/ tx' = [tx EXCEPT !.pc = "release"] \/ tx' = Fails(tx, "unknown") \/ tx' = Fails(tx, "failed")
  BY DEF Final, Fail
<1>4. CASE tx' = [tx EXCEPT !.pc = "release"]
  <2>1. /\ SameMaterial(tx, tx') /\ tx'.mutated = tx.mutated /\ tx'.k = tx.k /\ tx'.pc = "release"
        /\ tx'.error = tx.error /\ tx'.restoreFailed = tx.restoreFailed /\ tx'.keepBackup = tx.keepBackup
    BY <1>2, <1>4, FieldSet DEF SameMaterial, IsTx
  <2> QED BY <1>1, <1>2, <2>1, CalmEnd
<1>5. CASE \E e \in Errors : tx' = Fails(tx, e)
  BY <1>1, <1>2, <1>5, HeadMaterial DEF SameMaterial
<1> QED BY <1>3, <1>4, <1>5 DEF Errors

LEMMA UndoGitMaterial ==
    ASSUME IInv, FInv, UndoGit
    PROVE  FInv'
<1> USE DEF files, material, still, At, Goto
<1>0. IsTx(tx) /\ tx.k \in Nat /\ tx.mutated \in BOOLEAN
  BY DEF IInv, World, FInv, Base
<1> DEFINE Moves(l) == /\ SameMaterial(tx, tx') /\ tx'.mutated = tx.mutated /\ tx'.k = tx.k
                       /\ tx'.error = tx.error /\ tx'.pc = l
<1>1. CASE UndoIndex
  <2>1. UNCHANGED still /\ tx.pc = "undo_index"
    BY <1>1 DEF UndoIndex
  <2>2. \/ tx' = [tx EXCEPT !.pc = "undo_head"]
        \/ tx' = [tx EXCEPT !.promoted = FALSE, !.indexBackup = FALSE, !.pc = "undo_head"]
        \/ tx' = [tx EXCEPT !.restoreFailed = TRUE, !.pc = "undo_head"]
    BY <1>1 DEF UndoIndex
  <2>3. Moves("undo_head")
    BY <1>0, <2>2, FieldSet DEF SameMaterial, IsTx
  <2> QED BY <2>1, <2>3, CalmUndo
<1>2. CASE UndoBranch
  <2>1. UNCHANGED still /\ tx.pc = "undo_head"
    BY <1>2 DEF UndoBranch
  <2>2. \E l \in {"undo_look", "undo_files"} : tx' = [tx EXCEPT !.pc = l] \/ tx' = NotRestored
    BY <1>2 DEF UndoBranch
  <2>3. \E l \in {"undo_look", "undo_files"} : Moves(l)
    BY <1>0, <2>2, FieldSet DEF SameMaterial, IsTx, NotRestored
  <2> QED BY <2>1, <2>3, CalmUndo
<1>3. CASE UndoLook
  <2>1. UNCHANGED still /\ tx.pc = "undo_look"
    BY <1>3 DEF UndoLook
  <2>2. \E l \in {"undo_bind", "undo_files"} : tx' = [tx EXCEPT !.pc = l] \/ tx' = NotRestored
    BY <1>3 DEF UndoLook
  <2>3. \E l \in {"undo_bind", "undo_files"} : Moves(l)
    BY <1>0, <2>2, FieldSet DEF SameMaterial, IsTx, NotRestored
  <2> QED BY <2>1, <2>3, CalmUndo
<1>4. CASE UndoBind
  <2>1. UNCHANGED still /\ tx.pc = "undo_bind"
    BY <1>4 DEF UndoBind
  <2>2. tx' = [tx EXCEPT !.pc = "undo_files"] \/ tx' = NotRestored
    BY <1>4 DEF UndoBind
  <2>3. Moves("undo_files")
    BY <1>0, <2>2, FieldSet DEF SameMaterial, IsTx, NotRestored
  <2> QED BY <2>1, <2>3, CalmUndo
<1>5. CASE ReleaseIndex
  <2>1. /\ UNCHANGED still /\ tx.pc = "unlock"
        /\ tx' = [tx EXCEPT !.lock = FALSE, !.indexBackup = FALSE, !.pc = "done"]
    BY <1>5 DEF ReleaseIndex
  <2>2. Moves("done") /\ tx'.restoreFailed = tx.restoreFailed /\ tx'.keepBackup = tx.keepBackup
    BY <1>0, <2>1, FieldSet DEF SameMaterial, IsTx
  <2> QED BY <1>0, <2>1, <2>2, CalmEnd
<1> QED BY <1>1, <1>2, <1>3, <1>4, <1>5 DEF UndoGit

-----------------------------------------------------------------------------
(* Steps that change files and recovery material.                            *)
moves == <<plan, edited, written, touched>>

LEMMA BaseMoves ==
    ASSUME Base, UNCHANGED moves, Place(at', plan, touched), Place(aside', plan, touched),
           Place(taken', plan, touched), Place(quarantine', plan, touched), Tree(at'),
           backup' \subseteq {n \in Names : Was(n)}, staged' \subseteq Names,
           tx'.k \in Nat, tx'.pc \in Turned \cup Returned => tx'.k \in Entries, tx'.mutated \in BOOLEAN,
           tx'.pinned \subseteq {d \in Names : Up(d) = Top /\ plan.old[d] = "dir"},
           tx'.made \subseteq {d \in Names : Up(d) = Top},
           tx'.keepPath \subseteq {n \in Names : Was(n)}, tx'.keepAside \subseteq Names,
           tx'.abandoned \subseteq Names
    PROVE  Base'
<1>1. Entries' = Entries
  BY EntriesStill DEF moves
<1> QED BY <1>1 DEF Base, moves, Was

LEMMA Safely ==
    ASSUME Base, AllSafe, UNCHANGED written,
           \A v \in FileNodes, n \in Names : Safe(v, n) => Safe(v, n)'
    PROVE  AllSafe'
BY DEF Base, AllSafe

LEMMA PlaceNone ==
    ASSUME NEW p, NEW t
    PROVE  /\ Place(None, p, t) /\ None \in [Names -> Nodes] /\ \A m \in Names : None[m] = "none"
BY DEF Place, None, Nodes, DirNodes, FileNodes

LEMMA Nothing ==
    ASSUME NEW f \in [Names -> Nodes], \A m \in Names : f[m] = "none"
    PROVE  f = None
BY DEF None

(* What is known while the files of an entry are exchanged.                  *)
LEMMA OnTurn ==
    ASSUME IInv, FInv, tx.pc \in Turned
    PROVE  /\ IsTx(tx) /\ Base /\ Forward /\ Turning
           /\ Record \in Names /\ tx.k \in Entries /\ tx.k \in Nat /\ tx.mutated \in BOOLEAN
           /\ Was(Record) \/ Will(Record)
           /\ tx.pc # "verify" => AllSafe
           /\ at \in [Names -> Nodes] /\ aside \in [Names -> Nodes] /\ quarantine \in [Names -> Nodes]
           /\ taken = None
<1>1. tx.pc \in Applying
  BY DEF Turned, Applying, FileLabels
<1>2. Base /\ Forward /\ Turning /\ IsTx(tx)
  BY <1>1 DEF IInv, World, FInv, Stages
<1>3. tx.k \in Entries /\ tx.k \in Nat /\ tx.mutated \in BOOLEAN
  BY <1>2 DEF Base
<1>4. Record \in Names /\ (Was(Record) \/ Will(Record))
  BY <1>3, EntryType DEF Record
<1>5. tx.pc # "verify" => AllSafe
  BY SafeWhenSeen DEF FInv
<1>6. at \in [Names -> Nodes] /\ aside \in [Names -> Nodes] /\ quarantine \in [Names -> Nodes]
  BY <1>2 DEF Base, Place
<1>7. taken = None
  BY <1>2 DEF Forward
<1> QED BY <1>2, <1>3, <1>4, <1>5, <1>6, <1>7

(* The same entry stays the one whose turn it is.                            *)
LEMMA SameEntry ==
    ASSUME plan' = plan, tx'.k = tx.k
    PROVE  /\ Record' = Record /\ Entries' = Entries
           /\ \A n \in Names : Was(n)' = Was(n) /\ Will(n)' = Will(n)
           /\ tx.pc \in Turned /\ tx'.pc \in Turned => Passed' = Passed
<1>1. Entries' = Entries /\ \A n \in Names : Was(n)' = Was(n) /\ Will(n)' = Will(n)
  BY EntriesStill
<1>2. Record' = Record
  BY DEF Record, Entry
<1>3. ASSUME tx.pc \in Turned, tx'.pc \in Turned PROVE Passed' = Passed
  <2>1. tx.pc \notin {"applied", "final"} \cup HeadLabels /\ tx'.pc \notin {"applied", "final"} \cup HeadLabels
    BY <1>3 DEF Turned, HeadLabels
  <2> QED BY <1>1, <2>1 DEF Passed
<1> QED BY <1>1, <1>2, <1>3

(* A failing step while an entry is exchanged.                               *)
LEMMA TurnFails ==
    ASSUME IInv, FInv, tx.pc \in Turned \ {"verify", "cleared"}, UNCHANGED still,
           NEW e \in Errors, NEW t, SameMaterial(tx, t), t.k = tx.k, t.mutated \in BOOLEAN,
           tx.mutated => t.mutated, tx' = Fails(t, e)
    PROVE  FInv'
<1>0. e # "none" /\ IsTx(t)
  BY DEF Errors, SameMaterial
<1>1. SameMaterial(t, tx') /\ tx'.mutated = t.mutated /\ tx'.k = t.k /\ tx'.error = e
      /\ tx'.pc = IF t.mutated THEN "undo_index" ELSE "release"
  BY ONLY <1>0, FailsMaterial, tx' = Fails(t, e)
<1>2. tx.pc \in Applying \ {"verify", "cleared"}
  BY DEF Turned, Applying, FileLabels
<1>3. SameMaterial(tx, tx') /\ tx'.k = tx.k
  BY <1>1 DEF SameMaterial
<1> QED BY <1>0, <1>1, <1>2, <1>3, CalmFail

(* What has to be shown for files to be applied further.                     *)
LEMMA Onwards ==
    ASSUME Forward, UNCHANGED <<plan, backup, taken>>, tx'.keepPath = {}, tx'.keepAside = {}, tx'.abandoned = {},
           \A n \in Names : Up(n) \in tx'.made => at'[n] # "old" /\ aside'[n] # "old",
           ~tx'.mutated => AsFound', tx'.pc # "cleared", quarantine' = None,
           tx'.pc \notin {"verify", "install", "drop"} => aside' = None,
           \A k \in Passed' : ~Will(Entry(k)) => at'[Entry(k)] # "old"
    PROVE  Forward'
<1>1. Entries' = Entries /\ \A n \in Names : Was(n)' = Was(n) /\ Will(n)' = Will(n)
  BY EntriesStill
<1>2. \A k \in Passed' : Entry(k) \in Names
  BY <1>1, EntryType DEF Passed
<1>3. \A k \in Passed' : ~Will(Entry(k))' => at'[Entry(k)] # "old"
  BY <1>1, <1>2
<1> QED BY <1>1, <1>3 DEF Forward, Was, Entry

LEMMA StageMaterial ==
    ASSUME IInv, FInv, Stage
    PROVE  FInv'
<1> DEFINE dirs == {d \in Missing(StagedIn) : plan.old[d] # "file"}
           t == [tx EXCEPT !.pinned = Pinned, !.made = dirs]
<1>1. /\ UNCHANGED moves /\ UNCHANGED <<aside, taken, quarantine>> /\ IsTx(tx) /\ tx.pc = "stage"
      /\ \/ /\ backup' = {n \in Names : Was(n)} /\ staged' = {n \in Names : Will(n)}
            /\ at' = MakeDirs(dirs) /\ NextRecord(t)
         \/ UNCHANGED still /\ tx' = Fails(tx, "conflict")
  BY DEF Stage, At, Fail, moves, still, IInv, World
<1>2. Base /\ Outset /\ AllSafe
  BY <1>1, SafeWhenSeen DEF FInv, Stages, Before
<1>3. CASE UNCHANGED still /\ tx' = Fails(tx, "conflict")
  BY <1>1, <1>2, <1>3, FailsMaterial, CalmFail DEF Base, Before
<1>4. CASE /\ backup' = {n \in Names : Was(n)} /\ staged' = {n \in Names : Will(n)}
           /\ at' = MakeDirs(dirs) /\ NextRecord(t)
  <2>1. dirs \subseteq {d \in Names : Up(d) = Top /\ at[d] = "none"}
    BY PathsAssumption DEF Missing, StagedIn
  <2>2. Pinned \subseteq {d \in Names : Up(d) = Top /\ plan.old[d] = "dir"}
    BY <1>2 DEF Pinned, Base, Place, DirNodes
  <2> HIDE DEF dirs
  <2>3. /\ IsTx(t) /\ t.pinned = Pinned /\ t.made = dirs /\ t.keepPath = tx.keepPath
        /\ t.keepAside = tx.keepAside /\ t.abandoned = tx.abandoned /\ t.mutated = tx.mutated /\ t.k = tx.k /\ t.error = tx.error
    BY <1>1, FieldSet DEF IsTx
  <2> HIDE DEF t
  <2>4. /\ tx'.pinned = Pinned /\ tx'.made = dirs /\ tx'.keepPath = {} /\ tx'.keepAside = {} /\ tx'.abandoned = {}
        /\ tx'.mutated = FALSE
        /\ \/ tx'.pc = "applied" /\ tx'.k = 0 /\ \A j \in Entries : ~(j > 0)
           \/ tx'.pc = "clear" /\ tx'.k \in Entries /\ \A j \in Entries : j > 0 => tx'.k <= j
    BY <1>2, <1>4, <2>3, NextMaterial DEF Outset, SameMaterial, Base
  <2>5. at \in [Names -> Nodes] /\ Place(at', plan, touched) /\ Tree(at')
    <3>1. Place(at, plan, touched) /\ Tree(at) /\ dirs \subseteq {d \in Names : Up(d) = Top}
      BY <1>2, <2>1 DEF Base
    <3>2. at \in [Names -> Nodes]
      BY <3>1 DEF Place
    <3> QED BY <1>4, <3>1, <3>2, MakingTree
  <2>6. \A n \in Names : at'[n] = IF n \in dirs /\ at[n] = "none" THEN "mdir" ELSE at[n]
    BY <1>4, <2>5, Making
  <2>7. tx'.k \in Nat /\ (tx'.pc \in Turned \cup Returned => tx'.k \in Entries)
    BY <2>4, EntryType DEF Turned, Returned
  <2>8. Base'
    BY <1>1, <1>2, <1>4, <2>1, <2>2, <2>4, <2>5, <2>7, BaseMoves DEF Base, moves
  <2>9. AllSafe'
    <3> SUFFICES ASSUME NEW v \in FileNodes, NEW n \in Names, Safe(v, n)
                 PROVE  Safe(v, n)'
      BY <1>1, <1>2, Safely DEF moves
    <3>1. at[n] = v
      BY <1>2 DEF Safe, Stays, Outset, Clean, None, FileNodes
    <3> QED BY <2>6, <3>1 DEF Safe, Stays, FileNodes
  <2>10. Passed' = {}
    <3>1. Entries' = Entries
      BY <1>1, EntriesStill DEF moves
    <3> QED BY <2>4, <3>1, EntryType DEF Passed, HeadLabels
  <2>11. \A n \in Names : Up(n) \in dirs => at'[n] # "old"
    <3> SUFFICES ASSUME NEW n \in Names, Up(n) \in dirs
                 PROVE  at[n] = "none"
      BY <2>6
    <3>1. Tree(at) /\ at[Up(n)] = "none" /\ Up(n) # Top
      BY <1>2, <2>1, PathsAssumption DEF Base
    <3> QED BY <3>1 DEF Tree, DirNodes
  <2>12. AsFound'
    BY <1>1, <1>2, <2>6 DEF Outset, AsFound, FileNodes, moves, Was
  <2>13. Forward'
    BY <1>1, <1>2, <1>4, <2>4, <2>10, <2>11, <2>12 DEF Forward, Outset, Clean, None, moves, Was
  <2>14. Turning' /\ tx'.pc \in Applying
    BY <2>4 DEF Turning, Applying, FileLabels
  <2> QED BY <2>8, <2>9, <2>13, <2>14, ToForward
<1> QED BY <1>1, <1>3, <1>4

LEMMA ClearMaterial ==
    ASSUME IInv, FInv, Clear
    PROVE  FInv'
<1> DEFINE n == Record
<1>1. /\ UNCHANGED moves /\ UNCHANGED <<backup, staged, aside, taken>> /\ tx.pc = "clear"
      /\ \/ UNCHANGED still /\ tx' = [tx EXCEPT !.pc = "compare"]
         \/ n \in tx.pinned /\ Quarantine(n) /\ tx' = [tx EXCEPT !.pc = "cleared", !.mutated = TRUE]
         \/ UNCHANGED still /\ tx' = Fails(tx, "conflict")
  BY DEF Clear, At, Goto, Fail, moves, still
<1>2. /\ IsTx(tx) /\ Base /\ Forward /\ AllSafe /\ n \in Names /\ tx.k \in Entries /\ tx.k \in Nat
      /\ at \in [Names -> Nodes] /\ tx.mutated \in BOOLEAN /\ taken = None
  BY <1>1, OnTurn DEF Turned
<1>3. quarantine = None /\ aside = None
  BY <1>1, <1>2 DEF Forward
<1>4. CASE UNCHANGED still /\ tx' = Fails(tx, "conflict")
  BY <1>1, <1>2, <1>4, TurnFails DEF Turned, Errors, SameMaterial
<1>5. CASE UNCHANGED still /\ tx' = [tx EXCEPT !.pc = "compare"]
  <2>1. SameMaterial(tx, tx') /\ tx'.k = tx.k /\ tx'.mutated = tx.mutated /\ tx'.pc = "compare"
    BY <1>2, <1>5, GotoMaterial
  <2>2. Base'
    BY <1>2, <1>5, <2>1, BaseStill, EntriesStill DEF still
  <2>3. AllSafe' /\ (AsFound' <=> AsFound)
    BY <1>2, <1>5, <2>1, StaysStill DEF SameMaterial
  <2>4. Passed' = Passed /\ \A m \in Names : Was(m)' = Was(m) /\ Will(m)' = Will(m)
    BY <1>1, <1>5, <2>1, SameEntry DEF still, Turned
  <2>5. Forward'
    BY <1>1, <1>2, <1>3, <1>5, <2>1, <2>3, <2>4, Onwards DEF Forward, still, SameMaterial
  <2>6. Turning' /\ tx'.pc \in Applying
    BY <2>1 DEF Turning, Applying, FileLabels
  <2> QED BY <2>2, <2>3, <2>5, <2>6, ToForward
<1>6. CASE n \in tx.pinned /\ Quarantine(n) /\ tx' = [tx EXCEPT !.pc = "cleared", !.mutated = TRUE]
  <2>1. SameMaterial(tx, tx') /\ tx'.k = tx.k /\ tx'.mutated = TRUE /\ tx'.pc = "cleared"
    BY <1>2, <1>6, FieldSet DEF SameMaterial, IsTx
  <2>2. quarantine' = With(n, at, None) /\ at' = Without(n, at)
    BY <1>3, <1>6 DEF Quarantine
  <2>3. /\ at' \in [Names -> Nodes] /\ quarantine' \in [Names -> Nodes]
        /\ \A m \in Names : m \in Within(n) => at'[m] = "none" /\ quarantine'[m] = at[m]
        /\ \A m \in Names : m \notin Within(n) => at'[m] = at[m] /\ quarantine'[m] = "none"
    BY <1>2, <2>2, PlaceNone, Moving
  <2>4. Place(at', plan, touched) /\ Place(quarantine', plan, touched) /\ Tree(at')
    BY <1>2, <2>2, PlaceNone, PlaceMoves, TreeOut DEF Base
  <2>5. Only(quarantine', n) /\ Bundle(quarantine', n)
    BY <1>2, <2>2, OnlyIn DEF Base
  <2>6. Base'
    BY <1>1, <1>2, <2>1, <2>4, BaseMoves DEF Base, SameMaterial
  <2>7. AllSafe'
    <3> SUFFICES ASSUME NEW v \in FileNodes, NEW m \in Names, Safe(v, m)
                 PROVE  Safe(v, m)'
      BY <1>1, <1>2, Safely DEF moves
    <3>1. quarantine[m] # v
      BY <1>3 DEF None, FileNodes
    <3> QED BY <1>1, <2>1, <2>3, <3>1 DEF Safe, Stays, SameMaterial
  <2>8. /\ Passed' = Passed /\ Record' = n
        /\ \A m \in Names : Was(m)' = Was(m) /\ Will(m)' = Will(m)
    BY <1>1, <2>1, SameEntry DEF moves, Turned
  <2>9. \A m \in Names : at'[m] = "old" => at[m] = "old"
    BY <2>3
  <2>10. Only(quarantine', Record') /\ Bundle(quarantine', Record') /\ Record' \in tx'.pinned
    BY <1>6, <2>1, <2>5, <2>8 DEF SameMaterial
  <2>11. \A k \in Passed : Entry(k) \in Names
    BY EntryType DEF Passed
  <2>12. Forward'
    <3>1. \A m \in Names : Up(m) \in tx.made => at'[m] # "old" /\ aside'[m] # "old"
      BY <1>1, <1>2, <2>9 DEF Forward
    <3>2. \A k \in Passed : ~Will(Entry(k)) => at'[Entry(k)] # "old"
      BY <1>2, <2>9, <2>11 DEF Forward
    <3> QED BY <1>1, <1>2, <1>3, <2>1, <2>8, <2>10, <2>11, <3>1, <3>2
         DEF Forward, SameMaterial, Only, Bundle, Entry
  <2>13. Turning' /\ tx'.pc \in Applying
    BY <2>1 DEF Turning, Applying, FileLabels
  <2> QED BY <2>6, <2>7, <2>12, <2>13, ToForward
<1> QED BY <1>1, <1>4, <1>5, <1>6

-----------------------------------------------------------------------------
(* A path that something was moved from is filled again: nothing lies there. *)
LEMMA BackFills ==
    ASSUME NEW n \in Names, NEW f \in [Names -> Nodes], NEW g \in [Names -> Nodes],
           Tree(g), g[n] = "none", Only(f, n)
    PROVE  /\ \A m \in Names : g[m] # "none" => With(n, f, g)[m] = g[m]
           /\ \A m \in Names : f[m] # "none" => With(n, f, g)[m] = f[m]
<1>1. \A m \in Within(n) : g[m] = "none"
  BY PathsAssumption DEF Within, Kids, Tree, DirNodes
<1>2. \A m \in Names : f[m] # "none" => m \in Within(n)
  BY DEF Only
<1> QED BY <1>1, <1>2, Moving

LEMMA FilledTree ==
    ASSUME NEW n \in Names, NEW f \in [Names -> Nodes], at \in [Names -> Nodes], Tree(at), Bundle(f, n),
           CanReturn(n)
    PROVE  Tree(With(n, f, at))
<1>1. Up(n) # Top => at[Up(n)] \in DirNodes
  BY DEF CanReturn, InDir, Dir
<1> QED BY <1>1, TreeBack

LEMMA ClearedMaterial ==
    ASSUME IInv, FInv, Cleared
    PROVE  FInv'
<1> DEFINE n == Record
<1>1. /\ UNCHANGED moves /\ UNCHANGED <<backup, staged, aside, taken>> /\ tx.pc = "cleared"
      /\ \/ /\ Removable(n, "odir") /\ quarantine' = Without(n, quarantine) /\ UNCHANGED at
            /\ tx' = [tx EXCEPT !.pc = "compare"]
         \/ /\ CanReturn(n) /\ Unquarantine(n) /\ tx' = Fails(tx, "conflict")
         \/ UNCHANGED still /\ tx' = Fails(tx, "unknown")
  BY DEF Cleared, At, Goto, Fail, moves, still
<1>2. /\ IsTx(tx) /\ Base /\ Forward /\ AllSafe /\ n \in Names /\ tx.k \in Entries /\ tx.k \in Nat
      /\ at \in [Names -> Nodes] /\ quarantine \in [Names -> Nodes] /\ taken = None
  BY <1>1, OnTurn DEF Turned
<1>3. /\ aside = None /\ tx.mutated = TRUE /\ n \in tx.pinned
      /\ Only(quarantine, n) /\ Bundle(quarantine, n) /\ tx.keepPath = {} /\ tx.keepAside = {} /\ tx.abandoned = {}
  BY <1>1, <1>2 DEF Forward, Base
<1>4. \A m \in Names : Was(m)' = Was(m) /\ Will(m)' = Will(m)
  BY <1>1, EntriesStill DEF moves
<1>5. CASE /\ Removable(n, "odir") /\ quarantine' = Without(n, quarantine) /\ UNCHANGED at
           /\ tx' = [tx EXCEPT !.pc = "compare"]
  <2>1. SameMaterial(tx, tx') /\ tx'.k = tx.k /\ tx'.mutated = TRUE /\ tx'.pc = "compare"
    BY <1>2, <1>3, <1>5, GotoMaterial
  <2>2. quarantine' = None
    BY <1>2, <1>3, <1>5, OnlyOut
  <2>3. Base'
    BY <1>1, <1>2, <1>5, <2>1, <2>2, PlaceNone, BaseMoves DEF Base, SameMaterial
  <2>4. AllSafe'
    <3> SUFFICES ASSUME NEW v \in FileNodes, NEW m \in Names, Safe(v, m)
                 PROVE  Safe(v, m)'
      BY <1>1, <1>2, Safely DEF moves
    <3>1. quarantine[m] # v
      BY <1>3, <1>5 DEF Removable, Only, Within, FileNodes
    <3> QED BY <1>1, <1>5, <2>1, <3>1 DEF Safe, Stays, SameMaterial
  <2>5. Passed' = Passed
    BY <1>1, <2>1, SameEntry DEF moves, Turned
  <2>6. Forward'
    BY <1>1, <1>2, <1>3, <1>5, <2>1, <2>2, <2>5, Onwards DEF Forward, SameMaterial, moves
  <2>7. Turning' /\ tx'.pc \in Applying
    BY <2>1 DEF Turning, Applying, FileLabels
  <2> QED BY <2>3, <2>4, <2>6, <2>7, ToForward
<1>6. CASE CanReturn(n) /\ Unquarantine(n) /\ tx' = Fails(tx, "conflict")
  <2>1. /\ SameMaterial(tx, tx') /\ tx'.k = tx.k /\ tx'.mutated = TRUE /\ tx'.pc = "undo_index"
        /\ tx'.error = "conflict"
    BY <1>2, <1>3, <1>6, FailsMaterial
  <2>2. at' = With(n, quarantine, at) /\ quarantine' = None
    BY <1>2, <1>3, <1>6, OnlyOut DEF Unquarantine
  <2>3. Place(at', plan, touched) /\ Tree(at')
    BY <1>2, <1>3, <1>6, <2>2, PlaceMoves, FilledTree DEF Base
  <2>4. Base'
    BY <1>1, <1>2, <2>1, <2>2, <2>3, PlaceNone, BaseMoves DEF Base, SameMaterial, Turned, Returned
  <2>5. \A m \in Names : (at[m] # "none" => at'[m] = at[m]) /\ (quarantine[m] # "none" => at'[m] = quarantine[m])
    BY <1>2, <1>3, <1>6, <2>2, BackFills DEF CanReturn, Base
  <2>6. AllSafe'
    <3> SUFFICES ASSUME NEW v \in FileNodes, NEW m \in Names, Safe(v, m)
                 PROVE  Safe(v, m)'
      BY <1>1, <1>2, Safely DEF moves
    <3> QED BY <1>1, <2>1, <2>5 DEF Safe, Stays, SameMaterial, FileNodes
  <2>7. Held' /\ Spared'
    BY <1>1, <1>2, <1>3, <1>4, <2>1, PlaceNone DEF Held, Spared, Forward, SameMaterial, moves
  <2> QED BY <1>1, <1>2, <2>1, <2>2, <2>4, <2>6, <2>7, PlaceNone, Retreat
<1>7. CASE UNCHANGED still /\ tx' = Fails(tx, "unknown")
  <2>1. /\ SameMaterial(tx, tx') /\ tx'.k = tx.k /\ tx'.mutated = TRUE /\ tx'.pc = "undo_index"
        /\ tx'.error = "unknown"
    BY <1>2, <1>3, <1>7, FailsMaterial
  <2>2. Base'
    BY <1>2, <1>7, <2>1, BaseStill DEF Turned, Returned
  <2>3. AllSafe'
    BY <1>2, <1>7, <2>1, StaysStill DEF SameMaterial
  <2>4. Held' /\ Spared'
    BY <1>1, <1>2, <1>3, <1>4, <2>1, PlaceNone DEF Held, Spared, Forward, SameMaterial, moves
  <2>5. \A m \in Names : quarantine'[m] # "none" => Stuck(m)'
    BY <1>3, <1>7, <2>1 DEF Stuck, Only, still, SameMaterial
  <2> QED BY <1>1, <1>2, <2>1, <2>2, <2>3, <2>4, <2>5, Retreat
<1> QED BY <1>1, <1>5, <1>6, <1>7

LEMMA CompareMaterial ==
    ASSUME IInv, FInv, Compare
    PROVE  FInv'
<1> DEFINE n == Record
           dirs == IF Will(n) /\ Up(n) # Top THEN Missing({Up(n)}) ELSE {}
           t == [tx EXCEPT !.made = @ \cup dirs, !.mutated = @ \/ dirs # {}]
           unchanged == Readable(n) /\ IF Was(n) THEN IsPrevious(n) ELSE at[n] = "none"
<1>1. /\ UNCHANGED moves /\ UNCHANGED <<backup, staged, aside, taken, quarantine>> /\ tx.pc = "compare"
      /\ at' = MakeDirs(dirs)
      /\ \/ tx' = Fails(t, "conflict")
         \/ unchanged /\ Was(n) /\ tx' = [t EXCEPT !.pc = "displace"]
         \/ unchanged /\ ~Was(n) /\ tx' = [t EXCEPT !.pc = "install"]
  BY DEF Compare, At, material, moves
<1>2. /\ IsTx(tx) /\ Base /\ Forward /\ AllSafe /\ n \in Names /\ tx.k \in Entries /\ tx.k \in Nat
      /\ at \in [Names -> Nodes] /\ tx.mutated \in BOOLEAN /\ taken = None /\ (Was(n) \/ Will(n))
  BY <1>1, OnTurn DEF Turned
<1>3. quarantine = None /\ aside = None /\ tx.keepPath = {} /\ tx.keepAside = {} /\ tx.abandoned = {}
  BY <1>1, <1>2 DEF Forward
<1>4. dirs \subseteq {d \in Names : Up(d) = Top /\ at[d] = "none" /\ d # n}
  BY <1>2, Paths DEF Missing
<1>5. unchanged /\ Was(n) => at[n] = "old"
  BY DEF IsPrevious
<1>6. unchanged /\ ~Was(n) => at[n] = "none"
  OBVIOUS
<1> HIDE DEF dirs, unchanged
<1>7. /\ IsTx(t) /\ t.pinned = tx.pinned /\ t.made = tx.made \cup dirs /\ t.keepPath = tx.keepPath
      /\ t.keepAside = tx.keepAside /\ t.abandoned = tx.abandoned /\ t.mutated = (tx.mutated \/ dirs # {}) /\ t.k = tx.k /\ t.error = tx.error
  BY <1>2, FieldSet DEF IsTx
<1> HIDE DEF t
<1>8. /\ tx'.pinned = tx.pinned /\ tx'.made = tx.made \cup dirs /\ tx'.keepPath = {} /\ tx'.keepAside = {} /\ tx'.abandoned = {}
      /\ tx'.mutated = (tx.mutated \/ dirs # {}) /\ tx'.k = tx.k
      /\ \/ tx'.error = "conflict" /\ tx'.pc = IF tx'.mutated THEN "undo_index" ELSE "release"
         \/ unchanged /\ Was(n) /\ tx'.pc = "displace"
         \/ unchanged /\ ~Was(n) /\ tx'.pc = "install"
  <2>1. CASE tx' = Fails(t, "conflict")
    BY ONLY <1>3, <1>7, <2>1, FailsMaterial DEF SameMaterial
  <2>2. CASE unchanged /\ Was(n) /\ tx' = [t EXCEPT !.pc = "displace"]
    BY ONLY <1>3, <1>7, <2>2, GotoMaterial DEF SameMaterial
  <2>3. CASE unchanged /\ ~Was(n) /\ tx' = [t EXCEPT !.pc = "install"]
    BY ONLY <1>3, <1>7, <2>3, GotoMaterial DEF SameMaterial
  <2> QED BY <1>1, <2>1, <2>2, <2>3
<1>9. Place(at', plan, touched) /\ Tree(at')
  <2>1. Place(at, plan, touched) /\ Tree(at) /\ dirs \subseteq {d \in Names : Up(d) = Top}
    BY <1>2, <1>4 DEF Base
  <2> QED BY <1>1, <2>1, MakingTree
<1>10. \A m \in Names : at'[m] = IF m \in dirs /\ at[m] = "none" THEN "mdir" ELSE at[m]
  BY <1>1, <1>2, Making
<1>11. Base'
  BY <1>1, <1>2, <1>4, <1>8, <1>9, BaseMoves DEF Base
<1>12. AllSafe'
  <2> SUFFICES ASSUME NEW v \in FileNodes, NEW m \in Names, Safe(v, m)
               PROVE  Safe(v, m)'
    BY <1>1, <1>2, Safely DEF moves
  <2> QED BY <1>1, <1>3, <1>8, <1>10 DEF Safe, Stays, FileNodes
<1>13. ~tx'.mutated => AsFound'
  <2>1. ASSUME ~tx'.mutated PROVE \A m \in Names : at'[m] = at[m]
    BY <1>8, <1>10, <2>1
  <2> QED BY <1>1, <1>2, <1>8, <2>1 DEF Forward, AsFound, moves, Was
<1>14. CASE tx'.error = "conflict" /\ tx'.pc = IF tx'.mutated THEN "undo_index" ELSE "release"
  <2>1. Held' /\ Spared'
    BY <1>1, <1>2, <1>3, <1>8, <1>14, PlaceNone, EntriesStill DEF Held, Spared, Forward, moves
  <2> QED BY <1>1, <1>2, <1>3, <1>11, <1>12, <1>13, <1>14, <2>1, PlaceNone, Retreat
<1>15. CASE unchanged /\ tx'.pc = IF Was(n) THEN "displace" ELSE "install"
  <2>1. /\ Record' = n /\ Passed' = Passed /\ \A m \in Names : Was(m)' = Was(m) /\ Will(m)' = Will(m)
    BY <1>1, <1>8, <1>15, SameEntry DEF moves, Turned
  <2>2. at'[n] = at[n] /\ \A m \in Names : at'[m] = "old" => at[m] = "old"
    BY <1>2, <1>4, <1>10
  <2>3. \A m \in Names : Up(m) \in tx'.made => at'[m] # "old" /\ aside'[m] # "old"
    <3> SUFFICES ASSUME NEW m \in Names, Up(m) \in dirs
                 PROVE  at[m] # "old"
      BY <1>1, <1>2, <1>3, <1>8, <2>2, PlaceNone DEF Forward
    <3> QED BY <1>2, <1>4, PathsAssumption DEF Base, Tree, DirNodes
  <2>4. \A k \in Passed : ~Will(Entry(k)) => at'[Entry(k)] # "old"
    BY <1>2, <2>2, EntryType DEF Forward, Passed
  <2>5. Forward'
    BY <1>1, <1>2, <1>3, <1>8, <1>13, <1>15, <2>1, <2>3, <2>4, Onwards DEF moves
  <2>6. Turning'
    BY <1>1, <1>2, <1>3, <1>5, <1>6, <1>15, <2>1, <2>2, PlaceNone DEF Turning
  <2>7. tx'.pc \in Applying
    BY <1>15 DEF Applying, FileLabels
  <2> QED BY <1>11, <1>12, <2>5, <2>6, <2>7, ToForward
<1> QED BY <1>8, <1>14, <1>15

LEMMA DisplaceMaterial ==
    ASSUME IInv, FInv, Displace
    PROVE  FInv'
<1> DEFINE n == Record
<1>1. /\ UNCHANGED moves /\ UNCHANGED <<backup, staged, taken, quarantine>> /\ tx.pc = "displace"
      /\ \/ /\ aside' = With(n, at, aside) /\ at' = Without(n, at)
            /\ tx' = [tx EXCEPT !.pc = "verify", !.mutated = TRUE]
         \/ UNCHANGED still /\ tx' = Fails(tx, "conflict")
  BY DEF Displace, At, Fail, moves, still
<1>2. /\ IsTx(tx) /\ Base /\ Forward /\ Turning /\ AllSafe /\ n \in Names /\ tx.k \in Entries /\ tx.k \in Nat
      /\ at \in [Names -> Nodes] /\ tx.mutated \in BOOLEAN
  BY <1>1, OnTurn DEF Turned
<1>3. quarantine = None /\ aside = None /\ tx.keepPath = {} /\ tx.keepAside = {} /\ tx.abandoned = {} /\ taken = None
  BY <1>1, <1>2 DEF Forward
<1>4. CASE UNCHANGED still /\ tx' = Fails(tx, "conflict")
  BY <1>1, <1>2, <1>4, TurnFails DEF Turned, Errors, SameMaterial
<1>5. CASE /\ aside' = With(n, at, aside) /\ at' = Without(n, at)
           /\ tx' = [tx EXCEPT !.pc = "verify", !.mutated = TRUE]
  <2>1. SameMaterial(tx, tx') /\ tx'.k = tx.k /\ tx'.mutated = TRUE /\ tx'.pc = "verify"
    BY <1>2, <1>5, FieldSet DEF SameMaterial, IsTx
  <2>2. aside' = With(n, at, None) /\ at' = Without(n, at)
    BY <1>3, <1>5
  <2>3. /\ at' \in [Names -> Nodes] /\ aside' \in [Names -> Nodes]
        /\ \A m \in Names : m \in Within(n) => at'[m] = "none" /\ aside'[m] = at[m]
        /\ \A m \in Names : m \notin Within(n) => at'[m] = at[m] /\ aside'[m] = "none"
    BY <1>2, <2>2, PlaceNone, Moving
  <2>4. Place(at', plan, touched) /\ Place(aside', plan, touched) /\ Tree(at')
    BY <1>2, <2>2, PlaceNone, PlaceMoves, TreeOut DEF Base
  <2>5. Only(aside', n) /\ Bundle(aside', n)
    BY <1>2, <2>2, OnlyIn DEF Base
  <2>6. Base'
    BY <1>1, <1>2, <2>1, <2>4, BaseMoves DEF Base, SameMaterial
  <2>7. /\ Record' = n /\ Passed' = Passed /\ \A m \in Names : Was(m)' = Was(m) /\ Will(m)' = Will(m)
    BY <1>1, <2>1, SameEntry DEF moves, Turned
  <2>8. Writings'
    <3> SUFFICES ASSUME NEW w \in written
                 PROVE  Safe(w[1], w[2])' \/ w[1] = aside'[w[2]]
      BY <1>1, <2>1 DEF Writings, moves
    <3>1. w[1] \in FileNodes /\ w[2] \in Names /\ Safe(w[1], w[2])
      BY <1>2 DEF Base, AllSafe
    <3> QED BY <1>1, <1>3, <2>1, <2>3, <3>1 DEF Safe, Stays, SameMaterial
  <2>9. \A m \in Names : (at'[m] = "old" => at[m] = "old") /\ (aside'[m] = "old" => at[m] = "old")
    BY <2>3
  <2>10. \A k \in Passed : ~Will(Entry(k)) => at'[Entry(k)] # "old"
    BY <1>2, <2>9, EntryType DEF Forward, Passed
  <2>11. \A m \in Names : Up(m) \in tx'.made => at'[m] # "old" /\ aside'[m] # "old"
    BY <1>2, <2>1, <2>9 DEF Forward, SameMaterial
  <2>12. Forward'
    BY <1>1, <1>2, <1>3, <2>1, <2>7, <2>10, <2>11, Onwards DEF moves, SameMaterial
  <2>13. at'[n] = "none" /\ aside'[n] = at[n]
    BY <1>2, <2>3, Paths
  <2>14. Was(n) /\ (at[n] = "old" \/ n \in touched)
    BY <1>1, <1>2 DEF Turning
  <2>15. Turning'
    <3>1. Was(Record)' /\ Only(aside', Record') /\ Bundle(aside', Record')
      BY <1>2, <2>5, <2>7, <2>14
    <3> QED BY <1>1, <2>1, <2>7, <2>13, <2>14, <3>1 DEF Turning, moves, Only, Bundle
  <2>16. tx'.pc \in Applying
    BY <2>1 DEF Applying, FileLabels
  <2> QED BY <2>6, <2>8, <2>12, <2>15, <2>16, ToForward
<1> QED BY <1>1, <1>4, <1>5

-----------------------------------------------------------------------------
LEMMA VerifyAsideMaterial ==
    ASSUME IInv, FInv, VerifyAside
    PROVE  FInv'
<1> DEFINE n == Record
           good == aside[n] = "old" /\ <<"old", n>> \notin edited
           kept == [tx EXCEPT !.keepPath = @ \cup {n}]
           beside == [kept EXCEPT !.keepAside = @ \cup Within(n)]
<1>1. /\ UNCHANGED moves /\ UNCHANGED <<backup, staged, taken, quarantine>> /\ tx.pc = "verify"
      /\ \/ good /\ UNCHANGED still /\ tx' = [tx EXCEPT !.pc = IF Will(n) THEN "install" ELSE "drop"]
         \/ /\ CanReturn(n) /\ at' = With(n, aside, at) /\ aside' = Without(n, aside)
            /\ tx' = Fails(kept, "conflict")
         \/ UNCHANGED still /\ tx' = Fails(beside, "unknown")
  BY DEF VerifyAside, At, Goto, moves, still
<1>2. /\ IsTx(tx) /\ Base /\ Forward /\ Turning /\ n \in Names /\ tx.k \in Entries /\ tx.k \in Nat
      /\ at \in [Names -> Nodes] /\ aside \in [Names -> Nodes]
  BY <1>1, OnTurn DEF Turned
<1>3. quarantine = None /\ tx.keepPath = {} /\ tx.keepAside = {} /\ tx.abandoned = {} /\ taken = None
  BY <1>1, <1>2 DEF Forward
<1>4. /\ tx.mutated = TRUE /\ Was(n) /\ Only(aside, n) /\ Bundle(aside, n)
      /\ (aside[n] = "old" \/ n \in touched) /\ (at[n] = "none" \/ n \in touched) /\ at[n] # "old"
  BY <1>1, <1>2 DEF Turning, Base
<1>5. Writings
  BY DEF FInv
<1>6. /\ IsTx(kept) /\ kept.pinned = tx.pinned /\ kept.made = tx.made /\ kept.keepPath = {n}
      /\ kept.keepAside = {} /\ kept.abandoned = {} /\ kept.mutated = tx.mutated /\ kept.k = tx.k
  BY <1>2, <1>3, FieldSet DEF IsTx
<1>7. /\ IsTx(beside) /\ beside.pinned = tx.pinned /\ beside.made = tx.made /\ beside.keepPath = {n}
      /\ beside.keepAside = Within(n) /\ beside.abandoned = {} /\ beside.mutated = tx.mutated /\ beside.k = tx.k
  BY <1>6, FieldSet DEF IsTx
<1> HIDE DEF kept, beside
<1>8. CASE good /\ UNCHANGED still /\ tx' = [tx EXCEPT !.pc = IF Will(n) THEN "install" ELSE "drop"]
  <2>1. SameMaterial(tx, tx') /\ tx'.k = tx.k /\ tx'.mutated = tx.mutated
        /\ tx'.pc = IF Will(n) THEN "install" ELSE "drop"
    BY <1>2, <1>8, GotoMaterial
  <2>2. Base'
    BY <1>1, <1>2, <1>4, <1>8, <2>1, BaseStill, EntriesStill DEF still
  <2>3. \A m \in Names : aside[m] = IF m = n THEN "old" ELSE "none"
    BY <1>2, <1>4, <1>8 DEF Only, Bundle, Within, DirNodes
  <2>4. AllSafe
    <3> SUFFICES ASSUME NEW w \in written, w[1] = aside[w[2]] PROVE FALSE
      BY <1>5 DEF Writings, AllSafe
    <3>1. w[1] \in FileNodes /\ w[2] \in Names /\ w = <<w[1], w[2]>>
      BY <1>2 DEF Base
    <3>2. w = <<"old", n>>
      BY <2>3, <3>1 DEF FileNodes
    <3> QED BY <1>2, <1>8, <3>2 DEF Base
  <2>5. AllSafe' /\ (AsFound' <=> AsFound)
    BY <1>8, <2>1, <2>4, StaysStill DEF SameMaterial
  <2>6. /\ Record' = n /\ Passed' = Passed /\ \A m \in Names : Was(m)' = Was(m) /\ Will(m)' = Will(m)
    BY <1>1, <2>1, SameEntry DEF moves, Turned
  <2>7. Forward'
    BY <1>1, <1>2, <1>3, <1>4, <1>8, <2>1, <2>5, <2>6, Onwards DEF Forward, SameMaterial, still
  <2>8. Turning'
    BY <1>1, <1>2, <1>4, <1>8, <2>1, <2>3, <2>6 DEF Turning, still
  <2>9. tx'.pc \in Applying
    BY <2>1 DEF Applying, FileLabels
  <2> QED BY <2>2, <2>5, <2>7, <2>8, <2>9, ToForward
<1>9. CASE /\ CanReturn(n) /\ at' = With(n, aside, at) /\ aside' = Without(n, aside)
           /\ tx' = Fails(kept, "conflict")
  <2>1. /\ tx'.pinned = tx.pinned /\ tx'.made = tx.made /\ tx'.keepPath = {n} /\ tx'.keepAside = {} /\ tx'.abandoned = {}
        /\ tx'.k = tx.k /\ tx'.mutated = TRUE /\ tx'.pc = "undo_index" /\ tx'.error = "conflict"
    BY ONLY <1>4, <1>6, <1>9, FailsMaterial DEF SameMaterial
  <2>2. aside' = None
    BY <1>2, <1>4, <1>9, OnlyOut
  <2>3. Place(at', plan, touched) /\ Tree(at')
    BY <1>2, <1>4, <1>9, PlaceMoves, FilledTree DEF Base
  <2>4. Base'
    BY <1>1, <1>2, <1>4, <2>1, <2>2, <2>3, PlaceNone, BaseMoves DEF Base, Turned, Returned
  <2>5. \A m \in Names : (at[m] # "none" => at'[m] = at[m]) /\ (aside[m] # "none" => at'[m] = aside[m])
    BY <1>2, <1>4, <1>9, BackFills DEF CanReturn, Base
  <2>6. AllSafe'
    <3> SUFFICES ASSUME NEW w \in written PROVE Safe(w[1], w[2])'
      BY <1>1 DEF AllSafe, moves
    <3>1. w[1] \in FileNodes /\ w[2] \in Names /\ (Safe(w[1], w[2]) \/ w[1] = aside[w[2]])
      BY <1>2, <1>5 DEF Base, Writings
    <3> QED BY <1>1, <1>3, <2>1, <2>5, <3>1 DEF Safe, Stays, FileNodes
  <2>7. \A m \in tx'.keepPath : Solid(m)' \/ m \in touched
    BY <1>2, <1>4, <2>1, <2>5 DEF Solid, Stays
  <2>8. Held' /\ Spared'
    BY <1>1, <1>2, <2>1, <2>2, <2>7, PlaceNone, EntriesStill DEF Held, Spared, Forward, moves
  <2> QED BY <1>1, <1>3, <2>1, <2>4, <2>6, <2>8, PlaceNone, Retreat
<1>10. CASE UNCHANGED still /\ tx' = Fails(beside, "unknown")
  <2>1. /\ tx'.pinned = tx.pinned /\ tx'.made = tx.made /\ tx'.keepPath = {n} /\ tx'.keepAside = Within(n) /\ tx'.abandoned = {}
        /\ tx'.k = tx.k /\ tx'.mutated = TRUE /\ tx'.pc = "undo_index" /\ tx'.error = "unknown"
    BY ONLY <1>4, <1>7, <1>10, FailsMaterial DEF SameMaterial
  <2>2. Within(n) \subseteq Names /\ n \in Within(n)
    BY <1>2, Paths
  <2>3. Base'
    BY <1>1, <1>2, <1>4, <1>10, <2>1, <2>2, BaseMoves DEF Base, Turned, Returned, still
  <2>4. \A m \in Names : aside[m] # "none" => m \in Within(n)
    BY <1>4 DEF Only
  <2>5. AllSafe'
    <3> SUFFICES ASSUME NEW w \in written PROVE Safe(w[1], w[2])'
      BY <1>1 DEF AllSafe, moves
    <3>1. w[1] \in FileNodes /\ w[2] \in Names /\ (Safe(w[1], w[2]) \/ w[1] = aside[w[2]])
      BY <1>2, <1>5 DEF Base, Writings
    <3> QED BY <1>3, <1>10, <2>1, <2>4, <3>1 DEF Safe, Stays, FileNodes, still
  <2>6. \A m \in tx'.keepPath : Solid(m)' \/ m \in touched
    BY <1>4, <1>10, <2>1, <2>2 DEF Solid, Stays, still
  <2>7. Held' /\ Spared'
    BY <1>1, <1>2, <1>10, <2>1, <2>4, <2>6, EntriesStill DEF Held, Spared, Forward, moves, still
  <2> QED BY <1>1, <1>3, <1>10, <2>1, <2>3, <2>5, <2>7, PlaceNone, Retreat
<1> QED BY <1>1, <1>8, <1>9, <1>10

LEMMA InstallMaterial ==
    ASSUME IInv, FInv, Install
    PROVE  FInv'
<1> DEFINE n == Record
           same == Up(n) \in tx.made => at[Up(n)] = "mdir"
           t == [tx EXCEPT !.mutated = @ \/ (InDir(n) /\ same)]
           kept == [t EXCEPT !.keepPath = @ \cup {n}]
<1>1. /\ UNCHANGED moves /\ UNCHANGED <<backup, taken, quarantine>> /\ tx.pc = "install"
      /\ \/ /\ InDir(n) /\ same /\ at[n] = "none"
            /\ at' = [at EXCEPT ![n] = "new"] /\ staged' = staged \ {n}
            /\ tx' = [t EXCEPT !.pc = "drop"] /\ UNCHANGED aside
         \/ /\ ~(same /\ at[n] = "none") /\ Was(n) /\ tx' = Fails(kept, "conflict")
            /\ aside' = [aside EXCEPT ![n] = "none"] /\ UNCHANGED <<at, staged>>
         \/ UNCHANGED still /\ tx' = Fails(t, "conflict")
  BY DEF Install, At, moves, still
<1>2. /\ IsTx(tx) /\ Base /\ Forward /\ Turning /\ AllSafe /\ n \in Names /\ tx.k \in Entries /\ tx.k \in Nat
      /\ at \in [Names -> Nodes] /\ aside \in [Names -> Nodes] /\ tx.mutated \in BOOLEAN
  BY <1>1, OnTurn DEF Turned
<1>3. quarantine = None /\ tx.keepPath = {} /\ tx.keepAside = {} /\ tx.abandoned = {} /\ taken = None
  BY <1>1, <1>2 DEF Forward
<1>4. /\ Will(n) /\ (Was(n) => tx.mutated) /\ (at[n] = "none" \/ n \in touched) /\ at[n] # "old"
      /\ \A m \in Names : aside[m] = IF m = n /\ Was(n) THEN "old" ELSE "none"
  BY <1>1, <1>2 DEF Turning
<1>5. /\ IsTx(t) /\ t.pinned = tx.pinned /\ t.made = tx.made /\ t.keepPath = {} /\ t.keepAside = {} /\ t.abandoned = {}
      /\ t.mutated \in BOOLEAN /\ (tx.mutated => t.mutated) /\ (InDir(n) /\ same => t.mutated) /\ t.k = tx.k
  BY <1>2, <1>3, FieldSet DEF IsTx
<1>6. /\ IsTx(kept) /\ kept.pinned = tx.pinned /\ kept.made = tx.made /\ kept.keepPath = {n}
      /\ kept.keepAside = {} /\ kept.abandoned = {} /\ kept.mutated = t.mutated /\ kept.k = tx.k
  <2> HIDE DEF t
  <2> QED BY <1>5, FieldSet DEF IsTx
<1> HIDE DEF t, kept
<1>7. CASE /\ InDir(n) /\ same /\ at[n] = "none"
           /\ at' = [at EXCEPT ![n] = "new"] /\ staged' = staged \ {n}
           /\ tx' = [t EXCEPT !.pc = "drop"] /\ UNCHANGED aside
  <2>1. /\ tx'.pinned = tx.pinned /\ tx'.made = tx.made /\ tx'.keepPath = {} /\ tx'.keepAside = {} /\ tx'.abandoned = {}
        /\ tx'.k = tx.k /\ tx'.mutated = TRUE /\ tx'.pc = "drop"
    BY <1>5, <1>7, GotoMaterial DEF SameMaterial
  <2>2. at' \in [Names -> Nodes] /\ \A m \in Names : at'[m] = IF m = n THEN "new" ELSE at[m]
    BY <1>2, <1>7 DEF Nodes, FileNodes
  <2>3. Place(at', plan, touched)
    BY <1>2, <1>4, <2>2 DEF Base, Place, Will, DirNodes
  <2>4. Tree(at')
    <3>1. Up(n) # Top => at[Up(n)] \in DirNodes /\ Up(n) # n
      BY <1>2, <1>7, PathsAssumption DEF InDir, Dir
    <3>2. Tree(at) /\ n # Top /\ at[n] \notin DirNodes
      BY <1>2, <1>7, PathsAssumption DEF Base, DirNodes
    <3>3. \A m \in Names : Up(m) = n => at[m] = "none"
      BY <3>2 DEF Tree
    <3> QED BY <2>2, <3>1, <3>2, <3>3, PathsAssumption DEF Tree
  <2>5. Base'
    BY <1>1, <1>2, <1>7, <2>1, <2>3, <2>4, BaseMoves DEF Base
  <2>6. AllSafe'
    <3> SUFFICES ASSUME NEW v \in FileNodes, NEW m \in Names, Safe(v, m)
                 PROVE  Safe(v, m)'
      BY <1>1, <1>2, Safely DEF moves
    <3> QED BY <1>1, <1>3, <1>7, <2>1, <2>2 DEF Safe, Stays, FileNodes
  <2>7. /\ Record' = n /\ Passed' = Passed /\ \A m \in Names : Was(m)' = Was(m) /\ Will(m)' = Will(m)
    BY <1>1, <2>1, SameEntry DEF moves, Turned
  <2>8. \A k \in Passed : ~Will(Entry(k)) => at'[Entry(k)] # "old"
    BY <1>2, <2>2, EntryType DEF Forward, Passed
  <2>9. Forward'
    BY <1>1, <1>2, <1>3, <1>7, <2>1, <2>2, <2>7, <2>8, Onwards DEF Forward, moves
  <2>10. Turning'
    BY <1>1, <1>2, <1>4, <1>7, <2>1, <2>2, <2>7 DEF Turning
  <2>11. tx'.pc \in Applying
    BY <2>1 DEF Applying, FileLabels
  <2> QED BY <2>5, <2>6, <2>9, <2>10, <2>11, ToForward
<1>8. CASE /\ ~(same /\ at[n] = "none") /\ Was(n) /\ tx' = Fails(kept, "conflict")
           /\ aside' = [aside EXCEPT ![n] = "none"] /\ UNCHANGED <<at, staged>>
  <2>1. /\ tx'.pinned = tx.pinned /\ tx'.made = tx.made /\ tx'.keepPath = {n} /\ tx'.keepAside = {} /\ tx'.abandoned = {}
        /\ tx'.k = tx.k /\ tx'.mutated = TRUE /\ tx'.pc = "undo_index" /\ tx'.error = "conflict"
    BY <1>4, <1>5, <1>6, <1>8, FailsMaterial DEF SameMaterial
  <2>2. aside' = None
    BY <1>2, <1>4, <1>8 DEF None
  <2>3. Base'
    <3>1. Place(aside', plan, touched)
      BY ONLY <2>2, PlaceNone
    <3> QED BY <1>1, <1>2, <1>8, <2>1, <3>1, BaseMoves DEF Base, Turned, Returned
  <2>4. AllSafe'
    <3> SUFFICES ASSUME NEW v \in FileNodes, NEW m \in Names, Safe(v, m)
                 PROVE  Safe(v, m)'
      BY <1>1, <1>2, Safely DEF moves
    <3> QED BY <1>1, <1>3, <1>8, <2>1 DEF Safe, Stays, FileNodes
  <2>5. n \in touched
    <3>1. Up(n) \notin tx.made
      BY <1>2, <1>4, <1>8 DEF Forward
    <3> QED BY <1>4, <1>8, <3>1
  <2>6. Held' /\ Spared'
    BY <1>1, <1>2, <2>1, <2>2, <2>5, PlaceNone, EntriesStill DEF Held, Spared, Forward, moves
  <2> QED BY <1>1, <1>3, <2>1, <2>3, <2>4, <2>6, PlaceNone, Retreat
<1>9. CASE UNCHANGED still /\ tx' = Fails(t, "conflict")
  <2>1. SameMaterial(tx, t)
    BY <1>3, <1>5 DEF SameMaterial
  <2> QED BY <1>1, <1>5, <1>9, <2>1, TurnFails DEF Turned, Errors
<1> QED BY <1>1, <1>7, <1>8, <1>9

LEMMA DropMaterial ==
    ASSUME IInv, FInv, Drop
    PROVE  FInv'
<1> DEFINE n == Record
<1>0. /\ UNCHANGED moves /\ UNCHANGED <<at, backup, staged, taken, quarantine>> /\ tx.pc = "drop"
      /\ \/ aside' = [aside EXCEPT ![n] = "none"] /\ NextRecord(tx)
         \/ UNCHANGED still /\ tx' = Fails(tx, "unknown")
  BY DEF Drop, At, Fail, moves, still, files
<1>2. /\ IsTx(tx) /\ Base /\ Forward /\ Turning /\ AllSafe /\ n \in Names /\ tx.k \in Entries /\ tx.k \in Nat
      /\ aside \in [Names -> Nodes] /\ tx.mutated \in BOOLEAN
  BY <1>0, OnTurn DEF Turned
<1>12. CASE UNCHANGED still /\ tx' = Fails(tx, "unknown")
  BY <1>0, <1>2, <1>12, TurnFails DEF Turned, Errors, SameMaterial
<1> SUFFICES ASSUME aside' = [aside EXCEPT ![n] = "none"], NextRecord(tx)
             PROVE  FInv'
  BY <1>0, <1>12
<1>1. /\ UNCHANGED moves /\ UNCHANGED <<at, backup, staged, taken, quarantine>> /\ tx.pc = "drop"
      /\ aside' = [aside EXCEPT ![n] = "none"] /\ NextRecord(tx)
  BY <1>0
<1>3. quarantine = None /\ tx.keepPath = {} /\ tx.keepAside = {} /\ tx.abandoned = {}
  BY <1>1, <1>2 DEF Forward
<1>4. /\ tx.mutated /\ at[n] # "old"
      /\ \A m \in Names : aside[m] = IF m = n /\ Was(n) THEN "old" ELSE "none"
  BY <1>1, <1>2 DEF Turning
<1>5. aside' = None
  BY <1>1, <1>2, <1>4 DEF None
<1>6. /\ tx'.pinned = tx.pinned /\ tx'.made = tx.made /\ tx'.keepPath = {} /\ tx'.keepAside = {} /\ tx'.abandoned = {}
      /\ tx'.mutated = tx.mutated
      /\ \/ tx'.pc = "applied" /\ tx'.k = tx.k /\ \A j \in Entries : ~(j > tx.k)
         \/ tx'.pc = "clear" /\ tx'.k \in Entries /\ \A j \in Entries : j > tx.k => tx'.k <= j
  BY <1>1, <1>2, <1>3, NextMaterial DEF SameMaterial
<1>7. Base'
  <2>1. Place(aside', plan, touched)
    BY ONLY <1>5, PlaceNone
  <2>2. tx'.k \in Nat /\ (tx'.pc \in Turned \cup Returned => tx'.k \in Entries)
    BY <1>2, <1>6, EntryType DEF Turned, Returned
  <2> QED BY <1>1, <1>2, <1>6, <2>1, <2>2, BaseMoves DEF Base
<1>8. AllSafe'
  <2> SUFFICES ASSUME NEW v \in FileNodes, NEW m \in Names, Safe(v, m)
               PROVE  Safe(v, m)'
    BY <1>1, <1>2, Safely DEF moves
  <2> QED BY <1>1, <1>3, <1>6 DEF Safe, Stays
<1>9. \A k \in Passed' : k \in Passed \/ k = tx.k
  <2>1. Entries' = Entries /\ Passed = {k \in Entries : k < tx.k}
    BY <1>1, EntriesStill DEF moves, Passed, HeadLabels
  <2>2. \A k \in Entries : k \in Nat
    BY EntryType
  <2>3. CASE tx'.pc = "applied" /\ \A j \in Entries : ~(j > tx.k)
    BY <1>2, <2>1, <2>2, <2>3 DEF Passed
  <2>4. CASE tx'.pc = "clear" /\ tx'.k \in Entries /\ \A j \in Entries : j > tx.k => tx'.k <= j
    BY <1>2, <2>1, <2>2, <2>4 DEF Passed, HeadLabels
  <2> QED BY <1>6, <2>3, <2>4
<1>10. \A k \in Passed' : ~Will(Entry(k)) => at'[Entry(k)] # "old"
  BY <1>1, <1>2, <1>4, <1>9 DEF Forward, Record
<1>11. Forward'
  BY <1>1, <1>2, <1>3, <1>4, <1>5, <1>6, <1>10, Onwards, PlaceNone DEF Forward, moves
<1>13. Turning' /\ tx'.pc \in Applying
  BY <1>6 DEF Turning, Applying, FileLabels
<1> QED BY <1>7, <1>8, <1>11, <1>13, ToForward

LEMMA ApplyFaultMaterial ==
    ASSUME IInv, FInv, ApplyFault
    PROVE  FInv'
<1> DEFINE n == Record
           kept == [tx EXCEPT !.keepPath = @ \cup {n}, !.abandoned = {n}]
<1>1. /\ UNCHANGED moves /\ UNCHANGED <<at, backup, staged, taken, quarantine>>
      /\ tx.pc \in {"clear", "compare", "displace", "install", "drop"}
      /\ \/ UNCHANGED still /\ (tx' = Fails(tx, "failed") \/ tx' = Fails(tx, "unknown"))
         \/ /\ tx.pc = "install" /\ Was(n) /\ tx' = Fails(kept, "conflict")
            /\ aside' = [aside EXCEPT ![n] = "none"]
  BY DEF ApplyFault, Abandons, At, Fail, moves, still, files
<1>2. /\ IsTx(tx) /\ Base /\ Forward /\ Turning /\ AllSafe /\ n \in Names /\ tx.k \in Entries /\ tx.k \in Nat
      /\ at \in [Names -> Nodes] /\ aside \in [Names -> Nodes] /\ tx.mutated \in BOOLEAN
  BY <1>1, OnTurn DEF Turned
<1>3. CASE UNCHANGED still /\ (tx' = Fails(tx, "failed") \/ tx' = Fails(tx, "unknown"))
  BY <1>1, <1>2, <1>3, TurnFails DEF Turned, Errors, SameMaterial
<1>4. CASE /\ tx.pc = "install" /\ Was(n) /\ tx' = Fails(kept, "conflict")
           /\ aside' = [aside EXCEPT ![n] = "none"]
  <2>1. /\ tx.mutated /\ (\A m \in Names : aside[m] = IF m = n /\ Was(n) THEN "old" ELSE "none")
        /\ quarantine = None /\ tx.keepPath = {} /\ tx.keepAside = {} /\ tx.abandoned = {} /\ taken = None
    BY <1>2, <1>4 DEF Turning, Forward
  <2>0. tx.mutated = TRUE
    BY <1>2, <2>1
  <2>2. /\ IsTx(kept) /\ kept.pinned = tx.pinned /\ kept.made = tx.made /\ kept.keepPath = {n}
        /\ kept.keepAside = {} /\ kept.abandoned = {n} /\ kept.mutated = tx.mutated /\ kept.k = tx.k
    BY <1>2, <2>1, FieldSet DEF IsTx
  <2> HIDE DEF kept
  <2>3. /\ tx'.pinned = tx.pinned /\ tx'.made = tx.made /\ tx'.keepPath = {n} /\ tx'.keepAside = {} /\ tx'.abandoned = {n}
        /\ tx'.k = tx.k /\ tx'.mutated = TRUE /\ tx'.pc = "undo_index" /\ tx'.error = "conflict"
    BY ONLY <1>4, <2>0, <2>2, FailsMaterial DEF SameMaterial
  <2>4. aside' = None
    BY <1>2, <1>4, <2>1 DEF None
  <2>5. Base'
    <3>1. Place(aside', plan, touched)
      BY ONLY <2>4, PlaceNone
    <3> QED BY <1>1, <1>2, <1>4, <2>3, <3>1, BaseMoves DEF Base, Turned, Returned
  <2>6. AllSafe'
    <3> SUFFICES ASSUME NEW v \in FileNodes, NEW m \in Names, Safe(v, m)
                 PROVE  Safe(v, m)'
      BY <1>1, <1>2, Safely DEF moves
    <3> QED BY <1>1, <2>1, <2>3 DEF Safe, Stays
  <2>7. Held' /\ Spared'
    BY <1>1, <1>2, <1>4, <2>3, <2>4, PlaceNone, EntriesStill DEF Held, Spared, Forward, moves
  <2> QED BY <1>1, <2>1, <2>3, <2>4, <2>5, <2>6, <2>7, PlaceNone, Retreat
<1> QED BY <1>1, <1>3, <1>4

LEMMA ApplyFilesMaterial ==
    ASSUME IInv, FInv, ApplyFiles
    PROVE  FInv'
BY StageMaterial, ClearMaterial, ClearedMaterial, CompareMaterial, DisplaceMaterial, VerifyAsideMaterial,
   InstallMaterial, DropMaterial, AppliedMaterial, ApplyFaultMaterial DEF ApplyFiles

-----------------------------------------------------------------------------
(* The rollback of the files.                                                *)
LEMMA OnReturn ==
    ASSUME IInv, FInv, tx.pc \in Undoing
    PROVE  /\ IsTx(tx) /\ Base /\ Backward /\ AllSafe /\ Held /\ Spared /\ tx.mutated = TRUE /\ tx.k \in Nat
           /\ at \in [Names -> Nodes] /\ taken \in [Names -> Nodes] /\ quarantine \in [Names -> Nodes]
           /\ tx.pc \in Returned => Record \in Names /\ tx.k \in Entries /\ (Was(Record) \/ Will(Record))
           /\ tx.pc # "undo_verify" => taken = None
           /\ tx.pc # "undo_cleared" => \A n \in Names : quarantine[n] # "none" => Stuck(n)
<1>1. tx.pc \in UndoLabels /\ tx.pc # "verify"
  BY DEF UndoLabels, Undoing
<1>2. Base /\ Backward /\ IsTx(tx) /\ AllSafe
  BY <1>1, SafeWhenSeen DEF IInv, World, FInv, Stages
<1>3. Held /\ Spared /\ tx.mutated = TRUE /\ tx.k \in Nat /\ (tx.pc \in Returned => tx.k \in Entries)
  BY <1>2 DEF Base, Backward
<1>4. tx.pc \in Returned => Record \in Names /\ (Was(Record) \/ Will(Record))
  BY <1>3, EntryType DEF Record
<1>5. at \in [Names -> Nodes] /\ taken \in [Names -> Nodes] /\ quarantine \in [Names -> Nodes]
  BY <1>2 DEF Base, Place
<1>6. /\ tx.pc # "undo_verify" => taken = None
      /\ tx.pc # "undo_cleared" => \A n \in Names : quarantine[n] # "none" => Stuck(n)
  BY <1>2 DEF Backward
<1> QED BY <1>2, <1>3, <1>4, <1>5, <1>6

LEMMA HeldOn ==
    ASSUME Held, UNCHANGED <<plan, touched, aside>>, tx'.error = tx.error, tx'.keepAside = tx.keepAside,
           \A m \in Names : m \in backup \/ Solid(m) => m \in backup' \/ Solid(m)'
    PROVE  Held'
BY DEF Held, Was

LEMMA SparedOn ==
    ASSUME Base, Spared, UNCHANGED touched, tx'.keepPath = tx.keepPath, tx'.abandoned = tx.abandoned,
           \A m \in Names : Solid(m) => Solid(m)'
    PROVE  Spared'
BY DEF Spared, Base

LEMMA StuckOn ==
    ASSUME tx'.error = tx.error, tx'.pinned = tx.pinned
    PROVE  \A m : Stuck(m) => Stuck(m)'
BY DEF Stuck

LEMMA GaveUp ==
    ASSUME Base', AllSafe', Held', UNCHANGED plan, NEW t, IsTx(t), tx' = GiveUp(t)
    PROVE  FInv'
<1>1. tx'.pc = "release" /\ tx'.restoreFailed /\ tx'.keepBackup = Known
  BY ONLY IsTx(t), tx' = GiveUp(t), GiveUpMaterial
<1>2. Known' = Known
  BY DEF Known, Was, Will
<1> QED BY <1>1, <1>2, GivesUp

(* What has to be shown for the rollback to go on.                           *)
LEMMA Backwards ==
    ASSUME Base', AllSafe', Held', Spared', UNCHANGED <<plan, touched>>, tx'.mutated, taken' = None,
           tx'.pc \in Undoing \ {"undo_verify", "undo_cleared"},
           \A m \in Names : quarantine'[m] # "none" => Stuck(m)',
           tx'.pc \in {"undo_clear", "undo_put"} => Was(Record)',
           \A k \in Undone' : ~Was(Entry(k)) => Entry(k) \in touched \/ at'[Entry(k)] \notin FileNodes
    PROVE  FInv'
<1>1. tx'.pc \in UndoLabels
  BY DEF UndoLabels
<1>2. \A k \in Undone' : ~Was(Entry(k))' => Entry(k) \in touched' \/ at'[Entry(k)] \notin FileNodes
  BY DEF Was, Entry
<1>3. Backward'
  BY <1>2 DEF Backward, Undoing, Entry
<1> QED BY <1>1, <1>3, ToBackward

(* The entry before the one that has been put back.                          *)
LEMMA Earlier ==
    ASSUME IInv, FInv, tx.pc \in Returned, UNCHANGED plan, NEW t, SameMaterial(tx, t), t.k = tx.k,
           t.mutated = tx.mutated, t.error = tx.error, Previously(t)
    PROVE  /\ SameMaterial(tx, tx') /\ tx'.mutated = TRUE /\ tx'.error = tx.error
           /\ tx'.pc \in {"undo", "undo_end"} /\ tx'.k \in Nat
           /\ tx'.pc \in Turned \cup Returned => tx'.k \in Entries
           /\ \A k \in Undone' : k \in Undone \/ k = tx.k
<1>1. /\ SameMaterial(tx, tx') /\ tx'.mutated = tx.mutated /\ tx'.error = tx.error
      /\ \/ tx'.pc = "undo_end" /\ tx'.k = tx.k /\ \A j \in Entries : ~(j < tx.k)
         \/ tx'.pc = "undo" /\ tx'.k \in Entries /\ \A j \in Entries : j < tx.k => j <= tx'.k
  BY ONLY SameMaterial(tx, t), t.k = tx.k, t.mutated = tx.mutated, t.error = tx.error, Previously(t),
          PreviousMaterial DEF SameMaterial
<1>2. tx.pc \in Undoing /\ tx.pc # "undo_end"
  BY DEF Returned, Undoing
<1>3. tx.k \in Entries /\ tx.k \in Nat /\ tx.mutated = TRUE
  BY <1>2, OnReturn
<1>4. Entries' = Entries /\ Undone = {k \in Entries : k > tx.k} /\ \A k \in Entries : k \in Nat
  BY <1>2, EntriesStill, EntryType DEF Undone
<1>5. CASE tx'.pc = "undo_end" /\ tx'.k = tx.k /\ \A j \in Entries : ~(j < tx.k)
  BY <1>1, <1>3, <1>4, <1>5 DEF Undone, Turned, Returned
<1>6. CASE tx'.pc = "undo" /\ tx'.k \in Entries /\ \A j \in Entries : j < tx.k => j <= tx'.k
  <2>1. Undone' = {k \in Entries : k > tx'.k}
    BY <1>4, <1>6 DEF Undone, Returned
  <2> QED BY <1>1, <1>3, <1>4, <1>6, <2>1
<1> QED BY <1>1, <1>5, <1>6

(* A step of the rollback that changes no file.                              *)
LEMMA Looks ==
    ASSUME IInv, FInv, tx.pc \in Undoing, UNCHANGED still
    PROVE  /\ tx' = GiveUp(tx) => FInv'
           /\ tx.pc \in Returned \ {"undo_verify", "undo_cleared"} /\ Previously(tx)
              /\ (~Was(Record) => Record \in touched \/ at[Record] \notin FileNodes) => FInv'
           /\ \A l \in {"undo_clear", "undo_put", "undo_take"} :
                 tx.pc \in Returned \ {"undo_verify", "undo_cleared"} /\ tx' = [tx EXCEPT !.pc = l]
                 /\ (l # "undo_take" => Was(Record)) => FInv'
<1>1. /\ IsTx(tx) /\ Base /\ Backward /\ AllSafe /\ Held /\ Spared /\ tx.mutated = TRUE /\ tx.k \in Nat
      /\ tx.pc \in Returned => Record \in Names /\ tx.k \in Entries /\ (Was(Record) \/ Will(Record))
      /\ tx.pc # "undo_verify" => taken = None
      /\ tx.pc # "undo_cleared" => \A n \in Names : quarantine[n] # "none" => Stuck(n)
  BY OnReturn
<1>2. UNCHANGED <<plan, touched>>
  BY DEF still
<1>3. ASSUME SameMaterial(tx, tx'), tx'.error = tx.error
      PROVE  AllSafe' /\ Held' /\ Spared' /\ \A m : Stuck(m) => Stuck(m)'
  <2>1. AllSafe' /\ \A m : Solid(m)' <=> Solid(m)
    BY <1>1, <1>3, StaysStill DEF SameMaterial
  <2> QED BY <1>1, <1>3, <2>1, HeldOn, SparedOn, StuckOn DEF SameMaterial, still
<1>4. CASE tx' = GiveUp(tx)
  <2>1. SameMaterial(tx, tx') /\ tx'.error = tx.error /\ tx'.k = tx.k /\ tx'.mutated = TRUE /\ tx'.pc = "release"
    BY <1>1, <1>4, GiveUpMaterial
  <2>2. Base'
    BY <1>1, <2>1, BaseStill DEF Turned, Returned
  <2> QED BY <1>1, <1>2, <1>3, <1>4, <2>1, <2>2, GaveUp
<1>5. CASE /\ tx.pc \in Returned \ {"undo_verify", "undo_cleared"} /\ Previously(tx)
           /\ ~Was(Record) => Record \in touched \/ at[Record] \notin FileNodes
  <2>1. /\ SameMaterial(tx, tx') /\ tx'.mutated = TRUE /\ tx'.error = tx.error
        /\ tx'.pc \in {"undo", "undo_end"} /\ tx'.k \in Nat
        /\ tx'.pc \in Turned \cup Returned => tx'.k \in Entries
        /\ \A k \in Undone' : k \in Undone \/ k = tx.k
    BY <1>1, <1>2, <1>5, Earlier DEF SameMaterial
  <2>2. Base'
    BY <1>1, <1>2, <2>1, BaseStill, EntriesStill
  <2>3. \A k \in Undone' : ~Was(Entry(k)) => Entry(k) \in touched \/ at'[Entry(k)] \notin FileNodes
    BY <1>1, <1>5, <2>1 DEF Backward, still, Record
  <2>4. \A m \in Names : quarantine'[m] # "none" => Stuck(m)'
    BY <1>1, <1>3, <1>5, <2>1 DEF still
  <2>5. taken' = None /\ tx'.pc \in Undoing \ {"undo_verify", "undo_cleared"}
        /\ tx'.pc \notin {"undo_clear", "undo_put"}
    BY <1>1, <1>5, <2>1 DEF still, Undoing
  <2> QED BY <1>2, <1>3, <2>1, <2>2, <2>3, <2>4, <2>5, Backwards
<1>6. ASSUME NEW l \in {"undo_clear", "undo_put", "undo_take"}, tx' = [tx EXCEPT !.pc = l],
             tx.pc \in Returned \ {"undo_verify", "undo_cleared"}, l # "undo_take" => Was(Record)
      PROVE  FInv'
  <2>1. SameMaterial(tx, tx') /\ tx'.error = tx.error /\ tx'.k = tx.k /\ tx'.mutated = TRUE /\ tx'.pc = l
    BY <1>1, <1>6, GotoMaterial
  <2>2. Base'
    BY <1>1, <1>2, <1>6, <2>1, BaseStill, EntriesStill
  <2>3. Record' = Record /\ Entries' = Entries /\ \A m \in Names : Was(m)' = Was(m)
    BY <1>2, <2>1, SameEntry
  <2>4. Undone' = Undone
    BY <1>6, <2>1, <2>3 DEF Undone, Returned
  <2>5. \A k \in Undone' : ~Was(Entry(k)) => Entry(k) \in touched \/ at'[Entry(k)] \notin FileNodes
    BY <1>1, <2>4 DEF Backward, still
  <2>6. \A m \in Names : quarantine'[m] # "none" => Stuck(m)'
    BY <1>1, <1>3, <1>6, <2>1 DEF still
  <2>7. taken' = None /\ tx'.pc \in Undoing \ {"undo_verify", "undo_cleared"}
    BY <1>1, <1>6, <2>1 DEF still, Undoing
  <2>8. tx'.pc \in {"undo_clear", "undo_put"} => Was(Record)'
    BY <1>1, <1>6, <2>1, <2>3
  <2> QED BY <1>2, <1>3, <2>1, <2>2, <2>5, <2>6, <2>7, <2>8, Backwards
<1> QED BY <1>4, <1>5, <1>6

LEMMA UndoCheckMaterial ==
    ASSUME IInv, FInv, UndoCheck
    PROVE  FInv'
<1> DEFINE t == [tx EXCEPT !.k = 2 * Half + 1]
<1>1. UNCHANGED still /\ tx.pc = "undo_files" /\ (Previously(t) \/ tx' = GiveUp(tx))
  BY DEF UndoCheck, At, files, material, still
<1>2. tx.pc \in Undoing
  BY <1>1 DEF Undoing
<1>3. /\ IsTx(tx) /\ Base /\ AllSafe /\ Held /\ Spared /\ tx.mutated = TRUE /\ taken = None
      /\ \A n \in Names : quarantine[n] # "none" => Stuck(n)
  BY <1>1, <1>2, OnReturn
<1>4. CASE tx' = GiveUp(tx)
  BY <1>1, <1>2, <1>4, Looks
<1>5. CASE Previously(t)
  <2>1. IsTx(t) /\ SameMaterial(tx, t) /\ t.mutated = tx.mutated /\ t.error = tx.error /\ t.k = 2 * Half + 1
    BY <1>3, FieldSet DEF IsTx, SameMaterial
  <2> HIDE DEF t
  <2>2. /\ SameMaterial(tx, tx') /\ tx'.mutated = TRUE /\ tx'.error = tx.error
        /\ \/ tx'.pc = "undo_end" /\ tx'.k = t.k /\ \A j \in Entries : ~(j < t.k)
           \/ tx'.pc = "undo" /\ tx'.k \in Entries /\ \A j \in Entries : j < t.k => j <= tx'.k
    BY ONLY <1>3, <1>5, <2>1, PreviousMaterial DEF SameMaterial
  <2>3. Half \in Nat /\ \A k \in Entries : k \in Nat /\ k <= 2 * Half
    BY PathsAssumption, EntryType DEF Half
  <2>4. \A j \in Entries : j < t.k
    BY <2>1, <2>3
  <2>5. tx'.k \in Nat /\ (tx'.pc \in Turned \cup Returned => tx'.k \in Entries)
    BY <2>1, <2>2, <2>3 DEF Turned, Returned
  <2>6. Base'
    BY <1>1, <1>3, <2>2, <2>5, BaseStill, EntriesStill DEF still
  <2>7. Undone' = {}
    <3>1. Entries' = Entries
      BY <1>1, EntriesStill DEF still
    <3>2. CASE tx'.pc = "undo_end" /\ \A j \in Entries : ~(j < t.k)
      BY <2>4, <3>1, <3>2 DEF Undone
    <3>3. CASE tx'.pc = "undo" /\ tx'.k \in Entries /\ \A j \in Entries : j < t.k => j <= tx'.k
      <4>1. Undone' = {k \in Entries : k > tx'.k}
        BY <3>1, <3>3 DEF Undone, Returned
      <4>2. \A j \in Entries : ~(j > tx'.k)
        BY <2>3, <2>4, <3>3
      <4> QED BY <4>1, <4>2
    <3> QED BY <2>2, <3>2, <3>3
  <2>8. AllSafe' /\ \A m : Solid(m)' <=> Solid(m)
    BY <1>1, <1>3, <2>2, StaysStill DEF SameMaterial
  <2>9. Held' /\ Spared'
    BY <1>1, <1>3, <2>2, <2>8, HeldOn, SparedOn DEF SameMaterial, still
  <2>10. \A m \in Names : quarantine'[m] # "none" => Stuck(m)'
    BY <1>1, <1>3, <2>2, StuckOn DEF still, SameMaterial
  <2>11. /\ tx'.pc \in Undoing \ {"undo_verify", "undo_cleared"} /\ tx'.pc \notin {"undo_clear", "undo_put"}
         /\ taken' = None /\ UNCHANGED <<plan, touched>>
    BY <1>1, <1>3, <2>2 DEF Undoing, still
  <2> QED BY <2>2, <2>6, <2>7, <2>8, <2>9, <2>10, <2>11, Backwards
<1> QED BY <1>1, <1>4, <1>5

LEMMA UndoMaterial ==
    ASSUME IInv, FInv, Undo
    PROVE  FInv'
<1> DEFINE n == Record
<1>1. /\ UNCHANGED still /\ tx.pc = "undo"
      /\ \/ n \in tx.keepPath /\ Previously(tx)
         \/ Seen(n) = "none" /\ Was(n) /\ tx' = [tx EXCEPT !.pc = "undo_clear"]
         \/ Seen(n) = "none" /\ ~Was(n) /\ Previously(tx)
         \/ IsPrevious(n) /\ Previously(tx)
         \/ tx' = [tx EXCEPT !.pc = "undo_take"]
         \/ tx' = GiveUp(tx)
  BY DEF Undo, At, Goto, files, material, still
<1>2. tx.pc \in Undoing /\ tx.pc \in Returned \ {"undo_verify", "undo_cleared"}
  BY <1>1 DEF Undoing, Returned
<1>3. Base /\ n \in Names /\ at \in [Names -> Nodes]
  BY <1>2, OnReturn
<1>4. n \in tx.keepPath \/ IsPrevious(n) => Was(n)
  BY <1>3 DEF Base, Place, IsPrevious, Was
<1>5. Seen(n) = "none" => at[n] \notin FileNodes
  <2>1. CASE Dir(n) \in FileNodes
    <3>1. Up(n) # Top /\ at[Up(n)] \in FileNodes
      BY <2>1 DEF Dir, FileNodes
    <3>2. at[n] = "none"
      BY <1>3, <3>1 DEF Base, Tree, DirNodes, FileNodes
    <3> QED BY <3>2 DEF FileNodes
  <2>2. CASE Dir(n) \notin FileNodes /\ at[n] \in DirNodes
    BY <2>2 DEF DirNodes, FileNodes
  <2>3. CASE Dir(n) \notin FileNodes /\ at[n] \notin DirNodes
    BY <2>3 DEF Seen, FileNodes
  <2> QED BY <2>1, <2>2, <2>3
<1> QED BY <1>1, <1>2, <1>4, <1>5, Looks

-----------------------------------------------------------------------------
LEMMA UndoTakeMaterial ==
    ASSUME IInv, FInv, UndoTake
    PROVE  FInv'
<1> DEFINE n == Record
<1>1. /\ UNCHANGED moves /\ UNCHANGED <<backup, staged, aside, quarantine>> /\ tx.pc = "undo_take"
      /\ \/ taken' = With(n, at, taken) /\ at' = Without(n, at) /\ tx' = [tx EXCEPT !.pc = "undo_verify"]
         \/ UNCHANGED still /\ tx' = GiveUp(tx)
  BY DEF UndoTake, At, Goto, moves, still
<1>2. tx.pc \in Undoing /\ tx.pc \in Returned
  BY <1>1 DEF Undoing, Returned
<1>3. /\ IsTx(tx) /\ Base /\ Backward /\ AllSafe /\ Held /\ Spared /\ tx.mutated = TRUE /\ tx.k \in Nat
      /\ at \in [Names -> Nodes] /\ n \in Names /\ tx.k \in Entries /\ taken = None
      /\ \A m \in Names : quarantine[m] # "none" => Stuck(m)
  BY <1>1, <1>2, OnReturn
<1>4. CASE UNCHANGED still /\ tx' = GiveUp(tx)
  BY <1>2, <1>4, Looks
<1>5. CASE taken' = With(n, at, taken) /\ at' = Without(n, at) /\ tx' = [tx EXCEPT !.pc = "undo_verify"]
  <2>1. SameMaterial(tx, tx') /\ tx'.k = tx.k /\ tx'.mutated = TRUE /\ tx'.pc = "undo_verify"
        /\ tx'.error = tx.error
    BY <1>3, <1>5, GotoMaterial
  <2>2. taken' = With(n, at, None)
    BY <1>3, <1>5
  <2>3. /\ \A m \in Names : m \in Within(n) => at'[m] = "none" /\ taken'[m] = at[m]
        /\ \A m \in Names : m \notin Within(n) => at'[m] = at[m] /\ taken'[m] = "none"
    BY <1>3, <1>5, <2>2, PlaceNone, Moving
  <2>4. Place(at', plan, touched) /\ Place(taken', plan, touched) /\ Tree(at')
    BY <1>3, <1>5, <2>2, PlaceNone, PlaceMoves, TreeOut DEF Base
  <2>5. Only(taken', n) /\ Bundle(taken', n)
    BY <1>3, <2>2, OnlyIn DEF Base
  <2>6. Base'
    BY <1>1, <1>3, <2>1, <2>4, BaseMoves DEF Base, SameMaterial
  <2>7. \A v : \A m \in Names : v # "none" /\ Stays(v, m) => Stays(v, m)'
    BY <1>1, <1>3, <2>1, <2>3, PlaceNone DEF Stays, SameMaterial
  <2>8. AllSafe'
    <3> SUFFICES ASSUME NEW v \in FileNodes, NEW m \in Names, Safe(v, m)
                 PROVE  Safe(v, m)'
      BY <1>1, <1>3, Safely DEF moves
    <3> QED BY <1>1, <2>7 DEF Safe, FileNodes
  <2>9. Held' /\ Spared'
    <3>1. \A m \in Names : Solid(m) => Solid(m)'
      BY <2>7 DEF Solid
    <3> QED BY <1>1, <1>3, <2>1, <3>1, HeldOn, SparedOn DEF SameMaterial, moves
  <2>10. /\ Record' = n /\ Entries' = Entries /\ \A m \in Names : Was(m)' = Was(m)
    BY <1>1, <2>1, SameEntry DEF moves
  <2>11. Undone' = Undone
    BY <1>1, <2>1, <2>10 DEF Undone, Returned
  <2>12. \A k \in Undone' : ~Was(Entry(k))' => Entry(k) \in touched' \/ at'[Entry(k)] \notin FileNodes
    <3> SUFFICES ASSUME NEW k \in Undone, ~Was(Entry(k))
                 PROVE  Entry(k) \in touched \/ at'[Entry(k)] \notin FileNodes
      BY <1>1, <2>11 DEF Was, moves, Entry
    <3>1. Entry(k) \in Names
      BY EntryType DEF Undone
    <3> QED BY <1>3, <2>3, <3>1 DEF Backward, FileNodes
  <2>13. at'[n] \notin FileNodes
    BY <1>3, <2>3, Paths DEF FileNodes
  <2>14. \A m \in Names : quarantine'[m] # "none" => Stuck(m)'
    BY <1>1, <1>3, <2>1, StuckOn DEF SameMaterial
  <2>15. Backward'
    <3>1. Only(taken', Record') /\ Bundle(taken', Record') /\ at'[Record'] \notin FileNodes
      BY <2>5, <2>10, <2>13
    <3> QED BY <2>1, <2>9, <2>12, <2>14, <3>1 DEF Backward, Only, Bundle, Entry
  <2>16. tx'.pc \in UndoLabels
    BY <2>1 DEF UndoLabels, Undoing
  <2> QED BY <2>6, <2>8, <2>15, <2>16, ToBackward
<1> QED BY <1>1, <1>4, <1>5

LEMMA UndoVerifyMaterial ==
    ASSUME IInv, FInv, UndoVerify
    PROVE  FInv'
<1> DEFINE n == Record
           good == taken[n] = "new" /\ <<"new", n>> \notin edited
<1>1. /\ UNCHANGED moves /\ UNCHANGED <<backup, staged, aside, quarantine>> /\ tx.pc = "undo_verify"
      /\ \/ /\ good /\ taken' = [taken EXCEPT ![n] = "none"] /\ UNCHANGED at
            /\ IF Was(n) THEN tx' = [tx EXCEPT !.pc = "undo_clear"] ELSE Previously(tx)
         \/ /\ CanReturn(n) /\ at' = With(n, taken, at) /\ taken' = Without(n, taken) /\ tx' = GiveUp(tx)
         \/ UNCHANGED still /\ tx' = GiveUp(tx)
  BY DEF UndoVerify, At, Goto, moves, still
<1>2. tx.pc \in Undoing /\ tx.pc \in Returned
  BY <1>1 DEF Undoing, Returned
<1>3. /\ IsTx(tx) /\ Base /\ Backward /\ AllSafe /\ Held /\ Spared /\ tx.mutated = TRUE /\ tx.k \in Nat
      /\ at \in [Names -> Nodes] /\ taken \in [Names -> Nodes] /\ n \in Names /\ tx.k \in Entries
      /\ \A m \in Names : quarantine[m] # "none" => Stuck(m)
  BY <1>1, <1>2, OnReturn
<1>4. Only(taken, n) /\ Bundle(taken, n) /\ (n \in touched \/ at[n] \notin FileNodes)
  BY <1>1, <1>3 DEF Backward
<1>5. CASE UNCHANGED still /\ tx' = GiveUp(tx)
  BY <1>2, <1>5, Looks
<1>6. CASE /\ CanReturn(n) /\ at' = With(n, taken, at) /\ taken' = Without(n, taken) /\ tx' = GiveUp(tx)
  <2>1. /\ SameMaterial(tx, tx') /\ tx'.k = tx.k /\ tx'.mutated = TRUE /\ tx'.pc = "release"
        /\ tx'.error = tx.error
    BY <1>3, <1>6, GiveUpMaterial
  <2>2. taken' = None
    BY <1>3, <1>4, <1>6, OnlyOut
  <2>3. Place(at', plan, touched) /\ Tree(at') /\ Place(taken', plan, touched)
    BY <1>3, <1>4, <1>6, <2>2, PlaceMoves, FilledTree, PlaceNone DEF Base
  <2>4. Base'
    BY <1>1, <1>3, <2>1, <2>3, BaseMoves DEF Base, SameMaterial, Turned, Returned
  <2>5. \A m \in Names : (at[m] # "none" => at'[m] = at[m]) /\ (taken[m] # "none" => at'[m] = taken[m])
    BY <1>3, <1>4, <1>6, BackFills DEF CanReturn, Base
  <2>6. \A v : \A m \in Names : v # "none" /\ Stays(v, m) => Stays(v, m)'
    BY <1>1, <2>1, <2>5 DEF Stays, SameMaterial
  <2>7. AllSafe'
    <3> SUFFICES ASSUME NEW v \in FileNodes, NEW m \in Names, Safe(v, m)
                 PROVE  Safe(v, m)'
      BY <1>1, <1>3, Safely DEF moves
    <3> QED BY <1>1, <2>6 DEF Safe, FileNodes
  <2>8. Held'
    <3>1. \A m \in Names : Solid(m) => Solid(m)'
      BY <2>6 DEF Solid
    <3> QED BY <1>1, <1>3, <2>1, <3>1, HeldOn DEF SameMaterial, moves
  <2> QED BY <1>1, <1>3, <1>6, <2>4, <2>7, <2>8, GaveUp DEF moves
<1>7. CASE /\ good /\ taken' = [taken EXCEPT ![n] = "none"] /\ UNCHANGED at
           /\ IF Was(n) THEN tx' = [tx EXCEPT !.pc = "undo_clear"] ELSE Previously(tx)
  <2>1. \A m \in Names : taken[m] = IF m = n THEN "new" ELSE "none"
    BY <1>3, <1>4, <1>7 DEF Only, Bundle, Within, DirNodes
  <2>2. taken' = None
    BY <1>3, <1>7, <2>1 DEF None
  <2>3. /\ SameMaterial(tx, tx') /\ tx'.mutated = TRUE /\ tx'.error = tx.error /\ tx'.k \in Nat
        /\ tx'.pc \in {"undo", "undo_end", "undo_clear"}
        /\ tx'.pc \in Turned \cup Returned => tx'.k \in Entries
        /\ tx'.pc = "undo_clear" => Was(n) /\ tx'.k = tx.k
        /\ \A k \in Undone' : k \in Undone \/ k = tx.k
    <3>1. CASE Was(n) /\ tx' = [tx EXCEPT !.pc = "undo_clear"]
      <4>1. SameMaterial(tx, tx') /\ tx'.mutated = TRUE /\ tx'.error = tx.error /\ tx'.k = tx.k
            /\ tx'.pc = "undo_clear"
        BY ONLY <1>3, <3>1, GotoMaterial
      <4>2. Entries' = Entries
        BY <1>1, EntriesStill DEF moves
      <4>3. Undone' = Undone
        BY <1>1, <4>1, <4>2 DEF Undone, Returned
      <4> QED BY <1>3, <3>1, <4>1, <4>3
    <3>2. CASE ~Was(n) /\ Previously(tx)
      BY <1>1, <1>2, <1>3, <3>2, Earlier DEF SameMaterial, moves
    <3> QED BY <1>7, <3>1, <3>2
  <2>4. Base'
    <3>1. Place(taken', plan, touched)
      BY ONLY <2>2, PlaceNone
    <3> QED BY <1>1, <1>3, <1>7, <2>3, <3>1, BaseMoves DEF Base, SameMaterial
  <2>5. AllSafe'
    <3> SUFFICES ASSUME NEW w \in written PROVE Safe(w[1], w[2])'
      BY <1>1 DEF AllSafe, moves
    <3>1. w[1] \in FileNodes /\ w[2] \in Names /\ Safe(w[1], w[2]) /\ w = <<w[1], w[2]>>
      BY <1>3 DEF Base, AllSafe
    <3>2. w # <<"new", n>>
      BY <1>3, <1>7 DEF Base
    <3>3. w[1] # taken[w[2]]
      BY <2>1, <3>1, <3>2 DEF FileNodes
    <3> QED BY <1>1, <1>7, <2>3, <3>1, <3>3 DEF Safe, Stays, SameMaterial
  <2>6. Held' /\ Spared'
    <3>1. \A m \in Names : Solid(m) => Solid(m)'
      BY <1>1, <1>7, <2>1, <2>3 DEF Solid, Stays, SameMaterial
    <3> QED BY <1>1, <1>3, <2>3, <3>1, HeldOn, SparedOn DEF SameMaterial, moves
  <2>7. \A m \in Names : quarantine'[m] # "none" => Stuck(m)'
    BY <1>1, <1>3, <2>3, StuckOn DEF SameMaterial
  <2>8. \A k \in Undone' : ~Was(Entry(k)) => Entry(k) \in touched \/ at'[Entry(k)] \notin FileNodes
    BY <1>3, <1>4, <1>7, <2>3 DEF Backward, Record
  <2>9. tx'.pc \in {"undo_clear", "undo_put"} => Was(Record)'
    BY <1>1, <1>3, <2>3, SameEntry DEF moves
  <2>10. tx'.pc \in Undoing \ {"undo_verify", "undo_cleared"} /\ UNCHANGED <<plan, touched>>
    BY <1>1, <2>3 DEF Undoing, moves
  <2> QED BY <2>2, <2>3, <2>4, <2>5, <2>6, <2>7, <2>8, <2>9, <2>10, Backwards
<1> QED BY <1>1, <1>5, <1>6, <1>7

LEMMA UndoClearMaterial ==
    ASSUME IInv, FInv, UndoClear
    PROVE  FInv'
<1> DEFINE n == Record
<1>1. /\ UNCHANGED moves /\ UNCHANGED <<backup, staged, aside, taken>> /\ tx.pc = "undo_clear"
      /\ \/ n \in tx.made /\ Quarantine(n) /\ tx' = [tx EXCEPT !.pc = "undo_cleared"]
         \/ UNCHANGED still /\ tx' = [tx EXCEPT !.pc = "undo_put"]
  BY DEF UndoClear, At, Goto, moves, still
<1>2. tx.pc \in Undoing /\ tx.pc \in Returned
  BY <1>1 DEF Undoing, Returned
<1>3. /\ IsTx(tx) /\ Base /\ Backward /\ AllSafe /\ Held /\ Spared /\ tx.mutated = TRUE /\ tx.k \in Nat
      /\ at \in [Names -> Nodes] /\ quarantine \in [Names -> Nodes] /\ n \in Names /\ tx.k \in Entries
      /\ taken = None /\ \A m \in Names : quarantine[m] # "none" => Stuck(m)
  BY <1>1, <1>2, OnReturn
<1>4. Was(n)
  BY <1>1, <1>3 DEF Backward
<1>5. CASE UNCHANGED still /\ tx' = [tx EXCEPT !.pc = "undo_put"]
  BY <1>1, <1>2, <1>4, <1>5, Looks
<1>6. CASE n \in tx.made /\ Quarantine(n) /\ tx' = [tx EXCEPT !.pc = "undo_cleared"]
  <2>1. SameMaterial(tx, tx') /\ tx'.k = tx.k /\ tx'.mutated = TRUE /\ tx'.pc = "undo_cleared"
        /\ tx'.error = tx.error
    BY <1>3, <1>6, GotoMaterial
  <2>2. \A m \in Within(n) : quarantine[m] = "none"
    <3> SUFFICES ASSUME NEW m \in Within(n), quarantine[m] # "none" PROVE FALSE
      OBVIOUS
    <3>1. m \in Names /\ Up(n) = Top
      BY <1>3, <1>6, Paths DEF Base
    <3>2. PICK d \in tx.pinned : m \in Within(d)
      BY <1>3, <3>1 DEF Stuck
    <3>3. d \in Names /\ Up(d) = Top /\ d # n
      BY <1>3, <1>4, <3>2 DEF Base, Was
    <3>4. m = n \/ Up(m) = n
      BY DEF Within, Kids
    <3>5. m = d \/ Up(m) = d
      BY <3>2 DEF Within, Kids
    <3>6. n # Top /\ d # Top
      BY <1>3, <3>3, PathsAssumption
    <3> QED BY <3>1, <3>3, <3>4, <3>5, <3>6
  <2>3. quarantine' = With(n, at, quarantine) /\ at' = Without(n, at)
    BY <1>6 DEF Quarantine
  <2>4. /\ at' \in [Names -> Nodes] /\ quarantine' \in [Names -> Nodes]
        /\ \A m \in Names : m \in Within(n) => at'[m] = "none" /\ quarantine'[m] = at[m]
        /\ \A m \in Names : m \notin Within(n) => at'[m] = at[m] /\ quarantine'[m] = quarantine[m]
    BY <1>3, <2>3, Moving
  <2>5. Place(at', plan, touched) /\ Place(quarantine', plan, touched) /\ Tree(at')
    BY <1>3, <2>3, PlaceMoves, TreeOut DEF Base
  <2>6. Bundle(quarantine', n)
    <3> SUFFICES ASSUME NEW c \in Kids(n), quarantine'[c] # "none"
                 PROVE  quarantine'[n] \in DirNodes
      BY DEF Bundle
    <3>1. c \in Names /\ Up(c) = n /\ Up(c) # Top /\ c \in Within(n) /\ n \in Within(n)
      BY <1>3, PathsAssumption DEF Kids, Within
    <3>2. at[c] # "none" /\ quarantine'[n] = at[n]
      BY <1>3, <2>4, <3>1
    <3> QED BY <1>3, <3>1, <3>2 DEF Base, Tree
  <2>7. Base'
    BY <1>1, <1>3, <2>1, <2>5, BaseMoves DEF Base, SameMaterial
  <2>8. \A v : \A m \in Names : v # "none" /\ Stays(v, m) => Stays(v, m)'
    BY <1>1, <2>1, <2>2, <2>4 DEF Stays, SameMaterial
  <2>9. AllSafe'
    <3> SUFFICES ASSUME NEW v \in FileNodes, NEW m \in Names, Safe(v, m)
                 PROVE  Safe(v, m)'
      BY <1>1, <1>3, Safely DEF moves
    <3> QED BY <1>1, <2>8 DEF Safe, FileNodes
  <2>10. Held' /\ Spared'
    <3>1. \A m \in Names : Solid(m) => Solid(m)'
      BY <2>8 DEF Solid
    <3> QED BY <1>1, <1>3, <2>1, <3>1, HeldOn, SparedOn DEF SameMaterial, moves
  <2>11. /\ Record' = n /\ Entries' = Entries /\ \A m \in Names : Was(m)' = Was(m)
    BY <1>1, <2>1, SameEntry DEF moves
  <2>12. Undone' = Undone
    BY <1>1, <2>1, <2>11 DEF Undone, Returned
  <2>13. \A k \in Undone' : ~Was(Entry(k))' => Entry(k) \in touched' \/ at'[Entry(k)] \notin FileNodes
    <3> SUFFICES ASSUME NEW k \in Undone, ~Was(Entry(k))
                 PROVE  Entry(k) \in touched \/ at'[Entry(k)] \notin FileNodes
      BY <1>1, <2>12 DEF Was, moves, Entry
    <3>1. Entry(k) \in Names
      BY EntryType DEF Undone
    <3> QED BY <1>3, <2>4, <3>1 DEF Backward, FileNodes
  <2>14. \A m \in Names : quarantine'[m] # "none" => Stuck(m)' \/ m \in Within(n)
    BY <1>3, <2>1, <2>4, StuckOn DEF SameMaterial
  <2>15. Backward'
    <3>1. /\ Bundle(quarantine', Record') /\ Was(Record)'
          /\ \A m \in Names : quarantine'[m] # "none" => Stuck(m)' \/ m \in Within(Record')
      BY <1>3, <1>4, <2>6, <2>11, <2>14
    <3> QED BY <1>1, <1>3, <2>1, <2>10, <2>13, <3>1 DEF Backward, Bundle, Within, Kids, Entry
  <2>16. tx'.pc \in UndoLabels
    BY <2>1 DEF UndoLabels, Undoing
  <2> QED BY <2>7, <2>9, <2>15, <2>16, ToBackward
<1> QED BY <1>1, <1>5, <1>6

-----------------------------------------------------------------------------
LEMMA UndoClearedMaterial ==
    ASSUME IInv, FInv, UndoCleared
    PROVE  FInv'
<1> DEFINE n == Record
<1>1. /\ UNCHANGED moves /\ UNCHANGED <<backup, staged, aside, taken>> /\ tx.pc = "undo_cleared"
      /\ \/ /\ Removable(n, "mdir") /\ quarantine' = Without(n, quarantine) /\ UNCHANGED at
            /\ tx' = [tx EXCEPT !.pc = "undo_put"]
         \/ CanReturn(n) /\ Unquarantine(n) /\ tx' = GiveUp(tx)
         \/ UNCHANGED still /\ tx' = GiveUp(tx)
  BY DEF UndoCleared, At, Goto, moves, still
<1>2. tx.pc \in Undoing /\ tx.pc \in Returned
  BY <1>1 DEF Undoing, Returned
<1>3. /\ IsTx(tx) /\ Base /\ Backward /\ AllSafe /\ Held /\ Spared /\ tx.mutated = TRUE /\ tx.k \in Nat
      /\ at \in [Names -> Nodes] /\ quarantine \in [Names -> Nodes] /\ n \in Names /\ tx.k \in Entries
      /\ taken = None
  BY <1>1, <1>2, OnReturn
<1>4. /\ Was(n) /\ Bundle(quarantine, n)
      /\ \A m \in Names : quarantine[m] # "none" => Stuck(m) \/ m \in Within(n)
  BY <1>1, <1>3 DEF Backward
<1>5. CASE UNCHANGED still /\ tx' = GiveUp(tx)
  BY <1>2, <1>5, Looks
<1>6. CASE CanReturn(n) /\ Unquarantine(n) /\ tx' = GiveUp(tx)
  <2>1. /\ SameMaterial(tx, tx') /\ tx'.k = tx.k /\ tx'.mutated = TRUE /\ tx'.pc = "release"
        /\ tx'.error = tx.error
    BY <1>3, <1>6, GiveUpMaterial
  <2>2. at' = With(n, quarantine, at) /\ quarantine' = Without(n, quarantine)
    BY <1>6 DEF Unquarantine
  <2>3. Place(at', plan, touched) /\ Tree(at') /\ Place(quarantine', plan, touched)
    BY <1>3, <1>4, <1>6, <2>2, PlaceMoves, FilledTree DEF Base
  <2>4. Base'
    BY <1>1, <1>3, <2>1, <2>3, BaseMoves DEF Base, SameMaterial, Turned, Returned
  <2>5. /\ \A m \in Names : m \in Within(n) => at'[m] = quarantine[m]
        /\ \A m \in Names : m \notin Within(n) => at'[m] = at[m] /\ quarantine'[m] = quarantine[m]
    BY <1>3, <2>2, Moving
  <2>6. \A m \in Within(n) : at[m] = "none"
    <3>1. at[n] = "none" /\ at[n] \notin DirNodes /\ Tree(at) /\ n # Top
      BY <1>3, <1>6, PathsAssumption DEF CanReturn, Base, DirNodes
    <3>2. \A c \in Kids(n) : c \in Names /\ Up(c) = n
      BY DEF Kids
    <3> QED BY <3>1, <3>2 DEF Within, Tree
  <2>7. \A v : \A m \in Names : v # "none" /\ Stays(v, m) => Stays(v, m)'
    BY <1>1, <2>1, <2>5, <2>6 DEF Stays, SameMaterial
  <2>8. AllSafe'
    <3> SUFFICES ASSUME NEW v \in FileNodes, NEW m \in Names, Safe(v, m)
                 PROVE  Safe(v, m)'
      BY <1>1, <1>3, Safely DEF moves
    <3> QED BY <1>1, <2>7 DEF Safe, FileNodes
  <2>9. Held'
    <3>1. \A m \in Names : Solid(m) => Solid(m)'
      BY <2>7 DEF Solid
    <3> QED BY <1>1, <1>3, <2>1, <3>1, HeldOn DEF SameMaterial, moves
  <2> QED BY <1>1, <1>3, <1>6, <2>4, <2>8, <2>9, GaveUp DEF moves
<1>7. CASE /\ Removable(n, "mdir") /\ quarantine' = Without(n, quarantine) /\ UNCHANGED at
           /\ tx' = [tx EXCEPT !.pc = "undo_put"]
  <2>1. /\ SameMaterial(tx, tx') /\ tx'.k = tx.k /\ tx'.mutated = TRUE /\ tx'.pc = "undo_put"
        /\ tx'.error = tx.error
    BY <1>3, <1>7, GotoMaterial
  <2>2. /\ \A m \in Names : m \in Within(n) => quarantine'[m] = "none"
        /\ \A m \in Names : m \notin Within(n) => quarantine'[m] = quarantine[m]
    BY <1>3, <1>7, Moving
  <2>3. \A m \in Within(n) : quarantine[m] \notin FileNodes
    BY <1>7 DEF Removable, Within, FileNodes
  <2>4. Base'
    <3>1. Place(quarantine', plan, touched)
      BY <1>3, <1>7, PlaceMoves DEF Base
    <3> QED BY <1>1, <1>3, <1>7, <2>1, <3>1, BaseMoves DEF Base, SameMaterial
  <2>5. \A v \in FileNodes : \A m \in Names : Stays(v, m) => Stays(v, m)'
    BY <1>1, <1>7, <2>1, <2>2, <2>3 DEF Stays, SameMaterial
  <2>6. AllSafe'
    <3> SUFFICES ASSUME NEW v \in FileNodes, NEW m \in Names, Safe(v, m)
                 PROVE  Safe(v, m)'
      BY <1>1, <1>3, Safely DEF moves
    <3> QED BY <1>1, <2>5 DEF Safe
  <2>7. Held' /\ Spared'
    <3>1. \A m \in Names : Solid(m) => Solid(m)'
      BY <2>5 DEF Solid, FileNodes
    <3> QED BY <1>1, <1>3, <2>1, <3>1, HeldOn, SparedOn DEF SameMaterial, moves
  <2>8. \A m \in Names : quarantine'[m] # "none" => Stuck(m)'
    BY <1>4, <2>1, <2>2, StuckOn DEF SameMaterial
  <2>9. /\ Record' = n /\ Entries' = Entries /\ \A m \in Names : Was(m)' = Was(m)
    BY <1>1, <2>1, SameEntry DEF moves
  <2>10. Undone' = Undone
    BY <1>1, <2>1, <2>9 DEF Undone, Returned
  <2>11. \A k \in Undone' : ~Was(Entry(k)) => Entry(k) \in touched \/ at'[Entry(k)] \notin FileNodes
    BY <1>3, <1>7, <2>10 DEF Backward
  <2>12. Was(Record)'
    BY <1>3, <1>4, <2>9
  <2>13. tx'.pc \in Undoing \ {"undo_verify", "undo_cleared"} /\ UNCHANGED <<plan, touched>> /\ taken' = None
    BY <1>1, <1>3, <2>1 DEF Undoing, moves
  <2> QED BY <2>1, <2>4, <2>6, <2>7, <2>8, <2>11, <2>12, <2>13, Backwards
<1> QED BY <1>1, <1>5, <1>6, <1>7

LEMMA UndoPutMaterial ==
    ASSUME IInv, FInv, UndoPut
    PROVE  FInv'
<1> DEFINE n == Record
           dirs == IF Up(n) = Top THEN {} ELSE Missing({Up(n)})
           t == [tx EXCEPT !.remade = @ \cup dirs]
<1>1. /\ UNCHANGED moves /\ UNCHANGED <<staged, aside, taken, quarantine>> /\ tx.pc = "undo_put"
      /\ \/ /\ Dir(n) \in DirNodes \cup {"none"} /\ at[n] = "none"
            /\ at' = [MakeDirs(dirs) EXCEPT ![n] = "old"] /\ backup' = backup \ {n} /\ Previously(t)
         \/ at' = MakeDirs(dirs) /\ tx' = GiveUp(t) /\ UNCHANGED backup
  BY DEF UndoPut, At, moves
<1>2. tx.pc \in Undoing /\ tx.pc \in Returned
  BY <1>1 DEF Undoing, Returned
<1>3. /\ IsTx(tx) /\ Base /\ Backward /\ AllSafe /\ Held /\ Spared /\ tx.mutated = TRUE /\ tx.k \in Nat
      /\ at \in [Names -> Nodes] /\ n \in Names /\ tx.k \in Entries /\ taken = None
      /\ \A m \in Names : quarantine[m] # "none" => Stuck(m)
  BY <1>1, <1>2, OnReturn
<1>4. Was(n)
  BY <1>1, <1>3 DEF Backward
<1>5. dirs \subseteq {d \in Names : Up(d) = Top} /\ n \notin dirs /\ (\A d \in dirs : at[d] = "none")
      /\ (Dir(n) \in DirNodes \cup {"none"} /\ Up(n) # Top => at[Up(n)] \in DirNodes \/ Up(n) \in dirs)
  BY <1>3, Paths DEF Missing, Dir
<1> HIDE DEF dirs
<1>6. IsTx(t) /\ SameMaterial(tx, t) /\ t.k = tx.k /\ t.mutated = tx.mutated /\ t.error = tx.error
  BY <1>3, FieldSet DEF IsTx, SameMaterial
<1> HIDE DEF t
<1> DEFINE made == MakeDirs(dirs)
<1>7. /\ made \in [Names -> Nodes] /\ Place(made, plan, touched) /\ Tree(made)
      /\ \A m \in Names : made[m] = IF m \in dirs /\ at[m] = "none" THEN "mdir" ELSE at[m]
  <2>1. Place(at, plan, touched) /\ Tree(at)
    BY <1>3 DEF Base
  <2> QED BY <1>3, <1>5, <2>1, Making, MakingTree
<1> HIDE DEF made
<1>8. CASE at' = made /\ tx' = GiveUp(t) /\ UNCHANGED backup
  <2>1. /\ SameMaterial(tx, tx') /\ tx'.k = tx.k /\ tx'.mutated = TRUE /\ tx'.pc = "release"
        /\ tx'.error = tx.error
    BY ONLY <1>3, <1>6, <1>8, GiveUpMaterial DEF SameMaterial
  <2>2. Base'
    BY <1>1, <1>3, <1>7, <1>8, <2>1, BaseMoves DEF Base, SameMaterial, Turned, Returned
  <2>3. \A v \in FileNodes : \A m \in Names : Stays(v, m) => Stays(v, m)'
    BY <1>1, <1>7, <1>8, <2>1 DEF Stays, SameMaterial, FileNodes
  <2>4. AllSafe'
    <3> SUFFICES ASSUME NEW v \in FileNodes, NEW m \in Names, Safe(v, m)
                 PROVE  Safe(v, m)'
      BY <1>1, <1>3, Safely DEF moves
    <3> QED BY <1>8, <2>3 DEF Safe
  <2>5. Held'
    <3>1. \A m \in Names : Solid(m) => Solid(m)'
      BY <2>3 DEF Solid, FileNodes
    <3> QED BY <1>1, <1>3, <1>8, <2>1, <3>1, HeldOn DEF SameMaterial, moves
  <2> QED BY <1>1, <1>6, <1>8, <2>2, <2>4, <2>5, GaveUp DEF moves
<1>9. CASE /\ Dir(n) \in DirNodes \cup {"none"} /\ at[n] = "none"
           /\ at' = [made EXCEPT ![n] = "old"] /\ backup' = backup \ {n} /\ Previously(t)
  <2>1. /\ SameMaterial(tx, tx') /\ tx'.mutated = TRUE /\ tx'.error = tx.error
        /\ tx'.pc \in {"undo", "undo_end"} /\ tx'.k \in Nat
        /\ tx'.pc \in Turned \cup Returned => tx'.k \in Entries
        /\ \A k \in Undone' : k \in Undone \/ k = tx.k
    BY <1>1, <1>2, <1>6, <1>9, Earlier DEF moves
  <2>2. at' \in [Names -> Nodes] /\ \A m \in Names : at'[m] = IF m = n THEN "old" ELSE made[m]
    BY <1>7, <1>9 DEF Nodes, FileNodes
  <2>3. Place(at', plan, touched)
    BY <1>4, <1>7, <2>2 DEF Place, Was, DirNodes
  <2>4. Tree(at')
    <3>1. Tree(made) /\ n # Top /\ made[n] \notin DirNodes
      BY <1>3, <1>5, <1>7, <1>9, PathsAssumption DEF DirNodes
    <3>2. \A m \in Names : Up(m) = n => made[m] = "none"
      BY <3>1 DEF Tree
    <3>3. Up(n) # Top => Up(n) \in Names /\ Up(n) # n
      BY <1>3, PathsAssumption
    <3>4. Up(n) # Top => made[Up(n)] \in DirNodes
      BY <1>5, <1>7, <1>9, <3>3 DEF DirNodes
    <3> QED BY <2>2, <3>1, <3>2, <3>3, <3>4, PathsAssumption DEF Tree
  <2>5. Base'
    BY <1>1, <1>3, <1>9, <2>1, <2>3, <2>4, BaseMoves DEF Base, SameMaterial
  <2>6. \A v \in FileNodes : \A m \in Names : Stays(v, m) => Stays(v, m)'
    BY <1>1, <1>7, <1>9, <2>1, <2>2 DEF Stays, SameMaterial, FileNodes
  <2>7. at'[n] = "old"
    BY <1>3, <2>2
  <2>8. AllSafe'
    <3> SUFFICES ASSUME NEW v \in FileNodes, NEW m \in Names, Safe(v, m)
                 PROVE  Safe(v, m)'
      BY <1>1, <1>3, Safely DEF moves
    <3> QED BY <1>9, <2>6, <2>7 DEF Safe, Stays
  <2>9. Held' /\ Spared'
    <3>1. \A m \in Names : Solid(m) => Solid(m)'
      BY <2>6 DEF Solid, FileNodes
    <3>2. \A m \in Names : m \in backup \/ Solid(m) => m \in backup' \/ Solid(m)'
      BY <1>9, <2>7, <3>1 DEF Solid, Stays
    <3> QED BY <1>1, <1>3, <2>1, <3>1, <3>2, HeldOn, SparedOn DEF SameMaterial, moves
  <2>10. \A m \in Names : quarantine'[m] # "none" => Stuck(m)'
    BY <1>1, <1>3, <2>1, StuckOn DEF SameMaterial
  <2>11. \A k \in Undone' : ~Was(Entry(k)) => Entry(k) \in touched \/ at'[Entry(k)] \notin FileNodes
    <3> SUFFICES ASSUME NEW k \in Undone', ~Was(Entry(k))
                 PROVE  Entry(k) \in touched \/ at'[Entry(k)] \notin FileNodes
      OBVIOUS
    <3>1. k \in Undone /\ Entry(k) # n
      BY <1>4, <2>1 DEF Record
    <3>2. Entry(k) \in Names
      BY <3>1, EntryType DEF Undone
    <3> QED BY <1>3, <1>7, <2>2, <3>1, <3>2 DEF Backward, FileNodes
  <2>12. tx'.pc \in Undoing \ {"undo_verify", "undo_cleared"} /\ tx'.pc \notin {"undo_clear", "undo_put"}
         /\ UNCHANGED <<plan, touched>> /\ taken' = None
    BY <1>1, <1>3, <2>1 DEF Undoing, moves
  <2> QED BY <2>1, <2>5, <2>8, <2>9, <2>10, <2>11, <2>12, Backwards
<1> QED BY <1>1, <1>8, <1>9 DEF made

LEMMA UndoEndMaterial ==
    ASSUME IInv, FInv, UndoEnd
    PROVE  FInv'
<1> DEFINE dirs == Missing(tx.pinned)
           put == \A n \in Known \ tx.keepPath : Was(n) => IsPrevious(n)
<1>1. /\ UNCHANGED moves /\ UNCHANGED <<backup, staged, aside, taken, quarantine>> /\ tx.pc = "undo_end"
      /\ at' = MakeDirs(dirs)
      /\ \/ put /\ tx' = [tx EXCEPT !.mutated = FALSE, !.pc = "release"]
         \/ tx' = GiveUp(tx)
  BY DEF UndoEnd, At, moves, material
<1>2. tx.pc \in Undoing
  BY <1>1 DEF Undoing
<1>3. /\ IsTx(tx) /\ Base /\ Backward /\ AllSafe /\ Held /\ Spared /\ tx.mutated = TRUE /\ tx.k \in Nat
      /\ at \in [Names -> Nodes] /\ quarantine \in [Names -> Nodes] /\ taken = None
      /\ \A m \in Names : quarantine[m] # "none" => Stuck(m)
  BY <1>1, <1>2, OnReturn
<1>4. dirs \subseteq {d \in Names : Up(d) = Top}
  BY <1>3 DEF Missing, Base
<1> HIDE DEF dirs
<1>5. /\ Place(at', plan, touched) /\ Tree(at')
      /\ \A m \in Names : at'[m] = IF m \in dirs /\ at[m] = "none" THEN "mdir" ELSE at[m]
  <2>1. Place(at, plan, touched) /\ Tree(at)
    BY <1>3 DEF Base
  <2> QED BY <1>1, <1>3, <1>4, <2>1, Making, MakingTree
<1>6. /\ SameMaterial(tx, tx') /\ tx'.k = tx.k /\ tx'.mutated \in BOOLEAN /\ tx'.pc = "release"
      /\ tx'.error = tx.error
  <2>1. CASE tx' = [tx EXCEPT !.mutated = FALSE, !.pc = "release"]
    BY <1>3, <2>1, FieldSet DEF SameMaterial, IsTx
  <2>2. CASE tx' = GiveUp(tx)
    BY <1>3, <2>2, GiveUpMaterial
  <2> QED BY <1>1, <2>1, <2>2
<1>7. Base'
  BY <1>1, <1>3, <1>5, <1>6, BaseMoves DEF Base, SameMaterial, Turned, Returned
<1>8. \A v \in FileNodes : \A m \in Names : Stays(v, m) => Stays(v, m)'
  BY <1>1, <1>5, <1>6 DEF Stays, SameMaterial, FileNodes
<1>9. AllSafe'
  <2> SUFFICES ASSUME NEW v \in FileNodes, NEW m \in Names, Safe(v, m)
               PROVE  Safe(v, m)'
    BY <1>1, <1>3, Safely DEF moves
  <2> QED BY <1>1, <1>8 DEF Safe
<1>10. \A m \in Names : Solid(m) => Solid(m)'
  BY <1>8 DEF Solid, FileNodes
<1>11. Held'
  BY <1>1, <1>3, <1>6, <1>10, HeldOn DEF SameMaterial, moves
<1>12. CASE tx' = GiveUp(tx)
  BY <1>1, <1>3, <1>7, <1>9, <1>11, <1>12, GaveUp DEF moves
<1>13. CASE put /\ tx' = [tx EXCEPT !.mutated = FALSE, !.pc = "release"]
  <2>1. \A n \in Names \ touched : Was(n) => Solid(n)' \/ n \in tx.abandoned
    <3> SUFFICES ASSUME NEW n \in Names, n \notin touched, n \notin tx.abandoned, Was(n)
                 PROVE  Solid(n)
      BY <1>10
    <3>1. CASE n \in tx.keepPath
      BY <1>3, <3>1 DEF Spared
    <3>2. CASE n \notin tx.keepPath
      <4>1. IsPrevious(n)
        BY <1>13, <3>2 DEF Known
      <4> QED BY <4>1 DEF IsPrevious, Solid, Stays
    <3> QED BY <3>1, <3>2
  <2>2. taken' = None /\ (quarantine' # None => tx'.error = "unknown")
    BY <1>1, <1>3, <1>6, Nothing DEF Stuck
  <2>3. Failed'
    <3>1. \A n \in Names \ touched' :
            Was(n)' => Solid(n)' \/ n \in backup' \cap tx'.keepBackup \/ n \in tx'.abandoned \ tx'.keepBackup
      BY <1>1, <1>6, <1>11, <2>1 DEF moves, Was, SameMaterial, Held
    <3> QED BY <1>6, <1>11, <2>2, <3>1 DEF Failed
  <2>4. tx'.pc \in Ending /\ tx'.error # "none"
    BY <1>3, <1>6 DEF Ending, Held
  <2> QED BY <1>7, <1>9, <2>3, <2>4, ToEnd
<1> QED BY <1>1, <1>12, <1>13

LEMMA ReleaseFilesMaterial ==
    ASSUME IInv, FInv, ReleaseFiles
    PROVE  FInv'
<1>1. /\ UNCHANGED moves /\ UNCHANGED <<taken, quarantine>> /\ tx.pc = "release"
      /\ staged' = {} /\ backup' = {n \in backup : Kept(n)}
      /\ aside' = [n \in Names |-> IF n \in tx.keepAside THEN aside[n] ELSE "none"]
      /\ at' = [n \in Names |-> IF n \in Hollow THEN "none" ELSE at[n]]
      /\ tx' = [tx EXCEPT !.pc = "unlock"]
  BY DEF ReleaseFiles, At, Goto, moves
<1>2. Base /\ AllSafe /\ IsTx(tx) /\ tx.pc \in Ending
  BY <1>1, SafeWhenSeen DEF IInv, World, FInv, Ending
<1>3. /\ SameMaterial(tx, tx') /\ tx'.k = tx.k /\ tx'.mutated = tx.mutated /\ tx'.pc = "unlock"
      /\ tx'.error = tx.error /\ tx'.restoreFailed = tx.restoreFailed /\ tx'.keepBackup = tx.keepBackup
  BY <1>1, <1>2, FieldSet DEF SameMaterial, IsTx
<1>4. \A d \in Hollow : at[d] = "mdir" /\ \A c \in Names : Up(c) = d => at[c] = "none"
  BY DEF Hollow, Kids
<1>5. /\ at' \in [Names -> Nodes] /\ aside' \in [Names -> Nodes]
      /\ \A n \in Names : at'[n] = IF n \in Hollow THEN "none" ELSE at[n]
      /\ \A n \in Names : aside'[n] = IF n \in tx.keepAside THEN aside[n] ELSE "none"
  BY <1>1, <1>2 DEF Base, Place, Nodes
<1> HIDE DEF Hollow
<1>6. Place(at', plan, touched) /\ Place(aside', plan, touched)
  BY <1>2, <1>5 DEF Base, Place, DirNodes
<1>7. Tree(at')
  <2> SUFFICES ASSUME NEW m \in Names, at'[m] # "none", Up(m) # Top
               PROVE  at'[Up(m)] \in DirNodes
    BY DEF Tree
  <2>1. Up(m) \in Names /\ at[m] # "none" /\ at[Up(m)] \in DirNodes
    BY <1>2, <1>5, PathsAssumption DEF Base, Tree
  <2>2. Up(m) \notin Hollow
    BY <1>4, <2>1
  <2> QED BY <1>5, <2>1, <2>2
<1>8. backup' \subseteq {n \in Names : Was(n)} /\ staged' \subseteq Names
  BY <1>1, <1>2 DEF Base
<1>9. Base'
  BY <1>1, <1>2, <1>3, <1>6, <1>7, <1>8, BaseMoves DEF Base, SameMaterial, Turned, Returned
<1>10. \A v \in FileNodes : \A m \in Names : Stays(v, m) => Stays(v, m)'
  BY <1>1, <1>3, <1>4, <1>5 DEF Stays, SameMaterial, FileNodes
<1>11. AllSafe'
  <2> SUFFICES ASSUME NEW w \in written PROVE Safe(w[1], w[2])'
    BY <1>1 DEF AllSafe, moves
  <2>1. w[1] \in FileNodes /\ w[2] \in Names /\ Safe(w[1], w[2]) /\ w = <<w[1], w[2]>>
    BY <1>2 DEF Base, AllSafe
  <2>2. CASE Stays(w[1], w[2])
    BY <1>10, <2>1, <2>2 DEF Safe
  <2>3. CASE w[1] = "old" /\ w[2] \in backup
    <3>0. <<"old", w[2]>> \in written
      BY <2>1, <2>3
    <3>1. <<"old", w[2]>> \in edited
      BY <1>2, <2>1, <3>0 DEF Base
    <3> QED BY <1>1, <2>3, <3>1 DEF Safe, Kept
  <2> QED BY <2>1, <2>2, <2>3 DEF Safe
<1>12. \A m \in Names : Solid(m) => Solid(m)'
  BY <1>10 DEF Solid, FileNodes
<1>13. tx'.pc \in Ending
  BY <1>3 DEF Ending
<1>14. CASE tx.error = "none"
  <2>1. Clean
    BY <1>2, <1>14 DEF FInv, Stages
  <2>2. Clean'
    BY <1>1, <1>5, <2>1, Nothing, PlaceNone DEF Clean
  <2> QED BY <1>3, <1>9, <1>11, <1>13, <1>14, <2>2, ToEnd
<1>15. CASE tx.error # "none"
  <2>1. Failed /\ Held
    BY <1>1, <1>2, <1>15 DEF FInv, Stages, Failed
  <2>2. \A n \in Names \ touched : Was(n) => Solid(n)' \/ n \in backup' \/ n \in tx.abandoned \ tx.keepBackup
    BY <1>1, <1>12, <2>1 DEF Failed, Kept
  <2>3. Failed'
    <3>1. \A n \in Names \ touched' :
            Was(n)' => Solid(n)' \/ n \in backup' \/ n \in tx'.abandoned \ tx'.keepBackup
      BY <1>1, <1>3, <2>2 DEF moves, Was, SameMaterial
    <3>2. \A n \in Names : aside'[n] # "none" => n \in tx'.keepAside
      BY <1>3, <1>5 DEF SameMaterial
    <3> QED BY <1>1, <1>3, <2>1, <3>1, <3>2 DEF Failed, Held, SameMaterial
  <2> QED BY <1>3, <1>9, <1>11, <1>13, <1>15, <2>3, ToEnd
<1> QED BY <1>14, <1>15

LEMMA UndoFilesMaterial ==
    ASSUME IInv, FInv, UndoFiles
    PROVE  FInv'
BY UndoCheckMaterial, UndoMaterial, UndoTakeMaterial, UndoVerifyMaterial, UndoClearMaterial,
   UndoClearedMaterial, UndoPutMaterial, UndoEndMaterial, ReleaseFilesMaterial DEF UndoFiles

-----------------------------------------------------------------------------
(* What people do: they never put back a file that has been taken away, and  *)
(* every path they change is touched.                                        *)
Theirs(n) ==
  \/ at'[n] = at[n]
  \/ n \in touched' /\ at'[n] \in {"none", "usr", "udir"} /\ (at'[n] = "udir" => Up(n) = Top)

LEMMA Touches ==
    ASSUME FInv, UNCHANGED <<plan, material, tx>>, touched \subseteq touched',
           touched' \subseteq Names \cup {"git"}, at' \in [Names -> Nodes], Tree(at'),
           \A n \in Names : Theirs(n),
           edited' \subseteq {"old", "new"} \X Names, written' \subseteq FileNodes \X Names,
           \A n \in Names :
              /\ <<"old", n>> \in edited' \/ <<"new", n>> \in edited' => n \in touched'
              /\ <<"old", n>> \in written' => <<"old", n>> \in edited'
              /\ <<"new", n>> \in written' => <<"new", n>> \in edited',
           Writings'
    PROVE  FInv'
<1>1. Base
  BY DEF FInv
<1>2. UNCHANGED <<backup, staged, aside, taken, quarantine>>
  BY DEF material
<1>3. /\ Entries' = Entries /\ Record' = Record
      /\ \A n \in Names : Was(n)' = Was(n) /\ Will(n)' = Will(n)
  BY SameEntry
<1>4. \A n \in Names : \/ at'[n] = at[n]
                       \/ n \in touched' /\ at'[n] \in {"none", "usr", "udir"} /\ (at'[n] = "udir" => Up(n) = Top)
  BY DEF Theirs
<1>5. \A f : Place(f, plan, touched) => Place(f, plan, touched')
  BY DEF Place
<1>6. Place(at', plan, touched')
  <2>1. Place(at, plan, touched)
    BY <1>1 DEF Base
  <2> QED BY <1>4, <2>1 DEF Place, DirNodes
<1>7. Base'
  BY <1>1, <1>2, <1>3, <1>5, <1>6 DEF Base, Was
<1>8. \A n \in Names \ touched' : at'[n] = at[n] /\ (Solid(n) => Solid(n)')
  BY <1>2, <1>4 DEF Solid, Stays
<1>9. AsFound => AsFound'
  BY <1>3, <1>8 DEF AsFound
<1>10. tx.pc \in Before => Outset'
  BY <1>2, <1>9 DEF FInv, Stages, Outset, Clean
<1>11. ASSUME tx.pc \in Applying PROVE Forward' /\ Turning'
  <2>1. Forward /\ Turning /\ Passed' = Passed
    BY <1>3, <1>11 DEF FInv, Stages, Passed
  <2>2. \A n \in Names : at'[n] = "old" => at[n] = "old"
    BY <1>4
  <2>3. \A k \in Passed : Entry(k) \in Names
    BY EntryType DEF Passed
  <2>4. \A k \in Passed : ~Will(Entry(k))' => at'[Entry(k)] # "old"
    BY <1>3, <2>1, <2>2, <2>3 DEF Forward
  <2>5. Forward'
    BY <1>2, <1>3, <1>9, <2>1, <2>2, <2>4 DEF Forward, Only, Bundle, Entry
  <2>6. tx.pc \in Turned => Record \in Names
    BY <1>1, EntryType DEF Base, Record
  <2>7. Turning'
    <3>1. CASE tx.pc \in Turned
      BY <1>2, <1>3, <1>4, <2>1, <2>2, <2>6, <3>1 DEF Turning, Only, Bundle
    <3>2. CASE tx.pc \notin Turned
      BY <3>2 DEF Turning, Turned
    <3> QED BY <3>1, <3>2
  <2> QED BY <2>5, <2>7
<1>12. Held => Held'
  BY <1>2, <1>3, <1>8 DEF Held
<1>13. Spared => Spared'
  BY <1>1, <1>8 DEF Spared, Base
<1>14. ASSUME tx.pc \in UndoLabels PROVE Backward'
  <2>1. Backward /\ Undone' = Undone
    BY <1>3, <1>14 DEF FInv, Stages, Undone
  <2>2. \A n \in Names : (n \in touched \/ at[n] \notin FileNodes) => (n \in touched' \/ at'[n] \notin FileNodes)
    BY <1>4
  <2>3. \A k \in Undone : Entry(k) \in Names
    BY EntryType DEF Undone
  <2>4. \A k \in Undone : ~Was(Entry(k))' => Entry(k) \in touched' \/ at'[Entry(k)] \notin FileNodes
    BY <1>3, <2>1, <2>2, <2>3 DEF Backward
  <2>5. tx.pc \in {"undo_verify", "undo_clear", "undo_cleared", "undo_put"} => Record \in Names
    BY <1>1, EntryType DEF Base, Record, Returned
  <2>6. tx.pc = "undo_verify" =>
          Only(taken', Record') /\ Bundle(taken', Record') /\ (Record' \in touched' \/ at'[Record'] \notin FileNodes)
    BY <1>2, <1>3, <2>1, <2>2, <2>5 DEF Backward
  <2>7. \A n \in Names : quarantine'[n] # "none" => Stuck(n)' \/ (tx.pc = "undo_cleared" /\ n \in Within(Record'))
    BY <1>2, <1>3, <2>1 DEF Backward, Stuck
  <2>8. /\ tx.pc = "undo_cleared" => Bundle(quarantine', Record')
        /\ tx.pc \in {"undo_clear", "undo_cleared", "undo_put"} => Was(Record)'
    BY <1>2, <1>3, <2>1, <2>5 DEF Backward
  <2>9. Held' /\ Spared' /\ tx'.mutated /\ (tx.pc # "undo_verify" => taken' = None)
    BY <1>2, <1>12, <1>13, <2>1 DEF Backward
  <2> QED BY <2>1, <2>4, <2>6, <2>7, <2>8, <2>9 DEF Backward, Only, Bundle, Within, Kids, Entry
<1>15. Failed => Failed'
  BY <1>2, <1>3, <1>8, <1>12 DEF Failed
<1>16. Clean => Clean'
  BY <1>2 DEF Clean
<1>17. Stages'
  BY <1>10, <1>11, <1>14, <1>15, <1>16 DEF FInv, Stages
<1> QED BY <1>7, <1>17 DEF FInv

(* A person can only write through a descriptor into a file that is safe.    *)
LEMMA AsideSafe ==
    ASSUME IInv, FInv, NEW n \in Names, n \in backup \/ (aside[n] = "old" /\ n \notin touched)
    PROVE  Safe("old", n)
<1>1. Base /\ Stages
  BY DEF FInv
<1>2. aside[n] = "old" => Was(n)
  BY <1>1 DEF Base, Place, Was
<1>3. CASE n \in backup
  BY <1>3 DEF Safe
<1>4. CASE aside[n] = "old" /\ n \notin touched
  <2>1. aside # None
    BY <1>4, PlaceNone
  <2>2. CASE tx.pc \in Before
    BY <1>1, <2>1, <2>2 DEF Stages, Outset, Clean
  <2>3. CASE tx.pc \in Applying
    BY <1>1, <1>2, <1>4, <2>3 DEF Stages, Forward, Safe
  <2>4. CASE tx.pc \in UndoLabels
    BY <1>1, <1>2, <1>4, <2>4 DEF Stages, Backward, Held, Safe, Solid
  <2>5. CASE tx.pc \in Ending
    BY <1>1, <1>2, <1>4, <2>1, <2>5 DEF Stages, Clean, Failed, Held, Safe, Solid, Stays
  <2>6. tx.pc \in Before \cup Applying \cup UndoLabels \cup Ending
    BY DEF IInv, Course, Going, Locked, First, FileLabels, HeadLabels, Before, Applying, UndoLabels
  <2> QED BY <2>2, <2>3, <2>4, <2>5, <2>6
<1> QED BY <1>3, <1>4

(* What is written stays safe when only nodes that are no files change.      *)
LEMMA WritingsStand ==
    ASSUME FInv, UNCHANGED <<material, tx, written>>,
           \A n \in Names : at'[n] = at[n] \/ at[n] \notin FileNodes
    PROVE  Writings'
<1> SUFFICES ASSUME NEW w \in written
             PROVE  Safe(w[1], w[2])' \/ (tx.pc = "verify" /\ w[1] = aside[w[2]])
  BY DEF Writings, material
<1>1. /\ w[1] \in FileNodes /\ w[2] \in Names
      /\ Safe(w[1], w[2]) \/ (tx.pc = "verify" /\ w[1] = aside[w[2]])
  BY DEF FInv, Base, Writings
<1> QED BY <1>1 DEF Safe, Stays, material

LEMMA WriteMaterial ==
    ASSUME IInv, FInv, NEW n \in Names, Write(n)
    PROVE  FInv'
<1>1. /\ UNCHANGED <<plan, material, tx, edited>> /\ touched' = touched \cup {n}
      /\ at[n] = "none" /\ InDir(n) /\ at' = [at EXCEPT ![n] = "usr"] /\ written' = written \cup {<<"usr", n>>}
  BY DEF Write, Act
<1>2. Base /\ Tree(at) /\ at \in [Names -> Nodes] /\ Writings
  BY DEF FInv, Base, Place
<1>3. at' \in [Names -> Nodes] /\ \A m \in Names : at'[m] = IF m = n THEN "usr" ELSE at[m]
  BY <1>1, <1>2 DEF Nodes, FileNodes
<1>4. Tree(at')
  <2>1. /\ Up(n) # Top => at[Up(n)] \in DirNodes /\ Up(n) # n
        /\ n # Top /\ at[n] \notin DirNodes
    BY <1>1, PathsAssumption DEF InDir, Dir, DirNodes
  <2>2. \A m \in Names : Up(m) = n => at[m] = "none"
    BY <1>2, <2>1 DEF Tree
  <2> QED BY <1>2, <1>3, <2>1, <2>2, PathsAssumption DEF Tree
<1>5. \A m \in Names : Theirs(m)
  BY <1>1, <1>3 DEF Theirs
<1>6. Writings'
  <2> SUFFICES ASSUME NEW w \in written'
               PROVE  Safe(w[1], w[2])' \/ (tx.pc = "verify" /\ w[1] = aside[w[2]])
    BY <1>1 DEF Writings, material
  <2>1. CASE w = <<"usr", n>>
    BY <1>3, <2>1 DEF Safe, Stays
  <2>2. CASE w \in written
    <3>1. /\ w[1] \in FileNodes /\ w[2] \in Names
          /\ Safe(w[1], w[2]) \/ (tx.pc = "verify" /\ w[1] = aside[w[2]])
      BY <1>2, <2>2 DEF Base, Writings
    <3> QED BY <1>1, <1>3, <3>1 DEF Safe, Stays, material, FileNodes
  <2> QED BY <1>1, <2>1, <2>2
<1>7. written' \subseteq FileNodes \X Names /\ touched' \subseteq Names \cup {"git"} /\ touched \subseteq touched'
  BY <1>1, <1>2 DEF Base, FileNodes
<1>8. /\ edited' \subseteq {"old", "new"} \X Names
      /\ \A m \in Names :
           /\ <<"old", m>> \in edited' \/ <<"new", m>> \in edited' => m \in touched'
           /\ <<"old", m>> \in written' => <<"old", m>> \in edited'
           /\ <<"new", m>> \in written' => <<"new", m>> \in edited'
  BY <1>1, <1>2 DEF Base
<1> QED BY <1>1, <1>3, <1>4, <1>5, <1>6, <1>7, <1>8, Touches

LEMMA EditMaterial ==
    ASSUME IInv, FInv, NEW n \in Names, Edit(n)
    PROVE  FInv'
<1>1. /\ UNCHANGED <<plan, material, tx, at>> /\ touched' = touched \cup {n}
      /\ \/ at[n] \in {"old", "new"} /\ edited' = edited \cup {<<at[n], n>>}
         \/ (n \in backup \/ (aside[n] = "old" /\ n \notin touched)) /\ edited' = edited \cup {<<"old", n>>}
      /\ written' = written \cup (edited' \ edited)
  BY DEF Edit, Act
<1>2. Base /\ Tree(at) /\ at \in [Names -> Nodes] /\ Writings
  BY DEF FInv, Base, Place
<1>3. PICK v \in {"old", "new"} : edited' = edited \cup {<<v, n>>} /\ Safe(v, n)
  <2>1. CASE at[n] \in {"old", "new"} /\ edited' = edited \cup {<<at[n], n>>}
    BY <2>1 DEF Safe, Stays
  <2>2. CASE (n \in backup \/ (aside[n] = "old" /\ n \notin touched)) /\ edited' = edited \cup {<<"old", n>>}
    BY <2>2, AsideSafe
  <2> QED BY <1>1, <2>1, <2>2
<1>4. \A w \in written' : w \in written \/ w = <<v, n>>
  BY <1>1, <1>3
<1>5. Writings'
  <2> SUFFICES ASSUME NEW w \in written'
               PROVE  Safe(w[1], w[2]) \/ (tx.pc = "verify" /\ w[1] = aside[w[2]])
    BY <1>1 DEF Writings, material, Safe, Stays
  <2> QED BY <1>2, <1>3, <1>4 DEF Writings
<1>6. \A m \in Names : Theirs(m)
  BY <1>1 DEF Theirs
<1>7. /\ written' \subseteq FileNodes \X Names /\ touched' \subseteq Names \cup {"git"} /\ touched \subseteq touched'
      /\ edited' \subseteq {"old", "new"} \X Names
  BY <1>1, <1>2, <1>3 DEF Base, FileNodes
<1>8. \A m \in Names :
         /\ <<"old", m>> \in edited' \/ <<"new", m>> \in edited' => m \in touched'
         /\ <<"old", m>> \in written' => <<"old", m>> \in edited'
         /\ <<"new", m>> \in written' => <<"new", m>> \in edited'
  BY <1>1, <1>2, <1>3 DEF Base
<1> QED BY <1>1, <1>2, <1>5, <1>6, <1>7, <1>8, Touches

LEMMA RemoveMaterial ==
    ASSUME IInv, FInv, NEW n \in Names, Remove(n)
    PROVE  FInv'
<1>1. /\ UNCHANGED <<plan, material, tx, edited>> /\ touched' = touched \cup {n}
      /\ at[n] \in FileNodes /\ at' = [at EXCEPT ![n] = "none"] /\ written' = written \ {<<at[n], n>>}
  BY DEF Remove, Act
<1>2. Base /\ Tree(at) /\ at \in [Names -> Nodes] /\ Writings
  BY DEF FInv, Base, Place
<1>3. at' \in [Names -> Nodes] /\ \A m \in Names : at'[m] = IF m = n THEN "none" ELSE at[m]
  BY <1>1, <1>2 DEF Nodes
<1>4. Tree(at')
  <2>1. n # Top /\ at[n] \notin DirNodes
    BY <1>1, PathsAssumption DEF DirNodes, FileNodes
  <2> QED BY <1>2, <1>3, <2>1, PathsAssumption DEF Tree
<1>5. \A m \in Names : Theirs(m)
  BY <1>1, <1>3 DEF Theirs
<1>6. Writings'
  <2> SUFFICES ASSUME NEW w \in written'
               PROVE  Safe(w[1], w[2])' \/ (tx.pc = "verify" /\ w[1] = aside[w[2]])
    BY <1>1 DEF Writings, material
  <2>1. /\ w[1] \in FileNodes /\ w[2] \in Names /\ w = <<w[1], w[2]>>
        /\ Safe(w[1], w[2]) \/ (tx.pc = "verify" /\ w[1] = aside[w[2]])
    BY <1>1, <1>2 DEF Base, Writings
  <2>2. w[2] # n \/ w[1] # at[n]
    BY <1>1, <2>1
  <2> QED BY <1>1, <1>3, <2>1, <2>2 DEF Safe, Stays, material
<1>7. written' \subseteq FileNodes \X Names /\ touched' \subseteq Names \cup {"git"} /\ touched \subseteq touched'
  BY <1>1, <1>2 DEF Base
<1>8. /\ edited' \subseteq {"old", "new"} \X Names
      /\ \A m \in Names :
           /\ <<"old", m>> \in edited' \/ <<"new", m>> \in edited' => m \in touched'
           /\ <<"old", m>> \in written' => <<"old", m>> \in edited'
           /\ <<"new", m>> \in written' => <<"new", m>> \in edited'
  BY <1>1, <1>2 DEF Base
<1> QED BY <1>1, <1>3, <1>4, <1>5, <1>6, <1>7, <1>8, Touches

(* A directory is made or removed: no file changes.                          *)
LEMMA DirsMaterial ==
    ASSUME IInv, FInv, NEW n \in Names, MakeDir(n) \/ RemoveDir(n)
    PROVE  FInv'
<1>1. /\ UNCHANGED <<plan, material, tx, edited, written>> /\ touched' = touched \cup {n}
      /\ \/ at[n] = "none" /\ "dir" \in {plan.old[n], plan.new[n]} /\ at' = [at EXCEPT ![n] = "udir"]
         \/ /\ at[n] \in DirNodes /\ (\A c \in Kids(n) : at[c] = "none")
            /\ at' = [at EXCEPT ![n] = "none"]
  BY DEF MakeDir, RemoveDir, Act, OnFiles
<1>2. Base /\ Tree(at) /\ at \in [Names -> Nodes] /\ Writings
  BY DEF FInv, Base, Place
<1>3. PICK d \in {"none", "udir"} : at' = [at EXCEPT ![n] = d] /\ (d = "udir" => Up(n) = Top)
  <2>1. "dir" \in {plan.old[n], plan.new[n]} => Up(n) = Top
    BY <1>2, PlansAssumption DEF Base, Side
  <2> QED BY <1>1, <2>1
<1>4. at' \in [Names -> Nodes] /\ \A m \in Names : at'[m] = IF m = n THEN d ELSE at[m]
  BY <1>2, <1>3 DEF Nodes, DirNodes
<1>5. Tree(at')
  <2>0. n # Top
    BY PathsAssumption
  <2>1. \A m \in Names : Up(m) = n => at[m] = "none"
    <3>1. CASE at[n] = "none"
      BY <1>2, <2>0, <3>1 DEF Tree, DirNodes
    <3>2. CASE \A c \in Kids(n) : at[c] = "none"
      BY <3>2 DEF Kids
    <3> QED BY <1>1, <3>1, <3>2
  <2> QED BY <1>2, <1>3, <1>4, <2>0, <2>1, PathsAssumption DEF Tree
<1>6. \A m \in Names : Theirs(m)
  BY <1>1, <1>3, <1>4 DEF Theirs
<1>7. Writings'
  BY <1>1, <1>4, WritingsStand DEF DirNodes, FileNodes
<1>8. /\ written' \subseteq FileNodes \X Names /\ touched' \subseteq Names \cup {"git"} /\ touched \subseteq touched'
      /\ edited' \subseteq {"old", "new"} \X Names
      /\ \A m \in Names :
           /\ <<"old", m>> \in edited' \/ <<"new", m>> \in edited' => m \in touched'
           /\ <<"old", m>> \in written' => <<"old", m>> \in edited'
           /\ <<"new", m>> \in written' => <<"new", m>> \in edited'
  BY <1>1, <1>2 DEF Base
<1> QED BY <1>1, <1>4, <1>5, <1>6, <1>7, <1>8, Touches

(* Git's own files are not among the paths, and a step that does nothing.    *)
LEMMA QuietMaterial ==
    ASSUME FInv, UNCHANGED <<plan, material, tx, at, edited, written>>, touched \subseteq touched',
           touched' \subseteq touched \cup {"git"}
    PROVE  FInv'
<1>1. Base /\ at \in [Names -> Nodes]
  BY DEF FInv, Base, Place
<1>2. \A m \in Names : Theirs(m)
  BY DEF Theirs
<1>3. Writings'
  BY WritingsStand
<1>4. /\ written' \subseteq FileNodes \X Names /\ touched' \subseteq Names \cup {"git"}
      /\ edited' \subseteq {"old", "new"} \X Names /\ Tree(at')
      /\ \A m \in Names :
           /\ <<"old", m>> \in edited' \/ <<"new", m>> \in edited' => m \in touched'
           /\ <<"old", m>> \in written' => <<"old", m>> \in edited'
           /\ <<"new", m>> \in written' => <<"new", m>> \in edited'
  BY <1>1 DEF Base
<1> QED BY <1>1, <1>2, <1>3, <1>4, Touches

LEMMA PeopleMaterial ==
    ASSUME IInv, FInv, People
    PROVE  FInv'
<1> DEFINE Quiet == /\ UNCHANGED <<plan, material, tx, at, edited, written>>
                    /\ touched' = touched \cup {"git"} \/ touched' = touched
<1>1. CASE Commit \/ GitAdd \/ HoldIndex \/ LeaveIndex \/ \E b \in Branches : Switch(b) \/ MoveRef(b)
  <2>1. CASE Commit
    BY <2>1, QuietMaterial DEF Commit, Act, OnGit
  <2>2. CASE GitAdd
    BY <2>2, QuietMaterial DEF GitAdd, Act, OnGit
  <2>3. CASE HoldIndex
    BY <2>3, QuietMaterial DEF HoldIndex, Act, OnGit
  <2>4. CASE LeaveIndex
    BY <2>4, QuietMaterial DEF LeaveIndex, files
  <2>5. CASE \E b \in Branches : Switch(b)
    BY <2>5, QuietMaterial DEF Switch, Act, OnGit
  <2>6. CASE \E b \in Branches : MoveRef(b)
    BY <2>6, QuietMaterial DEF MoveRef, Act, OnGit
  <2> QED BY <1>1, <2>1, <2>2, <2>3, <2>4, <2>5, <2>6
<1> QED BY <1>1, WriteMaterial, EditMaterial, RemoveMaterial, DirsMaterial DEF People

LEMMA NextMaterialInv ==
    ASSUME IInv, FInv, [Next]_vars
    PROVE  FInv'
<1>1. CASE ApplyGit
  BY <1>1, PrepareIndexMaterial, UpdateHEADMaterial, BindHEADMaterial, MoveBranchMaterial, PromoteMaterial
     DEF ApplyGit
<1>2. CASE UNCHANGED vars
  BY <1>2, QuietMaterial DEF vars, files
<1> QED BY <1>1, <1>2, LookMaterial, ApplyFilesMaterial, FinalMaterial, UndoFilesMaterial, UndoGitMaterial,
           PeopleMaterial DEF Next, Transaction

LEMMA InitMaterial == Init => FInv
<1> SUFFICES ASSUME Init PROVE FInv
  OBVIOUS
<1> USE DEF Init
<1>1. /\ tx.pc = "observe" /\ tx.k = 0 /\ tx.mutated = FALSE /\ tx.made = {} /\ tx.pinned = {}
      /\ tx.keepPath = {} /\ tx.keepAside = {} /\ tx.abandoned = {}
  BY DEF Begun
<1>2. plan \in PlanType /\ Side(plan.old)
  BY PlansAssumption
<1>3. \A n \in Names : plan.old[n] \in {"none", "file", "dir"}
  BY <1>2 DEF PlanType, Kinds
<1>4. \A n \in Names : at[n] = CASE plan.old[n] = "none" -> "none"
                                 [] plan.old[n] = "file" -> "old"
                                 [] plan.old[n] = "dir" -> "odir"
  BY <1>3
<1>5. at \in [Names -> Nodes]
  BY <1>3, <1>4 DEF Nodes, FileNodes, DirNodes
<1>6. Place(at, plan, touched) /\ Tree(at)
  <2>1. Place(at, plan, touched)
    BY <1>2, <1>3, <1>4, <1>5 DEF Place, Side, DirNodes
  <2>2. Tree(at)
    <3> SUFFICES ASSUME NEW n \in Names, at[n] # "none", Up(n) # Top PROVE at[Up(n)] \in DirNodes
      BY DEF Tree
    <3>1. plan.old[n] = "file" /\ plan.old[Up(n)] = "dir" /\ Up(n) \in Names
      BY <1>2, <1>3, <1>4, PathsAssumption DEF Side
    <3> QED BY <1>4, <3>1 DEF DirNodes
  <2> QED BY <2>1, <2>2
<1>7. Base
  <2>1. Place(None, plan, touched)
    BY ONLY PlaceNone
  <2>2. Place(aside, plan, touched) /\ Place(taken, plan, touched) /\ Place(quarantine, plan, touched)
    BY ONLY <2>1, aside = None, taken = None, quarantine = None
  <2>3. tx.pc \notin Turned \cup Returned
    BY <1>1 DEF Turned, Returned
  <2>4. /\ backup = {} /\ staged = {} /\ edited = {} /\ written = {} /\ touched = {}
        /\ plan \in Plans
    OBVIOUS
  <2>5. \A n \in Names : <<"old", n>> \notin edited /\ <<"new", n>> \notin edited
                          /\ <<"old", n>> \notin written /\ <<"new", n>> \notin written
    BY ONLY <2>4
  <2>6. tx.k \in Nat
    BY ONLY <1>1
  <2>7. tx.mutated \in BOOLEAN
    BY ONLY <1>1
  <2> QED BY ONLY <1>1, <1>6, <2>2, <2>3, <2>4, <2>5, <2>6, <2>7 DEF Base
<1>8. AsFound
  BY <1>3, <1>4 DEF AsFound, Was, FileNodes
<1>9. Stages
  BY <1>1, <1>8 DEF Stages, Outset, Clean, Before, Applying, UndoLabels, Undoing, First, FileLabels, HeadLabels, Ending
<1>10. Writings
  BY DEF Writings
<1> QED BY <1>7, <1>9, <1>10 DEF FInv

-----------------------------------------------------------------------------
(* The index, the result and the counters.                                   *)
Ticks ==
  /\ edits' = edits \/ (edits < MaxEdits /\ edits' = edits + 1)
  /\ faults' = faults \/ Fault
  /\ index' \in {index, "old", "new", "theirs"} /\ indexLock' \in {indexLock, "free", "ours", "theirs"}

(* A step of the transaction that does not report.                           *)
Proceeds == Ticks /\ UNCHANGED result /\ tx.pc # "done"

LEMMA ApplyFilesProceeds == ApplyFiles => Proceeds
<1> USE DEF Proceeds, Ticks, At, gitState, material, files, bounds
<1>1. Stage => Proceeds
  BY DEF Stage
<1>2. Clear => Proceeds
  BY DEF Clear
<1>3. Cleared => Proceeds
  BY DEF Cleared
<1>4. Compare => Proceeds
  BY DEF Compare
<1>5. Displace => Proceeds
  BY DEF Displace
<1>6. VerifyAside => Proceeds
  BY DEF VerifyAside
<1>7. Install => Proceeds
  BY DEF Install
<1>8. Drop => Proceeds
  BY DEF Drop
<1>9. Applied => Proceeds
  BY DEF Applied
<1>10. ApplyFault => Proceeds
  BY DEF ApplyFault
<1> QED BY <1>1, <1>2, <1>3, <1>4, <1>5, <1>6, <1>7, <1>8, <1>9, <1>10 DEF ApplyFiles

LEMMA ApplyGitProceeds == ApplyGit => Proceeds
<1> USE DEF Proceeds, Ticks, At, gitState, material, files, bounds
<1>1. PrepareIndex => Proceeds
  BY DEF PrepareIndex
<1>2. UpdateHEAD => Proceeds
  BY DEF UpdateHEAD
<1>3. BindHEAD => Proceeds
  BY DEF BindHEAD
<1>4. MoveBranch => Proceeds
  BY DEF MoveBranch
<1>5. Promote => Proceeds
  BY DEF Promote
<1> QED BY <1>1, <1>2, <1>3, <1>4, <1>5 DEF ApplyGit

LEMMA UndoFilesProceeds == UndoFiles => Proceeds
<1> USE DEF Proceeds, Ticks, At, gitState, material, files, bounds
<1>1. UndoCheck => Proceeds
  BY DEF UndoCheck
<1>2. Undo => Proceeds
  BY DEF Undo
<1>3. UndoTake => Proceeds
  BY DEF UndoTake
<1>4. UndoVerify => Proceeds
  BY DEF UndoVerify
<1>5. UndoClear => Proceeds
  BY DEF UndoClear
<1>6. UndoCleared => Proceeds
  BY DEF UndoCleared
<1>7. UndoPut => Proceeds
  BY DEF UndoPut
<1>8. UndoEnd => Proceeds
  BY DEF UndoEnd
<1>9. ReleaseFiles => Proceeds
  BY DEF ReleaseFiles
<1> QED BY <1>1, <1>2, <1>3, <1>4, <1>5, <1>6, <1>7, <1>8, <1>9 DEF UndoFiles

LEMMA UndoGitProceeds == UndoIndex \/ UndoBranch \/ UndoLook \/ UndoBind => Proceeds
<1> USE DEF Proceeds, Ticks, At, gitState, material, files, bounds
<1>1. UndoIndex => Proceeds
  BY DEF UndoIndex
<1>2. UndoBranch => Proceeds
  BY DEF UndoBranch
<1>3. UndoLook => Proceeds
  BY DEF UndoLook
<1>4. UndoBind => Proceeds
  BY DEF UndoBind
<1> QED BY <1>1, <1>2, <1>3, <1>4

LEMMA LooksProceed == Observe \/ Import \/ Reobserve \/ Final => Proceeds
<1> USE DEF Proceeds, Ticks, At, gitState, material, files, bounds
<1>1. Observe => Proceeds
  BY DEF Observe
<1>2. Import => Proceeds
  BY DEF Import
<1>3. Reobserve => Proceeds
  BY DEF Reobserve
<1>4. Final => Proceeds
  BY DEF Final
<1> QED BY <1>1, <1>2, <1>3, <1>4

LEMMA PeopleTick == People => Ticks /\ UNCHANGED <<tx, result>>
<1> USE DEF Ticks, Act, OnFiles, OnGit, gitState, material, files, bounds
<1>1. ASSUME NEW n \in Names, Write(n) \/ Edit(n) \/ Remove(n) \/ MakeDir(n) \/ RemoveDir(n)
      PROVE  Ticks /\ UNCHANGED <<tx, result>>
  BY <1>1 DEF Write, Edit, Remove, MakeDir, RemoveDir
<1>2. Commit \/ GitAdd \/ HoldIndex \/ LeaveIndex => Ticks /\ UNCHANGED <<tx, result>>
  BY DEF Commit, GitAdd, HoldIndex, LeaveIndex
<1>3. ASSUME NEW b \in Branches, Switch(b) \/ MoveRef(b)
      PROVE  Ticks /\ UNCHANGED <<tx, result>>
  BY <1>3 DEF Switch, MoveRef
<1> QED BY <1>1, <1>2, <1>3 DEF People

LEMMA NextCounted ==
    ASSUME IInv, Counted, [Next]_vars
    PROVE  Counted'
<1>1. ASSUME Ticks, UNCHANGED result, result # "pending" => UNCHANGED tx
      PROVE  Counted'
  <2>1. edits' \in 0..MaxEdits /\ faults' \in 0..MaxFaults
    BY <1>1, BoundsAssumption DEF Ticks, Counted, Fault
  <2> QED BY <1>1, <2>1 DEF Ticks, Counted
<1>2. CASE Proceeds
  BY <1>1, <1>2 DEF Proceeds, IInv, Course
<1>3. CASE ReleaseIndex
  <2>1. UNCHANGED <<index, bounds>> /\ indexLock' \in {"free", indexLock}
    BY <1>3 DEF ReleaseIndex
  <2>2. tx'.error = tx.error
    BY <1>3 DEF ReleaseIndex, IInv, World, IsTx
  <2>3. /\ result' \in {"applied", "refused", "unknown"}
        /\ result' = "applied" => tx.error = "none"
        /\ result' = "refused" => tx.error # "unknown"
    BY <1>3 DEF ReleaseIndex
  <2> QED BY <2>1, <2>2, <2>3 DEF Counted, bounds
<1>4. CASE People
  BY <1>1, <1>4, PeopleTick
<1>5. CASE UNCHANGED vars
  BY <1>1, <1>5 DEF vars, Ticks, gitState, bounds
<1> QED BY <1>2, <1>3, <1>4, <1>5, ApplyFilesProceeds, ApplyGitProceeds, UndoFilesProceeds,
           UndoGitProceeds, LooksProceed DEF Next, Transaction, UndoGit

-----------------------------------------------------------------------------
(* What holds at every step of an application, of its files.                 *)
LEMMA FilesInvariance == Spec => [](IInv /\ FInv /\ Counted)
<1>1. Init => Counted
  BY BoundsAssumption DEF Init, Counted
<1>2. IInv /\ FInv /\ Counted /\ [Next]_vars => (IInv /\ FInv /\ Counted)'
  BY NextIInv, NextMaterialInv, NextCounted
<1> QED BY InitIInv, InitMaterial, <1>1, <1>2, PTL DEF Spec

(* Files, recovery material, Git, result and counters stay what they can be, *)
(* through every way out of an application and whatever people do meanwhile. *)
THEOREM TypeCorrect == Spec => []TypeOK
<1>1. IInv /\ FInv /\ Counted => TypeOK
  <2> SUFFICES ASSUME IInv, FInv, Counted PROVE TypeOK
    OBVIOUS
  <2>1. /\ at \in [Names -> Nodes] /\ aside \in [Names -> Nodes] /\ taken \in [Names -> Nodes]
        /\ quarantine \in [Names -> Nodes] /\ backup \subseteq Names
    BY DEF FInv, Base, Place
  <2> QED BY <2>1 DEF TypeOK, FInv, Base, Counted, IInv, World, Bindings, Branches
<1> QED BY FilesInvariance, <1>1, PTL

(* What a person wrote while an application replaced files is found at every *)
(* step of it, also when the application fails half-way or cannot put a file *)
(* back, and is at its path or in a backup once it reports that it applied   *)
(* or refused (displaceAndVerify, Rollback and Release).                     *)
THEOREM WritingIsKept == Spec => []WritingKept
<1>1. IInv /\ FInv /\ Counted => WritingKept
  <2> SUFFICES ASSUME IInv, FInv, Counted, NEW w \in written
               PROVE  /\ Found(w[1], w[2])
                      /\ result \in {"applied", "refused"} =>
                           at[w[2]] = w[1] \/ (w[1] = "old" /\ w[2] \in backup)
    BY DEF WritingKept
  <2>1. w[1] \in FileNodes /\ w[2] \in Names
    BY DEF FInv, Base
  <2>2. Safe(w[1], w[2]) \/ (tx.pc = "verify" /\ w[1] = aside[w[2]])
    BY DEF FInv, Writings
  <2>3. Found(w[1], w[2])
    BY <2>2 DEF Found, Safe, Stays
  <2>4. ASSUME result \in {"applied", "refused"}
        PROVE  taken = None /\ quarantine = None /\ (aside = None \/ tx.keepAside = {}) /\ tx.pc = "done"
    <3>1. tx.pc = "done" /\ tx.error # "unknown" /\ (tx.error # "none" => ~tx.restoreFailed)
      BY <2>4 DEF IInv, Course, Counted
    <3>2. IF tx.error = "none" THEN Clean ELSE Failed
      BY <3>1 DEF FInv, Stages, Ending
    <3> QED BY <3>1, <3>2 DEF Clean, Failed
  <2>5. None[w[2]] = "none" /\ w[1] # "none"
    BY <2>1 DEF None, FileNodes
  <2>6. ASSUME result \in {"applied", "refused"}
        PROVE  at[w[2]] = w[1] \/ (w[1] = "old" /\ w[2] \in backup)
    BY <2>2, <2>4, <2>5, <2>6 DEF Safe, Stays
  <2> QED BY <2>3, <2>6
<1> QED BY FilesInvariance, <1>1, PTL

(* Every captured file that nobody touched can be found at every step of an  *)
(* application, a crash at that step included, until all is applied: at its  *)
(* path, beside it or in its backup (prepareCheckoutFiles, Apply, Rollback   *)
(* and Release).  The one file whose replacement could not be installed is   *)
(* found until Release.                                                      *)
THEOREM FilesRecoverable == Spec => []Recoverable
<1>1. IInv /\ FInv => Recoverable
  <2> SUFFICES ASSUME IInv, FInv, NEW n \in Names, Was(n), n \notin touched,
                      ~(tx.pc \in Ending /\ tx.error = "none"), ~LetGo(n)
               PROVE  Found("old", n)
    BY DEF Recoverable, Ending
  <2>1. CASE tx.pc \in Before
    BY <2>1 DEF FInv, Stages, Outset, AsFound, Found
  <2>2. CASE tx.pc \in Applying
    BY <2>2 DEF FInv, Stages, Forward, Found
  <2>3. CASE tx.pc \in UndoLabels
    BY <2>3 DEF FInv, Stages, Backward, Held, Solid, Stays, Found
  <2>4. CASE tx.pc \in Ending
    BY <2>4 DEF FInv, Stages, Failed, Held, LetGo, Solid, Stays, Found, Ending
  <2> QED BY <2>1, <2>2, <2>3, <2>4
       DEF IInv, Course, Before, Applying, UndoLabels, Going, First, Locked, FileLabels, HeadLabels
<1> QED BY FilesInvariance, <1>1, PTL

-----------------------------------------------------------------------------
(* The files of an application seen as the promise of AtomicReplacement.     *)
Shows   == [n \in Known |-> Show(n)]
ShownOK == Shows \in [Known -> Promise!Views]

LEMMA NodesOf ==
    ASSUME FInv, NEW n \in Known
    PROVE  /\ n \in Names /\ (Was(n) \/ Will(n)) /\ at[n] \in Nodes
           /\ at[n] = "old" => Was(n)
           /\ at[n] = "new" => Will(n)
           /\ <<at[n], n>> \in edited => at[n] \in {"old", "new"} /\ n \in touched
           /\ n \notin touched => <<"old", n>> \notin edited /\ <<"new", n>> \notin edited
BY DEF FInv, Base, Place, Known, Was, Will

LEMMA ShowType == FInv => ShownOK
<1> SUFFICES ASSUME FInv, NEW n \in Known PROVE Show(n) \in Promise!Views
  BY DEF ShownOK, Shows
<1>1. CASE at[n] \in FileNodes
  BY <1>1, NodesOf DEF Show, IsPrevious, IsIncoming, Hidden, FileNodes, Promise!Views
<1>2. CASE at[n] \notin FileNodes
  BY <1>2, NodesOf DEF Show, IsPrevious, IsIncoming, Hidden, FileNodes, Promise!Views
<1> QED BY <1>1, <1>2

(* What nobody touched and is as it was found shows the previous file.       *)
LEMMA ShowPrevious ==
    ASSUME FInv, NEW n \in Known, n \notin touched,
           IF Was(n) THEN at[n] = "old" ELSE at[n] \notin FileNodes
    PROVE  Show(n) = "previous"
<1>1. CASE Was(n)
  BY <1>1, NodesOf DEF Show, IsPrevious, IsIncoming, Hidden, FileNodes
<1>2. CASE ~Was(n)
  <2>1. at[n] \notin FileNodes /\ <<at[n], n>> \notin edited
    BY <1>2, NodesOf DEF FileNodes
  <2> QED BY <1>2, <2>1 DEF Show, IsPrevious, IsIncoming, Hidden, FileNodes
<1> QED BY <1>1, <1>2

(* A path shows the same as long as the same file is there, or none.         *)
LEMMA ShowSame ==
    ASSUME FInv, FInv', UNCHANGED <<plan, edited>>, NEW n \in Known,
           at'[n] = at[n] \/ (at[n] \notin FileNodes /\ at'[n] \notin FileNodes)
    PROVE  Show(n)' = Show(n)
<1>1. n \in Known' /\ (Was(n))' = Was(n) /\ (Will(n))' = Will(n)
  BY DEF Known, Was, Will
<1>2. CASE at'[n] = at[n]
  BY <1>1, <1>2 DEF Show, IsPrevious, IsIncoming, Hidden, Was, Will
<1>3. CASE at[n] \notin FileNodes /\ at'[n] \notin FileNodes
  <2>1. <<at[n], n>> \notin edited /\ <<at'[n], n>> \notin edited
    BY <1>3 DEF FInv, Base, FileNodes
  <2> QED BY <1>1, <1>3, <2>1 DEF Show, IsPrevious, IsIncoming, Hidden, FileNodes, Was, Will
<1> QED BY <1>2, <1>3

(* What LooksIncoming sees, an ignored file included, shows the incoming one. *)
LEMMA ShowIncoming ==
    ASSUME FInv, IInv, tx.pc = "final", LooksIncoming, NEW n \in Known
    PROVE  Show(n) = "incoming"
<1>1. CASE Will(n)
  <2>1. n \in Names
    BY DEF Known
  <2>2. IsIncoming(n)
    BY <1>1, <2>1 DEF LooksIncoming, Will
  <2> QED BY <2>2 DEF Show, IsPrevious, IsIncoming, Hidden, FileNodes
<1>2. CASE ~Will(n)
  <2>1. Was(n) /\ n \in Names
    BY <1>2 DEF Known
  <2>2. PICK i \in 1..Len(PathOrder) : PathOrder[i] = n
    BY <2>1, PathsAssumption
  <2>3. i \in Entries /\ Entry(i) = n
    BY <1>2, <2>1, <2>2, PathsAssumption DEF Entries, Entry, Half
  <2>4. at[n] # "old"
    BY <1>2, <2>3 DEF FInv, Stages, Forward, Passed, Applying
  <2>5. plan.new[n] \in {"none", "dir"}
    BY <1>2, <2>1 DEF IInv, World, PlanType, Kinds, Will
  <2>6. at[n] \notin FileNodes \/ Hidden(n)
    BY <1>2, <2>1, <2>4, <2>5, NodesOf DEF LooksIncoming, Hidden, FileNodes, DirNodes
  <2> QED BY <1>2, <2>1, <2>4, <2>6, NodesOf DEF Show, IsPrevious, IsIncoming, FileNodes, Hidden
<1> QED BY <1>1, <1>2

(* A step that goes on, or reports what it could not do: nothing had been    *)
(* changed by then, it is not known what has been, or it could not be undone. *)
Settling ==
  \/ tx'.pc \notin Ending
  \/ tx'.error # "none" /\ (tx'.restoreFailed \/ tx'.error = "unknown" \/ (~tx.mutated /\ \A n \in Names : at'[n] = at[n]))

Settles == tx.pc \notin Ending /\ UNCHANGED <<plan, touched, edited>> /\ Settling

LEMMA FallsBack ==
    ASSUME NEW t, NEW e \in Errors, IsTx(t), tx.mutated => t.mutated, tx' = Fails(t, e),
           t.mutated \/ UNCHANGED at
    PROVE  Settling
BY FailsTx DEF Settling, Errors, Ending

LEMMA GoesTo ==
    ASSUME NEW t, NEW l, IsTx(t), l \notin Ending, tx' = [t EXCEPT !.pc = l]
    PROVE  Settling
BY GotoMaterial DEF Settling

LEMMA GoesRound ==
    ASSUME NEW t, IsTx(t), NextRecord(t) \/ Previously(t)
    PROVE  Settling
BY TurnTx DEF Settling, Ending

LEMMA GivesIn ==
    ASSUME NEW t, IsTx(t), t.error # "none", tx' = GiveUp(t)
    PROVE  Settling
BY GiveUpTx DEF Settling

LEMMA LooksSettle ==
    ASSUME IsTx(tx), Observe \/ Import \/ Reobserve \/ PrepareIndex
    PROVE  Settles
<1>1. tx.pc \notin Ending /\ UNCHANGED <<plan, touched, edited, at>>
  BY DEF Observe, Import, Reobserve, PrepareIndex, At, Ending, files
<1>2. CASE Observe \/ Import \/ Reobserve
  <2>1. \/ \E l \in {"import", "index", "stage"} : tx' = [tx EXCEPT !.pc = l]
        \/ \E e \in Errors : tx' = Fails(tx, e)
    BY <1>2 DEF Observe, Import, Reobserve, Goto, Fail, Errors
  <2> QED BY <1>1, <2>1, GoesTo, FallsBack DEF Settles, Ending
<1>3. CASE PrepareIndex
  <2> DEFINE t == [tx EXCEPT !.lock = TRUE, !.indexBackup = TRUE]
  <2>1. tx' = [t EXCEPT !.pc = "reobserve"] \/ tx' = Fails(tx, "conflict")
    BY <1>3, FieldSet DEF PrepareIndex, Fail, IsTx
  <2>2. IsTx(t)
    BY FieldSet DEF IsTx
  <2> HIDE DEF t
  <2> QED BY <1>1, <2>1, <2>2, GoesTo, FallsBack DEF Settles, Ending, Errors
<1> QED BY <1>2, <1>3

LEMMA HeadSettles ==
    ASSUME IInv, FInv, UpdateHEAD \/ BindHEAD \/ MoveBranch \/ Promote
    PROVE  Settles
<1>1. tx.pc \notin Ending /\ UNCHANGED <<plan, touched, edited>>
  BY DEF UpdateHEAD, BindHEAD, MoveBranch, Promote, At, Ending, files
<1>2. tx'.pc \notin Ending
  BY UpdateHEADMaterial, BindHEADMaterial, MoveBranchMaterial, PromoteMaterial
<1> QED BY <1>1, <1>2 DEF Settles, Settling

LEMMA ApplyFilesSettles ==
    ASSUME IInv, FInv, ApplyFiles
    PROVE  Settles
<1>1. tx.pc \in FileLabels /\ Works
  BY ApplyFilesStep DEF IInv, World
<1>2. tx.pc \in {"cleared", "verify"} => tx.mutated
  BY DEF FInv, Stages, Forward, Turning, Applying, FileLabels
<1> QED BY <1>1, <1>2 DEF Works, Settles, Settling, Still, FileLabels, Ending, Errors

LEMMA UndoFilesSettle ==
    ASSUME IInv, FInv, UndoFiles, tx.pc \in Undoing \ {"undo_end"}
    PROVE  Settles
<1>1. PutsBack
  BY UndoFilesStep DEF IInv, World
<1>2. tx.error # "none"
  BY DEF FInv, Stages, Backward, Held, UndoLabels
<1> QED BY <1>1, <1>2 DEF PutsBack, Settles, Settling, Undoing, Ending

LEMMA UndoGitSettle ==
    ASSUME IInv, UndoIndex \/ UndoBranch \/ UndoLook \/ UndoBind
    PROVE  Settles
<1>1. tx.pc \notin Ending /\ UNCHANGED <<plan, touched, edited>>
  BY DEF UndoIndex, UndoBranch, UndoLook, UndoBind, At, Ending, files
<1>2. \/ \E l \in {"undo_head", "undo_look", "undo_bind", "undo_files"} : tx' = [tx EXCEPT !.pc = l] \/ tx' = NotRestored
      \/ tx' = [tx EXCEPT !.promoted = FALSE, !.indexBackup = FALSE, !.pc = "undo_head"]
      \/ tx' = [tx EXCEPT !.restoreFailed = TRUE, !.pc = "undo_head"]
  BY DEF UndoIndex, UndoBranch, UndoLook, UndoBind, Goto
<1>3. tx'.pc \in {"undo_head", "undo_look", "undo_bind", "undo_files"}
  BY <1>2, FieldSet DEF IInv, World, IsTx, NotRestored
<1> QED BY <1>1, <1>3 DEF Settles, Settling, Ending

(* The steps of the promise, from what a step of the application leaves.     *)
LEMMA Reporting ==
    ASSUME UNCHANGED <<plan, touched>>, ShownOK', tx'.abandoned = tx.abandoned
    PROVE  /\ Outcome = "pending" /\ Outcome' = "pending" => Promise!Work
           /\ Outcome = "pending" /\ Outcome' = "unknown" => Promise!Unknown
           /\ /\ Outcome = "pending" /\ Outcome' = "refused" /\ \A n \in Known : Show(n)' = Show(n)
              /\ \A n \in Known \ (touched \cup tx.abandoned) : Show(n) = "previous"
              => Promise!Refuse
           /\ /\ Outcome = "pending" /\ Outcome' = "applied" /\ \A n \in Known : Show(n)' = Show(n)
              /\ tx.abandoned = {} /\ \A n \in Known : Show(n) = "incoming"
              => Promise!Apply
<1>1. Known' = Known
  BY DEF Known, Was, Will
<1>2. [n \in Known |-> Show(n)]' \in [Known -> Promise!Views]
  BY <1>1 DEF ShownOK, Shows
<1>3. (\A n \in Known : Show(n)' = Show(n)) => [n \in Known |-> Show(n)]' = [n \in Known |-> Show(n)]
  BY <1>1
<1>4. /\ DOMAIN [n \in Known |-> Show(n)] = Known
      /\ \A m \in Known : [n \in Known |-> Show(n)][m] = Show(m)
      /\ (touched \cap Names)' = touched \cap Names
  OBVIOUS
<1>5. \A m \in Known : m \in Names
  BY DEF Known
<1> HIDE DEF Outcome, Show, Known
<1>6. Outcome = "pending" /\ Outcome' = "pending" => Promise!Work
  BY <1>2, <1>4 DEF Promise!Work
<1>7. Outcome = "pending" /\ Outcome' = "unknown" => Promise!Unknown
  BY <1>2, <1>4 DEF Promise!Unknown
<1>8. ASSUME Outcome = "pending", Outcome' = "refused", \A n \in Known : Show(n)' = Show(n),
             \A n \in Known \ (touched \cup tx.abandoned) : Show(n) = "previous"
      PROVE  Promise!Refuse
  BY <1>3, <1>4, <1>5, <1>8 DEF Promise!Refuse, Promise!Report
<1>9. ASSUME Outcome = "pending", Outcome' = "applied", \A n \in Known : Show(n)' = Show(n),
             tx.abandoned = {}, \A n \in Known : Show(n) = "incoming"
      PROVE  Promise!Apply
  BY <1>3, <1>4, <1>5, <1>9 DEF Promise!Apply, Promise!Report
<1> QED BY <1>6, <1>7, <1>8, <1>9

LEMMA SettlesMaps ==
    ASSUME IInv, FInv, FInv', ShownOK', Settles, tx'.abandoned = tx.abandoned
    PROVE  Promise!Next
<1>1. Outcome = "pending"
  BY DEF Settles, Outcome, Ending
<1>2. CASE tx'.pc \notin Ending
  <2>1. Outcome' = "pending"
    BY <1>2 DEF Outcome, Ending
  <2> QED BY <1>1, <2>1, Reporting DEF Settles, Promise!Next
<1>3. CASE tx'.pc \in Ending /\ tx'.error # "none" /\ (tx'.restoreFailed \/ tx'.error = "unknown")
  <2>1. Outcome' = "unknown"
    BY <1>3 DEF Outcome, Ending
  <2> QED BY <1>1, <2>1, Reporting DEF Settles, Promise!Next
<1>4. CASE /\ tx'.pc \in Ending /\ tx'.error # "none" /\ ~(tx'.restoreFailed \/ tx'.error = "unknown")
           /\ ~tx.mutated /\ \A n \in Names : at'[n] = at[n]
  <2>1. Outcome' = "refused"
    BY <1>4 DEF Outcome, Ending
  <2>2. AsFound
    BY <1>4 DEF Settles, FInv, Stages, Outset, Forward, Backward, IInv, Course, Before, Applying, UndoLabels,
                Going, First, Locked, FileLabels, HeadLabels
  <2>3. \A n \in Known : Show(n)' = Show(n)
    BY <1>4, ShowSame DEF Settles, Known
  <2>4. \A n \in Known \ touched : Show(n) = "previous"
    BY <2>2, ShowPrevious DEF AsFound, Known
  <2> QED BY <1>1, <2>1, <2>3, <2>4, Reporting DEF Settles, Promise!Next
<1> QED BY <1>2, <1>3, <1>4 DEF Settles, Settling

LEMMA FinalMaps ==
    ASSUME IInv, FInv, FInv', ShownOK', Final, tx'.abandoned = tx.abandoned
    PROVE  Promise!Next
<1>1. tx.pc = "final" /\ UNCHANGED <<plan, touched, edited, at>> /\ IsTx(tx) /\ tx.error = "none" /\ tx.mutated
  BY DEF Final, At, files, IInv, World, Course, Going
<1>2. Outcome = "pending"
  BY <1>1 DEF Outcome
<1>3. CASE LooksIncoming /\ tx' = [tx EXCEPT !.pc = "release"]
  <2>1. Outcome' = "applied"
    BY <1>1, <1>3, GotoMaterial DEF Outcome
  <2>2. \A n \in Known : Show(n)' = Show(n) /\ Show(n) = "incoming"
    BY <1>1, <1>3, ShowSame, ShowIncoming
  <2>3. tx.abandoned = {}
    BY <1>1 DEF FInv, Stages, Forward, Applying
  <2> QED BY <1>1, <1>2, <2>1, <2>2, <2>3, Reporting DEF Promise!Next
<1>4. CASE \E e \in Errors : tx' = Fails(tx, e)
  <2>1. tx'.pc = "undo_index"
    BY <1>1, <1>4, FailsTx
  <2>2. Outcome' = "pending"
    BY <2>1 DEF Outcome
  <2> QED BY <1>1, <1>2, <2>2, Reporting DEF Promise!Next
<1>5. (LooksIncoming /\ tx' = [tx EXCEPT !.pc = "release"]) \/ tx' = Fails(tx, "unknown") \/ tx' = Fails(tx, "failed")
  BY DEF Final, Fail
<1> QED BY <1>3, <1>4, <1>5 DEF Errors

(* What the rollback leaves where it reports that nothing happened.          *)
LEMMA UndoEndMaps ==
    ASSUME IInv, FInv, FInv', ShownOK', UndoEnd, tx'.abandoned = tx.abandoned
    PROVE  Promise!Next
<1> DEFINE dirs == Missing(tx.pinned)
<1>1. /\ tx.pc = "undo_end" /\ UNCHANGED <<plan, touched, edited>> /\ at' = MakeDirs(dirs)
      /\ \/ /\ tx' = [tx EXCEPT !.mutated = FALSE, !.pc = "release"]
            /\ \A n \in Known \ tx.keepPath : Was(n) => IsPrevious(n)
         \/ tx' = GiveUp(tx)
  BY DEF UndoEnd, At
<1>2. /\ Base /\ Backward /\ IsTx(tx) /\ tx.error # "none"
      /\ at \in [Names -> Nodes]
  BY <1>1 DEF FInv, Stages, Backward, Held, UndoLabels, Undoing, IInv, World, Base, Place
<1>3. \A n \in Names : at'[n] = IF n \in dirs /\ at[n] = "none" THEN "mdir" ELSE at[n]
  BY <1>1, <1>2, Making
<1>4. Outcome = "pending"
  BY <1>1 DEF Outcome
<1>5. \A n \in Known : Show(n)' = Show(n)
  BY <1>1, <1>3, ShowSame DEF Known, FileNodes
<1> HIDE DEF dirs
<1>6. CASE tx' = GiveUp(tx)
  <2>1. tx'.restoreFailed = TRUE /\ tx'.error # "none" /\ tx'.pc = "release"
    BY <1>2, <1>6, GiveUpTx
  <2>2. Outcome' = "unknown"
    BY <2>1 DEF Outcome
  <2> QED BY <1>1, <1>4, <2>2, Reporting DEF Promise!Next
<1>7. CASE /\ tx' = [tx EXCEPT !.mutated = FALSE, !.pc = "release"]
           /\ \A n \in Known \ tx.keepPath : Was(n) => IsPrevious(n)
  <2>1. tx'.pc = "release" /\ tx'.error = tx.error /\ tx'.restoreFailed = tx.restoreFailed
    BY <1>2, <1>7, FieldSet DEF IsTx
  <2>2. CASE tx.restoreFailed \/ tx.error = "unknown"
    <3>1. Outcome' = "unknown"
      BY <1>2, <2>1, <2>2 DEF Outcome
    <3> QED BY <1>1, <1>4, <3>1, Reporting DEF Promise!Next
  <2>3. CASE ~(tx.restoreFailed \/ tx.error = "unknown")
    <3>1. Outcome' = "refused"
      BY <1>2, <2>1, <2>3 DEF Outcome
    <3>2. taken = None /\ tx.keepAside = {} /\ \A n \in Names : quarantine[n] = "none"
      BY <1>1, <1>2, <2>3 DEF Backward, Held, Stuck
    <3>3. ASSUME NEW n \in Known, n \notin touched, n \notin tx.abandoned
          PROVE  IF Was(n) THEN at[n] = "old" ELSE at[n] \notin FileNodes
      <4>1. CASE Was(n) /\ n \notin tx.keepPath
        BY <1>7, <4>1 DEF IsPrevious
      <4>2. CASE n \in tx.keepPath
        <5>1. Was(n) /\ n \in Names
          BY <1>2, <4>2 DEF Base
        <5>2. "old" \in {at[n], taken[n], quarantine[n]}
          BY <1>2, <3>2, <3>3, <4>2 DEF Backward, Spared, Solid, Stays
        <5>3. taken[n] = "none" /\ quarantine[n] = "none"
          BY <3>2, <5>1, PlaceNone
        <5> QED BY <5>1, <5>2, <5>3
      <4>3. CASE ~Was(n)
        <5>1. n \in Names /\ Will(n)
          BY <4>3 DEF Known
        <5>2. PICK i \in 1..Len(PathOrder) : PathOrder[i] = n
          BY <5>1, PathsAssumption
        <5>3. /\ Half \in Nat /\ i + Half \in 1..2 * Half /\ ~(i + Half <= Half) /\ (i + Half) - Half = i
          BY PathsAssumption DEF Half
        <5>4. i + Half \in Entries /\ Entry(i + Half) = n
          BY <5>1, <5>2, <5>3 DEF Entries, Entry
        <5> QED BY <1>1, <1>2, <3>3, <4>3, <5>4 DEF Backward, Undone
      <4> QED BY <4>1, <4>2, <4>3
    <3>4. \A n \in Known \ (touched \cup tx.abandoned) : Show(n) = "previous"
      BY <3>3, ShowPrevious
    <3> QED BY <1>1, <1>4, <1>5, <3>1, <3>4, Reporting DEF Promise!Next
  <2> QED BY <2>2, <2>3
<1> QED BY <1>1, <1>6, <1>7

(* The step that takes a failing rename for a leaf in the way, and what the  *)
(* others leave alone.                                                       *)
GivesPathUp ==
  /\ tx.pc = "install" /\ Was(Record)
  /\ UNCHANGED <<plan, at, edited, touched>>
  /\ tx' = Fails([tx EXCEPT !.keepPath = @ \cup {Record}, !.abandoned = {Record}], "conflict")

LEMMA GivesPathUpMaps ==
    ASSUME IInv, FInv, FInv', GivesPathUp
    PROVE  Promise!Next
<1> DEFINE t == [tx EXCEPT !.keepPath = @ \cup {Record}, !.abandoned = {Record}]
<1>1. /\ tx.pc = "install" /\ Was(Record) /\ UNCHANGED <<plan, at, edited, touched>>
      /\ tx' = Fails(t, "conflict") /\ IsTx(tx)
  BY DEF GivesPathUp, IInv, World
<1>2. tx.abandoned = {} /\ tx.mutated /\ tx.k \in Entries
  <2>1. tx.pc \in Applying /\ tx.pc \in Turned
    BY <1>1 DEF Applying, FileLabels, Turned
  <2>2. Base /\ Forward /\ Turning
    BY <2>1 DEF FInv, Stages
  <2> QED BY <1>1, <2>1, <2>2 DEF Base, Forward, Turning
<1>3. Record \in Known
  BY <1>1, <1>2, EntryType DEF Record, Known
<1>4. IsTx(t) /\ t.mutated = tx.mutated /\ t.abandoned = {Record}
  BY <1>1, FieldSet DEF IsTx
<1> HIDE DEF t
<1>11. tx.mutated = TRUE
  BY <1>1, <1>2 DEF FInv, Base
<1>5. tx'.pc = "undo_index" /\ tx'.abandoned = {Record}
  BY <1>1, <1>4, <1>11, FailsMaterial DEF SameMaterial
<1>6. Outcome = "pending" /\ Outcome' = "pending"
  BY <1>1, <1>5 DEF Outcome
<1>7. \A n \in Known : Show(n)' = Show(n)
  BY <1>1, ShowSame DEF Known
<1>8. Known' = Known
  BY <1>1 DEF Known, Was, Will
<1> HIDE DEF Known, Show, Outcome
<1>9. [n \in Known |-> Show(n)]' = [n \in Known |-> Show(n)]
  BY <1>7, <1>8
<1>10. Promise!Abandon
  BY <1>1, <1>2, <1>3, <1>5, <1>6, <1>9 DEF Promise!Abandon
<1> QED BY <1>10 DEF Promise!Next

LEMMA GitKeepsPaths ==
    ASSUME IsTx(tx), ApplyGit
    PROVE  tx'.abandoned = tx.abandoned
<1> DEFINE Like(t) == IsTx(t) /\ t.abandoned = tx.abandoned
<1>1. CASE PrepareIndex
  <2> DEFINE t == [tx EXCEPT !.lock = TRUE, !.indexBackup = TRUE]
  <2>1. tx' = [t EXCEPT !.pc = "reobserve"] \/ tx' = Fails(tx, "conflict")
    BY <1>1 DEF PrepareIndex, Fail
  <2>2. Like(t) /\ Like(tx)
    BY FieldSet DEF IsTx
  <2> HIDE DEF t
  <2> QED BY <2>1, <2>2, FieldSet DEF IsTx, Fails
<1>2. CASE UpdateHEAD
  <2> DEFINE u == [NoUpdate EXCEPT !.binding = binding, !.head = HEAD,
                                   !.ref = IF Detached THEN "none" ELSE ref[plan.to]]
             t == [tx EXCEPT !.update = u]
  <2>1. tx' = [t EXCEPT !.pc = "bind"] \/ tx' = Fails(tx, "conflict")
    BY <1>2 DEF UpdateHEAD
  <2> HIDE DEF u
  <2>2. Like(t) /\ Like(tx)
    BY FieldSet DEF IsTx
  <2> HIDE DEF t
  <2> QED BY <2>1, <2>2, FieldSet DEF IsTx, Fails
<1>3. CASE BindHEAD
  <2> DEFINE changed == tx.update.binding # plan.to \/ (Detached /\ tx.update.head # "new")
             t == [tx EXCEPT !.update.known = TRUE, !.update.headChanged = changed]
             s == [tx EXCEPT !.update.known = TRUE]
  <2>1. \/ tx' = [tx EXCEPT !.update.known = TRUE, !.update.headChanged = changed,
                            !.pc = IF Detached THEN "promote" ELSE "move"]
        \/ tx' = Reconciled(tx)
    BY <1>3 DEF BindHEAD
  <2>2. tx' = Reconciled(tx) => tx' = Fails(t, "failed") \/ tx' = Fails(s, "failed") \/ tx' = Fails(s, "unknown")
    BY DEF Reconciled
  <2> HIDE DEF changed
  <2>3. tx' = Reconciled(tx) \/ tx' = [t EXCEPT !.pc = IF Detached THEN "promote" ELSE "move"]
    BY <2>1
  <2>4. Like(t) /\ Like(s)
    BY FieldSet DEF IsTx
  <2> HIDE DEF t, s
  <2> QED BY <2>2, <2>3, <2>4, FieldSet DEF IsTx, Fails
<1>4. CASE MoveBranch
  <2> DEFINE t == Advanced(tx)
  <2>1. \/ tx' = [t EXCEPT !.pc = "promote"] \/ tx' = Fails(t, "failed")
        \/ tx' = Fails(tx, "failed") \/ tx' = Fails(tx, "unknown")
    BY <1>4 DEF MoveBranch
  <2>2. Like(t) /\ Like(tx)
    BY FieldSet DEF IsTx, Advanced
  <2> HIDE DEF t
  <2> QED BY <2>1, <2>2, FieldSet DEF IsTx, Fails
<1>5. CASE Promote
  <2> DEFINE t == [tx EXCEPT !.promoted = TRUE, !.lock = FALSE]
  <2>1. tx' = [t EXCEPT !.pc = "final"] \/ tx' = Fails(tx, "failed")
    BY <1>5 DEF Promote, Fail
  <2>2. Like(t) /\ Like(tx)
    BY FieldSet DEF IsTx
  <2> HIDE DEF t
  <2> QED BY <2>1, <2>2, FieldSet DEF IsTx, Fails
<1> QED BY <1>1, <1>2, <1>3, <1>4, <1>5 DEF ApplyGit

LEMMA OthersKeepPaths ==
    ASSUME IInv, Transaction
    PROVE  tx'.abandoned = tx.abandoned \/ GivesPathUp
<1> IsTx(tx)
  BY DEF IInv, World
<1> USE FieldSet DEF IsTx
<1>1. CASE Observe \/ Import \/ Reobserve \/ Final
  <2>1. CASE Observe
    BY <2>1 DEF Observe, Goto, Fail, Fails
  <2>2. CASE Import
    BY <2>2 DEF Import, Goto, Fail, Fails
  <2>3. CASE Reobserve
    BY <2>3 DEF Reobserve, Goto, Fail, Fails
  <2>4. CASE Final
    BY <2>4 DEF Final, Goto, Fail, Fails
  <2> QED BY <1>1, <2>1, <2>2, <2>3, <2>4
<1>2. CASE ApplyGit
  BY <1>2, GitKeepsPaths
<1>3. CASE UndoGit
  <2>1. CASE UndoIndex
    BY <1>3, <2>1 DEF UndoIndex, Goto
  <2>2. CASE UndoBranch
    <3>1. (\E l : tx' = [tx EXCEPT !.pc = l]) \/ tx' = NotRestored
      BY <2>2 DEF UndoBranch, Goto
    <3> QED BY <3>1 DEF NotRestored
  <2>3. CASE UndoLook
    <3>1. (\E l : tx' = [tx EXCEPT !.pc = l]) \/ tx' = NotRestored
      BY <2>3 DEF UndoLook
    <3> QED BY <3>1 DEF NotRestored
  <2>4. CASE UndoBind
    <3>1. (\E l : tx' = [tx EXCEPT !.pc = l]) \/ tx' = NotRestored
      BY <2>4 DEF UndoBind, Goto
    <3> QED BY <3>1 DEF NotRestored
  <2>5. CASE ReleaseIndex
    BY <2>5 DEF ReleaseIndex
  <2> QED BY <1>3, <2>1, <2>2, <2>3, <2>4, <2>5 DEF UndoGit
<1>4. CASE ApplyFault
  BY <1>4 DEF ApplyFault, Abandons, At, Fail, Fails, GivesPathUp, files
<1>5. CASE Stage
  BY <1>5 DEF Stage, Fail, Fails, NextRecord
<1>6. CASE Clear \/ Cleared \/ Compare \/ Displace \/ VerifyAside \/ Install \/ Applied
  BY <1>6 DEF Clear, Cleared, Compare, Displace, VerifyAside, Install, Applied, Goto, Fail, Fails
<1>7. CASE Drop
  BY <1>7 DEF Drop, Fail, Fails, NextRecord
<1>8. CASE UndoFiles
  BY <1>8 DEF UndoFiles, UndoCheck, Undo, UndoTake, UndoVerify, UndoClear, UndoCleared, UndoPut, UndoEnd,
              ReleaseFiles, Previously, GiveUp, Goto
<1> QED BY <1>1, <1>2, <1>3, <1>4, <1>5, <1>6, <1>7, <1>8 DEF Transaction, ApplyFiles

(* Once it has reported, an application moves no file anybody sees.          *)
LEMMA EndMaps ==
    ASSUME IInv, FInv, FInv', ReleaseFiles \/ ReleaseIndex \/ UNCHANGED vars, tx'.abandoned = tx.abandoned
    PROVE  UNCHANGED Promise!vars
<1>1. UNCHANGED <<plan, touched, edited>>
  BY DEF ReleaseFiles, ReleaseIndex, vars, files
<1>2. \A n \in Names : at'[n] = at[n] \/ (at[n] \notin FileNodes /\ at'[n] \notin FileNodes)
  BY DEF ReleaseFiles, ReleaseIndex, vars, files, Hollow, FileNodes
<1>3. Outcome' = Outcome
  <2>1. CASE UNCHANGED vars
    BY <2>1 DEF vars, Outcome
  <2>2. CASE ReleaseFiles \/ ReleaseIndex
    <3>1. tx.pc \in Ending /\ tx'.pc \in Ending /\ tx'.error = tx.error /\ tx'.restoreFailed = tx.restoreFailed
      BY <2>2, FieldSet DEF ReleaseFiles, ReleaseIndex, At, Goto, Ending, IInv, World, IsTx
    <3> QED BY <3>1 DEF Outcome, Ending
  <2> QED BY <2>1, <2>2
<1>4. Known' = Known
  BY <1>1 DEF Known, Was, Will
<1>5. \A n \in Known : Show(n)' = Show(n)
  BY <1>1, <1>2, ShowSame DEF Known
<1> HIDE DEF Known, Show, Outcome
<1>6. [n \in Known |-> Show(n)]' = [n \in Known |-> Show(n)]
  BY <1>4, <1>5
<1> QED BY <1>1, <1>3, <1>6 DEF Promise!vars

(* People do something at one path at a time.                                *)
LEMMA PeopleMap ==
    ASSUME IInv, FInv, FInv', ShownOK, ShownOK', People
    PROVE  Promise!Next \/ UNCHANGED Promise!vars
<1>1. UNCHANGED <<plan, tx>> /\ Outcome' = Outcome /\ Known' = Known
  BY PeopleTick DEF People, Write, Edit, Remove, MakeDir, RemoveDir, Commit, GitAdd, HoldIndex, LeaveIndex,
     Switch, MoveRef, Act, Outcome, Known, Was, Will
<1>2. ASSUME NEW x, touched' = touched \cup {x}, x \in Names \cup {"git"},
             \A n \in Known : n # x => Show(n)' = Show(n)
      PROVE  Promise!People \/ UNCHANGED Promise!vars
  <2>1. CASE x \in Names
    <3> DEFINE v == IF x \in Known THEN Show(x)' ELSE "theirs"
    <3>1. v \in Promise!Views
      BY <1>1 DEF ShownOK, Shows, Promise!Views
    <3>2. (touched \cap Names)' = (touched \cap Names) \cup {x}
      BY <1>2, <2>1
    <3>3. [n \in Known |-> Show(n)]' = [m \in Known |-> IF m = x THEN v ELSE [n \in Known |-> Show(n)][m]]
      BY <1>1, <1>2
    <3> QED BY <1>1, <2>1, <3>1, <3>2, <3>3 DEF Promise!People
  <2>2. CASE x \notin Names
    <3>1. \A n \in Known : Show(n)' = Show(n)
      BY <1>2, <2>2 DEF Known
    <3> QED BY <1>1, <1>2, <2>2, <3>1 DEF Promise!vars
  <2> QED BY <2>1, <2>2
<1>3. ASSUME NEW x \in Names, Write(x) \/ Edit(x) \/ Remove(x) \/ MakeDir(x) \/ RemoveDir(x)
      PROVE  Promise!People \/ UNCHANGED Promise!vars
  <2>1. touched' = touched \cup {x}
    BY <1>3 DEF Write, Edit, Remove, MakeDir, RemoveDir, Act
  <2>2. ASSUME NEW n \in Known, n # x
        PROVE  at'[n] = at[n] /\ \A v : <<v, n>> \in edited' <=> <<v, n>> \in edited
    BY <1>3, <2>2 DEF Write, Edit, Remove, MakeDir, RemoveDir, Known, FInv, Base, Place
  <2>3. ASSUME NEW n \in Known, n # x
        PROVE  Show(n)' = Show(n)
    BY <1>1, <2>2, <2>3 DEF Show, IsPrevious, IsIncoming, Hidden, Was, Will
  <2> QED BY <1>2, <2>1, <2>3
<1>4. CASE Commit \/ GitAdd \/ HoldIndex \/ LeaveIndex \/ \E b \in Branches : Switch(b) \/ MoveRef(b)
  <2>1. UNCHANGED <<at, edited>>
    BY <1>4 DEF Commit, GitAdd, HoldIndex, LeaveIndex, Switch, MoveRef, OnGit, files
  <2>2. touched' = touched \cup {"git"} \/ touched' = touched
    BY <1>4 DEF Commit, GitAdd, HoldIndex, LeaveIndex, Switch, MoveRef, Act, files
  <2>3. \A n \in Known : Show(n)' = Show(n)
    BY <1>1, <2>1, ShowSame
  <2>4. CASE touched' = touched
    BY <1>1, <2>3, <2>4 DEF Promise!vars
  <2> QED BY <1>2, <2>2, <2>3, <2>4 DEF Promise!Next
<1> QED BY <1>3, <1>4 DEF People, Promise!Next

LEMMA InitMaps == Init => Promise!Init
<1> SUFFICES ASSUME Init PROVE Promise!Init
  OBVIOUS
<1>1. FInv /\ touched = {} /\ tx.pc = "observe" /\ tx.abandoned = {}
  BY InitMaterial DEF Init, Begun
<1>2. AsFound
  BY <1>1 DEF FInv, Stages, Outset, Before, First
<1>3. \A n \in Known : Show(n) = "previous"
  BY <1>1, <1>2, ShowPrevious DEF AsFound, Known
<1>4. Outcome = "pending"
  BY <1>1 DEF Outcome
<1>5. Known \in SUBSET Names
  BY DEF Known
<1> HIDE DEF Known, Show, Outcome
<1>6. [n \in Known |-> Show(n)] = [n \in Known |-> "previous"]
  BY <1>3
<1> QED BY <1>1, <1>4, <1>5, <1>6 DEF Promise!Init

(* An application keeps the promise of AtomicReplacement: it reports that it *)
(* applied the incoming files when all of them are there at once, and that   *)
(* it refused when every path nobody touched shows the previous file, but    *)
(* for the one path whose installation failed (ApplyCheckoutTransaction,     *)
(* with Apply and Rollback).                                                 *)
THEOREM AppliesAllOrNothing == Spec => AllOrNothing
<1>1. IInv /\ FInv /\ FInv' /\ ShownOK /\ ShownOK' /\ [Next]_vars => [Promise!Next]_(Promise!vars)
  <2> SUFFICES ASSUME IInv, FInv, FInv', ShownOK, ShownOK', [Next]_vars
               PROVE  Promise!Next \/ UNCHANGED Promise!vars
    OBVIOUS
  <2>0. Transaction => tx'.abandoned = tx.abandoned \/ GivesPathUp
    BY OthersKeepPaths
  <2>5. CASE GivesPathUp
    BY <2>5, GivesPathUpMaps
  <2>6. CASE People \/ UNCHANGED vars
    <3>1. UNCHANGED vars => tx'.abandoned = tx.abandoned
      BY DEF vars
    <3> QED BY <2>6, <3>1, PeopleMap, EndMaps
  <2> SUFFICES ASSUME Transaction, tx'.abandoned = tx.abandoned
               PROVE  Promise!Next \/ UNCHANGED Promise!vars
    BY <2>0, <2>5, <2>6 DEF Next
  <2>1. CASE Observe \/ Import \/ Reobserve \/ ApplyFiles \/ ApplyGit
    <3>1. Settles
      BY <2>1, LooksSettle, HeadSettles, ApplyFilesSettles DEF ApplyGit, IInv, World
    <3> QED BY <3>1, SettlesMaps
  <2>2. CASE UndoFiles
    <3>1. CASE UndoEnd
      BY <3>1, UndoEndMaps
    <3>2. CASE ReleaseFiles
      BY <3>2, EndMaps
    <3>3. CASE UndoCheck \/ Undo \/ UndoTake \/ UndoVerify \/ UndoClear \/ UndoCleared \/ UndoPut
      <4>1. tx.pc \in Undoing \ {"undo_end"}
        BY <3>3 DEF UndoCheck, Undo, UndoTake, UndoVerify, UndoClear, UndoCleared, UndoPut, At, Undoing
      <4> QED BY <2>2, <4>1, UndoFilesSettle, SettlesMaps
    <3> QED BY <2>2, <3>1, <3>2, <3>3 DEF UndoFiles
  <2>3. CASE UndoGit
    BY <2>3, UndoGitSettle, SettlesMaps, EndMaps DEF UndoGit
  <2> QED BY <2>1, <2>2, <2>3, FinalMaps DEF Transaction
<1>2. FInv => ShownOK
  BY ShowType
<1> QED BY InitMaps, FilesInvariance, <1>1, <1>2, PTL DEF Spec, AllOrNothing, Promise!Spec
===============================================================================
