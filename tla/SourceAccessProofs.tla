------------------------- MODULE SourceAccessProofs -------------------------
(* What holds of source access for any number of commands, Boxes, names and *)
(* accounts, and for any bounds.                                            *)
EXTENDS SourceAccess, TLAPS

(* A command past its locks, except a disconnect that found no binding, is *)
(* about a Box.                                                            *)
HasBox == \A p \in Procs : proc[p].pc \in Locked \ {"unbound"} => proc[p].box \in Boxes

(* A command past its locks holds the account lock. *)
HoldsLock == \A p \in Procs : proc[p].pc \in Locked => accountLock = p

(* What every step preserves before anything is said of the data. *)
Core == TypeOK /\ HasBox /\ HoldsLock

(* TypeOK of what is stored, on the Boxes and at GitHub. *)
DataOK ==
    /\ account \in Accounts \cup {None}
    /\ bindings \in [Boxes -> Binding]
    /\ boxKey \in [Boxes -> 0..MaxKeys]
    /\ remoteKeys \subseteq RemoteKey
    /\ inFlight \subseteq [box : Boxes, key : 1..MaxKeys, acct : Accounts]
    /\ used \in [keys : [Boxes -> 0..MaxKeys], ids : 0..MaxIDs,
                 connects : 0..MaxConnects, crashes : 0..MaxCrashes]

-----------------------------------------------------------------------------
(* Lemmas on the helpers of the model. *)

LEMMA IdleType == Idle \in Invocation /\ NoBinding \in Binding
BY SourceConstants DEF Idle, NoBinding, Invocation, Binding, Unlocked, Locked, States

LEMMA InitCore == Init => Core
<1> SUFFICES ASSUME Init PROVE Core
  OBVIOUS
<1>1. used \in [keys : [Boxes -> 0..MaxKeys], ids : 0..MaxIDs,
                connects : 0..MaxConnects, crashes : 0..MaxCrashes]
  BY SourceConstants DEF Init
<1>2. proc \in [Procs -> Invocation] /\ bindings \in [Boxes -> Binding]
  BY IdleType DEF Init
<1>3. TypeOK
  BY <1>1, <1>2, SourceConstants DEF Init, TypeOK
<1>4. HasBox /\ HoldsLock
  BY DEF Init, HasBox, HoldsLock, Idle, Locked
<1> QED BY <1>3, <1>4 DEF Core

(* Only p moves, and it stays an invocation. *)
Moves(p) ==
    /\ proc' \in [Procs -> Invocation]
    /\ \A q \in Procs \ {p} : proc'[q] = proc[q]

(* The locks stay locks, and no other command loses or gains one. *)
LocksOf(p) ==
    /\ accountLock' \in Procs \cup {None}
    /\ boxLock' \in [LockIDs -> Procs \cup {None}]
    /\ \A q \in Procs \ {p} : accountLock = q => accountLock' = q

LEMMA UpdateMoves ==
    ASSUME TypeOK, NEW p \in Procs, NEW inv \in Invocation, Update(p, inv)
    PROVE  Moves(p) /\ proc'[p] = inv
BY DEF TypeOK, Update, Moves

LEMMA ReturnMoves ==
    ASSUME TypeOK, NEW p \in Procs, Return(p)
    PROVE  Moves(p) /\ LocksOf(p) /\ proc'[p] = Idle
BY SourceConstants, IdleType DEF TypeOK, Return, Update, Release, Moves, LocksOf

LEMMA LocksKept ==
    ASSUME TypeOK, NEW p \in Procs, UNCHANGED Locks
    PROVE  LocksOf(p) /\ accountLock' = accountLock
BY DEF TypeOK, LocksOf, Locks

LEMMA GotoMoves ==
    ASSUME TypeOK, NEW p \in Procs, NEW label \in Unlocked \cup Locked, Goto(p, label)
    PROVE  /\ Moves(p)
           /\ proc'[p] = [proc[p] EXCEPT !.pc = label]
           /\ proc'[p].pc = label /\ proc'[p].box = proc[p].box
BY DEF TypeOK, Goto, Update, Moves, Invocation

LEMMA AcquireLocks ==
    ASSUME TypeOK, NEW p \in Procs, NEW i \in LockIDs, Acquire(p, i)
    PROVE  LocksOf(p) /\ accountLock = None /\ accountLock' = p
BY SourceConstants DEF TypeOK, Acquire, LocksOf

LEMMA SaveType ==
    ASSUME TypeOK, NEW b \in Boxes, NEW bind \in Binding, SaveBinding(b, bind)
    PROVE  bindings' \in [Boxes -> Binding]
BY DEF TypeOK, SaveBinding

LEMMA FieldTypes ==
    ASSUME TypeOK, NEW p \in Procs
    PROVE  /\ proc[p] \in Invocation /\ proc[p].bind \in Binding
           /\ proc[p].pc \in Unlocked \cup Locked
           /\ proc[p].name \in Names \cup {None} /\ proc[p].acct \in Accounts \cup {None}
           /\ proc[p].box \in Boxes \cup {None}
BY DEF TypeOK, Invocation

LEMMA StateType ==
    ASSUME NEW bind \in Binding, NEW s \in States
    PROVE  [bind EXCEPT !.state = s] \in Binding
BY DEF Binding

LEMMA IdType ==
    ASSUME NEW bind \in Binding, NEW i \in 0..MaxIDs
    PROVE  [bind EXCEPT !.id = i] \in Binding
BY DEF Binding

(* An invocation that moves on with another binding is an invocation. *)
LEMMA BindType ==
    ASSUME NEW inv \in Invocation, NEW bind \in Binding, NEW label \in Unlocked \cup Locked
    PROVE  [inv EXCEPT !.pc = label, !.bind = bind] \in Invocation
BY DEF Invocation

(* What is left to show of a step that moves p. *)
LEMMA CoreOfMove ==
    ASSUME Core, NEW p \in Procs, Moves(p), LocksOf(p),
           DataOK',
           proc'[p].pc \in Locked => accountLock' = p,
           proc'[p].pc \in Locked \ {"unbound"} => proc'[p].box \in Boxes
    PROVE  Core'
BY DEF Core, TypeOK, DataOK, Moves, LocksOf, HasBox, HoldsLock

(* A step after which p is idle, or stays where it was with its locks. *)
LEMMA CoreOfReturn ==
    ASSUME Core, NEW p \in Procs, Return(p),
           DataOK'
    PROVE  Core'
<1>1. Moves(p) /\ LocksOf(p) /\ proc'[p].pc \notin Locked
  BY ReturnMoves DEF Core, Idle, Locked
<1> QED BY <1>1, CoreOfMove

LEMMA CoreOfGoto ==
    ASSUME Core, NEW p \in Procs, proc[p].pc \in Locked \ {"unbound"},
           NEW label \in Locked \ {"unbound"}, Goto(p, label), UNCHANGED Locks,
           DataOK'
    PROVE  Core'
<1>1. Moves(p) /\ proc'[p].pc = label /\ proc'[p].box = proc[p].box
  BY GotoMoves DEF Core
<1>2. LocksOf(p) /\ accountLock' = p
  BY LocksKept DEF Core, HoldsLock
<1> QED BY <1>1, <1>2, CoreOfMove DEF Core, HasBox

(* A step of p leaves what is stored, on the Boxes and at GitHub alone. *)
LEMMA DataKept ==
    ASSUME TypeOK, UNCHANGED <<account, bindings, Remote, used>>
    PROVE  DataOK'
BY DEF TypeOK, DataOK, Remote

(* A step of p saves a binding. *)
LEMMA DataSaved ==
    ASSUME TypeOK, NEW b \in Boxes, NEW bind \in Binding, SaveBinding(b, bind),
           UNCHANGED <<account, Remote, used>>
    PROVE  DataOK'
BY SaveType DEF TypeOK, DataOK, Remote

(* A step of p registers a key. *)
LEMMA DataRegistered ==
    ASSUME TypeOK, NEW b \in Boxes, NEW key \in 1..MaxKeys, NEW a \in Accounts, Register(b, key, a),
           UNCHANGED <<account, bindings, boxKey>>, inFlight' \subseteq inFlight
    PROVE  DataOK'
<1>1. used.ids + 1 \in 1..MaxIDs
  BY SourceConstants DEF TypeOK, Register
<1>2. remoteKeys' \subseteq RemoteKey
  BY <1>1 DEF TypeOK, Register, RemoteKey
<1>3. used' \in [keys : [Boxes -> 0..MaxKeys], ids : 0..MaxIDs,
                 connects : 0..MaxConnects, crashes : 0..MaxCrashes]
  BY <1>1 DEF TypeOK, Register
<1> QED BY <1>2, <1>3 DEF TypeOK, DataOK

(* The phases of a connect once it has resolved its account. *)
Working == {"c_ensure", "c_save", "c_register", "c_record", "c_verify", "c_done"}

(* From its checkpoint on, a connect acts on the key the Box holds, for    *)
(* the account it resolved; once GitHub has shown it the key, GitHub has   *)
(* it.                                                                     *)
ConsistentWith(inv, held, registered) ==
    /\ inv.pc \in Working => inv.acct \in Accounts
    /\ inv.pc \in Working \ {"c_ensure"} =>
        /\ inv.bind.state = "connecting" /\ inv.bind.acct = inv.acct
        /\ inv.bind.key = held[inv.box] /\ inv.bind.key \in 1..MaxKeys
    /\ inv.pc \in {"c_record", "c_verify", "c_done"} =>
        \E k \in registered : k.box = inv.box /\ k.key = inv.bind.key /\ k.acct = inv.acct

Saved == \A p \in Procs : ConsistentWith(proc[p], boxKey, remoteKeys)

-----------------------------------------------------------------------------
LEMMA ConnectCore == ASSUME Core, Saved, NEW p \in Procs, Connect(p) PROVE Core'
<1> USE DEF Core
<1> TypeOK OBVIOUS
<1>1. ASSUME NEW b \in Boxes, NEW n \in Names, ConnectBegin(p, b, n) PROVE Core'
  <2> DEFINE inv == [Idle EXCEPT !.pc = "c_account", !.op = "connect", !.box = b,
                                 !.name = n, !.target = TRUE, !.fresh = account = None]
  <2>1. inv \in Invocation /\ inv.pc = "c_account" /\ inv.box = b
    BY IdleType DEF Invocation, Idle, Locked
  <2>2. Moves(p) /\ proc'[p] = inv
    BY <1>1, <2>1, UpdateMoves DEF ConnectBegin
  <2>3. LocksOf(p) /\ accountLock' = p
    BY <1>1, AcquireLocks DEF ConnectBegin, LockIDs
  <2>4. DataOK'
    BY <1>1, SourceConstants DEF ConnectBegin, TypeOK, DataOK, Remote
  <2> QED BY <2>1, <2>2, <2>3, <2>4, CoreOfMove
<1>2. ASSUME NEW allow \in BOOLEAN, NEW a \in Accounts, ConnectResolveAccount(p, allow, a) PROVE Core'
  <2> DEFINE bind == bindings[proc[p].box]
             label == IF bind.acct \in {None, a} THEN "c_ensure" ELSE "c_undo"
  <2>1. proc[p].pc = "c_account" /\ proc[p].box \in Boxes /\ accountLock = p
    BY <1>2 DEF ConnectResolveAccount, HasBox, HoldsLock, Locked
  <2>2. DataOK'
    BY <1>2 DEF ConnectResolveAccount, ResolveAccount, TypeOK, DataOK, Remote
  <2>3. CASE Return(p)
    BY <2>2, <2>3, CoreOfReturn
  <2>4. CASE Update(p, [proc[p] EXCEPT !.acct = a, !.bind = bind, !.pc = label]) /\ UNCHANGED Locks
    <3>1. bind \in Binding /\ label \in Unlocked \cup Locked
      BY <2>1 DEF TypeOK, Locked
    <3> HIDE DEF bind, label
    <3>2. [proc[p] EXCEPT !.acct = a, !.bind = bind, !.pc = label] \in Invocation
      BY <3>1, FieldTypes DEF Invocation
    <3>3. Moves(p) /\ proc'[p] = [proc[p] EXCEPT !.acct = a, !.bind = bind, !.pc = label]
      BY <2>4, <3>2, UpdateMoves
    <3>4. proc'[p].box = proc[p].box
      BY <3>3, FieldTypes DEF Invocation
    <3> QED BY <2>1, <2>2, <2>4, <3>3, <3>4, LocksKept, CoreOfMove
  <2> QED BY <1>2, <2>3, <2>4 DEF ConnectResolveAccount
<1>3. CASE ConnectUndo(p)
  <2>1. DataOK'
    BY <1>3 DEF ConnectUndo, CleanupUnboundAccount, TypeOK, DataOK, Remote
  <2> QED BY <1>3, <2>1, CoreOfReturn DEF ConnectUndo
<1>4. CASE ConnectPreflight(p)
  BY <1>4, DataKept, CoreOfReturn DEF ConnectPreflight
<1>5. CASE ConnectEnsureIdentity(p)
  <2> DEFINE b == proc[p].box
             key == IF boxKey[b] # 0 THEN boxKey[b] ELSE used.keys[b] + 1
             bind == [state |-> "connecting", name |-> proc[p].name, acct |-> proc[p].acct,
                      key |-> key, id |-> proc[p].bind.id]
  <2>1. b \in Boxes /\ proc[p].pc = "c_ensure" /\ accountLock = p
    BY <1>5 DEF ConnectEnsureIdentity, HasBox, HoldsLock, Locked
  <2>2. key \in 1..MaxKeys
    BY <1>5, <2>1, SourceConstants DEF ConnectEnsureIdentity, TypeOK
  <2>3. boxKey' \in [Boxes -> 0..MaxKeys]
    <3>1. boxKey' = [boxKey EXCEPT ![b] = key]
      BY <1>5 DEF ConnectEnsureIdentity
    <3>2. boxKey \in [Boxes -> 0..MaxKeys] /\ key \in 0..MaxKeys
      BY <2>2 DEF TypeOK
    <3> HIDE DEF key, b
    <3> QED BY <3>1, <3>2
  <2>4. used' \in [keys : [Boxes -> 0..MaxKeys], ids : 0..MaxIDs,
                   connects : 0..MaxConnects, crashes : 0..MaxCrashes]
    <3> DEFINE most == IF key > used.keys[b] THEN key ELSE used.keys[b]
    <3>1. used' = [used EXCEPT !.keys = [used.keys EXCEPT ![b] = most]]
      BY <1>5 DEF ConnectEnsureIdentity, TypeOK
    <3>2. used.keys \in [Boxes -> 0..MaxKeys] /\ used.keys[b] \in 0..MaxKeys
      BY <2>1 DEF TypeOK
    <3>3. most \in 0..MaxKeys
      BY <2>2, <3>2
    <3> HIDE DEF most, key
    <3>4. [used.keys EXCEPT ![b] = most] \in [Boxes -> 0..MaxKeys]
      BY <3>2, <3>3
    <3> QED BY <3>1, <3>4 DEF TypeOK
  <2>5. DataOK'
    BY <1>5, <2>3, <2>4 DEF ConnectEnsureIdentity, TypeOK, DataOK
  <2>6. UNCHANGED Locks
    BY <1>5 DEF ConnectEnsureIdentity
  <2>7. CASE Goto(p, "c_undo")
    BY <2>1, <2>5, <2>6, <2>7, CoreOfGoto DEF Locked
  <2>8. CASE Update(p, [proc[p] EXCEPT !.pc = "c_save", !.bind = bind])
    <3>1. bind \in Binding
      BY <2>2, FieldTypes DEF Binding, States
    <3> HIDE DEF bind
    <3>2. [proc[p] EXCEPT !.pc = "c_save", !.bind = bind] \in Invocation
      BY <3>1, FieldTypes, BindType DEF Locked
    <3>3. Moves(p) /\ proc'[p] = [proc[p] EXCEPT !.pc = "c_save", !.bind = bind]
      BY <2>8, <3>2, UpdateMoves
    <3>4. proc'[p].box = proc[p].box
      BY <3>3, FieldTypes DEF Invocation
    <3> QED BY <2>1, <2>5, <2>6, <3>3, <3>4, LocksKept, CoreOfMove
  <2> QED BY <1>5, <2>7, <2>8 DEF ConnectEnsureIdentity
<1>6. CASE ConnectCheckpoint(p)
  <2>1. proc[p].box \in Boxes /\ accountLock = p
    BY <1>6 DEF ConnectCheckpoint, HasBox, HoldsLock, Locked
  <2>2. DataOK'
    BY <1>6, <2>1, DataSaved, FieldTypes DEF ConnectCheckpoint
  <2>3. [proc[p] EXCEPT !.pc = "c_register", !.fresh = FALSE] \in Invocation
    BY FieldTypes DEF Invocation, Locked
  <2>4. Moves(p) /\ proc'[p] = [proc[p] EXCEPT !.pc = "c_register", !.fresh = FALSE]
    BY <1>6, <2>3, UpdateMoves DEF ConnectCheckpoint
  <2>5. proc'[p].box = proc[p].box
    BY <2>4, FieldTypes DEF Invocation
  <2> QED BY <1>6, <2>1, <2>2, <2>4, <2>5, LocksKept, CoreOfMove DEF ConnectCheckpoint
<1>7. CASE ConnectFindKey(p)
  <2>1. proc[p].box \in Boxes /\ accountLock = p
    BY <1>7 DEF ConnectFindKey, HasBox, HoldsLock, Locked
  <2>2. PICK k \in remoteKeys : Update(p, [proc[p] EXCEPT !.pc = "c_record", !.bind.id = k.id])
    BY <1>7 DEF ConnectFindKey, FindRemoteKey, KeysOf
  <2>3. [proc[p].bind EXCEPT !.id = k.id] \in Binding
    BY IdType, FieldTypes DEF TypeOK, RemoteKey
  <2>4. [proc[p] EXCEPT !.pc = "c_record", !.bind.id = k.id] \in Invocation
    <3>1. proc[p] \in Invocation /\ "c_record" \in Locked
      BY FieldTypes DEF Locked
    <3>2. [proc[p] EXCEPT !.pc = "c_record", !.bind = [proc[p].bind EXCEPT !.id = k.id]] \in Invocation
      BY <2>3, <3>1, BindType
    <3> QED BY <3>1, <3>2 DEF Invocation
  <2>5. Moves(p) /\ proc'[p] = [proc[p] EXCEPT !.pc = "c_record", !.bind.id = k.id]
    BY <2>2, <2>4, UpdateMoves
  <2>6. proc'[p].box = proc[p].box
    BY <2>5, FieldTypes DEF Invocation
  <2> QED BY <1>7, <2>1, <2>5, <2>6, DataKept, LocksKept, CoreOfMove DEF ConnectFindKey
<1>8. CASE ConnectCreateKey(p)
  <2>1. proc[p].box \in Boxes /\ accountLock = p /\ proc[p].pc = "c_register"
    BY <1>8 DEF ConnectCreateKey, HasBox, HoldsLock, Locked
  <2>2. proc[p].bind.key \in 1..MaxKeys /\ proc[p].acct \in Accounts
    BY <2>1 DEF Saved, ConsistentWith, Working
  <2>3. DataOK' /\ used.ids + 1 \in 0..MaxIDs
    <3>1. DataOK'
      BY <1>8, <2>1, <2>2, DataRegistered DEF ConnectCreateKey
    <3>2. used.ids \in 0..MaxIDs /\ used.ids < MaxIDs
      BY <1>8 DEF ConnectCreateKey, Register, TypeOK
    <3> QED BY <3>1, <3>2, SourceConstants
  <2>4. CASE Return(p)
    BY <2>3, <2>4, CoreOfReturn
  <2>5. CASE /\ Update(p, [proc[p] EXCEPT !.pc = "c_record", !.bind.id = used.ids + 1])
             /\ UNCHANGED Locks
    <3>1. [proc[p].bind EXCEPT !.id = used.ids + 1] \in Binding
      BY <2>3, IdType, FieldTypes
    <3>2. [proc[p] EXCEPT !.pc = "c_record", !.bind.id = used.ids + 1] \in Invocation
      BY <3>1, FieldTypes DEF Invocation, Locked
    <3>3. Moves(p) /\ proc'[p] = [proc[p] EXCEPT !.pc = "c_record", !.bind.id = used.ids + 1]
      BY <2>5, <3>2, UpdateMoves
    <3>4. proc'[p].box = proc[p].box
      BY <3>3, FieldTypes DEF Invocation
    <3> QED BY <2>1, <2>3, <2>5, <3>3, <3>4, LocksKept, CoreOfMove
  <2> QED BY <1>8, <2>4, <2>5 DEF ConnectCreateKey
<1>9. CASE ConnectCreateDelayed(p)
  <2>1. proc[p].pc = "c_register" /\ proc[p].box \in Boxes
    BY <1>9 DEF ConnectCreateDelayed, HasBox, Locked
  <2>2. proc[p].bind.key \in 1..MaxKeys /\ proc[p].acct \in Accounts
    BY <2>1 DEF Saved, ConsistentWith, Working
  <2>3. DataOK'
    BY <1>9, <2>1, <2>2 DEF ConnectCreateDelayed, TypeOK, DataOK
  <2> QED BY <1>9, <2>3, CoreOfReturn DEF ConnectCreateDelayed
<1>10. CASE ConnectRecordKey(p)
  <2>1. proc[p].box \in Boxes /\ proc[p].pc = "c_record"
    BY <1>10 DEF ConnectRecordKey, HasBox, Locked
  <2>2. DataOK'
    BY <1>10, <2>1, DataSaved, FieldTypes DEF ConnectRecordKey
  <2> QED BY <1>10, <2>1, <2>2, CoreOfGoto DEF ConnectRecordKey, Locked
<1>11. CASE ConnectVerify(p)
  BY <1>11, DataKept, CoreOfGoto DEF ConnectVerify, Locked
<1>12. CASE ConnectFinish(p)
  <2>1. proc[p].box \in Boxes
    BY <1>12 DEF ConnectFinish, HasBox, Locked
  <2>2. [proc[p].bind EXCEPT !.state = "connected"] \in Binding
    BY StateType, FieldTypes DEF States
  <2>3. DataOK'
    BY <1>12, <2>1, <2>2, DataSaved DEF ConnectFinish
  <2> QED BY <1>12, <2>3, CoreOfReturn DEF ConnectFinish
<1> QED BY <1>1, <1>2, <1>3, <1>4, <1>5, <1>6, <1>7, <1>8, <1>9, <1>10, <1>11, <1>12 DEF Connect

LEMMA BeginCore ==
    ASSUME Core, NEW p \in Procs, NEW op \in {"status", "disconnect"}, NEW b \in Boxes,
           NEW target \in BOOLEAN, NEW n \in Names \cup {None},
           BeginWith(p, op, [box |-> b, target |-> target], n)
    PROVE  Core'
<1> DEFINE inv == [Idle EXCEPT !.pc = "lock", !.op = op, !.box = b, !.name = n,
                               !.target = target, !.bind = bindings[b]]
<1>1. bindings[b] \in Binding
  BY DEF Core, TypeOK
<1>2. inv \in Invocation /\ inv.pc = "lock"
  BY <1>1, IdleType DEF Invocation, Unlocked
<1>3. Update(p, inv)
  BY DEF BeginWith
<1> HIDE DEF inv
<1>4. Moves(p) /\ proc'[p].pc \notin Locked
  BY <1>2, <1>3, UpdateMoves DEF Core, Locked
<1> QED BY <1>4, DataKept, LocksKept, CoreOfMove DEF BeginWith, Core

(* ResolveBinding leads to a Box. *)
LEMMA ResolvedBox ==
    ASSUME NEW t, NEW n, NEW found \in ResolveBinding(t, n)
    PROVE  \E b \in Boxes, target \in BOOLEAN :
              /\ found = [box |-> b, target |-> target]
              /\ bindings[b].state # "absent"
BY DEF ResolveBinding, Bound

LEMMA StatusCore == ASSUME Core, NEW p \in Procs, Status(p) PROVE Core'
<1> USE DEF Core
<1>1. ASSUME NEW t \in Boxes \cup {None}, NEW n \in Names \cup {None}, StatusBegin(p, t, n) PROVE Core'
  BY <1>1, BeginCore, ResolvedBox DEF StatusBegin
<1>2. CASE StatusInspect(p)
  <2> DEFINE b    == proc[p].box
             bind == proc[p].bind
             keys == FindRemoteKey(KeysOf(account), b, bind)
  <2>1. b \in Boxes /\ proc[p].pc \in Locked \ {"unbound"} /\ bind \in Binding
    BY <1>2, FieldTypes DEF StatusInspect, HasBox, Locked
  <2>2. CASE Goto(p, "s_cleanup") /\ UNCHANGED <<bindings, Locks>>
    BY <1>2, <2>1, <2>2, DataKept, CoreOfGoto DEF StatusInspect, Locked
  <2>3. CASE (\E k \in keys : SaveBinding(b, [bind EXCEPT !.id = k.id])) /\ Return(p)
    <3>1. PICK k \in remoteKeys : SaveBinding(b, [bind EXCEPT !.id = k.id])
      BY <2>3 DEF FindRemoteKey, KeysOf
    <3>2. [bind EXCEPT !.id = k.id] \in Binding
      BY <2>1, IdType DEF TypeOK, RemoteKey
    <3>3. UNCHANGED <<account, Remote, used>>
      BY <1>2 DEF StatusInspect
    <3> HIDE DEF bind, b
    <3>4. DataOK'
      BY <2>1, <3>1, <3>2, <3>3, DataSaved
    <3> QED BY <2>3, <3>4, CoreOfReturn
  <2> QED BY <1>2, <2>2, <2>3 DEF StatusInspect
<1>3. CASE StatusCheckpoint(p)
  <2>1. proc[p].box \in Boxes /\ proc[p].pc \in Locked \ {"unbound"}
    BY <1>3 DEF StatusCheckpoint, HasBox, Locked
  <2>2. [proc[p].bind EXCEPT !.state = "cleanup_pending"] \in Binding
    BY StateType, FieldTypes DEF States
  <2>3. DataOK'
    BY <1>3, <2>1, <2>2, DataSaved DEF StatusCheckpoint
  <2> QED BY <1>3, <2>1, <2>3, CoreOfGoto DEF StatusCheckpoint, Locked
<1> QED BY <1>1, <1>2, <1>3 DEF Status

LEMMA DisconnectCore == ASSUME Core, NEW p \in Procs, Disconnect(p) PROVE Core'
<1> USE DEF Core
<1>1. ASSUME NEW t \in Boxes \cup {None}, NEW n \in Names \cup {None}, DisconnectBegin(p, t, n) PROVE Core'
  BY <1>1, BeginCore, ResolvedBox DEF DisconnectBegin
<1>2. ASSUME NEW t \in Boxes \cup {None}, NEW n \in Names \cup {None}, DisconnectUnbound(p, t, n) PROVE Core'
  <2> DEFINE inv == [Idle EXCEPT !.pc = "lock", !.op = "disconnect", !.name = n]
  <2>1. inv \in Invocation /\ inv.pc = "lock"
    BY IdleType DEF Invocation, Unlocked
  <2>2. Moves(p) /\ proc'[p].pc \notin Locked
    BY <1>2, <2>1, UpdateMoves DEF DisconnectUnbound, Locked
  <2> QED BY <1>2, <2>2, DataKept, LocksKept, CoreOfMove DEF DisconnectUnbound
<1>3. ASSUME NEW allow \in BOOLEAN, NEW a \in Accounts, DisconnectResolveAccount(p, allow, a) PROVE Core'
  <2>1. proc[p].box \in Boxes /\ accountLock = p
    BY <1>3 DEF DisconnectResolveAccount, HasBox, HoldsLock, Locked
  <2>2. DataOK'
    BY <1>3 DEF DisconnectResolveAccount, ResolveAccount, TypeOK, DataOK, Remote
  <2>3. CASE Return(p)
    BY <2>2, <2>3, CoreOfReturn
  <2>4. CASE Update(p, [proc[p] EXCEPT !.pc = "d_revoke", !.acct = a]) /\ UNCHANGED Locks
    <3>1. [proc[p] EXCEPT !.pc = "d_revoke", !.acct = a] \in Invocation
      BY FieldTypes DEF Invocation, Locked
    <3>2. Moves(p) /\ proc'[p] = [proc[p] EXCEPT !.pc = "d_revoke", !.acct = a]
      BY <2>4, <3>1, UpdateMoves
    <3>3. proc'[p].box = proc[p].box
      BY <3>2, FieldTypes DEF Invocation
    <3> QED BY <2>1, <2>2, <2>4, <3>2, <3>3, LocksKept, CoreOfMove
  <2> QED BY <1>3, <2>3, <2>4 DEF DisconnectResolveAccount
<1>4. CASE DisconnectCheckpoint(p)
  <2>1. proc[p].box \in Boxes /\ proc[p].pc \in Locked \ {"unbound"}
    BY <1>4 DEF DisconnectCheckpoint, HasBox, Locked
  <2>2. [proc[p].bind EXCEPT !.state = "disconnecting"] \in Binding
    BY StateType, FieldTypes DEF States
  <2>3. DataOK'
    BY <1>4, <2>1, <2>2, DataSaved DEF DisconnectCheckpoint
  <2> QED BY <1>4, <2>1, <2>3, CoreOfGoto DEF DisconnectCheckpoint, Locked
<1>5. CASE DisconnectDeleteKey(p)
  <2>1. proc[p].pc \in Locked \ {"unbound"}
    BY <1>5 DEF DisconnectDeleteKey, Locked
  <2>2. DataOK'
    BY <1>5 DEF DisconnectDeleteKey, TypeOK, DataOK
  <2> QED BY <1>5, <2>1, <2>2, CoreOfReturn, CoreOfGoto DEF DisconnectDeleteKey, Locked
<1>6. CASE DisconnectRevoked(p)
  <2>1. proc[p].box \in Boxes /\ proc[p].pc \in Locked \ {"unbound"}
    BY <1>6 DEF DisconnectRevoked, HasBox, Locked
  <2>2. [proc[p].bind EXCEPT !.state = "cleanup_pending"] \in Binding
    BY StateType, FieldTypes DEF States
  <2>3. DataOK'
    BY <1>6, <2>1, <2>2, DataSaved DEF DisconnectRevoked
  <2> QED BY <1>6, <2>1, <2>3, CoreOfGoto DEF DisconnectRevoked, Locked
<1> QED BY <1>1, <1>2, <1>3, <1>4, <1>5, <1>6 DEF Disconnect

LEMMA CleanupCore == ASSUME Core, NEW p \in Procs, Cleanup(p) PROVE Core'
<1> USE DEF Core
<1>1. CASE AcquireOperation(p)
  <2> DEFINE label == AfterLock(proc[p])
  <2>1. label \in Locked /\ (label # "unbound" => proc[p].box \in Boxes)
    BY FieldTypes DEF AfterLock, Locked
  <2>2. LockID(proc[p]) \in LockIDs
    BY FieldTypes DEF LockID, LockIDs
  <2>3. LocksOf(p) /\ accountLock' = p
    BY <1>1, <2>2, AcquireLocks DEF AcquireOperation
  <2>4. Goto(p, label)
    BY <1>1 DEF AcquireOperation
  <2> HIDE DEF label
  <2>5. Moves(p) /\ proc'[p].pc = label /\ proc'[p].box = proc[p].box
    BY <2>1, <2>4, GotoMoves
  <2> QED BY <1>1, <2>1, <2>3, <2>5, DataKept, CoreOfMove DEF AcquireOperation
<1>2. CASE OperationBusy(p)
  BY <1>2, DataKept, CoreOfReturn DEF OperationBusy
<1>3. CASE CleanupUnbound(p)
  <2>1. DataOK'
    BY <1>3 DEF CleanupUnbound, CleanupUnboundAccount, TypeOK, DataOK, Remote
  <2> QED BY <1>3, <2>1, CoreOfReturn DEF CleanupUnbound
<1>4. CASE RemoveBoxKey(p)
  <2>1. proc[p].pc \in Locked \ {"unbound"} /\ 0 \in 0..MaxKeys
    BY <1>4, SourceConstants DEF RemoveBoxKey, Locked
  <2>2. DataOK'
    BY <1>4, <2>1 DEF RemoveBoxKey, TypeOK, DataOK
  <2> QED BY <1>4, <2>1, <2>2, CoreOfReturn, CoreOfGoto DEF RemoveBoxKey, Locked
<1>5. CASE FinishAccount(p)
  <2>1. proc[p].pc \in Locked \ {"unbound"}
    BY <1>5 DEF FinishAccount, Locked
  <2>2. DataOK'
    BY <1>5 DEF FinishAccount, TypeOK, DataOK, Remote
  <2> QED BY <1>5, <2>1, <2>2, CoreOfGoto DEF FinishAccount, Locked
<1>6. CASE FinishBinding(p)
  <2>1. proc[p].box \in Boxes
    BY <1>6 DEF FinishBinding, HasBox, Locked
  <2>2. DataOK'
    BY <1>6, <2>1, IdleType, DataSaved DEF FinishBinding
  <2> QED BY <1>6, <2>2, CoreOfReturn DEF FinishBinding
<1> QED BY <1>1, <1>2, <1>3, <1>4, <1>5, <1>6 DEF Cleanup

LEMMA CoreStep == ASSUME Core, Saved, [Next]_vars PROVE Core'
<1> USE DEF Core
<1>1. ASSUME NEW p \in Procs, CallFails(p) PROVE Core'
  <2>1. proc[p].pc \in {"c_ensure", "c_save"} => proc[p].pc \in Locked \ {"unbound"}
    BY DEF Locked
  <2> QED BY <1>1, <2>1, DataKept, CoreOfReturn, CoreOfGoto DEF CallFails, Locked
<1>2. ASSUME NEW p \in Procs, Crash(p) PROVE Core'
  <2>1. DataOK'
    BY <1>2, SourceConstants DEF Crash, TypeOK, DataOK, Remote
  <2> QED BY <1>2, <2>1, CoreOfReturn DEF Crash
<1>3. ASSUME NEW request \in inFlight, LateCreate(request) PROVE Core'
  <2>1. request.box \in Boxes /\ request.key \in 1..MaxKeys /\ request.acct \in Accounts
    BY <1>3 DEF TypeOK
  <2>2. DataOK'
    BY <1>3, <2>1, DataRegistered DEF LateCreate
  <2> QED BY <1>3, <2>2 DEF LateCreate, Locks, TypeOK, DataOK, HasBox, HoldsLock
<1>4. CASE UNCHANGED vars
  BY <1>4 DEF vars, TypeOK, HasBox, HoldsLock
<1> QED BY <1>1, <1>2, <1>3, <1>4, ConnectCore, StatusCore, DisconnectCore, CleanupCore DEF Next

-----------------------------------------------------------------------------
(* Saved is kept: no other command runs past its locks meanwhile. *)

LEMMA OnlyMoves ==
    ASSUME TypeOK, NEW p \in Procs, NEW inv, Update(p, inv)
    PROVE  proc'[p] = inv /\ \A q \in Procs \ {p} : proc'[q] = proc[q]
BY DEF TypeOK, Update

LEMMA SavedOfUpdate ==
    ASSUME Core, Saved, NEW p \in Procs, NEW inv, Update(p, inv),
           proc[p].pc \in Locked \/ UNCHANGED Remote,
           ConsistentWith(inv, boxKey', remoteKeys')
    PROVE  Saved'
<1>1. proc'[p] = inv /\ \A q \in Procs \ {p} : proc'[q] = proc[q]
  BY OnlyMoves DEF Core
<1>2. ASSUME NEW q \in Procs \ {p} PROVE ConsistentWith(proc[q], boxKey', remoteKeys')
  <2>1. CASE UNCHANGED Remote
    BY <2>1 DEF Saved, Remote
  <2>2. CASE proc[p].pc \in Locked
    <3>1. proc[q].pc \notin Locked
      BY <2>2 DEF Core, HoldsLock
    <3> QED BY <3>1 DEF ConsistentWith, Working, Locked
  <2> QED BY <2>1, <2>2
<1> QED BY <1>1, <1>2 DEF Saved

LEMMA SavedOfLeave ==
    ASSUME Core, Saved, NEW p \in Procs, NEW inv, Update(p, inv),
           proc[p].pc \in Locked \/ UNCHANGED Remote, inv.pc \notin Working
    PROVE  Saved'
<1>1. ConsistentWith(inv, boxKey', remoteKeys')
  BY DEF ConsistentWith, Working
<1> QED BY <1>1, SavedOfUpdate

LEMMA SavedOfReturn ==
    ASSUME Core, Saved, NEW p \in Procs, Return(p), proc[p].pc \in Locked \/ UNCHANGED Remote
    PROVE  Saved'
BY SavedOfLeave DEF Return, Idle, Working

LEMMA SavedOfGoto ==
    ASSUME Core, Saved, NEW p \in Procs, NEW label \in Locked \ Working, Goto(p, label),
           proc[p].pc \in Locked \/ UNCHANGED Remote
    PROVE  Saved'
<1>1. [proc[p] EXCEPT !.pc = label].pc = label
  BY FieldTypes DEF Core, Invocation
<1> QED BY <1>1, SavedOfLeave DEF Goto

LEMMA ConnectSaved == ASSUME Core, Saved, NEW p \in Procs, Connect(p) PROVE Saved'
<1> DEFINE S(inv) == ConsistentWith(inv, boxKey', remoteKeys')
<1>0. ConsistentWith(proc[p], boxKey, remoteKeys) /\ proc[p] \in Invocation
  BY FieldTypes DEF Saved, Core
<1>1. ASSUME NEW b \in Boxes, NEW n \in Names, ConnectBegin(p, b, n) PROVE Saved'
  BY <1>1, SavedOfLeave DEF ConnectBegin, Idle, Working
<1>2. ASSUME NEW allow \in BOOLEAN, NEW a \in Accounts, ConnectResolveAccount(p, allow, a) PROVE Saved'
  <2> DEFINE bind == bindings[proc[p].box]
             label == IF bind.acct \in {None, a} THEN "c_ensure" ELSE "c_undo"
             inv == [proc[p] EXCEPT !.acct = a, !.bind = bind, !.pc = label]
  <2>1. UNCHANGED Remote
    BY <1>2 DEF ConnectResolveAccount
  <2>2. CASE Return(p)
    BY <2>1, <2>2, SavedOfReturn
  <2>3. CASE Update(p, inv)
    <3>1. label \in {"c_ensure", "c_undo"}
      OBVIOUS
    <3> HIDE DEF label, bind
    <3>2. inv.pc = label /\ inv.acct = a
      BY <1>0 DEF Invocation
    <3> HIDE DEF inv
    <3>3. S(inv)
      BY <3>1, <3>2 DEF ConsistentWith, Working
    <3> QED BY <2>1, <2>3, <3>3, SavedOfUpdate
  <2> QED BY <1>2, <2>2, <2>3 DEF ConnectResolveAccount
<1>3. CASE ConnectUndo(p)
  BY <1>3, SavedOfReturn DEF ConnectUndo
<1>4. CASE ConnectPreflight(p)
  BY <1>4, SavedOfReturn DEF ConnectPreflight
<1>5. CASE ConnectEnsureIdentity(p)
  <2> DEFINE b == proc[p].box
             key == IF boxKey[b] # 0 THEN boxKey[b] ELSE used.keys[b] + 1
             bind == [state |-> "connecting", name |-> proc[p].name, acct |-> proc[p].acct,
                      key |-> key, id |-> proc[p].bind.id]
             inv == [proc[p] EXCEPT !.pc = "c_save", !.bind = bind]
  <2>1. b \in Boxes /\ proc[p].pc = "c_ensure" /\ proc[p].pc \in Locked
    BY <1>5 DEF ConnectEnsureIdentity, Core, HasBox, Locked
  <2>2. key \in 1..MaxKeys
    BY <1>5, <2>1, SourceConstants DEF ConnectEnsureIdentity, Core, TypeOK
  <2>3. boxKey'[b] = key
    BY <1>5, <2>1 DEF ConnectEnsureIdentity, Core, TypeOK
  <2>4. CASE Goto(p, "c_undo")
    BY <2>1, <2>4, SavedOfGoto DEF Working, Locked
  <2>5. CASE Update(p, inv)
    <3> HIDE DEF key
    <3>1. inv.pc = "c_save" /\ inv.bind = bind /\ inv.box = b /\ inv.acct = proc[p].acct
      BY <1>0 DEF Invocation
    <3>2. proc[p].acct \in Accounts
      BY <1>0, <2>1 DEF ConsistentWith, Working
    <3> HIDE DEF inv
    <3>3. S(inv)
      BY <2>2, <2>3, <3>1, <3>2 DEF ConsistentWith, Working
    <3> QED BY <2>1, <2>5, <3>3, SavedOfUpdate
  <2> QED BY <1>5, <2>4, <2>5 DEF ConnectEnsureIdentity
<1>6. CASE ConnectCheckpoint(p)
  <2> DEFINE inv == [proc[p] EXCEPT !.pc = "c_register", !.fresh = FALSE]
  <2>1. proc[p].pc = "c_save" /\ UNCHANGED Remote /\ Update(p, inv)
    BY <1>6 DEF ConnectCheckpoint
  <2>2. inv.pc = "c_register" /\ inv.bind = proc[p].bind /\ inv.box = proc[p].box /\ inv.acct = proc[p].acct
    BY <1>0 DEF Invocation
  <2> HIDE DEF inv
  <2>3. S(inv)
    BY <1>0, <2>1, <2>2 DEF ConsistentWith, Working, Remote
  <2> QED BY <2>1, <2>3, SavedOfUpdate
<1>7. CASE ConnectFindKey(p)
  <2>1. PICK k \in FindRemoteKey(KeysOf(proc[p].acct), proc[p].box, proc[p].bind) :
           Update(p, [proc[p] EXCEPT !.pc = "c_record", !.bind.id = k.id])
    BY <1>7 DEF ConnectFindKey
  <2> DEFINE inv == [proc[p] EXCEPT !.pc = "c_record", !.bind.id = k.id]
  <2>2. proc[p].pc = "c_register" /\ UNCHANGED Remote
    BY <1>7 DEF ConnectFindKey
  <2>3. inv.pc = "c_record" /\ inv.box = proc[p].box /\ inv.acct = proc[p].acct
        /\ inv.bind = [proc[p].bind EXCEPT !.id = k.id]
    BY <1>0 DEF Invocation
  <2>4. inv.bind.state = proc[p].bind.state /\ inv.bind.key = proc[p].bind.key /\ inv.bind.acct = proc[p].bind.acct
    BY <1>0, <2>3 DEF Invocation, Binding
  <2>5. k \in remoteKeys /\ k.box = proc[p].box /\ k.key = proc[p].bind.key /\ k.acct = proc[p].acct
    BY DEF FindRemoteKey, KeysOf
  <2> HIDE DEF inv
  <2>6. S(inv)
    BY <1>0, <2>2, <2>3, <2>4, <2>5 DEF ConsistentWith, Working, Remote
  <2> QED BY <2>1, <2>2, <2>6, SavedOfUpdate DEF inv
<1>8. CASE ConnectCreateKey(p)
  <2> DEFINE inv == [proc[p] EXCEPT !.pc = "c_record", !.bind.id = used.ids + 1]
             k == [box |-> proc[p].box, key |-> proc[p].bind.key, acct |-> proc[p].acct, id |-> used.ids + 1]
  <2>1. proc[p].pc = "c_register" /\ proc[p].pc \in Locked /\ boxKey' = boxKey /\ k \in remoteKeys'
    BY <1>8 DEF ConnectCreateKey, Register, Locked
  <2>2. inv.pc = "c_record" /\ inv.box = proc[p].box /\ inv.acct = proc[p].acct
        /\ inv.bind = [proc[p].bind EXCEPT !.id = used.ids + 1]
    BY <1>0 DEF Invocation
  <2>3. inv.bind.state = proc[p].bind.state /\ inv.bind.key = proc[p].bind.key /\ inv.bind.acct = proc[p].bind.acct
    BY <1>0, <2>2 DEF Invocation, Binding
  <2>4. CASE Return(p)
    BY <2>1, <2>4, SavedOfReturn
  <2>5. CASE Update(p, inv)
    <3>1. k.box = proc[p].box /\ k.key = proc[p].bind.key /\ k.acct = proc[p].acct
      OBVIOUS
    <3> HIDE DEF inv, k
    <3>2. S(inv)
      BY <1>0, <2>1, <2>2, <2>3, <3>1 DEF ConsistentWith, Working
    <3> QED BY <2>1, <2>5, <3>2, SavedOfUpdate
  <2> QED BY <1>8, <2>4, <2>5 DEF ConnectCreateKey
<1>9. CASE ConnectCreateDelayed(p)
  BY <1>9, SavedOfReturn DEF ConnectCreateDelayed, Locked
<1>10. ASSUME NEW next \in {"c_verify", "c_done"}, Goto(p, next), UNCHANGED Remote,
              proc[p].pc \in {"c_record", "c_verify"}
       PROVE  Saved'
  <2> DEFINE inv == [proc[p] EXCEPT !.pc = next]
  <2>1. inv.pc = next /\ inv.bind = proc[p].bind /\ inv.box = proc[p].box /\ inv.acct = proc[p].acct
    BY <1>0 DEF Invocation
  <2>2. Update(p, inv)
    BY <1>10 DEF Goto
  <2> HIDE DEF inv
  <2>3. S(inv)
    BY <1>0, <1>10, <2>1 DEF ConsistentWith, Working, Remote
  <2> QED BY <1>10, <2>2, <2>3, SavedOfUpdate
<1>11. CASE ConnectRecordKey(p)
  BY <1>10, <1>11 DEF ConnectRecordKey
<1>12. CASE ConnectVerify(p)
  BY <1>10, <1>12 DEF ConnectVerify
<1>13. CASE ConnectFinish(p)
  BY <1>13, SavedOfReturn DEF ConnectFinish
<1> QED BY <1>1, <1>2, <1>3, <1>4, <1>5, <1>6, <1>7, <1>8, <1>9, <1>11, <1>12, <1>13 DEF Connect

LEMMA OthersSaved ==
    ASSUME Core, Saved, NEW p \in Procs, Status(p) \/ Disconnect(p) \/ Cleanup(p) \/ CallFails(p) \/ Crash(p)
    PROVE  Saved'
<1>1. ASSUME NEW found, NEW n, NEW op, BeginWith(p, op, found, n) PROVE Saved'
  <2> DEFINE inv == [Idle EXCEPT !.pc = "lock", !.op = op, !.box = found.box, !.name = n,
                                 !.target = found.target, !.bind = bindings[found.box]]
  <2>1. inv.pc = "lock"
    BY DEF Idle
  <2>2. Update(p, inv) /\ UNCHANGED Remote
    BY <1>1 DEF BeginWith
  <2> HIDE DEF inv
  <2> QED BY <2>1, <2>2, SavedOfLeave DEF Working
<1>2. CASE Status(p)
  <2>1. CASE StatusInspect(p)
    BY <2>1, SavedOfReturn, SavedOfGoto DEF StatusInspect, Locked, Working
  <2>2. CASE StatusCheckpoint(p)
    BY <2>2, SavedOfGoto DEF StatusCheckpoint, Locked, Working
  <2> QED BY <1>1, <1>2, <2>1, <2>2 DEF Status, StatusBegin
<1>3. CASE Disconnect(p)
  <2>1. ASSUME NEW t, NEW n, DisconnectUnbound(p, t, n) PROVE Saved'
    BY <2>1, SavedOfLeave DEF DisconnectUnbound, Idle, Working
  <2>2. ASSUME NEW allow, NEW a, DisconnectResolveAccount(p, allow, a) PROVE Saved'
    <3>1. [proc[p] EXCEPT !.pc = "d_revoke", !.acct = a].pc = "d_revoke"
      BY FieldTypes DEF Core, Invocation
    <3> QED BY <2>2, <3>1, SavedOfReturn, SavedOfLeave DEF DisconnectResolveAccount, Working
  <2>3. CASE DisconnectCheckpoint(p)
    BY <2>3, SavedOfGoto DEF DisconnectCheckpoint, Locked, Working
  <2>4. CASE DisconnectDeleteKey(p)
    BY <2>4, SavedOfGoto, SavedOfReturn DEF DisconnectDeleteKey, Locked, Working
  <2>5. CASE DisconnectRevoked(p)
    BY <2>5, SavedOfGoto DEF DisconnectRevoked, Locked, Working
  <2> QED BY <1>1, <1>3, <2>1, <2>2, <2>3, <2>4, <2>5 DEF Disconnect, DisconnectBegin
<1>4. CASE Cleanup(p)
  <2>1. CASE AcquireOperation(p)
    <3>1. AfterLock(proc[p]) \in Locked \ Working
      BY FieldTypes DEF Core, AfterLock, Locked, Working
    <3> QED BY <2>1, <3>1, SavedOfGoto DEF AcquireOperation
  <2>2. CASE OperationBusy(p)
    BY <2>2, SavedOfReturn DEF OperationBusy
  <2>3. CASE CleanupUnbound(p)
    BY <2>3, SavedOfReturn DEF CleanupUnbound
  <2>4. CASE RemoveBoxKey(p)
    BY <2>4, SavedOfGoto, SavedOfReturn DEF RemoveBoxKey, Locked, Working
  <2>5. CASE FinishAccount(p)
    BY <2>5, SavedOfGoto DEF FinishAccount, Locked, Working
  <2>6. CASE FinishBinding(p)
    BY <2>6, SavedOfReturn DEF FinishBinding
  <2> QED BY <1>4, <2>1, <2>2, <2>3, <2>4, <2>5, <2>6 DEF Cleanup
<1>5. CASE CallFails(p)
  BY <1>5, SavedOfReturn, SavedOfGoto DEF CallFails, Locked, Working
<1>6. CASE Crash(p)
  BY <1>6, SavedOfReturn DEF Crash
<1> QED BY <1>2, <1>3, <1>4, <1>5, <1>6

(* The inductive invariant, for any number of concurrent commands. *)
IInv == Core /\ Saved

LEMMA InitIInv == Init => IInv
<1> SUFFICES ASSUME Init PROVE Saved
  BY InitCore DEF IInv
<1> QED BY DEF Init, Saved, ConsistentWith, Idle, Working

LEMMA StepIInv == ASSUME IInv, [Next]_vars PROVE IInv'
<1>1. Core'
  BY CoreStep DEF IInv
<1>2. ASSUME NEW request \in inFlight, LateCreate(request) PROVE Saved'
  <2>1. remoteKeys \subseteq remoteKeys' /\ UNCHANGED <<boxKey, proc>>
    BY <1>2 DEF LateCreate, Register
  <2> QED BY <2>1 DEF IInv, Saved, ConsistentWith
<1>3. ASSUME UNCHANGED vars PROVE Saved'
  <2>1. boxKey' = boxKey /\ remoteKeys' = remoteKeys /\ proc' = proc
    BY <1>3 DEF vars
  <2> QED BY <2>1 DEF IInv, Saved, ConsistentWith
<1>4. ASSUME NEW p \in Procs, Connect(p) PROVE Saved'
  BY <1>4, ConnectSaved DEF IInv
<1>5. ASSUME NEW p \in Procs, Status(p) \/ Disconnect(p) \/ Cleanup(p) \/ CallFails(p) \/ Crash(p)
      PROVE  Saved'
  BY <1>5, OthersSaved DEF IInv
<1> QED BY <1>1, <1>2, <1>3, <1>4, <1>5 DEF IInv, Next

-----------------------------------------------------------------------------
(* Whatever commands run and however they are interrupted, every variable  *)
(* of the store, the locks, the Boxes and GitHub keeps its kind.           *)
THEOREM TypeCorrect == Spec => []TypeOK
<1>1. IInv => TypeOK
  BY DEF IInv, Core
<1> QED BY <1>1, InitIInv, StepIInv, PTL DEF Spec

(* acquireOperation: no two commands are past their locks together, for    *)
(* any number of processes, Boxes and names.                               *)
THEOREM Exclusive == Spec => []ExclusiveOperation
<1>1. IInv => ExclusiveOperation
  BY DEF IInv, Core, HoldsLock, ExclusiveOperation
<1> QED BY <1>1, InitIInv, StepIInv, PTL DEF Spec

(* A step that saves a row that is not connected does not make one so. *)
LEMMA SavesOther ==
    ASSUME TypeOK, NEW c, NEW bind, SaveBinding(c, bind), bind.state # "connected"
    PROVE  \A b \in Boxes : bindings'[b].state = "connected" => bindings[b].state = "connected"
BY DEF TypeOK, SaveBinding

(* Connect: only the step that records the Box as connected makes it so,    *)
(* and it does after verification, however commands interleave.            *)
THEOREM Verified == Spec => ConnectedIsVerified
<1> DEFINE New(b) == bindings'[b].state = "connected" /\ bindings[b].state # "connected"
           Holds(b) == /\ bindings'[b].key = boxKey[b]
                       /\ \E k \in remoteKeys : k.box = b /\ k.key = boxKey[b]
                                               /\ k.acct = bindings'[b].acct
<1>1. ASSUME IInv, [Next]_vars, NEW b \in Boxes, New(b) PROVE Holds(b)
  <2>1. bindings' # bindings
    BY <1>1
  <2>2. TypeOK
    BY <1>1 DEF IInv, Core
  <2>3. ASSUME NEW c, NEW bind, SaveBinding(c, bind) PROVE bind.state = "connected"
    BY <1>1, <2>2, <2>3, SavesOther
  <2>4. ASSUME NEW p \in Procs, NEW s \in States, SaveBinding(proc[p].box, [proc[p].bind EXCEPT !.state = s])
        PROVE  s = "connected"
    <3>1. [proc[p].bind EXCEPT !.state = s].state = s
      BY <2>2, FieldTypes DEF Binding
    <3> QED BY <2>3, <2>4, <3>1
  <2>5. ASSUME NEW p \in Procs, Connect(p) PROVE ConnectFinish(p)
    <3>1. ~ ConnectCheckpoint(p) /\ ~ ConnectRecordKey(p)
      BY <1>1, <2>3 DEF IInv, Saved, ConsistentWith, Working, ConnectCheckpoint, ConnectRecordKey
    <3> QED BY <2>1, <2>5, <3>1 DEF Connect, ConnectBegin, ConnectResolveAccount, ConnectUndo,
               ConnectPreflight, ConnectEnsureIdentity, ConnectFindKey, ConnectCreateKey,
               ConnectCreateDelayed, ConnectVerify
  <2>6. ASSUME NEW p \in Procs, Status(p) PROVE FALSE
    <3>1. ~ StatusCheckpoint(p)
      BY <2>4 DEF StatusCheckpoint, States
    <3>2. ~ StatusInspect(p)
      <4>1. ASSUME NEW i, proc[p].bind.state = "connecting",
                   SaveBinding(proc[p].box, [proc[p].bind EXCEPT !.id = i])
            PROVE  FALSE
        <5>1. [proc[p].bind EXCEPT !.id = i].state = "connecting"
          BY <2>2, <4>1, FieldTypes DEF Binding
        <5> QED BY <2>3, <4>1, <5>1
      <4> QED BY <2>1, <4>1 DEF StatusInspect
    <3> QED BY <2>1, <2>6, <3>1, <3>2 DEF Status, StatusBegin, BeginWith
  <2>7. ASSUME NEW p \in Procs, Disconnect(p) PROVE FALSE
    <3>1. ~ DisconnectCheckpoint(p) /\ ~ DisconnectRevoked(p)
      BY <2>4 DEF DisconnectCheckpoint, DisconnectRevoked, States
    <3> QED BY <2>1, <2>7, <3>1 DEF Disconnect, DisconnectBegin, BeginWith, DisconnectUnbound,
               DisconnectResolveAccount, DisconnectDeleteKey
  <2>8. ASSUME NEW p \in Procs, Cleanup(p) PROVE FALSE
    <3>1. ~ FinishBinding(p)
      BY <2>3 DEF FinishBinding, NoBinding
    <3> QED BY <2>1, <2>8, <3>1 DEF Cleanup, AcquireOperation, OperationBusy, CleanupUnbound,
               RemoveBoxKey, FinishAccount
  <2>9. \E p \in Procs : ConnectFinish(p)
    BY <1>1, <2>1, <2>5, <2>6, <2>7, <2>8 DEF Next, CallFails, Crash, LateCreate, vars
  <2>10. PICK p \in Procs : ConnectFinish(p)
    BY <2>9
  <2>11. ConsistentWith(proc[p], boxKey, remoteKeys) /\ proc[p].pc = "c_done"
    BY <1>1, <2>10 DEF IInv, Saved, ConnectFinish
  <2>12. b = proc[p].box /\ bindings'[b] = [proc[p].bind EXCEPT !.state = "connected"]
    BY <1>1, <2>2, <2>10 DEF ConnectFinish, SaveBinding, TypeOK
  <2>13. bindings'[b].key = proc[p].bind.key /\ bindings'[b].acct = proc[p].bind.acct
    BY <2>2, <2>12, FieldTypes DEF Binding
  <2> QED BY <2>11, <2>12, <2>13 DEF ConsistentWith, Working
<1>2. IInv /\ [Next]_vars => [\A b \in Boxes : New(b) => Holds(b)]_vars
  BY <1>1
<1> QED BY <1>2, InitIInv, StepIInv, PTL DEF Spec, ConnectedIsVerified

-----------------------------------------------------------------------------
(* One command at a time.  What follows holds when no two commands overlap *)
(* and no registration lands late, through any crash and any failure: what *)
(* a command read before it took its locks is then what is stored, and the *)
(* run SourceStaleBinding shows what is lost without that.                 *)

Serial == (\A p, q \in Procs : p = q) /\ ~LateCreates

Listed(b)  == \E k \in remoteKeys : k.box = b
Live       == {"connecting", "connected", "disconnecting"}

(* A row that is retained names its account and a key.  The account is the *)
(* authorised one, or none once the last cleanup took it; until the        *)
(* cleanup the key is the Box's.                                           *)
Rows ==
    \A b \in Boxes :
        /\ bindings[b].state = "absent" => bindings[b] = NoBinding
        /\ b \in Bound =>
            /\ bindings[b].key \in 1..MaxKeys /\ bindings[b].acct \in Accounts
            /\ \/ account = bindings[b].acct
               \/ account = None /\ bindings[b].state = "cleanup_pending"
            /\ bindings[b].state \in Live => bindings[b].key = boxKey[b]

Stored == Rows /\ inFlight = {} /\ AuthorityRecorded /\ ConnectedIsUsable /\ NamesUnambiguous

(* The labels at which a command holds the row as it is stored. *)
Reread == {"c_ensure", "c_register", "c_verify", "c_done", "s_inspect", "s_cleanup",
           "d_account", "d_revoke"}

Agree(r, s) == r.name = s.name /\ r.acct = s.acct /\ r.key = s.key

OnlyNamed(n, b, rows) == \A c \in Boxes : rows[c].state # "absent" /\ rows[c].name = n => c = b

(* What a command knows at each of its labels of the rows, of the account  *)
(* that is authorised and of the keys GitHub has.                          *)
Knows(inv, rows, owner, keys) ==
    LET row == rows[inv.box] IN
    /\ inv.pc \in {"c_account"} \cup Working => OnlyNamed(inv.name, inv.box, rows)
    /\ inv.pc \in Working => inv.acct = owner /\ row.acct \in {None, owner}
    /\ inv.pc \in Reread \/ (inv.pc = "lock" /\ inv.box # None) => inv.bind = row
    /\ inv.pc = "c_save" => inv.bind.name = inv.name /\ row.key \in {0, inv.bind.key}
    /\ inv.pc \in {"c_register", "c_record", "c_verify", "c_done"} =>
           row.state = "connecting" /\ Agree(row, inv.bind)
    /\ inv.pc = "lock" /\ inv.box # None => row.state # "absent"
    /\ inv.pc \in {"s_inspect", "d_account", "d_revoke"} => row.state \in Live
    /\ inv.pc \in {"s_cleanup", "d_delete", "d_cleanup"} =>
           row.state = "disconnecting" /\ Agree(row, inv.bind)
    /\ inv.pc \in {"d_revoke", "d_delete"} => inv.acct = owner /\ row.acct = owner
    /\ inv.pc \in {"s_cleanup", "d_cleanup"} => \A k \in keys : k.box # inv.box
    /\ inv.pc \in {"remove", "finish", "f_row"} => row.state = "cleanup_pending"

AllKnow == \A p \in Procs : Knows(proc[p], bindings, account, remoteKeys)

SerialInv == IInv /\ Stored /\ AllKnow

LEMMA StoredKept ==
    ASSUME Stored, UNCHANGED <<account, bindings, Remote>>
    PROVE  Stored'
BY DEF Stored, Rows, AuthorityRecorded, ConnectedIsUsable, NamesUnambiguous, Bound, Authenticates,
       Remote

(* A command alone moves to another invocation, or returns. *)
LEMMA KnownUpdate ==
    ASSUME Serial, TypeOK, NEW p \in Procs, NEW inv, Update(p, inv),
           Knows(inv, bindings', account', remoteKeys')
    PROVE  AllKnow'
<1>1. proc'[p] = inv
  BY DEF Update, TypeOK
<1>2. ASSUME NEW q \in Procs PROVE Knows(proc[q], bindings, account, remoteKeys)'
  <2>1. q = p
    BY DEF Serial
  <2> QED BY <1>1, <2>1 DEF Knows, OnlyNamed, Agree
<1> QED BY <1>2 DEF AllKnow

LEMMA KnownReturn ==
    ASSUME Serial, TypeOK, NEW p \in Procs, Return(p)
    PROVE  AllKnow'
<1>1. Knows(Idle, bindings', account', remoteKeys')
  BY DEF Knows, Idle, Working, Reread
<1> QED BY <1>1, KnownUpdate DEF Return

LEMMA Moved ==
    ASSUME TypeOK, NEW p \in Procs, NEW label
    PROVE  LET inv == [proc[p] EXCEPT !.pc = label]
           IN /\ inv.pc = label /\ inv.box = proc[p].box /\ inv.name = proc[p].name
              /\ inv.bind = proc[p].bind /\ inv.acct = proc[p].acct
BY DEF TypeOK, Invocation

(* A row that is saved. *)
LEMMA StoredSave ==
    ASSUME TypeOK, Stored, NEW b \in Boxes, NEW bind \in Binding, SaveBinding(b, bind),
           UNCHANGED <<account, Remote>>,
           bind.state # "absent",
           bind.key \in 1..MaxKeys, bind.acct \in Accounts,
           \/ account = bind.acct
           \/ account = None /\ bind.state = "cleanup_pending",
           bind.state \in Live => bind.key = boxKey[b],
           \A k \in remoteKeys : k.box = b =>
               bind.state \in Live /\ k.key = bind.key /\ k.acct = bind.acct,
           bind.state = "connected" => Authenticates(b),
           OnlyNamed(bind.name, b, bindings)
    PROVE  Stored'
<1>1. /\ bindings'[b] = bind /\ \A c \in Boxes \ {b} : bindings'[c] = bindings[c]
      /\ remoteKeys' = remoteKeys /\ boxKey' = boxKey /\ inFlight' = inFlight /\ account' = account
  BY DEF SaveBinding, TypeOK, Remote
<1>2. Rows'
  BY <1>1 DEF Stored, Rows, Bound, Live
<1>3. AuthorityRecorded'
  <2>1. ASSUME NEW k \in remoteKeys
        PROVE  /\ bindings'[k.box].state \in Live
               /\ bindings'[k.box].key = k.key /\ bindings'[k.box].acct = k.acct /\ account' = k.acct
    <3>1. k.box \in Boxes /\ account = k.acct
      BY DEF TypeOK, RemoteKey, Stored, AuthorityRecorded
    <3>2. CASE k.box = b
      BY <1>1, <3>1, <3>2
    <3>3. CASE k.box # b
      BY <1>1, <3>1, <3>3 DEF Stored, AuthorityRecorded, Live
    <3> QED BY <3>2, <3>3
  <2> QED BY <1>1, <2>1 DEF AuthorityRecorded, Live
<1>4. ConnectedIsUsable'
  BY <1>1 DEF Stored, ConnectedIsUsable, Authenticates, Live
<1>5. NamesUnambiguous'
  BY <1>1 DEF Stored, NamesUnambiguous, Bound, OnlyNamed
<1> QED BY <1>1, <1>2, <1>3, <1>4, <1>5 DEF Stored

(* A retained row is the only one of its name. *)
LEMMA NameIsOnly ==
    ASSUME Stored, NEW b \in Boxes, bindings[b].state # "absent"
    PROVE  OnlyNamed(bindings[b].name, b, bindings)
BY DEF Stored, NamesUnambiguous, Bound, OnlyNamed

(* The Box of a row that is not past its cleanup keeps its key. *)
LEMMA StoredHeld ==
    ASSUME Stored, UNCHANGED <<account, bindings, remoteKeys, inFlight>>,
           \A c \in Boxes : bindings[c].state \in Live => boxKey'[c] = boxKey[c]
    PROVE  Stored'
BY DEF Stored, Rows, AuthorityRecorded, ConnectedIsUsable, NamesUnambiguous, Bound, Authenticates,
       Live

(* An account that is resolved is the one every row and every key is of. *)
LEMMA AccountResolved ==
    ASSUME TypeOK, Stored, NEW a \in Accounts, NEW allow, ResolveAccount(allow, a),
           UNCHANGED <<bindings, Remote>>
    PROVE  account' = a /\ Stored'
<1>1. account' = a /\ (account = a \/ CanAuthorize(a))
  BY DEF ResolveAccount
<1>2. CASE account = a
  BY <1>1, <1>2, StoredKept
<1>3. CASE CanAuthorize(a)
  <2>1. \A c \in Bound : bindings[c].acct = a /\ account \in {None, a}
    BY <1>3 DEF CanAuthorize
  <2>2. Rows'
    BY <1>1, <2>1 DEF Stored, Rows, Bound, Remote
  <2>3. AuthorityRecorded'
    <3>1. ASSUME NEW k \in remoteKeys PROVE k.acct = a
      <4>1. k.box \in Bound /\ bindings[k.box].acct = k.acct
        BY DEF TypeOK, RemoteKey, Stored, AuthorityRecorded, Bound
      <4> QED BY <2>1, <4>1
    <3> QED BY <1>1, <3>1 DEF Stored, AuthorityRecorded, Remote
  <2> QED BY <1>1, <2>2, <2>3 DEF Stored, ConnectedIsUsable, NamesUnambiguous, Bound, Authenticates,
             Remote
<1> QED BY <1>1, <1>2, <1>3

(* The account goes only when no row, and so no key, is left. *)
LEMMA AccountCleaned ==
    ASSUME TypeOK, Stored, CleanupUnboundAccount, UNCHANGED <<bindings, Remote>>
    PROVE  Stored'
<1>1. CASE Bound # {}
  BY <1>1, StoredKept DEF CleanupUnboundAccount
<1>2. CASE Bound = {}
  <2>1. remoteKeys = {}
    BY <1>2 DEF Stored, AuthorityRecorded, Bound, TypeOK, RemoteKey
  <2> QED BY <1>2, <2>1 DEF Stored, Rows, AuthorityRecorded, ConnectedIsUsable, NamesUnambiguous, Bound, Authenticates,
             Remote
<1> QED BY <1>1, <1>2

LEMMA SerialConnect ==
    ASSUME Serial, SerialInv, NEW p \in Procs, Connect(p)
    PROVE  Stored' /\ AllKnow'
<1> DEFINE K(inv) == Knows(inv, bindings', account', remoteKeys')
           b == proc[p].box
<1>0. /\ TypeOK /\ Stored /\ Knows(proc[p], bindings, account, remoteKeys)
      /\ ConsistentWith(proc[p], boxKey, remoteKeys)
      /\ proc[p] \in Invocation /\ proc[p].bind \in Binding
      /\ proc[p].pc \in Locked \ {"unbound"} => b \in Boxes
  BY FieldTypes DEF SerialInv, IInv, Core, Saved, AllKnow, HasBox
<1>1. ASSUME NEW c \in Boxes, NEW n \in Names, ConnectBegin(p, c, n) PROVE Stored' /\ AllKnow'
  <2> DEFINE inv == [Idle EXCEPT !.pc = "c_account", !.op = "connect", !.box = c, !.name = n,
                              !.target = TRUE, !.fresh = account = None]
  <2>1. UNCHANGED <<account, bindings, Remote>> /\ Update(p, inv) /\ OnlyNamed(n, c, bindings)
    BY <1>1 DEF ConnectBegin, OnlyNamed, Named, Bound
  <2>2. inv.pc = "c_account" /\ inv.box = c /\ inv.name = n
    BY DEF Idle
  <2> HIDE DEF inv
  <2>3. K(inv)
    BY <2>1, <2>2 DEF Knows, Working, Reread, OnlyNamed
  <2> QED BY <1>0, <2>1, <2>3, StoredKept, KnownUpdate
<1>2. ASSUME NEW allow \in BOOLEAN, NEW a \in Accounts, ConnectResolveAccount(p, allow, a)
      PROVE  Stored' /\ AllKnow'
  <2> DEFINE bind == bindings[b]
             label == IF bind.acct \in {None, a} THEN "c_ensure" ELSE "c_undo"
             inv == [proc[p] EXCEPT !.acct = a, !.bind = bind, !.pc = label]
  <2>1. /\ proc[p].pc = "c_account" /\ ResolveAccount(allow, a)
        /\ UNCHANGED <<bindings, Remote>>
    BY <1>2 DEF ConnectResolveAccount
  <2>2. account' = a /\ Stored'
    BY <1>0, <2>1, AccountResolved
  <2>3. CASE Update(p, inv)
    <3>1. label = "c_undo" \/ (label = "c_ensure" /\ bind.acct \in {None, a})
      OBVIOUS
    <3>2. OnlyNamed(proc[p].name, b, bindings)
      BY <1>0, <2>1 DEF Knows
    <3> HIDE DEF label
    <3>3. inv.pc = label /\ inv.acct = a /\ inv.bind = bind /\ inv.box = b /\ inv.name = proc[p].name
      BY <1>0 DEF Invocation
    <3> HIDE DEF inv
    <3>4. K(inv)
      BY <2>1, <2>2, <3>1, <3>2, <3>3 DEF Knows, Working, Reread, OnlyNamed
    <3> QED BY <1>0, <2>2, <2>3, <3>4, KnownUpdate
  <2> QED BY <1>0, <1>2, <2>2, <2>3, KnownReturn DEF ConnectResolveAccount
<1>3. CASE ConnectUndo(p)
  BY <1>0, <1>3, AccountCleaned, StoredKept, KnownReturn DEF ConnectUndo
<1>4. CASE ConnectPreflight(p)
  BY <1>0, <1>4, StoredKept, KnownReturn DEF ConnectPreflight
<1>5. CASE ConnectEnsureIdentity(p)
  <2> DEFINE key == IF boxKey[b] # 0 THEN boxKey[b] ELSE used.keys[b] + 1
             bind == [state |-> "connecting", name |-> proc[p].name, acct |-> proc[p].acct,
                      key |-> key, id |-> proc[p].bind.id]
             inv == [proc[p] EXCEPT !.pc = "c_save", !.bind = bind]
  <2>1. /\ b \in Boxes /\ proc[p].pc = "c_ensure" /\ boxKey' = [boxKey EXCEPT ![b] = key]
        /\ UNCHANGED <<account, bindings, remoteKeys, inFlight>>
    BY <1>0, <1>5 DEF ConnectEnsureIdentity, Locked
  <2>2. Stored'
    <3> HIDE DEF key
    <3>1. \A c \in Boxes : boxKey[c] # 0 => boxKey'[c] = boxKey[c]
      BY <1>0, <2>1 DEF TypeOK, key
    <3>2. \A c \in Boxes : bindings[c].state \in Live => boxKey[c] # 0
      BY <1>0 DEF Stored, Rows, Bound, Live
    <3> QED BY <1>0, <2>1, <3>1, <3>2, StoredHeld
  <2>3. CASE Goto(p, "c_undo")
    <3> DEFINE undo == [proc[p] EXCEPT !.pc = "c_undo"]
    <3>1. undo.pc = "c_undo" /\ Update(p, undo)
      BY <1>0, <2>3 DEF Goto, Invocation
    <3> HIDE DEF undo
    <3>2. K(undo)
      BY <3>1 DEF Knows, Working, Reread
    <3> QED BY <1>0, <2>2, <3>1, <3>2, KnownUpdate
  <2>4. CASE Update(p, inv) /\ proc[p].bind.key \in {0, key}
    <3> HIDE DEF key
    <3>1. inv.pc = "c_save" /\ inv.bind = bind /\ inv.box = b /\ inv.acct = proc[p].acct /\ inv.name = proc[p].name
      BY <1>0 DEF Invocation
    <3>2. /\ OnlyNamed(inv.name, b, bindings) /\ inv.acct = account /\ bindings[b].acct \in {None, account}
          /\ bindings[b] = proc[p].bind
      BY <1>0, <2>1, <3>1 DEF Knows, Working, Reread
    <3> HIDE DEF inv
    <3>3. K(inv)
      BY <2>1, <2>4, <3>1, <3>2 DEF Knows, Working, Reread, OnlyNamed
    <3> QED BY <1>0, <2>2, <2>4, <3>3, KnownUpdate
  <2> QED BY <1>5, <2>2, <2>3, <2>4 DEF ConnectEnsureIdentity
<1>6. CASE ConnectCheckpoint(p)
  <2> DEFINE inv == [proc[p] EXCEPT !.pc = "c_register", !.fresh = FALSE]
             bind == proc[p].bind
  <2>1. /\ proc[p].pc = "c_save" /\ UNCHANGED <<account, Remote>> /\ Update(p, inv) /\ b \in Boxes
        /\ SaveBinding(b, bind)
    BY <1>0, <1>6 DEF ConnectCheckpoint, Locked
  <2>2. /\ bind.state = "connecting" /\ bind.acct = account /\ bind.key = boxKey[b] /\ bind.key \in 1..MaxKeys
        /\ bind.acct \in Accounts /\ bind.name = proc[p].name /\ OnlyNamed(bind.name, b, bindings)
        /\ bindings[b].key \in {0, bind.key} /\ proc[p].acct = account
    BY <1>0, <2>1 DEF Knows, ConsistentWith, Working
  <2>3. ASSUME NEW k \in remoteKeys, k.box = b PROVE k.key = bind.key /\ k.acct = bind.acct
    BY <1>0, <2>1, <2>2, <2>3 DEF Stored, AuthorityRecorded, Rows, Bound
  <2>4. Stored'
    BY <1>0, <2>1, <2>2, <2>3, StoredSave DEF Live
  <2>5. bindings'[b] = bind
    BY <1>0, <2>1 DEF SaveBinding, TypeOK
  <2>6. inv.pc = "c_register" /\ inv.bind = bind /\ inv.box = b /\ inv.acct = account /\ inv.name = bind.name
    BY <1>0, <2>2 DEF Invocation
  <2>7. OnlyNamed(bind.name, b, bindings')
    BY <1>0, <2>1, <2>2 DEF OnlyNamed, SaveBinding, TypeOK
  <2> HIDE DEF inv, bind
  <2>8. K(inv)
    BY <2>1, <2>2, <2>5, <2>6, <2>7 DEF Knows, Working, Reread, Agree, OnlyNamed
  <2> QED BY <1>0, <2>1, <2>4, <2>8, KnownUpdate
<1>7. ASSUME NEW i \in 0..MaxIDs, proc[p].pc = "c_register",
             Update(p, [proc[p] EXCEPT !.pc = "c_record", !.bind.id = i]),
             UNCHANGED <<account, bindings>>
      PROVE  AllKnow'
  <2> DEFINE inv == [proc[p] EXCEPT !.pc = "c_record", !.bind.id = i]
  <2>1. /\ inv.pc = "c_record" /\ inv.box = b /\ inv.acct = proc[p].acct /\ inv.name = proc[p].name
        /\ inv.bind = [proc[p].bind EXCEPT !.id = i]
    BY <1>0 DEF Invocation
  <2>2. Agree(proc[p].bind, inv.bind)
    BY <1>0, <2>1 DEF Agree, Binding
  <2> HIDE DEF inv
  <2>3. /\ OnlyNamed(inv.name, b, bindings) /\ inv.acct = account /\ bindings[b].acct \in {None, account}
        /\ bindings[b].state = "connecting" /\ Agree(bindings[b], inv.bind)
    BY <1>0, <1>7, <2>1, <2>2 DEF Knows, Working, Agree
  <2>4. K(inv)
    BY <1>7, <2>1, <2>3 DEF Knows, Working, Reread, OnlyNamed, Agree
  <2> QED BY <1>0, <1>7, <2>4, KnownUpdate DEF inv
<1>8. CASE ConnectFindKey(p)
  <2>1. PICK k \in remoteKeys : Update(p, [proc[p] EXCEPT !.pc = "c_record", !.bind.id = k.id])
    BY <1>8 DEF ConnectFindKey, FindRemoteKey, KeysOf
  <2>2. k.id \in 0..MaxIDs
    BY <1>0 DEF TypeOK, RemoteKey
  <2>3. proc[p].pc = "c_register" /\ UNCHANGED <<account, bindings, Remote>>
    BY <1>8 DEF ConnectFindKey
  <2> QED BY <1>0, <1>7, <2>1, <2>2, <2>3, StoredKept
<1>9. CASE ConnectCreateKey(p)
  <2> DEFINE bind == proc[p].bind
             k == [box |-> b, key |-> bind.key, acct |-> proc[p].acct, id |-> used.ids + 1]
  <2>1. /\ proc[p].pc = "c_register" /\ UNCHANGED <<account, bindings, boxKey, inFlight>>
        /\ remoteKeys' = remoteKeys \cup {k} /\ used.ids + 1 \in 0..MaxIDs /\ b \in Boxes
    BY <1>0, <1>9, SourceConstants DEF ConnectCreateKey, Register, TypeOK, Locked
  <2>2. /\ bindings[b].state = "connecting" /\ bindings[b].key = bind.key /\ bindings[b].acct = proc[p].acct
        /\ account = proc[p].acct
    BY <1>0, <2>1 DEF Knows, ConsistentWith, Working, Reread, Agree
  <2>3. k.box = b /\ k.key = bind.key /\ k.acct = proc[p].acct
    OBVIOUS
  <2> HIDE DEF k
  <2>4. Stored'
    <3>1. AuthorityRecorded'
      BY <1>0, <2>1, <2>2, <2>3 DEF Stored, AuthorityRecorded
    <3>2. ConnectedIsUsable'
      BY <1>0, <2>1 DEF Stored, ConnectedIsUsable, Authenticates
    <3> QED BY <1>0, <2>1, <3>1, <3>2 DEF Stored, Rows, NamesUnambiguous, Bound
  <2> QED BY <1>0, <1>7, <1>9, <2>1, <2>4, KnownReturn DEF ConnectCreateKey
<1>10. ~ ConnectCreateDelayed(p)
  BY DEF ConnectCreateDelayed, Serial
<1>11. CASE ConnectRecordKey(p)
  <2> DEFINE inv == [proc[p] EXCEPT !.pc = "c_verify"]
             bind == proc[p].bind
  <2>1. /\ proc[p].pc = "c_record" /\ UNCHANGED <<account, Remote>> /\ Update(p, inv) /\ b \in Boxes
        /\ SaveBinding(b, bind)
    BY <1>0, <1>11 DEF ConnectRecordKey, Goto, Locked
  <2>2. /\ bind.state = "connecting" /\ bind.acct = account /\ bind.key = boxKey[b] /\ bind.key \in 1..MaxKeys
        /\ bind.acct \in Accounts /\ OnlyNamed(proc[p].name, b, bindings) /\ proc[p].acct = account
        /\ bindings[b].state = "connecting" /\ Agree(bindings[b], bind)
    BY <1>0, <2>1 DEF Knows, ConsistentWith, Working
  <2>3. ASSUME NEW k \in remoteKeys, k.box = b PROVE k.key = bind.key /\ k.acct = bind.acct
    BY <1>0, <2>1, <2>2, <2>3 DEF Stored, AuthorityRecorded, Agree
  <2>4. OnlyNamed(bind.name, b, bindings)
    BY <1>0, <2>1, <2>2, NameIsOnly DEF Agree
  <2>5. Stored'
    BY <1>0, <2>1, <2>2, <2>3, <2>4, StoredSave DEF Live
  <2>6. bindings'[b] = bind
    BY <1>0, <2>1 DEF SaveBinding, TypeOK
  <2>7. inv.pc = "c_verify" /\ inv.bind = bind /\ inv.box = b /\ inv.acct = account /\ inv.name = proc[p].name
    BY <1>0, <2>2 DEF Invocation
  <2>8. OnlyNamed(proc[p].name, b, bindings')
    BY <1>0, <2>1, <2>2 DEF OnlyNamed, SaveBinding, TypeOK
  <2> HIDE DEF inv, bind
  <2>9. K(inv)
    BY <2>1, <2>2, <2>6, <2>7, <2>8 DEF Knows, Working, Reread, Agree, OnlyNamed
  <2> QED BY <1>0, <2>1, <2>5, <2>9, KnownUpdate
<1>12. CASE ConnectVerify(p)
  <2> DEFINE inv == [proc[p] EXCEPT !.pc = "c_done"]
  <2>1. proc[p].pc = "c_verify" /\ UNCHANGED <<account, bindings, Remote>> /\ Update(p, inv)
    BY <1>12 DEF ConnectVerify, Goto
  <2>2. /\ inv.pc = "c_done" /\ inv.box = proc[p].box /\ inv.name = proc[p].name
        /\ inv.bind = proc[p].bind /\ inv.acct = proc[p].acct
    BY <1>0 DEF Invocation
  <2> HIDE DEF inv
  <2>3. K(inv)
    BY <1>0, <2>1, <2>2 DEF Knows, Working, Reread, Agree, OnlyNamed
  <2> QED BY <1>0, <2>1, <2>3, StoredKept, KnownUpdate
<1>13. CASE ConnectFinish(p)
  <2> DEFINE row == proc[p].bind
             bind == [row EXCEPT !.state = "connected"]
  <2>1. /\ proc[p].pc = "c_done" /\ UNCHANGED <<account, Remote>> /\ b \in Boxes /\ SaveBinding(b, bind) /\ Return(p)
    BY <1>0, <1>13 DEF ConnectFinish, Locked
  <2>2. bind \in Binding /\ bind.state = "connected" /\ Agree(row, bind)
    BY <1>0, StateType DEF Binding, Agree, States
  <2>3. /\ row.acct = account /\ row.key = boxKey[b] /\ row.key \in 1..MaxKeys
        /\ row.acct \in Accounts /\ bindings[b] = row /\ row.state = "connecting" /\ Authenticates(b)
    BY <1>0, <2>1 DEF Knows, ConsistentWith, Working, Reread, Authenticates
  <2>4. OnlyNamed(row.name, b, bindings)
    BY <1>0, <2>1, <2>3, NameIsOnly
  <2>5. ASSUME NEW k \in remoteKeys, k.box = b PROVE k.key = row.key /\ k.acct = row.acct
    BY <1>0, <2>1, <2>3, <2>5 DEF Stored, AuthorityRecorded
  <2> HIDE DEF bind
  <2>6. /\ bind.state = "connected" /\ bind.acct = account /\ bind.key = boxKey[b] /\ bind.key \in 1..MaxKeys
        /\ bind.acct \in Accounts /\ OnlyNamed(bind.name, b, bindings)
        /\ \A k \in remoteKeys : k.box = b => k.key = bind.key /\ k.acct = bind.acct
    BY <2>2, <2>3, <2>4, <2>5 DEF Agree
  <2>7. Stored'
    BY <1>0, <2>1, <2>2, <2>3, <2>6, StoredSave DEF Live
  <2> QED BY <1>0, <2>1, <2>7, KnownReturn
<1> QED BY <1>1, <1>2, <1>3, <1>4, <1>5, <1>6, <1>8, <1>9, <1>10, <1>11, <1>12, <1>13 DEF Connect

(* A command whose row is past revocation goes on to the Box. *)
LEMMA RemoveKnows ==
    ASSUME Serial, TypeOK, NEW p \in Procs, Goto(p, "remove"),
           bindings'[proc[p].box].state = "cleanup_pending"
    PROVE  AllKnow'
<1> DEFINE inv == [proc[p] EXCEPT !.pc = "remove"]
<1>1. inv.pc = "remove" /\ inv.box = proc[p].box /\ Update(p, inv)
  BY DEF TypeOK, Invocation, Goto
<1> HIDE DEF inv
<1>2. Knows(inv, bindings', account', remoteKeys')
  BY <1>1 DEF Knows, Working, Reread
<1> QED BY <1>1, <1>2, KnownUpdate

(* The row of a command that rereads nothing is written back in another state. *)
LEMMA StoredState ==
    ASSUME TypeOK, Stored, NEW b \in Boxes, NEW r \in Binding, Agree(bindings[b], r),
           NEW s \in {"disconnecting", "cleanup_pending"},
           SaveBinding(b, [r EXCEPT !.state = s]), UNCHANGED <<account, Remote>>,
           bindings[b].state \in Live,
           s = "cleanup_pending" => \A k \in remoteKeys : k.box # b
    PROVE  /\ Stored' /\ bindings'[b].state = s /\ Agree(bindings[b], bindings'[b])
           /\ \A c \in Boxes \ {b} : bindings'[c] = bindings[c]
<1> DEFINE bind == [r EXCEPT !.state = s]
<1>1. bind \in Binding /\ bind.state = s /\ Agree(bindings[b], bind) /\ SaveBinding(b, bind)
  BY DEF Binding, Agree, States
<1> HIDE DEF bind
<1>2. /\ bind.key \in 1..MaxKeys /\ bind.acct \in Accounts /\ account = bind.acct /\ bind.key = boxKey[b]
      /\ OnlyNamed(bind.name, b, bindings)
  BY <1>1, NameIsOnly DEF Stored, Rows, Bound, Live, Agree
<1>3. ASSUME NEW k \in remoteKeys, k.box = b PROVE k.key = bind.key /\ k.acct = bind.acct
  BY <1>1, <1>3 DEF Stored, AuthorityRecorded, Agree
<1>4. Stored'
  BY <1>1, <1>2, <1>3, StoredSave DEF Live
<1>5. bindings'[b] = bind /\ \A c \in Boxes \ {b} : bindings'[c] = bindings[c]
  BY <1>1 DEF SaveBinding, TypeOK
<1> QED BY <1>1, <1>4, <1>5

(* A status or a disconnect begins with a row that is retained. *)
LEMMA BeginKnows ==
    ASSUME Serial, TypeOK, Stored, NEW p \in Procs, NEW op, NEW t, NEW n,
           NEW found \in ResolveBinding(t, n), BeginWith(p, op, found, n)
    PROVE  Stored' /\ AllKnow'
<1> DEFINE inv == [Idle EXCEPT !.pc = "lock", !.op = op, !.box = found.box, !.name = n,
                              !.target = found.target, !.bind = bindings[found.box]]
<1>1. bindings[found.box].state # "absent"
  BY ResolvedBox
<1>2. Update(p, inv) /\ UNCHANGED <<account, bindings, Remote>>
  BY DEF BeginWith
<1>3. inv.pc = "lock" /\ inv.box = found.box /\ inv.bind = bindings[found.box]
  BY DEF Idle
<1> HIDE DEF inv
<1>4. Knows(inv, bindings', account', remoteKeys')
  BY <1>1, <1>2, <1>3 DEF Knows, Working, Reread
<1> QED BY <1>2, <1>4, StoredKept, KnownUpdate

LEMMA SerialStatus ==
    ASSUME Serial, SerialInv, NEW p \in Procs, Status(p)
    PROVE  Stored' /\ AllKnow'
<1> DEFINE K(inv) == Knows(inv, bindings', account', remoteKeys')
           b    == proc[p].box
           bind == proc[p].bind
<1>0. /\ TypeOK /\ Stored /\ Knows(proc[p], bindings, account, remoteKeys)
      /\ proc[p] \in Invocation /\ bind \in Binding
      /\ proc[p].pc \in Locked \ {"unbound"} => b \in Boxes
  BY FieldTypes DEF SerialInv, IInv, Core, AllKnow, HasBox
<1>1. ASSUME NEW t, NEW n, StatusBegin(p, t, n) PROVE Stored' /\ AllKnow'
  BY <1>0, <1>1, BeginKnows DEF StatusBegin
<1>2. CASE StatusInspect(p)
  <2> DEFINE keys == FindRemoteKey(KeysOf(account), b, bind)
  <2>1. /\ proc[p].pc = "s_inspect" /\ b \in Boxes /\ bindings[b] = bind /\ bind.state \in Live
        /\ account = bind.acct /\ UNCHANGED <<account, Remote>>
    BY <1>0, <1>2 DEF StatusInspect, Knows, Reread, Locked
  <2>2. CASE bind.state = "disconnecting" /\ keys = {} /\ Goto(p, "s_cleanup") /\ UNCHANGED bindings
    <3> DEFINE inv == [proc[p] EXCEPT !.pc = "s_cleanup"]
    <3>1. inv.pc = "s_cleanup" /\ inv.box = b /\ inv.bind = bind /\ Update(p, inv)
      BY <1>0, <2>2 DEF Goto, Invocation
    <3>2. \A k \in remoteKeys : k.box # b
      BY <1>0, <2>1, <2>2 DEF Stored, AuthorityRecorded, FindRemoteKey, KeysOf
    <3> HIDE DEF inv
    <3>3. K(inv)
      BY <2>1, <2>2, <3>1, <3>2 DEF Knows, Working, Reread, Agree, Remote
    <3> QED BY <1>0, <2>1, <2>2, <3>1, <3>3, StoredKept, KnownUpdate
  <2>3. ASSUME bind.state = "connecting", NEW k \in keys, SaveBinding(b, [bind EXCEPT !.id = k.id]), Return(p)
        PROVE  Stored' /\ AllKnow'
    <3> DEFINE row == [bind EXCEPT !.id = k.id]
    <3>1. row \in Binding /\ row.state = "connecting" /\ Agree(bind, row) /\ SaveBinding(b, row)
      <4>1. k.id \in 0..MaxIDs
        BY <1>0 DEF TypeOK, RemoteKey, FindRemoteKey, KeysOf
      <4> QED BY <1>0, <2>3, <4>1, IdType DEF Binding, Agree
    <3> HIDE DEF row
    <3>2. /\ row.key \in 1..MaxKeys /\ row.acct \in Accounts /\ account = row.acct /\ row.key = boxKey[b]
          /\ OnlyNamed(row.name, b, bindings)
      BY <1>0, <2>1, <2>3, <3>1, NameIsOnly DEF Stored, Rows, Bound, Live, Agree
    <3>3. ASSUME NEW h \in remoteKeys, h.box = b PROVE h.key = row.key /\ h.acct = row.acct
      BY <1>0, <2>1, <3>1, <3>3 DEF Stored, AuthorityRecorded, Agree
    <3>4. Stored'
      BY <1>0, <2>1, <3>1, <3>2, <3>3, StoredSave DEF Live
    <3> QED BY <1>0, <2>3, <3>4, KnownReturn
  <2> QED BY <1>2, <2>2, <2>3 DEF StatusInspect
<1>3. CASE StatusCheckpoint(p)
  <2>1. /\ proc[p].pc = "s_cleanup" /\ b \in Boxes /\ bindings[b] = bind /\ bindings[b].state \in Live
        /\ \A k \in remoteKeys : k.box # b
    BY <1>0, <1>3 DEF StatusCheckpoint, Knows, Reread, Locked, Live
  <2>2. Stored' /\ bindings'[b].state = "cleanup_pending"
    BY <1>0, <1>3, <2>1, StoredState DEF StatusCheckpoint, Agree
  <2> QED BY <1>0, <1>3, <2>2, RemoveKnows DEF StatusCheckpoint
<1> QED BY <1>1, <1>2, <1>3 DEF Status

LEMMA SerialDisconnect ==
    ASSUME Serial, SerialInv, NEW p \in Procs, Disconnect(p)
    PROVE  Stored' /\ AllKnow'
<1> DEFINE K(inv) == Knows(inv, bindings', account', remoteKeys')
           b    == proc[p].box
           bind == proc[p].bind
<1>0. /\ TypeOK /\ Stored /\ Knows(proc[p], bindings, account, remoteKeys)
      /\ proc[p] \in Invocation /\ bind \in Binding
      /\ proc[p].pc \in Locked \ {"unbound"} => b \in Boxes
  BY FieldTypes DEF SerialInv, IInv, Core, AllKnow, HasBox
<1>1. ASSUME NEW t, NEW n, DisconnectBegin(p, t, n) PROVE Stored' /\ AllKnow'
  BY <1>0, <1>1, BeginKnows DEF DisconnectBegin
<1>2. ASSUME NEW t, NEW n, DisconnectUnbound(p, t, n) PROVE Stored' /\ AllKnow'
  <2> DEFINE inv == [Idle EXCEPT !.pc = "lock", !.op = "disconnect", !.name = n]
  <2>1. inv.pc = "lock" /\ inv.box = None
    BY DEF Idle
  <2>2. Update(p, inv) /\ UNCHANGED <<account, bindings, Remote>>
    BY <1>2 DEF DisconnectUnbound
  <2> HIDE DEF inv
  <2>3. K(inv)
    BY <2>1 DEF Knows, Working, Reread
  <2> QED BY <1>0, <2>2, <2>3, StoredKept, KnownUpdate
<1>3. ASSUME NEW allow \in BOOLEAN, NEW a \in Accounts, DisconnectResolveAccount(p, allow, a)
      PROVE  Stored' /\ AllKnow'
  <2> DEFINE inv == [proc[p] EXCEPT !.pc = "d_revoke", !.acct = a]
  <2>1. /\ proc[p].pc = "d_account" /\ b \in Boxes /\ ResolveAccount(allow, a)
        /\ UNCHANGED <<bindings, Remote>> /\ bindings[b] = bind /\ bind.state \in Live
    BY <1>0, <1>3 DEF DisconnectResolveAccount, Knows, Reread, Locked
  <2>2. account' = a /\ Stored'
    BY <1>0, <2>1, AccountResolved
  <2>3. CASE Update(p, inv)
    <3>1. inv.pc = "d_revoke" /\ inv.acct = a /\ inv.bind = bind /\ inv.box = b
      BY <1>0 DEF Invocation
    <3>2. bindings'[b].acct = a
      BY <2>1, <2>2 DEF Stored, Rows, Bound, Live
    <3> HIDE DEF inv
    <3>3. K(inv)
      BY <2>1, <2>2, <3>1, <3>2 DEF Knows, Working, Reread
    <3> QED BY <1>0, <2>2, <2>3, <3>3, KnownUpdate
  <2> QED BY <1>0, <1>3, <2>2, <2>3, KnownReturn DEF DisconnectResolveAccount
<1>4. CASE DisconnectCheckpoint(p)
  <2> DEFINE keys  == FindRemoteKey(KeysOf(proc[p].acct), b, bind)
             label == IF keys = {} THEN "d_cleanup" ELSE "d_delete"
             inv   == [proc[p] EXCEPT !.pc = label]
  <2>1. /\ proc[p].pc = "d_revoke" /\ b \in Boxes /\ bindings[b] = bind /\ bindings[b].state \in Live
        /\ proc[p].acct = account /\ bind.acct = account /\ UNCHANGED <<account, Remote>>
    BY <1>0, <1>4 DEF DisconnectCheckpoint, Knows, Reread, Locked
  <2>2. /\ Stored' /\ bindings'[b].state = "disconnecting" /\ Agree(bindings[b], bindings'[b])
    BY <1>0, <1>4, <2>1, StoredState DEF DisconnectCheckpoint, Agree
  <2>3. label = "d_delete" \/ (label = "d_cleanup" /\ \A k \in remoteKeys : k.box # b)
    BY <1>0, <2>1 DEF Stored, AuthorityRecorded, FindRemoteKey, KeysOf
  <2>4. Update(p, inv)
    BY <1>4 DEF DisconnectCheckpoint, Goto
  <2> HIDE DEF label
  <2>5. inv.pc = label /\ inv.acct = account /\ inv.bind = bind /\ inv.box = b
    BY <1>0, <2>1 DEF Invocation
  <2> HIDE DEF inv
  <2>6. K(inv)
    BY <2>1, <2>2, <2>3, <2>5 DEF Knows, Working, Reread, Agree, Remote
  <2> QED BY <1>0, <2>2, <2>4, <2>6, KnownUpdate
<1>5. CASE DisconnectDeleteKey(p)
  <2> DEFINE inv == [proc[p] EXCEPT !.pc = "d_cleanup"]
  <2>1. /\ proc[p].pc = "d_delete" /\ b \in Boxes /\ bindings[b].state = "disconnecting"
        /\ Agree(bindings[b], bind) /\ bind.acct = account /\ proc[p].acct = account
        /\ UNCHANGED <<account, bindings, boxKey, inFlight>>
    BY <1>0, <1>5 DEF DisconnectDeleteKey, Knows, Locked, Agree
  <2>2. remoteKeys' = {k \in remoteKeys : k.box # b}
    <3>1. FindRemoteKey(KeysOf(proc[p].acct), b, bind) = {k \in remoteKeys : k.box = b}
      BY <1>0, <2>1 DEF FindRemoteKey, KeysOf, Stored, AuthorityRecorded, Agree
    <3> QED BY <1>5, <3>1 DEF DisconnectDeleteKey
  <2>3. Stored'
    BY <1>0, <2>1, <2>2 DEF Stored, Rows, AuthorityRecorded, ConnectedIsUsable, NamesUnambiguous,
       Bound, Authenticates
  <2>4. CASE Goto(p, "d_cleanup")
    <3>1. inv.pc = "d_cleanup" /\ inv.bind = bind /\ inv.box = b /\ Update(p, inv)
      BY <1>0, <2>4 DEF Invocation, Goto
    <3> HIDE DEF inv
    <3>2. K(inv)
      BY <2>1, <2>2, <3>1 DEF Knows, Working, Reread, Agree
    <3> QED BY <1>0, <2>3, <3>1, <3>2, KnownUpdate
  <2> QED BY <1>0, <1>5, <2>3, <2>4, KnownReturn DEF DisconnectDeleteKey
<1>6. CASE DisconnectRevoked(p)
  <2>1. /\ proc[p].pc = "d_cleanup" /\ b \in Boxes /\ Agree(bindings[b], bind) /\ bindings[b].state \in Live
        /\ \A k \in remoteKeys : k.box # b
    BY <1>0, <1>6 DEF DisconnectRevoked, Knows, Locked, Live
  <2>2. Stored' /\ bindings'[b].state = "cleanup_pending"
    BY <1>0, <1>6, <2>1, StoredState DEF DisconnectRevoked
  <2> QED BY <1>0, <1>6, <2>2, RemoveKnows DEF DisconnectRevoked
<1> QED BY <1>1, <1>2, <1>3, <1>4, <1>5, <1>6 DEF Disconnect

LEMMA SerialCleanup ==
    ASSUME Serial, SerialInv, NEW p \in Procs, Cleanup(p)
    PROVE  Stored' /\ AllKnow'
<1> DEFINE K(inv) == Knows(inv, bindings', account', remoteKeys')
           b    == proc[p].box
           bind == proc[p].bind
<1>0. /\ TypeOK /\ Stored /\ Knows(proc[p], bindings, account, remoteKeys)
      /\ proc[p] \in Invocation /\ bind \in Binding
      /\ proc[p].pc \in Locked \ {"unbound"} => b \in Boxes
  BY FieldTypes DEF SerialInv, IInv, Core, AllKnow, HasBox
<1>1. CASE AcquireOperation(p)
  <2> DEFINE label == AfterLock(proc[p])
             inv   == [proc[p] EXCEPT !.pc = label]
  <2>1. proc[p].pc = "lock" /\ UNCHANGED <<account, bindings, Remote>> /\ Update(p, inv)
    BY <1>1 DEF AcquireOperation, Goto
  <2>2. \/ label = "unbound"
        \/ b # None /\ bind.state = "cleanup_pending" /\ label = "remove"
        \/ b # None /\ bind.state # "cleanup_pending" /\ label \in {"s_inspect", "d_account"}
    BY DEF AfterLock
  <2>3. b # None => bindings[b] = bind /\ bind.state # "absent"
    BY <1>0, <2>1 DEF Knows
  <2>4. bind.state \in States \cup {"absent"}
    BY <1>0 DEF Binding
  <2> HIDE DEF label
  <2>5. inv.pc = label /\ inv.bind = bind /\ inv.box = b
    BY <1>0 DEF Invocation
  <2> HIDE DEF inv
  <2>6. K(inv)
    BY <2>1, <2>2, <2>3, <2>4, <2>5 DEF Knows, Working, Reread, States, Live
  <2> QED BY <1>0, <2>1, <2>6, StoredKept, KnownUpdate
<1>2. CASE OperationBusy(p)
  BY <1>0, <1>2, StoredKept, KnownReturn DEF OperationBusy
<1>3. CASE CleanupUnbound(p)
  BY <1>0, <1>3, AccountCleaned, KnownReturn DEF CleanupUnbound
<1>4. CASE RemoveBoxKey(p)
  <2> DEFINE inv == [proc[p] EXCEPT !.pc = "finish"]
  <2>1. /\ proc[p].pc = "remove" /\ b \in Boxes /\ bindings[b].state = "cleanup_pending"
        /\ UNCHANGED <<account, bindings, remoteKeys, inFlight>> /\ boxKey' = [boxKey EXCEPT ![b] = 0]
    BY <1>0, <1>4 DEF RemoveBoxKey, Knows, Locked
  <2>2. Stored'
    BY <1>0, <2>1, StoredHeld DEF Live, TypeOK
  <2>3. CASE Goto(p, "finish")
    <3>1. inv.pc = "finish" /\ inv.box = b /\ Update(p, inv)
      BY <1>0, <2>3 DEF Invocation, Goto
    <3> HIDE DEF inv
    <3>2. K(inv)
      BY <2>1, <3>1 DEF Knows, Working, Reread
    <3> QED BY <1>0, <2>2, <3>1, <3>2, KnownUpdate
  <2> QED BY <1>0, <1>4, <2>2, <2>3, KnownReturn DEF RemoveBoxKey
<1>5. CASE FinishAccount(p)
  <2> DEFINE inv == [proc[p] EXCEPT !.pc = "f_row"]
  <2>1. /\ proc[p].pc = "finish" /\ b \in Boxes /\ bindings[b].state = "cleanup_pending" /\ Bound = {b}
        /\ account' = None /\ UNCHANGED <<bindings, Remote>> /\ Goto(p, "f_row")
    BY <1>0, <1>5 DEF FinishAccount, Knows, Locked
  <2>2. remoteKeys = {}
    BY <1>0, <2>1 DEF Stored, AuthorityRecorded, Bound, TypeOK, RemoteKey
  <2>3. Stored'
    BY <1>0, <2>1, <2>2 DEF Stored, Rows, AuthorityRecorded, ConnectedIsUsable, NamesUnambiguous,
       Bound, Authenticates, Remote, Live
  <2>4. inv.pc = "f_row" /\ inv.box = b /\ Update(p, inv)
    BY <1>0, <2>1 DEF Invocation, Goto
  <2> HIDE DEF inv
  <2>5. K(inv)
    BY <2>1, <2>4 DEF Knows, Working, Reread
  <2> QED BY <1>0, <2>3, <2>4, <2>5, KnownUpdate
<1>6. CASE FinishBinding(p)
  <2>1. /\ b \in Boxes /\ bindings[b].state = "cleanup_pending" /\ SaveBinding(b, NoBinding)
        /\ UNCHANGED <<account, Remote>>
    BY <1>0, <1>6 DEF FinishBinding, Knows, Locked
  <2>2. \A k \in remoteKeys : k.box # b
    BY <1>0, <2>1 DEF Stored, AuthorityRecorded
  <2>3. /\ bindings'[b] = NoBinding /\ \A c \in Boxes \ {b} : bindings'[c] = bindings[c]
        /\ remoteKeys' = remoteKeys /\ boxKey' = boxKey /\ inFlight' = inFlight
    BY <1>0, <2>1 DEF SaveBinding, TypeOK, Remote
  <2>4. AuthorityRecorded'
    <3>1. \A k \in remoteKeys : bindings'[k.box] = bindings[k.box]
      BY <1>0, <2>2, <2>3 DEF TypeOK, RemoteKey
    <3> QED BY <1>0, <2>1, <2>3, <3>1 DEF Stored, AuthorityRecorded
  <2>5. Stored'
    BY <1>0, <2>1, <2>3, <2>4 DEF Stored, Rows, ConnectedIsUsable, NamesUnambiguous, Bound, Authenticates,
       NoBinding, Live
  <2> QED BY <1>0, <1>6, <2>5, KnownReturn DEF FinishBinding
<1> QED BY <1>1, <1>2, <1>3, <1>4, <1>5, <1>6 DEF Cleanup

LEMMA SerialStep == ASSUME Serial, SerialInv, [Next]_vars PROVE SerialInv'
<1>1. IInv'
  BY StepIInv DEF SerialInv
<1>2. TypeOK /\ Stored /\ AllKnow
  BY DEF SerialInv, IInv, Core
<1>3. ASSUME NEW p \in Procs, CallFails(p) PROVE Stored' /\ AllKnow'
  <2>1. Stored'
    BY <1>2, <1>3, StoredKept DEF CallFails
  <2>2. CASE Goto(p, "c_undo")
    <3> DEFINE inv == [proc[p] EXCEPT !.pc = "c_undo"]
    <3>1. inv.pc = "c_undo" /\ Update(p, inv)
      BY <1>2, <2>2 DEF Goto, TypeOK, Invocation
    <3> HIDE DEF inv
    <3>2. Knows(inv, bindings', account', remoteKeys')
      BY <3>1 DEF Knows, Working, Reread
    <3> QED BY <1>2, <2>1, <3>1, <3>2, KnownUpdate
  <2> QED BY <1>2, <1>3, <2>1, <2>2, KnownReturn DEF CallFails
<1>4. ASSUME NEW p \in Procs, Crash(p) PROVE Stored' /\ AllKnow'
  BY <1>2, <1>4, StoredKept, KnownReturn DEF Crash
<1>5. inFlight = {}
  BY <1>2 DEF Stored
<1>6. ASSUME UNCHANGED vars PROVE Stored' /\ AllKnow'
  <2>1. UNCHANGED <<account, bindings, remoteKeys, proc>> /\ UNCHANGED Remote
    BY <1>6 DEF vars, Remote
  <2>2. AllKnow'
    BY <1>2, <2>1 DEF AllKnow, Knows, OnlyNamed, Agree
  <2> QED BY <1>2, <2>1, <2>2, StoredKept
<1> QED BY <1>1, <1>3, <1>4, <1>5, <1>6, SerialConnect, SerialStatus, SerialDisconnect, SerialCleanup
       DEF SerialInv, Next

LEMMA InitSerial == Init => SerialInv
<1> SUFFICES ASSUME Init PROVE SerialInv
  OBVIOUS
<1>1. Stored
  BY DEF Init, Stored, Rows, Bound, AuthorityRecorded, ConnectedIsUsable, NamesUnambiguous, NoBinding
<1>2. AllKnow
  BY DEF Init, AllKnow, Knows, Idle, Working, Reread
<1> QED BY <1>1, <1>2, InitIInv DEF SerialInv

(* Connect, status and disconnect, one at a time: at every moment, every    *)
(* call that may fail and every place a process may die included, a key     *)
(* GitHub accepts is recorded with the account that can revoke it.          *)
THEOREM Revocable == ASSUME Serial PROVE Spec => []AuthorityRecorded
<1>1. SerialInv => AuthorityRecorded
  BY DEF SerialInv, Stored
<1> QED BY <1>1, InitSerial, SerialStep, PTL DEF Spec

(* Connect, status and disconnect, one at a time: a Box that is recorded as *)
(* connected can log in to GitHub with the key that is recorded.            *)
THEOREM Usable == ASSUME Serial PROVE Spec => []ConnectedIsUsable
<1>1. SerialInv => ConnectedIsUsable
  BY DEF SerialInv, Stored
<1> QED BY <1>1, InitSerial, SerialStep, PTL DEF Spec

(* ensureBoxNameAvailable, one command at a time: connect never leaves two  *)
(* retained rows of one name, which status and disconnect would refuse.     *)
THEOREM Unambiguous == ASSUME Serial PROVE Spec => []NamesUnambiguous
<1>1. SerialInv => NamesUnambiguous
  BY DEF SerialInv, Stored
<1> QED BY <1>1, InitSerial, SerialStep, PTL DEF Spec

(* Disconnect and status, one at a time: no step takes a private key from a *)
(* Box, or replaces it, while GitHub still accepts it.                      *)
THEOREM RevokedFirst == ASSUME Serial PROVE Spec => RevokedBeforeRemoved
<1> DEFINE Lost(b) == boxKey'[b] # boxKey[b] /\ boxKey[b] # 0
           Gone(b) == ~ \E k \in remoteKeys : k.box = b /\ k.key = boxKey[b]
<1>1. ASSUME SerialInv, [Next]_vars, NEW b \in Boxes, Lost(b) PROVE Gone(b)
  <2>1. TypeOK /\ Stored /\ boxKey' # boxKey
    BY <1>1 DEF SerialInv, IInv, Core
  <2>2. ASSUME NEW p \in Procs PROVE ~ ConnectEnsureIdentity(p)
    BY <1>1, <2>1 DEF ConnectEnsureIdentity, TypeOK
  <2>3. ASSUME NEW p \in Procs, Connect(p) PROVE FALSE
    BY <2>1, <2>2, <2>3 DEF Connect, ConnectBegin, ConnectResolveAccount, ConnectUndo, ConnectPreflight,
       ConnectCheckpoint, ConnectFindKey, ConnectCreateKey, ConnectCreateDelayed, ConnectRecordKey,
       ConnectVerify, ConnectFinish, Remote
  <2>4. ASSUME NEW p \in Procs, Status(p) \/ Disconnect(p) PROVE FALSE
    BY <2>1, <2>4 DEF Status, StatusBegin, BeginWith, StatusInspect, StatusCheckpoint, Disconnect, DisconnectBegin,
       DisconnectUnbound, DisconnectResolveAccount, DisconnectCheckpoint, DisconnectDeleteKey, DisconnectRevoked,
       Remote
  <2>5. ASSUME NEW p \in Procs, Cleanup(p) PROVE RemoveBoxKey(p)
    BY <2>1, <2>5 DEF Cleanup, AcquireOperation, OperationBusy, CleanupUnbound, FinishAccount, FinishBinding, Remote
  <2>6. PICK p \in Procs : RemoveBoxKey(p)
    BY <1>1, <2>1, <2>3, <2>4, <2>5 DEF Next, CallFails, Crash, LateCreate, Remote, vars
  <2>7. b = proc[p].box /\ bindings[b].state = "cleanup_pending"
    BY <1>1, <2>1, <2>6 DEF RemoveBoxKey, TypeOK, SerialInv, AllKnow, Knows
  <2> QED BY <2>1, <2>7 DEF Stored, AuthorityRecorded
<1>2. SerialInv /\ [Next]_vars => [\A b \in Boxes : Lost(b) => Gone(b)]_vars
  BY <1>1
<1> QED BY <1>2, InitSerial, SerialStep, PTL DEF Spec, RevokedBeforeRemoved

=============================================================================
