---------------------------- MODULE SourceAccess ----------------------------
(***************************************************************************)
(* Source access: the lifecycle that links one locally authorised GitHub   *)
(* account to the SSH keys Boxes own (internal/source/source.go).          *)
(*                                                                         *)
(* Schooner has no daemon.  Every `source connect`, `source status` and    *)
(* `source disconnect` is a short-lived process; what they share is the    *)
(* SQLite inventory (account, bindings), the flock files (accountLock,     *)
(* boxLock), the key file on each Box (boxKey) and GitHub (remoteKeys).    *)
(* A process may die between any two calls, every call to GitHub, to a Box *)
(* or to the secret store may fail, and a GitHub request may take effect   *)
(* although its answer is lost.                                            *)
(***************************************************************************)
EXTENDS Naturals

CONSTANTS
    Procs,       \* invocations of the CLI that may run at the same time
    Boxes,       \* machine identities
    Names,       \* Box names in the local inventory
    Accounts,    \* GitHub accounts a person may authorise
    None,        \* no process, no account
    Ops,         \* the commands that are run, of {"connect", "status", "disconnect"}
    MaxKeys,     \* bound: keypairs a Box ever generates
    MaxIDs,      \* bound: GitHub key registrations over a behaviour
    MaxConnects, \* bound: invocations of connect over a behaviour
    MaxCrashes,  \* bound: processes that die over a behaviour
    LateCreates  \* whether a timed-out registration may take effect afterwards

ASSUME SourceConstants ==
    /\ None \notin Procs \cup Accounts \cup Names \cup Boxes
    /\ MaxKeys \in Nat /\ MaxIDs \in Nat /\ MaxConnects \in Nat /\ MaxCrashes \in Nat
    /\ LateCreates \in BOOLEAN

VARIABLES
    account,     \* table source_accounts: the one account's ID, or None
    bindings,    \* table box_source_identities, one row per Box
    accountLock, \* holder of the provider-wide operation lock
    boxLock,     \* holder of each per-Box operation lock
    boxKey,      \* the generation of the keypair on each Box, 0 when it has none
    remoteKeys,  \* the SSH keys registered at GitHub
    inFlight,    \* registrations whose request is still travelling
    proc,        \* the running invocations
    used         \* how much of each bound has been used

vars == <<account, bindings, accountLock, boxLock, boxKey, remoteKeys, inFlight, proc, used>>

-----------------------------------------------------------------------------
(* Data.  A fingerprint is the generation of a Box's keypair: no two Boxes *)
(* and no two generations share one.                                       *)

States == {"connecting", "connected", "disconnecting", "cleanup_pending"}

Binding == [state : States \cup {"absent"}, name : Names \cup {None},
            acct : Accounts \cup {None}, key : 0..MaxKeys, id : 0..MaxIDs]

NoBinding == [state |-> "absent", name |-> None, acct |-> None, key |-> 0, id |-> 0]

RemoteKey == [box : Boxes, key : 1..MaxKeys, acct : Accounts, id : 1..MaxIDs]

Unlocked == {"idle", "lock"}

Locked == {"c_account", "c_ensure", "c_save", "c_register", "c_record", "c_verify", "c_done",
           "c_undo", "s_inspect", "s_cleanup", "d_account", "d_revoke", "d_delete", "d_cleanup",
           "remove", "finish", "f_row", "unbound"}

(* bind is the row a command read, target whether it has a Box to act on,  *)
(* fresh whether it is authorising an account no binding rests on yet.     *)
Invocation == [pc : Unlocked \cup Locked, op : {"none", "connect", "status", "disconnect"},
               box : Boxes \cup {None}, name : Names \cup {None}, bind : Binding,
               acct : Accounts \cup {None}, target : BOOLEAN, fresh : BOOLEAN]

Idle == [pc |-> "idle", op |-> "none", box |-> None, name |-> None, bind |-> NoBinding,
         acct |-> None, target |-> FALSE, fresh |-> FALSE]

(* A Box lock is named after a machine identity, or after the name given   *)
(* to a disconnect that finds no binding (None when none is given).        *)
LockIDs == Boxes \cup Names \cup {None}

Bound == {b \in Boxes : bindings[b].state # "absent"}

(* FindBoxSourceIdentityByName: the rows that carry a name. *)
Named(n) == {b \in Bound : bindings[b].name = n}

(* ListKeys sees the keys of the account the token belongs to. *)
KeysOf(a) == {k \in remoteKeys : k.acct = a}

(* findRemoteKey: GitHub never gives a key ID to another key, so the search *)
(* by recorded ID and then by fingerprint finds the key of the fingerprint. *)
FindRemoteKey(keys, b, bind) == {k \in keys : k.box = b /\ k.key = bind.key}

Init ==
    /\ account = None
    /\ bindings = [b \in Boxes |-> NoBinding]
    /\ accountLock = None
    /\ boxLock = [i \in LockIDs |-> None]
    /\ boxKey = [b \in Boxes |-> 0]
    /\ remoteKeys = {}
    /\ inFlight = {}
    /\ proc = [p \in Procs |-> Idle]
    /\ used = [keys |-> [b \in Boxes |-> 0], ids |-> 0, connects |-> 0, crashes |-> 0]

-----------------------------------------------------------------------------
(* Control.  A command that returns, or a process that dies, gives up its  *)
(* flock files.                                                            *)

Update(p, inv) == proc' = [proc EXCEPT ![p] = inv]

Goto(p, label) == Update(p, [proc[p] EXCEPT !.pc = label])

Release(p) ==
    /\ accountLock' = IF accountLock = p THEN None ELSE accountLock
    /\ boxLock' = [i \in LockIDs |-> IF boxLock[i] = p THEN None ELSE boxLock[i]]

Return(p) == Update(p, Idle) /\ Release(p)

Locks == <<accountLock, boxLock>>
Remote == <<boxKey, remoteKeys, inFlight>>

(* Mutant: the flock is taken shared, so that nobody is kept out. *)
AcquireShared(p, i) ==
    /\ accountLock' = p
    /\ boxLock' = [boxLock EXCEPT ![i] = p]

(* acquireOperation: the account lock, then the lock of the Box. *)
Acquire(p, i) ==
    /\ accountLock = None /\ boxLock[i] = None
    /\ accountLock' = p
    /\ boxLock' = [boxLock EXCEPT ![i] = p]

SaveBinding(b, bind) == bindings' = [bindings EXCEPT ![b] = bind]

(* A call to the store, the secret store, GitHub or the Box that fails     *)
(* without effect ends the command; a connect that authorised a new        *)
(* account and has saved no binding first takes the authorisation back.    *)
CallFails(p) ==
    /\ proc[p].pc \in Locked
    /\ IF proc[p].fresh /\ proc[p].pc \in {"c_ensure", "c_save"}
       THEN Goto(p, "c_undo") /\ UNCHANGED Locks
       ELSE Return(p)
    /\ UNCHANGED <<account, bindings, Remote, used>>

(* The process dies: its flock files are released by the kernel. *)
Crash(p) ==
    /\ proc[p].pc # "idle" /\ used.crashes < MaxCrashes
    /\ Return(p)
    /\ used' = [used EXCEPT !.crashes = @ + 1]
    /\ UNCHANGED <<account, bindings, Remote>>

-----------------------------------------------------------------------------
(* The Source Account. *)

(* authorize: a person may log in as another account only while no Box is  *)
(* bound, and as the bound account otherwise.                              *)
CanAuthorize(a) == \A b \in Bound : bindings[b].acct = a /\ account \in {None, a}

(* resolveAccount: the retained account, or one authorised on the spot.    *)
ResolveAccount(allow, a) ==
    \/ account = a /\ account' = account
    \/ allow /\ CanAuthorize(a) /\ account' = a

(* Mutant: a zero-binding disconnect leaves the account. *)
KeepUnboundAccount == UNCHANGED account

(* cleanupUnboundAccount, once the secret is gone. *)
CleanupUnboundAccount == account' = IF Bound = {} THEN None ELSE account

-----------------------------------------------------------------------------
(* Connect. *)

(* Mutant: connect does not ask whose name it is. *)
ConnectAnyName(p, b, n) ==
    /\ "connect" \in Ops /\ used.connects < MaxConnects
    /\ proc[p].pc = "idle"
    /\ Acquire(p, b)
    /\ Update(p, [Idle EXCEPT !.pc = "c_account", !.op = "connect", !.box = b, !.name = n,
                              !.target = TRUE, !.fresh = account = None])
    /\ used' = [used EXCEPT !.connects = @ + 1]
    /\ UNCHANGED <<account, bindings, Remote>>

(* Connect takes the locks before it reads anything; the name must not     *)
(* belong to the retained binding of another machine.                      *)
ConnectBegin(p, b, n) ==
    /\ "connect" \in Ops /\ used.connects < MaxConnects
    /\ proc[p].pc = "idle"
    /\ Acquire(p, b)
    /\ Named(n) \subseteq {b}
    /\ Update(p, [Idle EXCEPT !.pc = "c_account", !.op = "connect", !.box = b, !.name = n,
                              !.target = TRUE, !.fresh = account = None])
    /\ used' = [used EXCEPT !.connects = @ + 1]
    /\ UNCHANGED <<account, bindings, Remote>>

(* resolveAccount, then the read of the binding, which must belong to the  *)
(* account.  The last checkpoint of a new authorisation may fail.          *)
ConnectResolveAccount(p, allow, a) ==
    LET bind == bindings[proc[p].box] IN
    /\ proc[p].pc = "c_account"
    /\ ResolveAccount(allow, a)
    /\ \/ /\ Update(p, [proc[p] EXCEPT !.acct = a, !.bind = bind, !.pc =
                              IF bind.acct \in {None, a} THEN "c_ensure" ELSE "c_undo"])
          /\ UNCHANGED Locks
       \/ account' # account /\ Return(p)
    /\ UNCHANGED <<bindings, Remote, used>>

(* The deferred cleanup of a connect that fails before its checkpoint. *)
ConnectUndo(p) ==
    /\ proc[p].pc = "c_undo"
    /\ IF proc[p].fresh THEN CleanupUnboundAccount ELSE UNCHANGED account
    /\ Return(p)
    /\ UNCHANGED <<bindings, Remote, used>>

(* verifyConnectedRepository: a connected Box asked about one repository   *)
(* is answered without a change.                                           *)
ConnectPreflight(p) ==
    /\ proc[p].pc = "c_ensure" /\ proc[p].bind.state = "connected"
    /\ boxKey[proc[p].box] = proc[p].bind.key
    /\ Return(p)
    /\ UNCHANGED <<account, bindings, Remote, used>>

(* Mutant: the Box generates a keypair every time. *)
ConnectRotateIdentity(p) ==
    LET b == proc[p].box  key == used.keys[b] + 1 IN
    /\ proc[p].pc = "c_ensure" /\ key <= MaxKeys
    /\ boxKey' = [boxKey EXCEPT ![b] = key]
    /\ used' = [used EXCEPT !.keys[b] = key]
    /\ Update(p, [proc[p] EXCEPT !.pc = IF proc[p].bind.key \in {0, key} THEN "c_save" ELSE "c_undo",
          !.bind = [state |-> "connecting", name |-> proc[p].name, acct |-> proc[p].acct,
                    key |-> key, id |-> proc[p].bind.id]])
    /\ UNCHANGED <<account, bindings, Locks, remoteKeys, inFlight>>

(* EnsureSourceIdentity: the Box keeps its keypair or generates one.  A    *)
(* recorded fingerprint must be the Box's; the answer may be lost.         *)
ConnectEnsureIdentity(p) ==
    LET b   == proc[p].box
        key == IF boxKey[b] # 0 THEN boxKey[b] ELSE used.keys[b] + 1
    IN
    /\ proc[p].pc = "c_ensure" /\ key <= MaxKeys
    /\ boxKey' = [boxKey EXCEPT ![b] = key]
    /\ used' = [used EXCEPT !.keys[b] = IF key > @ THEN key ELSE @]
    /\ \/ /\ proc[p].bind.key \in {0, key}
          /\ Update(p, [proc[p] EXCEPT !.pc = "c_save", !.bind =
                [state |-> "connecting", name |-> proc[p].name, acct |-> proc[p].acct,
                 key |-> key, id |-> proc[p].bind.id]])
       \/ Goto(p, "c_undo")
    /\ UNCHANGED <<account, bindings, Locks, remoteKeys, inFlight>>

ConnectCheckpoint(p) ==
    /\ proc[p].pc = "c_save"
    /\ SaveBinding(proc[p].box, proc[p].bind)
    /\ Update(p, [proc[p] EXCEPT !.pc = "c_register", !.fresh = FALSE])
    /\ UNCHANGED <<account, Locks, Remote, used>>

(* reconcileKey, when GitHub already lists the fingerprint. *)
ConnectFindKey(p) ==
    /\ proc[p].pc = "c_register"
    /\ \E k \in FindRemoteKey(KeysOf(proc[p].acct), proc[p].box, proc[p].bind) :
         Update(p, [proc[p] EXCEPT !.pc = "c_record", !.bind.id = k.id])
    /\ UNCHANGED <<account, bindings, Locks, Remote, used>>

(* GitHub takes one registration of a fingerprint, under one account. *)
Register(b, key, a) ==
    /\ used.ids < MaxIDs
    /\ ~ \E k \in remoteKeys : k.box = b /\ k.key = key
    /\ remoteKeys' = remoteKeys \cup {[box |-> b, key |-> key, acct |-> a, id |-> used.ids + 1]}
    /\ used' = [used EXCEPT !.ids = @ + 1]

(* reconcileKey, when it creates the key: the key is seen in the answer or *)
(* in the one re-list, or both are lost and the command ends.              *)
ConnectCreateKey(p) ==
    LET bind == proc[p].bind IN
    /\ proc[p].pc = "c_register"
    /\ Register(proc[p].box, bind.key, proc[p].acct)
    /\ \/ /\ Update(p, [proc[p] EXCEPT !.pc = "c_record", !.bind.id = used.ids + 1])
          /\ UNCHANGED Locks
       \/ Return(p)
    /\ UNCHANGED <<account, bindings, boxKey, inFlight>>

(* The request outlives the client's patience: neither the answer nor the  *)
(* re-list shows the key, and GitHub may still register it.                *)
ConnectCreateDelayed(p) ==
    /\ LateCreates
    /\ proc[p].pc = "c_register"
    /\ FindRemoteKey(KeysOf(proc[p].acct), proc[p].box, proc[p].bind) = {}
    /\ inFlight' = inFlight \cup {[box |-> proc[p].box, key |-> proc[p].bind.key, acct |-> proc[p].acct]}
    /\ Return(p)
    /\ UNCHANGED <<account, bindings, boxKey, remoteKeys, used>>

LateCreate(request) ==
    /\ Register(request.box, request.key, request.acct)
    /\ inFlight' = inFlight \ {request}
    /\ UNCHANGED <<account, bindings, Locks, boxKey, proc>>

ConnectRecordKey(p) ==
    /\ proc[p].pc = "c_record"
    /\ SaveBinding(proc[p].box, proc[p].bind)
    /\ Goto(p, "c_verify")
    /\ UNCHANGED <<account, Locks, Remote, used>>

(* The Box logs in to GitHub with its key. *)
Authenticates(b) == \E k \in remoteKeys : k.box = b /\ k.key = boxKey[b]

ConnectVerify(p) ==
    /\ proc[p].pc = "c_verify"
    /\ Authenticates(proc[p].box)
    /\ Goto(p, "c_done")
    /\ UNCHANGED <<account, bindings, Locks, Remote, used>>

ConnectFinish(p) ==
    /\ proc[p].pc = "c_done"
    /\ SaveBinding(proc[p].box, [proc[p].bind EXCEPT !.state = "connected"])
    /\ Return(p)
    /\ UNCHANGED <<account, Remote, used>>

-----------------------------------------------------------------------------
(* Status and disconnect first resolve the binding they are about, and     *)
(* only then take its locks; what they read is not read again.             *)

(* resolveBinding for the Box t (None: not in the inventory) and name n:   *)
(* the binding found, and whether the Box may be acted on.                 *)
ResolveBinding(t, n) ==
    IF t \in Bound
    THEN IF Named(n) \subseteq {t} THEN {[box |-> t, target |-> TRUE]} ELSE {}
    ELSE {[box |-> b, target |-> FALSE] : b \in {c \in Bound : Named(n) = {c}}}

NotFound(t, n) == ~ (t = None /\ n = None) /\ t \notin Bound /\ Named(n) = {}

BeginWith(p, op, found, n) ==
    /\ op \in Ops /\ proc[p].pc = "idle"
    /\ Update(p, [Idle EXCEPT !.pc = "lock", !.op = op, !.box = found.box, !.name = n,
                              !.target = found.target, !.bind = bindings[found.box]])
    /\ UNCHANGED <<account, bindings, Locks, Remote, used>>

StatusBegin(p, t, n) == \E found \in ResolveBinding(t, n) : BeginWith(p, "status", found, n)

DisconnectBegin(p, t, n) == \E found \in ResolveBinding(t, n) : BeginWith(p, "disconnect", found, n)

(* No binding: disconnect only takes back an authorisation no Box uses. *)
DisconnectUnbound(p, t, n) ==
    /\ "disconnect" \in Ops /\ proc[p].pc = "idle"
    /\ NotFound(t, n)
    /\ Update(p, [Idle EXCEPT !.pc = "lock", !.op = "disconnect", !.name = n])
    /\ UNCHANGED <<account, bindings, Locks, Remote, used>>

AfterLock(inv) ==
    CASE inv.box = None -> "unbound"
      [] inv.box # None /\ inv.bind.state = "cleanup_pending" -> "remove"
      [] inv.box # None /\ inv.bind.state # "cleanup_pending" ->
            IF inv.op = "status" THEN "s_inspect" ELSE "d_account"

LockID(inv) == IF inv.box = None THEN inv.name ELSE inv.box

AcquireOperation(p) ==
    /\ proc[p].pc = "lock"
    /\ Acquire(p, LockID(proc[p]))
    /\ Goto(p, AfterLock(proc[p]))
    /\ UNCHANGED <<account, bindings, Remote, used>>

(* operation_in_progress: the lock is not waited for. *)
OperationBusy(p) ==
    /\ proc[p].pc = "lock" /\ accountLock # None
    /\ Return(p)
    /\ UNCHANGED <<account, bindings, Remote, used>>

CleanupUnbound(p) ==
    /\ proc[p].pc = "unbound"
    /\ CleanupUnboundAccount
    /\ Return(p)
    /\ UNCHANGED <<bindings, Remote, used>>

(* Mutant: status takes an interrupted disconnect for a finished one. *)
StatusAssumeRevoked(p) ==
    /\ proc[p].pc = "s_inspect" /\ account = proc[p].bind.acct
    /\ proc[p].bind.state = "disconnecting"
    /\ Goto(p, "s_cleanup")
    /\ UNCHANGED <<account, bindings, Locks, Remote, used>>

(* Status: only an interrupted disconnect whose key is gone, and the key   *)
(* ID of an interrupted connect, are written; else the command answers.    *)
StatusInspect(p) ==
    LET b    == proc[p].box
        bind == proc[p].bind
        keys == FindRemoteKey(KeysOf(account), b, bind)
    IN
    /\ proc[p].pc = "s_inspect" /\ account = bind.acct
    /\ \/ /\ bind.state = "disconnecting" /\ keys = {}
          /\ Goto(p, "s_cleanup")
          /\ UNCHANGED <<bindings, Locks>>
       \/ /\ bind.state = "connecting"
          /\ proc[p].target /\ boxKey[b] = bind.key
          /\ \E k \in keys : k.id # bind.id /\ SaveBinding(b, [bind EXCEPT !.id = k.id])
          /\ Return(p)
    /\ UNCHANGED <<account, Remote, used>>

(* Mutant: status saves the state it reports, which is not one of a row.   *)
StatusCheckpointReported(p) ==
    /\ proc[p].pc = "s_cleanup"
    /\ SaveBinding(proc[p].box, [proc[p].bind EXCEPT !.state = "not_connected"])
    /\ Goto(p, "remove")
    /\ UNCHANGED <<account, Locks, Remote, used>>

StatusCheckpoint(p) ==
    /\ proc[p].pc = "s_cleanup"
    /\ SaveBinding(proc[p].box, [proc[p].bind EXCEPT !.state = "cleanup_pending"])
    /\ Goto(p, "remove")
    /\ UNCHANGED <<account, Locks, Remote, used>>

DisconnectResolveAccount(p, allow, a) ==
    /\ proc[p].pc = "d_account"
    /\ ResolveAccount(allow, a)
    /\ \/ Update(p, [proc[p] EXCEPT !.pc = "d_revoke", !.acct = a]) /\ UNCHANGED Locks
       \/ account' # account /\ Return(p)
    /\ UNCHANGED <<bindings, Remote, used>>

(* ListKeys, then the disconnecting checkpoint. *)
DisconnectCheckpoint(p) ==
    LET keys == FindRemoteKey(KeysOf(proc[p].acct), proc[p].box, proc[p].bind) IN
    /\ proc[p].pc = "d_revoke"
    /\ SaveBinding(proc[p].box, [proc[p].bind EXCEPT !.state = "disconnecting"])
    /\ Goto(p, IF keys = {} THEN "d_cleanup" ELSE "d_delete")
    /\ UNCHANGED <<account, Locks, Remote, used>>

(* Mutant: a failed revocation is taken for a successful one. *)
DisconnectDeleteIgnored(p) ==
    /\ proc[p].pc = "d_delete"
    /\ Goto(p, "d_cleanup")
    /\ UNCHANGED <<account, bindings, Locks, Remote, used>>

(* DeleteKey; its answer may be lost. *)
DisconnectDeleteKey(p) ==
    /\ proc[p].pc = "d_delete"
    /\ remoteKeys' = remoteKeys \ FindRemoteKey(KeysOf(proc[p].acct), proc[p].box, proc[p].bind)
    /\ \/ Goto(p, "d_cleanup") /\ UNCHANGED Locks
       \/ Return(p)
    /\ UNCHANGED <<account, bindings, boxKey, inFlight, used>>

DisconnectRevoked(p) ==
    /\ proc[p].pc = "d_cleanup"
    /\ SaveBinding(proc[p].box, [proc[p].bind EXCEPT !.state = "cleanup_pending"])
    /\ Goto(p, "remove")
    /\ UNCHANGED <<account, Locks, Remote, used>>

(* RemoveSourceIdentity, of status and of disconnect: the Box removes only *)
(* the key it is expected to hold, or confirms it holds none.  A Box that  *)
(* may not be acted on is left for later (CallFails).                      *)
RemoveBoxKey(p) ==
    LET b == proc[p].box IN
    /\ proc[p].pc = "remove" /\ proc[p].target
    /\ boxKey[b] \in {0, proc[p].bind.key}
    /\ boxKey' = [boxKey EXCEPT ![b] = 0]
    /\ \/ Goto(p, "finish") /\ UNCHANGED Locks
       \/ Return(p)
    /\ UNCHANGED <<account, bindings, remoteKeys, inFlight, used>>

(* finishCleanup: the last binding takes the account with it, account first. *)
FinishAccount(p) ==
    /\ proc[p].pc = "finish" /\ Bound = {proc[p].box}
    /\ account' = None
    /\ Goto(p, "f_row")
    /\ UNCHANGED <<bindings, Locks, Remote, used>>

FinishBinding(p) ==
    /\ \/ proc[p].pc = "f_row"
       \/ proc[p].pc = "finish" /\ Bound # {proc[p].box}
    /\ SaveBinding(proc[p].box, NoBinding)
    /\ Return(p)
    /\ UNCHANGED <<account, Remote, used>>

-----------------------------------------------------------------------------
Connect(p) ==
    \/ \E b \in Boxes, n \in Names : ConnectBegin(p, b, n)
    \/ \E allow \in BOOLEAN, a \in Accounts : ConnectResolveAccount(p, allow, a)
    \/ ConnectUndo(p)
    \/ ConnectPreflight(p)
    \/ ConnectEnsureIdentity(p)
    \/ ConnectCheckpoint(p)
    \/ ConnectFindKey(p)
    \/ ConnectCreateKey(p)
    \/ ConnectCreateDelayed(p)
    \/ ConnectRecordKey(p)
    \/ ConnectVerify(p)
    \/ ConnectFinish(p)

Status(p) ==
    \/ \E t \in Boxes \cup {None}, n \in Names \cup {None} : StatusBegin(p, t, n)
    \/ StatusInspect(p)
    \/ StatusCheckpoint(p)

Disconnect(p) ==
    \/ \E t \in Boxes \cup {None}, n \in Names \cup {None} : DisconnectBegin(p, t, n)
    \/ \E t \in Boxes \cup {None}, n \in Names \cup {None} : DisconnectUnbound(p, t, n)
    \/ \E allow \in BOOLEAN, a \in Accounts : DisconnectResolveAccount(p, allow, a)
    \/ DisconnectCheckpoint(p)
    \/ DisconnectDeleteKey(p)
    \/ DisconnectRevoked(p)

Cleanup(p) ==
    \/ AcquireOperation(p)
    \/ OperationBusy(p)
    \/ CleanupUnbound(p)
    \/ RemoveBoxKey(p)
    \/ FinishAccount(p)
    \/ FinishBinding(p)

Next ==
    \/ \E p \in Procs :
        \/ Connect(p)
        \/ Status(p)
        \/ Disconnect(p)
        \/ Cleanup(p)
        \/ CallFails(p)
        \/ Crash(p)
    \/ \E request \in inFlight : LateCreate(request)

Spec == Init /\ [][Next]_vars

-----------------------------------------------------------------------------
(* Fairness: a command that runs gets to its end; a person who wants a Box *)
(* disconnected repeats the command, and no call fails for ever.           *)
Fairness ==
    \A p \in Procs :
        /\ WF_vars(CallFails(p) \/ ConnectUndo(p))
        /\ WF_vars(AcquireOperation(p) \/ OperationBusy(p))
        /\ \A b \in Boxes : SF_vars(DisconnectBegin(p, b, None) \/ DisconnectUnbound(p, b, None))
        /\ SF_vars(AcquireOperation(p))
        /\ SF_vars(\E a \in Accounts : account = a /\ DisconnectResolveAccount(p, FALSE, a))
        /\ SF_vars(DisconnectCheckpoint(p))
        /\ SF_vars(DisconnectDeleteKey(p))
        /\ SF_vars(DisconnectRevoked(p))
        /\ SF_vars(RemoveBoxKey(p) /\ proc'[p].pc = "finish")
        /\ SF_vars(FinishAccount(p))
        /\ SF_vars(FinishBinding(p))
        /\ SF_vars(CleanupUnbound(p))

FairSpec == Spec /\ Fairness

-----------------------------------------------------------------------------
(* Properties. *)

(* Every variable holds a value of its kind; a row a command saves is in a *)
(* state the table accepts (007_source_access.sql), never in one that      *)
(* status only reports.                                                    *)
TypeOK ==
    /\ account \in Accounts \cup {None}
    /\ bindings \in [Boxes -> Binding]
    /\ accountLock \in Procs \cup {None}
    /\ boxLock \in [LockIDs -> Procs \cup {None}]
    /\ boxKey \in [Boxes -> 0..MaxKeys]
    /\ remoteKeys \subseteq RemoteKey
    /\ inFlight \subseteq [box : Boxes, key : 1..MaxKeys, acct : Accounts]
    /\ proc \in [Procs -> Invocation]
    /\ used \in [keys : [Boxes -> 0..MaxKeys], ids : 0..MaxIDs,
                 connects : 0..MaxConnects, crashes : 0..MaxCrashes]

(* acquireOperation: past its locks a command is alone, whatever Box or    *)
(* name it and the others are about, through crashes and lock failures.    *)
ExclusiveOperation ==
    \A p, q \in Procs : proc[p].pc \in Locked /\ proc[q].pc \in Locked => p = q

(* Connect: the step that records a Box as connected happens only while    *)
(* the Box holds the recorded key and GitHub has it registered under the   *)
(* account of the binding, however other commands interleave.              *)
ConnectedIsVerified ==
    [][\A b \in Boxes :
         bindings'[b].state = "connected" /\ bindings[b].state # "connected" =>
            /\ bindings'[b].key = boxKey[b]
            /\ \E k \in remoteKeys : k.box = b /\ k.key = boxKey[b] /\ k.acct = bindings'[b].acct
      ]_vars

(* Disconnect and cleanup: a Box's private key is removed only once GitHub *)
(* no longer accepts it ("revokes GitHub authority first, and only then    *)
(* removes Box files", docs/architecture.md).                              *)
RevokedBeforeRemoved ==
    [][\A b \in Boxes : boxKey'[b] # boxKey[b] /\ boxKey[b] # 0 =>
         ~ \E k \in remoteKeys : k.box = b /\ k.key = boxKey[b]]_vars

(* Every registered key can still be revoked: a binding that is not past   *)
(* revocation records its fingerprint, and the account that owns the key   *)
(* is retained.  Holds at every crash point of connect and disconnect.     *)
AuthorityRecorded ==
    \A k \in remoteKeys :
        /\ bindings[k.box].state \in {"connecting", "connected", "disconnecting"}
        /\ bindings[k.box].key = k.key /\ bindings[k.box].acct = k.acct
        /\ account = k.acct

(* A connected Box holds the key that its binding records and GitHub has   *)
(* it: no interrupted command leaves a binding that claims more.           *)
ConnectedIsUsable ==
    \A b \in Boxes : bindings[b].state = "connected" => bindings[b].key = boxKey[b] /\ Authenticates(b)

(* ensureBoxNameAvailable: a name leads to one retained binding, so that   *)
(* disconnect by name never stops at "multiple retained Box source         *)
(* identities".                                                            *)
NamesUnambiguous == \A b, c \in Bound : bindings[b].name = bindings[c].name => b = c

(* Repeated disconnects end with nothing left, no binding, no registered   *)
(* key and no account, whatever crashed or failed on the way, unless a Box *)
(* waits for cleanup and holds a key its row does not record.  That is how *)
(* the code gets stuck: a connect that follows an interrupted cleanup lets *)
(* the Box generate a key before it compares fingerprints, and from then   *)
(* on every command conflicts, although ADR 0010 says that "interrupted    *)
(* cleanup remains recoverable".  It is the only way.                      *)
EventuallyDisconnected ==
    \/ <>[](Bound = {} /\ remoteKeys = {} /\ account = None)
    \/ <>[](\E b \in Bound : bindings[b].state = "cleanup_pending"
                             /\ boxKey[b] \notin {0, bindings[b].key})

=============================================================================
