--------------------------- MODULE BoxAcquisition ---------------------------
(***************************************************************************)
(* How Boxes enter and leave the local inventory: `box add` of a machine   *)
(* (adoption), `box add` through DigitalOcean (provisioning), `box remove` *)
(* and `box destroy` (internal/acquisition, internal/box/service.go,       *)
(* internal/provider/digitalocean, internal/inventory/sqlite).  Commands   *)
(* are short-lived processes over one SQLite file, each statement or       *)
(* transaction of which is a step; a provider may answer late, twice or    *)
(* not at all, and people change Droplets from its control panel.          *)
(*                                                                         *)
(* Left out because the program never reads it back: the checkpoint names, *)
(* warnings and times of the operation tables, and destroy_operations.     *)
(***************************************************************************)
EXTENDS Naturals, FiniteSets

CONSTANTS
    Procs,        \* commands that may run at the same time
    Commands,     \* the kinds of command each of them may run
    Names,        \* Box names
    Hosts,        \* machines that are not Droplets
    None,         \* no name, no machine
    LateCreates,  \* whether a create may land after its caller gave up on it
    MayDelete,    \* whether people delete Droplets from the control panel
    MayUntag,     \* whether people take correlation tags off Droplets
    MaxDroplets,  \* bound: Droplets ever created
    MaxOps,       \* bound: correlation identities ever drawn
    MaxBoxes,     \* bound: Box records ever saved
    MaxActs       \* bound: failures and what people do, over a behaviour

Droplets == 1..MaxDroplets
Machines == Hosts \cup Droplets
Kinds == {"adopt", "provision", "remove", "destroy"}

ASSUME AcquisitionConstants ==
    /\ MaxDroplets \in Nat /\ MaxOps \in Nat /\ MaxBoxes \in Nat /\ MaxActs \in Nat
    /\ LateCreates \in BOOLEAN /\ MayDelete \in BOOLEAN /\ MayUntag \in BOOLEAN
    /\ Commands \in [Procs -> SUBSET Kinds]
    /\ None \notin Names \cup Machines
    /\ Hosts \cap Droplets = {}

VARIABLES
    droplet,    \* the provider's Droplets
    late,       \* requests the provider has yet to carry out, their callers gone
    sshKey,     \* the operation the account's temporary SSH key is named after, or 0
    prov,       \* the table provision_operations
    reserved,   \* the table add_operations: the destination each name is held for
    boxes,      \* the table boxes
    used,       \* correlation identities drawn so far
    saved,      \* Box records saved so far
    proc,       \* the running commands
    forgotten,  \* Droplets whose Box a user removed from the inventory
    landed,     \* operations a create of which landed after its caller gave up on it
    stray,      \* operations whose temporary key the provider refused to delete
    acts        \* failures and what people did so far

cloud == <<droplet, late, landed, sshKey, stray>>
inventory == <<prov, reserved, boxes, used, saved, forgotten>>
vars == <<droplet, late, landed, sshKey, stray, prov, reserved, boxes, used, saved, forgotten,
          proc, acts>>

-----------------------------------------------------------------------------
(* Data.  0 stands for no Droplet, no correlation identity and no record.  *)

Ops == 0..MaxOps

Droplet == [st : {"unborn", "on", "deleting", "gone"}, op : Ops, tagged : BOOLEAN]

Requests == [kind : {"create"}, of : 1..MaxOps] \cup [kind : {"delete"}, of : Droplets]

Operation == [op : Ops, resource : 0..MaxDroplets]
NoOperation == [op |-> 0, resource |-> 0]

Box == [id : 0..MaxBoxes, kind : {"none", "adopted", "provisioned"},
        machine : Machines \cup {None}, op : Ops]
NoBox == [id |-> 0, kind |-> "none", machine |-> None, op |-> 0]

Labels == {"idle", "committed", "begin", "insert", "pending", "lookup", "key", "create",
           "reconcile", "cleanup", "identify", "wait", "preflight", "reserve", "save",
           "complete", "inspect", "delete", "confirm", "forget"}

Proc == [pc : Labels, kind : Kinds \cup {"none"}, name : Names \cup {None},
         op : Ops, resource : 0..MaxDroplets, machine : Machines \cup {None},
         box : 0..MaxBoxes, rejected : BOOLEAN]
Idle == [pc |-> "idle", kind |-> "none", name |-> None, op |-> 0, resource |-> 0,
         machine |-> None, box |-> 0, rejected |-> FALSE]

Init ==
    /\ droplet = [d \in Droplets |-> [st |-> "unborn", op |-> 0, tagged |-> FALSE]]
    /\ late = {} /\ sshKey = 0
    /\ prov = [n \in Names |-> NoOperation]
    /\ reserved = [n \in Names |-> None]
    /\ boxes = [n \in Names |-> NoBox]
    /\ used = 0 /\ saved = 0
    /\ proc = [p \in Procs |-> Idle]
    /\ forgotten = {} /\ landed = {} /\ stray = {} /\ acts = 0

-----------------------------------------------------------------------------
(* What the provider answers.  A Droplet is found until it is gone.        *)

Exists(d) == droplet[d].st \in {"on", "deleting"}

(* Mutant: the tag looked up is spelled differently from the tag given. *)
CorrelatedMisspelt(op) == {d \in Droplets : op = 0 /\ Exists(d)}

Correlated(op) == {d \in Droplets : Exists(d) /\ droplet[d].tagged /\ droplet[d].op = op}

(* The created Droplet carries the tag of the operation.                   *)
Create(d, op) ==
    /\ droplet[d].st = "unborn" /\ \A e \in 1..(d - 1) : droplet[e].st # "unborn"
    /\ droplet' = [droplet EXCEPT ![d] = [st |-> "on", op |-> op, tagged |-> TRUE]]

Delete(d) ==
    droplet' = [droplet EXCEPT ![d].st = IF @ = "on" THEN "deleting" ELSE @]

(* Deleting the temporary key of an operation, unless it is not there.     *)
DeleteKey(op) ==
    \/ /\ sshKey' = IF sshKey = op THEN 0 ELSE sshKey
       /\ UNCHANGED <<stray, acts>>
    \/ /\ sshKey = op /\ acts < MaxActs
       /\ stray' = stray \cup {op} /\ acts' = acts + 1
       /\ UNCHANGED sshKey

-----------------------------------------------------------------------------
(* A command's steps.  P is the command, N the Box it is about.            *)

N(p) == proc[p].name

At(p, label) == proc[p].pc = label

Goto(p, label) == proc' = [proc EXCEPT ![p].pc = label]

Return(p) == proc' = [proc EXCEPT ![p] = Idle]

Fault == acts < MaxActs /\ acts' = acts + 1

(* The statement of CheckpointProvision: it needs the operation's row.     *)
Held(p) == proc[p].op # 0 /\ prov[N(p)].op = proc[p].op

(* Mutant: an absent resource is written as NULL. *)
RecordNull(p, d) == prov' = [prov EXCEPT ![N(p)].resource = IF d = 0 THEN None ELSE d]

Record(p, d) == prov' = [prov EXCEPT ![N(p)].resource = d]

(* An error after the operation was recorded: a last checkpoint is         *)
(* attempted and the command ends.                                         *)
Abandon(p) ==
    /\ IF Held(p) THEN Record(p, proc[p].resource) ELSE UNCHANGED prov
    /\ Return(p)

(* The process is killed, or returns an error of its own machine.          *)
Stop(p) ==
    /\ ~At(p, "idle") /\ Fault
    /\ Return(p)
    /\ UNCHANGED <<cloud, inventory>>

(* A call to the provider or to the machine answers with an error.         *)
Fail(p) ==
    /\ proc[p].pc \in {"lookup", "key", "identify", "wait", "preflight", "save"} /\ Fault
    /\ Abandon(p)
    /\ UNCHANGED <<cloud, reserved, boxes, used, saved, forgotten>>

-----------------------------------------------------------------------------
(* Provision.  The selections of a request are those of the recorded       *)
(* operation: with others the command ends before it does anything.        *)

Provision(p, n) ==
    /\ At(p, "idle") /\ "provision" \in Commands[p]
    /\ proc' = [proc EXCEPT ![p] =
                  [Idle EXCEPT !.pc = IF prov[n] # NoOperation THEN "committed" ELSE "begin",
                               !.kind = "provision", !.name = n,
                               !.op = prov[n].op, !.resource = prov[n].resource]]
    /\ UNCHANGED <<cloud, inventory, acts>>

(* An operation whose Box was saved is completed locally; one whose name   *)
(* belongs to another Box is refused.                                      *)
FindCommitted(p) ==
    LET b == boxes[N(p)] IN
    /\ At(p, "committed")
    /\ \/ /\ b = NoBox
          /\ Goto(p, "begin")
       \/ /\ b # NoBox
          /\ IF /\ b.kind = "provisioned" /\ b.op = proc[p].op
                /\ proc[p].resource # 0 /\ b.machine = proc[p].resource
             THEN proc' = [proc EXCEPT ![p].pc = "complete", ![p].box = b.id]
             ELSE Return(p)
    /\ UNCHANGED <<cloud, inventory, acts>>

BeginProvision(p) ==
    /\ At(p, "begin")
    /\ IF prov[N(p)] # NoOperation
       THEN proc' = [proc EXCEPT ![p].pc = "pending", ![p].op = prov[N(p)].op,
                                 ![p].resource = prov[N(p)].resource]
       ELSE proc' = [proc EXCEPT ![p].pc = "insert", ![p].op = 0, ![p].resource = 0]
    /\ UNCHANGED <<cloud, inventory, acts>>

InsertProvision(p) ==
    /\ At(p, "insert")
    /\ \/ /\ prov[N(p)] = NoOperation /\ used < MaxOps
          /\ used' = used + 1
          /\ prov' = [prov EXCEPT ![N(p)] = [op |-> used + 1, resource |-> 0]]
          /\ proc' = [proc EXCEPT ![p].pc = "pending", ![p].op = used + 1]
       \/ /\ prov[N(p)] # NoOperation
          /\ Return(p)
          /\ UNCHANGED <<used, prov>>
    /\ UNCHANGED <<cloud, reserved, boxes, saved, forgotten, acts>>

(* The checkpoint before the provider is asked writes the resource the     *)
(* command read, whatever was recorded since.                              *)
CheckpointPending(p) ==
    /\ At(p, "pending")
    /\ IF Held(p)
       THEN Record(p, proc[p].resource) /\ Goto(p, "lookup")
       ELSE Return(p) /\ UNCHANGED prov
    /\ UNCHANGED <<cloud, reserved, boxes, used, saved, forgotten, acts>>

(* Reconciliation by tag, then by the recorded Droplet.                    *)
Lookup(p) ==
    LET found == Correlated(proc[p].op)
        known == proc[p].resource
    IN
    /\ At(p, "lookup")
    /\ \/ /\ found = {}
          /\ known # 0 => ~Exists(known)
          /\ Goto(p, "key") /\ UNCHANGED prov
       \/ \E d \in found :
            /\ found = {d} /\ known \in {0, d}
            /\ proc' = [proc EXCEPT ![p].pc = "cleanup", ![p].machine = d]
            /\ UNCHANGED prov
       \/ /\ \/ Cardinality(found) > 1
             \/ known # 0 /\ found # {} /\ known \notin found
             \/ known # 0 /\ found = {} /\ Exists(known)
          /\ Abandon(p)
    /\ UNCHANGED <<cloud, reserved, boxes, used, saved, forgotten, acts>>

(* The account holds a public key once: Schooner's may be there already,   *)
(* under the name of this or another operation.  The answer may be lost.   *)
EnsureKey(p) ==
    /\ At(p, "key")
    /\ sshKey' = IF sshKey = 0 THEN proc[p].op ELSE sshKey
    /\ \/ Goto(p, "create") /\ UNCHANGED <<prov, acts>>
       \/ sshKey = 0 /\ Fault /\ Abandon(p)
    /\ UNCHANGED <<droplet, late, landed, stray, reserved, boxes, used, saved, forgotten>>

(* The create request: carried out and answered; carried out, or not, and  *)
(* not answered; refused; or carried out later.                            *)
CreateDroplet(p) ==
    /\ At(p, "create")
    /\ \/ /\ sshKey # 0
          /\ \E d \in Droplets :
               /\ Create(d, proc[p].op)
               /\ \/ /\ proc' = [proc EXCEPT ![p].pc = "cleanup", ![p].machine = d]
                     /\ UNCHANGED acts
                  \/ Fault /\ Goto(p, "reconcile")
          /\ UNCHANGED late
       \/ /\ Fault
          /\ \/ late' = late
             \/ LateCreates /\ late' = late \cup {[kind |-> "create", of |-> proc[p].op]}
          /\ Goto(p, "reconcile")
          /\ UNCHANGED droplet
       \/ /\ sshKey = 0 \/ acts < MaxActs
          /\ acts' = IF sshKey = 0 THEN acts ELSE acts + 1
          /\ proc' = [proc EXCEPT ![p].pc = "reconcile", ![p].rejected = TRUE]
          /\ UNCHANGED <<droplet, late>>
    /\ UNCHANGED <<landed, sshKey, stray, inventory>>

(* After an error the tag is looked up once more.  The temporary key stays *)
(* for the retry unless the request was definitely refused.                *)
Reconcile(p) ==
    LET found == Correlated(proc[p].op) IN
    /\ At(p, "reconcile")
    /\ \/ \E d \in found :
            /\ found = {d}
            /\ proc' = [proc EXCEPT ![p].pc = "cleanup", ![p].machine = d]
            /\ UNCHANGED <<sshKey, stray, prov, acts>>
       \/ /\ Cardinality(found) # 1
          /\ IF proc[p].rejected THEN DeleteKey(proc[p].op) ELSE UNCHANGED <<sshKey, stray, acts>>
          /\ Abandon(p)
       \/ /\ Cardinality(found) = 1 /\ Fault        \* the lookup fails
          /\ sshKey' = IF proc[p].rejected /\ sshKey = proc[p].op THEN 0 ELSE sshKey
          /\ Abandon(p)
          /\ UNCHANGED stray
    /\ UNCHANGED <<droplet, late, landed, reserved, boxes, used, saved, forgotten>>

(* Mutant: no key is expected once a resource was recorded. *)
CleanupKeyOnce(p) ==
    /\ At(p, "cleanup")
    /\ IF proc[p].resource = 0 THEN DeleteKey(proc[p].op) ELSE UNCHANGED <<sshKey, stray, acts>>
    /\ Goto(p, "identify")
    /\ UNCHANGED <<droplet, late, landed, inventory>>

CleanupKey(p) ==
    /\ At(p, "cleanup")
    /\ DeleteKey(proc[p].op)
    /\ Goto(p, "identify")
    /\ UNCHANGED <<droplet, late, landed, inventory>>

(* The Droplet has an address: it is recorded.                             *)
Identify(p) ==
    /\ At(p, "identify")
    /\ IF Exists(proc[p].machine)
       THEN IF Held(p)
            THEN /\ Record(p, proc[p].machine)
                 /\ proc' = [proc EXCEPT ![p].pc = "wait", ![p].resource = proc[p].machine]
            ELSE Return(p) /\ UNCHANGED prov
       ELSE Abandon(p)
    /\ UNCHANGED <<cloud, reserved, boxes, used, saved, forgotten, acts>>

(* SSH answers; two more checkpoints, then the Box is added.               *)
WaitReady(p) ==
    /\ At(p, "wait")
    /\ IF Exists(proc[p].machine)
       THEN IF Held(p)
            THEN Record(p, proc[p].resource) /\ Goto(p, "preflight")
            ELSE Return(p) /\ UNCHANGED prov
       ELSE Abandon(p)
    /\ UNCHANGED <<cloud, reserved, boxes, used, saved, forgotten, acts>>

-----------------------------------------------------------------------------
(* Add, for an adopted machine and for the machine Provision obtained.     *)

Adopt(p, n, m) ==
    /\ At(p, "idle") /\ "adopt" \in Commands[p]
    /\ m \in Droplets => Exists(m)
    /\ proc' = [proc EXCEPT ![p] = [Idle EXCEPT !.pc = "preflight", !.kind = "adopt",
                                                !.name = n, !.machine = m]]
    /\ UNCHANGED <<cloud, inventory, acts>>

Registered(m) == \E n \in Names : boxes[n].machine = m

Reachable(m) == m \in Droplets => Exists(m)

(* The name is free, the machine answers and is no Box under another name. *)
Preflight(p) ==
    LET m == proc[p].machine IN
    /\ At(p, "preflight")
    /\ IF boxes[N(p)] = NoBox /\ Reachable(m) /\ ~Registered(m)
       THEN Goto(p, "reserve") /\ UNCHANGED prov
       ELSE Abandon(p)
    /\ UNCHANGED <<cloud, reserved, boxes, used, saved, forgotten, acts>>

(* Mutant: a reservation is refused to the command that left it behind. *)
ReserveOnce(p) ==
    /\ At(p, "reserve")
    /\ IF boxes[N(p)] = NoBox /\ reserved[N(p)] = None
       THEN /\ reserved' = [reserved EXCEPT ![N(p)] = proc[p].machine]
            /\ Goto(p, "save") /\ UNCHANGED prov
       ELSE Abandon(p) /\ UNCHANGED reserved
    /\ UNCHANGED <<cloud, boxes, used, saved, forgotten, acts>>

(* BeginAdd, one statement: a name is held for one destination.            *)
Reserve(p) ==
    /\ At(p, "reserve")
    /\ IF boxes[N(p)] = NoBox /\ reserved[N(p)] \in {None, proc[p].machine}
       THEN /\ reserved' = [reserved EXCEPT ![N(p)] = proc[p].machine]
            /\ Goto(p, "save") /\ UNCHANGED prov
       ELSE Abandon(p) /\ UNCHANGED reserved
    /\ UNCHANGED <<cloud, boxes, used, saved, forgotten, acts>>

(* The machine is prepared, then CompleteAdd saves the Box and releases    *)
(* the name in one transaction; both name and machine are unique.          *)
CompleteAdd(p) ==
    LET m == proc[p].machine IN
    /\ At(p, "save")
    /\ \/ /\ Reachable(m) /\ boxes[N(p)] = NoBox /\ ~Registered(m) /\ saved < MaxBoxes
          /\ saved' = saved + 1
          /\ boxes' = [boxes EXCEPT ![N(p)] =
                         [id |-> saved + 1, machine |-> m, op |-> proc[p].op,
                          kind |-> IF proc[p].kind = "adopt" THEN "adopted" ELSE "provisioned"]]
          /\ reserved' = [reserved EXCEPT ![N(p)] = None]
          /\ IF proc[p].kind = "adopt" THEN Return(p)
             ELSE proc' = [proc EXCEPT ![p].pc = "complete", ![p].box = saved + 1]
          /\ UNCHANGED prov
       \/ /\ ~Reachable(m) \/ boxes[N(p)] # NoBox \/ Registered(m) \/ saved = MaxBoxes
          /\ Abandon(p)
          /\ UNCHANGED <<saved, boxes, reserved>>
    /\ UNCHANGED <<cloud, used, forgotten, acts>>

(* The operation is over if it and the Box saved are still those of this   *)
(* command; otherwise nothing changes and the command reports a conflict.  *)
CompleteProvision(p) ==
    LET b == boxes[N(p)] IN
    /\ At(p, "complete")
    /\ prov' = IF /\ Held(p) /\ prov[N(p)].resource = proc[p].resource
                  /\ b.id = proc[p].box /\ b.kind = "provisioned"
                  /\ b.op = proc[p].op /\ b.machine = proc[p].resource
               THEN [prov EXCEPT ![N(p)] = NoOperation]
               ELSE prov
    /\ Return(p)
    /\ UNCHANGED <<cloud, reserved, boxes, used, saved, forgotten, acts>>

-----------------------------------------------------------------------------
(* Remove and Destroy.                                                     *)

(* Mutant: the operation under the name goes too, whatever it obtained. *)
RemoveRecordByName(n) ==
    /\ boxes[n] # NoBox
    /\ boxes' = [boxes EXCEPT ![n] = NoBox]
    /\ reserved' = [reserved EXCEPT ![n] = None]
    /\ prov' = [prov EXCEPT ![n] = NoOperation]

(* One transaction: the Box, its reservation, and the operation that       *)
(* obtained it, if that is still the one recorded under the name.          *)
RemoveRecord(n) ==
    LET b == boxes[n]
        obtained == b.kind = "provisioned" /\ prov[n] = [op |-> b.op, resource |-> b.machine]
    IN
    /\ b # NoBox
    /\ boxes' = [boxes EXCEPT ![n] = NoBox]
    /\ reserved' = [reserved EXCEPT ![n] = None]
    /\ prov' = IF obtained THEN [prov EXCEPT ![n] = NoOperation] ELSE prov

Remove(p, n) ==
    /\ At(p, "idle") /\ "remove" \in Commands[p]
    /\ RemoveRecord(n)
    /\ forgotten' = IF boxes[n].kind = "provisioned" THEN forgotten \cup {boxes[n].machine}
                    ELSE forgotten
    /\ UNCHANGED <<cloud, used, saved, proc, acts>>

Destroy(p, n) ==
    /\ At(p, "idle") /\ "destroy" \in Commands[p]
    /\ boxes[n].kind = "provisioned"
    /\ proc' = [proc EXCEPT ![p] = [Idle EXCEPT !.pc = "inspect", !.kind = "destroy", !.name = n,
                                                !.op = boxes[n].op, !.machine = boxes[n].machine]]
    /\ UNCHANGED <<cloud, inventory, acts>>

Verified(p) == droplet[proc[p].machine].tagged /\ droplet[proc[p].machine].op = proc[p].op

(* Mutant: a Droplet that is not there is an error. *)
InspectPresent(p) ==
    /\ At(p, "inspect")
    /\ IF Exists(proc[p].machine) /\ Verified(p) THEN Goto(p, "delete") ELSE Return(p)
    /\ UNCHANGED <<cloud, inventory, acts>>

(* A Droplet that is not there counts as destroyed; one without the tag of *)
(* the recorded operation is left alone.                                   *)
Inspect(p) ==
    /\ At(p, "inspect")
    /\ IF ~Exists(proc[p].machine) THEN Goto(p, "forget")
       ELSE IF Verified(p) THEN Goto(p, "delete") ELSE Return(p)
    /\ UNCHANGED <<cloud, inventory, acts>>

(* It is inspected again, then deleted: accepted, refused, or unanswered   *)
(* and carried out, not carried out, or carried out later.                 *)
RequestDelete(p) ==
    LET d == proc[p].machine IN
    /\ At(p, "delete")
    /\ \/ /\ Exists(d) /\ Verified(p)
          /\ Delete(d)
          /\ \/ Goto(p, "confirm") /\ UNCHANGED acts
             \/ Fault /\ Return(p)
          /\ UNCHANGED late
       \/ /\ Exists(d) /\ Verified(p) /\ Fault
          /\ late' = late \/ late' = late \cup {[kind |-> "delete", of |-> d]}
          /\ Return(p)
          /\ UNCHANGED droplet
       \/ /\ ~Exists(d) \/ ~Verified(p)
          /\ Return(p)
          /\ UNCHANGED <<droplet, late, acts>>
    /\ UNCHANGED <<landed, sshKey, stray, inventory>>

(* Mutant: an accepted deletion counts as carried out. *)
ConfirmAccepted(p) ==
    /\ At(p, "confirm")
    /\ Goto(p, "forget")
    /\ UNCHANGED <<cloud, inventory, acts>>

(* Polling until the Droplet is no longer found, or giving up.             *)
ConfirmDelete(p) ==
    /\ At(p, "confirm")
    /\ \/ ~Exists(proc[p].machine) /\ Goto(p, "forget") /\ UNCHANGED acts
       \/ Exists(proc[p].machine) /\ Fault /\ Return(p)
    /\ UNCHANGED <<cloud, inventory>>

(* The Box is removed by name.                                             *)
Forget(p) ==
    /\ At(p, "forget")
    /\ Return(p)
    /\ \/ RemoveRecord(N(p))
       \/ boxes[N(p)] = NoBox /\ UNCHANGED <<boxes, reserved, prov>>
    /\ UNCHANGED <<cloud, used, saved, forgotten, acts>>

-----------------------------------------------------------------------------
(* The provider and the people who use it.                                 *)

Vanish(d) ==
    /\ droplet[d].st = "deleting"
    /\ droplet' = [droplet EXCEPT ![d].st = "gone"]
    /\ UNCHANGED <<late, landed, sshKey, stray, inventory, proc, acts>>

Land(r) ==
    /\ r \in late
    /\ late' = late \ {r}
    /\ \/ /\ r.kind = "create"
          /\ \E d \in Droplets : Create(d, r.of)
          /\ landed' = landed \cup {r.of}
       \/ /\ r.kind = "delete"
          /\ Delete(r.of)
          /\ UNCHANGED landed
    /\ UNCHANGED <<sshKey, stray, inventory, proc, acts>>

DeleteOutside(d) ==
    /\ MayDelete /\ droplet[d].st = "on" /\ Fault
    /\ droplet' = [droplet EXCEPT ![d].st = "gone"]
    /\ UNCHANGED <<late, landed, sshKey, stray, inventory, proc>>

Untag(d) ==
    /\ MayUntag /\ Exists(d) /\ droplet[d].tagged /\ Fault
    /\ droplet' = [droplet EXCEPT ![d].tagged = FALSE]
    /\ UNCHANGED <<late, landed, sshKey, stray, inventory, proc>>

-----------------------------------------------------------------------------
Step(p) ==
    \/ FindCommitted(p) \/ BeginProvision(p) \/ InsertProvision(p) \/ CheckpointPending(p)
    \/ Lookup(p) \/ EnsureKey(p) \/ CreateDroplet(p) \/ Reconcile(p) \/ CleanupKey(p)
    \/ Identify(p) \/ WaitReady(p) \/ Preflight(p) \/ Reserve(p) \/ CompleteAdd(p)
    \/ CompleteProvision(p) \/ Inspect(p) \/ RequestDelete(p) \/ ConfirmDelete(p) \/ Forget(p)

Start(p) ==
    \E n \in Names : Provision(p, n) \/ Remove(p, n) \/ Destroy(p, n)
                     \/ \E m \in Machines : Adopt(p, n, m)

People == \E d \in Droplets : DeleteOutside(d) \/ Untag(d)

Provider == (\E d \in Droplets : Vanish(d)) \/ (\E r \in late : Land(r))

Next == (\E p \in Procs : Start(p) \/ Step(p) \/ Stop(p) \/ Fail(p)) \/ People \/ Provider

Spec == Init /\ [][Next]_vars

-----------------------------------------------------------------------------
TypeOK ==
    /\ droplet \in [Droplets -> Droplet]
    /\ late \subseteq Requests
    /\ sshKey \in Ops /\ used \in Ops /\ stray \subseteq Ops
    /\ prov \in [Names -> Operation]
    /\ reserved \in [Names -> Machines \cup {None}]
    /\ boxes \in [Names -> Box]
    /\ saved \in 0..MaxBoxes
    /\ proc \in [Procs -> Proc]
    /\ forgotten \subseteq Droplets /\ landed \subseteq Ops
    /\ acts \in 0..MaxActs

(* One operation never pays for two machines: no two Droplets that nobody  *)
(* deleted carry its tag, however often it was interrupted and retried     *)
(* (Cloud.Provision's reconciliation) - unless a create it gave up on      *)
(* landed later still, which no lookup can foresee.                        *)
NoDuplicate ==
    \A d, e \in Droplets :
        d # e /\ droplet[d].st = "on" /\ droplet[e].st = "on"
              /\ droplet[d].tagged /\ droplet[e].tagged /\ droplet[d].op \notin landed
            => droplet[d].op # droplet[e].op

(* No machine is lost: a tagged Droplet nobody asked to delete can be      *)
(* found from the inventory, through the operation that created it or the  *)
(* Box it became, unless a user removed that Box or it landed late.        *)
NoneLost ==
    \A d \in Droplets :
        droplet[d].st = "on" /\ droplet[d].tagged /\ droplet[d].op \notin landed =>
            \/ d \in forgotten
            \/ \E n \in Names : prov[n].op = droplet[d].op \/ boxes[n].machine = d

(* The SSH key registered for the creation of a Droplet outlives neither   *)
(* the operation nor, if the provider agreed to delete it, its success     *)
(* (cleanupManagedKeys, cleanupOperationKeys).                             *)
KeyIsTemporary ==
    sshKey # 0 /\ sshKey \notin stray => \E n \in Names : prov[n].op = sshKey

(* Only `box remove` forgets a Droplet that still exists: `box destroy`    *)
(* drops the Box after the provider stopped finding its machine, whatever  *)
(* became of earlier requests (Service.Destroy).                           *)
ForgottenWhenGone ==
    [][\A n \in Names :
         boxes[n].kind = "provisioned" /\ boxes'[n] # boxes[n] =>
             ~Exists(boxes[n].machine) \/ boxes[n].machine \in forgotten']_vars

(***************************************************************************)
(* Retries.  A user repeats the command until it is done; commands run on, *)
(* failures and interference end (MaxActs), and an accepted deletion is    *)
(* carried out.                                                            *)
(***************************************************************************)
Retried ==
    /\ Spec
    /\ \A p \in Procs : WF_vars(Step(p))
    /\ \A p \in Procs, n \in Names : SF_vars(Destroy(p, n)) /\ SF_vars(Provision(p, n))
    /\ \A d \in Droplets : WF_vars(Vanish(d))

(* A Box that is destroyed over and over leaves the inventory, whichever   *)
(* request or answer was lost on the way and wherever the command was      *)
(* interrupted, while its Droplet keeps its tag (Service.Destroy).         *)
DestroyResumes ==
    \A n \in Names :
        boxes[n].kind = "provisioned" ~>
            boxes[n].kind # "provisioned" \/ ~droplet[boxes[n].machine].tagged

(* An interrupted `box add` that is repeated comes to an end.              *)
ProvisionResumes == \A n \in Names : prov[n] # NoOperation ~> prov[n] = NoOperation
=============================================================================
