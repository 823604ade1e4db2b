------------------------------ MODULE BoxProofs ------------------------------
(* What holds of Boxes, Droplets and temporary keys for any number of Boxes, *)
(* machines, operations, failures and acts of people.                        *)
EXTENDS BoxAcquisition, TLAPS

(* The labels of the commands. *)
Preparing  == {"committed", "begin", "insert", "pending"}
Asking     == {"lookup", "key", "create", "reconcile"}
Obtained   == {"cleanup", "identify", "wait"}
Adding     == {"preflight", "reserve", "save"}
Destroying == {"inspect", "delete", "confirm", "forget"}

Provisions(p) == proc[p].kind = "provision"
HasDroplet(p) == Provisions(p) /\ proc[p].pc \in Obtained \cup Adding
InFlight(p)   == Provisions(p) /\ proc[p].pc \in Asking \cup Obtained \cup Adding

(* What a command at a label is about. *)
Course(p) ==
  /\ proc[p].pc # "idle" => proc[p].name \in Names
  /\ proc[p].pc \in Preparing \cup Asking \cup Obtained \cup {"complete"} => Provisions(p)
  /\ proc[p].pc \in Adding => proc[p].kind \in {"adopt", "provision"} /\ proc[p].machine \in Machines
  /\ proc[p].pc \in Destroying => proc[p].kind = "destroy" /\ proc[p].machine \in Droplets
  /\ proc[p].kind \in {"provision", "destroy"} => proc[p].kind \in Commands[p]
  /\ proc[p].kind = "adopt" => proc[p].op = 0
  /\ proc[p].pc = "idle" => proc[p] = Idle
  /\ HasDroplet(p) => proc[p].machine \in Droplets
  /\ InFlight(p) => proc[p].op # 0

(* What is recorded of a Box. *)
Recorded(n) ==
  /\ boxes[n].kind = "none" => boxes[n] = NoBox
  /\ boxes[n].kind = "provisioned" => boxes[n].machine \in Droplets /\ boxes[n].op # 0
  /\ boxes[n].kind # "provisioned" => boxes[n].op = 0

Core == TypeOK /\ (\A p \in Procs : Course(p)) /\ (\A n \in Names : Recorded(n))

-----------------------------------------------------------------------------
(* How a command moves on.                                                   *)
LEMMA Moves ==
    ASSUME proc \in [Procs -> Proc], NEW p \in Procs, NEW r \in Proc, proc' = [proc EXCEPT ![p] = r]
    PROVE  proc' \in [Procs -> Proc] /\ proc'[p] = r /\ \A q \in Procs \ {p} : proc'[q] = proc[q]
OBVIOUS

LEMMA IdleProc == Idle \in Proc
BY AcquisitionConstants DEF Idle, Proc, Labels, Ops

LEMMA Goes ==
    ASSUME proc \in [Procs -> Proc], NEW p \in Procs, NEW l \in Labels, Goto(p, l)
    PROVE  /\ proc' \in [Procs -> Proc] /\ \A q \in Procs \ {p} : proc'[q] = proc[q]
           /\ proc'[p].pc = l /\ proc'[p].kind = proc[p].kind /\ proc'[p].name = proc[p].name
           /\ proc'[p].op = proc[p].op /\ proc'[p].resource = proc[p].resource
           /\ proc'[p].machine = proc[p].machine /\ proc'[p].box = proc[p].box
BY DEF Goto, Proc

LEMMA Returns ==
    ASSUME proc \in [Procs -> Proc], NEW p \in Procs, Return(p)
    PROVE  /\ proc' \in [Procs -> Proc] /\ \A q \in Procs \ {p} : proc'[q] = proc[q]
           /\ proc'[p] = Idle
BY IdleProc, Moves DEF Return

(* The command of p changes, and no other.                                   *)
Only(p) == proc' \in [Procs -> Proc] /\ \A q \in Procs \ {p} : proc'[q] = proc[q]

LEMMA OthersCourse ==
    ASSUME NEW p \in Procs, Only(p), \A q \in Procs : Course(q), Course(p)'
    PROVE  \A q \in Procs : Course(q)'
BY DEF Only, Course, HasDroplet, InFlight, Provisions

LEMMA IdleCourse ==
    ASSUME NEW p \in Procs, proc'[p] = Idle
    PROVE  Course(p)'
BY DEF Course, Idle, HasDroplet, InFlight, Provisions, Preparing, Asking, Obtained, Adding, Destroying

(* A checkpoint changes the resource of an operation that is recorded.       *)
LEMMA Records ==
    ASSUME Core, NEW p \in Procs, NEW d \in 0..MaxDroplets, Held(p), proc[p].name \in Names, Record(p, d)
    PROVE  prov' \in [Names -> Operation] /\ \A n \in Names : prov'[n].op = prov[n].op
BY DEF Core, TypeOK, Record, Operation, N

LEMMA Abandons ==
    ASSUME Core, NEW p \in Procs, proc[p].name \in Names, Abandon(p)
    PROVE  /\ prov' \in [Names -> Operation] /\ \A n \in Names : prov'[n].op = prov[n].op
           /\ Only(p) /\ proc'[p] = Idle
<1>1. Only(p) /\ proc'[p] = Idle
  BY Returns DEF Core, TypeOK, Abandon, Only
<1>2. prov' \in [Names -> Operation] /\ \A n \in Names : prov'[n].op = prov[n].op
  <2>1. proc[p].resource \in 0..MaxDroplets
    BY DEF Core, TypeOK, Proc
  <2>2. CASE Held(p)
    BY <2>1, <2>2, Records DEF Abandon
  <2>3. CASE ~Held(p)
    BY <2>3 DEF Abandon, Core, TypeOK
  <2> QED BY <2>2, <2>3
<1> QED BY <1>1, <1>2

-----------------------------------------------------------------------------
(* Types, and what a command at a label is about.                            *)

(* Everything but commands and Boxes; everything but these and `prov`.       *)
WorldBut ==
  /\ droplet \in [Droplets -> Droplet] /\ late \subseteq Requests
  /\ sshKey \in Ops /\ used \in Ops /\ stray \subseteq Ops
  /\ reserved \in [Names -> Machines \cup {None}]
  /\ landed \subseteq Ops /\ acts \in 0..MaxActs

World == WorldBut /\ prov \in [Names -> Operation]

LEMMA QuietCore ==
    ASSUME Core, NEW p \in Procs, Only(p), Course(p)', World', UNCHANGED <<boxes, saved, forgotten>>
    PROVE  Core'
<1>1. \A q \in Procs : Course(q)'
  BY OthersCourse DEF Core
<1> QED BY <1>1 DEF Core, TypeOK, Only, Recorded, World, WorldBut

LEMMA AbandonCore ==
    ASSUME Core, NEW p \in Procs, proc[p].pc # "idle", Abandon(p), WorldBut',
           UNCHANGED <<boxes, saved, forgotten>>
    PROVE  Core'
<1>1. proc[p].name \in Names
  BY DEF Core, Course
<1> QED BY <1>1, Abandons, IdleCourse, QuietCore DEF World

LEMMA ReturnCore ==
    ASSUME Core, NEW p \in Procs, Return(p), World', UNCHANGED <<boxes, saved, forgotten>>
    PROVE  Core'
BY Returns, IdleCourse, QuietCore DEF Core, TypeOK, Only

(* On to a label that asks for no more.                                      *)
LEMMA GotoCore ==
    ASSUME Core, NEW p \in Procs, NEW l \in Labels, Goto(p, l), World', UNCHANGED <<boxes, saved, forgotten>>,
           \/ proc[p].pc \in Preparing /\ l \in Preparing
           \/ proc[p].pc \in Preparing /\ l = "lookup" /\ proc[p].op # 0
           \/ proc[p].pc \in Asking /\ l \in Asking
           \/ proc[p].pc \in Obtained /\ l \in Obtained \cup Adding
           \/ proc[p].pc \in Adding /\ l \in Adding
           \/ proc[p].pc \in Destroying /\ l \in Destroying
    PROVE  Core'
<1>1. Only(p)
  BY Goes DEF Only, Core, TypeOK
<1>2. Course(p)
  BY DEF Core
<1>3. Course(p)'
  <2>1. /\ proc'[p].pc = l /\ proc'[p].kind = proc[p].kind /\ proc'[p].name = proc[p].name
        /\ proc'[p].op = proc[p].op /\ proc'[p].machine = proc[p].machine
    BY Goes DEF Core, TypeOK
  <2> QED BY <1>2, <2>1 DEF Course, HasDroplet, InFlight, Provisions, Preparing, Asking, Obtained, Adding,
             Destroying, Machines
<1> QED BY <1>1, <1>3, QuietCore

LEMMA Still ==
    ASSUME Core
    PROVE  /\ World
           /\ UNCHANGED <<droplet, late, landed, sshKey, stray, used, reserved>> /\ acts' \in 0..MaxActs => WorldBut'
           /\ UNCHANGED <<cloud, inventory, acts>> => World'
BY DEF Core, TypeOK, World, WorldBut, cloud, inventory

LEMMA CoreTypes == Core => /\ proc \in [Procs -> Proc] /\ prov \in [Names -> Operation]
                           /\ boxes \in [Names -> Box]
                           /\ sshKey \in Ops /\ stray \subseteq Ops /\ acts \in 0..MaxActs
                           /\ \A p \in Procs : Course(p)
BY DEF Core, TypeOK

LEMMA ProcType == ASSUME Core, NEW p \in Procs PROVE proc[p] \in Proc
BY DEF Core, TypeOK

LEMMA FaultActs == Core /\ Fault => acts' \in 0..MaxActs
BY AcquisitionConstants DEF Core, TypeOK, Fault

(* A Droplet is found, or created.                                           *)
LEMMA ObtainedCore ==
    ASSUME Core, NEW p \in Procs, proc[p].pc \in Asking, NEW d \in Droplets,
           proc' = [proc EXCEPT ![p].pc = "cleanup", ![p].machine = d],
           World', UNCHANGED <<boxes, saved, forgotten>>
    PROVE  Core'
<1> DEFINE r == [proc[p] EXCEPT !.pc = "cleanup", !.machine = d]
<1>0. Course(p)
  BY CoreTypes
<1>1. r \in Proc /\ r.pc = "cleanup" /\ r.kind = proc[p].kind /\ r.name = proc[p].name /\ r.op = proc[p].op
      /\ r.machine = d
  BY ProcType DEF Proc, Labels, Machines
<1>2. proc' = [proc EXCEPT ![p] = r]
  OBVIOUS
<1> HIDE DEF r
<1>3. Only(p) /\ proc'[p] = r
  BY <1>1, <1>2, Moves, CoreTypes DEF Only
<1>4. Course(p)'
  BY <1>0, <1>1, <1>3 DEF Course, HasDroplet, InFlight, Provisions, Preparing, Asking, Obtained, Adding, Destroying
<1> QED BY <1>3, <1>4, QuietCore

LEMMA ProvisionCore ==
    ASSUME Core, NEW p \in Procs, NEW n \in Names, Provision(p, n)
    PROVE  Core'
<1> DEFINE l == IF prov[n] # NoOperation THEN "committed" ELSE "begin"
           r == [Idle EXCEPT !.pc = l, !.kind = "provision", !.name = n,
                             !.op = prov[n].op, !.resource = prov[n].resource]
<1>1. prov[n].op \in Ops /\ prov[n].resource \in 0..MaxDroplets /\ l \in {"committed", "begin"}
  BY CoreTypes DEF Operation
<1>2. proc' = [proc EXCEPT ![p] = r] /\ "provision" \in Commands[p] /\ UNCHANGED <<cloud, inventory, acts>>
  BY DEF Provision
<1> HIDE DEF l
<1>3. r \in Proc /\ r.pc = l /\ r.kind = "provision" /\ r.name = n
  BY <1>1, IdleProc DEF Proc, Idle, Labels, Kinds
<1> HIDE DEF r
<1>4. Only(p) /\ proc'[p] = r
  BY <1>2, <1>3, Moves, CoreTypes DEF Only
<1>5. Course(p)'
  BY <1>1, <1>2, <1>3, <1>4 DEF Course, HasDroplet, InFlight, Provisions, Preparing, Asking, Obtained, Adding, Destroying
<1> QED BY <1>2, <1>4, <1>5, QuietCore, Still DEF cloud, inventory

LEMMA FindCommittedCore ==
    ASSUME Core, NEW p \in Procs, FindCommitted(p)
    PROVE  Core'
<1>1. proc[p].pc = "committed" /\ UNCHANGED <<cloud, inventory, acts>>
  BY DEF FindCommitted, At
<1> USE DEF cloud, inventory
<1>2. CASE Goto(p, "begin")
  BY <1>1, <1>2, GotoCore, Still DEF Labels, Preparing
<1>3. CASE Return(p)
  BY <1>1, <1>3, ReturnCore, Still
<1>4. CASE proc' = [proc EXCEPT ![p].pc = "complete", ![p].box = boxes[N(p)].id]
  <2> DEFINE i == boxes[N(p)].id
             r == [proc[p] EXCEPT !.pc = "complete", !.box = i]
  <2>0. Course(p)
    BY CoreTypes
  <2>1. i \in 0..MaxBoxes
    BY <1>1, <2>0, CoreTypes DEF Box, N, Course
  <2> HIDE DEF i
  <2>2. r \in Proc /\ r.pc = "complete" /\ r.kind = proc[p].kind /\ r.name = proc[p].name /\ r.op = proc[p].op
    BY <2>1, ProcType DEF Proc, Labels
  <2>3. proc' = [proc EXCEPT ![p] = r]
    BY <1>4 DEF i
  <2> HIDE DEF r
  <2>4. Only(p) /\ proc'[p] = r
    BY <2>2, <2>3, Moves, CoreTypes DEF Only
  <2>5. Course(p)'
    BY <1>1, <2>0, <2>2, <2>4 DEF Course, HasDroplet, InFlight, Provisions, Preparing, Asking, Obtained, Adding, Destroying
  <2> QED BY <1>1, <2>4, <2>5, QuietCore, Still
<1> QED BY <1>2, <1>3, <1>4 DEF FindCommitted

LEMMA BeginProvisionCore ==
    ASSUME Core, NEW p \in Procs, BeginProvision(p)
    PROVE  Core'
<1>0. Course(p) /\ proc[p].pc = "begin" /\ UNCHANGED <<cloud, inventory, acts>>
  BY CoreTypes DEF BeginProvision, At
<1>1. prov[N(p)] \in Operation
  BY <1>0, CoreTypes DEF Course, N
<1> DEFINE o == IF prov[N(p)] # NoOperation THEN prov[N(p)].op ELSE 0
           d == IF prov[N(p)] # NoOperation THEN prov[N(p)].resource ELSE 0
           l == IF prov[N(p)] # NoOperation THEN "pending" ELSE "insert"
           r == [proc[p] EXCEPT !.pc = l, !.op = o, !.resource = d]
<1>2. o \in Ops /\ d \in 0..MaxDroplets /\ l \in {"pending", "insert"}
  BY <1>1, AcquisitionConstants DEF Operation, Ops
<1>3. proc' = [proc EXCEPT ![p] = r]
  BY <1>0 DEF BeginProvision
<1> HIDE DEF o, d, l
<1>4. r \in Proc /\ r.pc = l /\ r.kind = proc[p].kind /\ r.name = proc[p].name
  BY <1>2, ProcType DEF Proc, Labels
<1> HIDE DEF r
<1>5. Only(p) /\ proc'[p] = r
  BY <1>3, <1>4, Moves, CoreTypes DEF Only
<1>6. Course(p)'
  BY <1>0, <1>2, <1>4, <1>5 DEF Course, HasDroplet, InFlight, Provisions, Preparing, Asking, Obtained, Adding, Destroying
<1> QED BY <1>0, <1>5, <1>6, QuietCore, Still DEF cloud, inventory

LEMMA InsertProvisionCore ==
    ASSUME Core, NEW p \in Procs, InsertProvision(p)
    PROVE  Core'
<1>0. /\ Course(p) /\ proc[p].pc = "insert" /\ proc[p].name \in Names
      /\ UNCHANGED <<droplet, late, landed, sshKey, stray, reserved, boxes, saved, forgotten, acts>>
  BY CoreTypes DEF InsertProvision, At, cloud, Course
<1>1. CASE Return(p) /\ UNCHANGED <<used, prov>>
  BY <1>0, <1>1, ReturnCore, Still DEF cloud, inventory
<1>2. CASE /\ used < MaxOps /\ used' = used + 1
           /\ prov' = [prov EXCEPT ![N(p)] = [op |-> used + 1, resource |-> 0]]
           /\ proc' = [proc EXCEPT ![p].pc = "pending", ![p].op = used + 1]
  <2> DEFINE r == [proc[p] EXCEPT !.pc = "pending", !.op = used + 1]
  <2>1. used + 1 \in Ops /\ 0 \in 0..MaxDroplets
    BY <1>2, AcquisitionConstants, Still DEF World, WorldBut, Ops
  <2>2. r \in Proc /\ r.pc = "pending" /\ r.kind = proc[p].kind /\ r.name = proc[p].name
    BY <2>1, ProcType DEF Proc, Labels
  <2>3. proc' = [proc EXCEPT ![p] = r]
    BY <1>2
  <2> HIDE DEF r
  <2>4. Only(p) /\ proc'[p] = r
    BY <2>2, <2>3, Moves, CoreTypes DEF Only
  <2>5. Course(p)'
    BY <1>0, <2>2, <2>4 DEF Course, HasDroplet, InFlight, Provisions, Preparing, Asking, Obtained, Adding, Destroying
  <2>6. World'
    BY <1>0, <1>2, <2>1, Still DEF World, WorldBut, Operation
  <2> QED BY <1>0, <2>4, <2>5, <2>6, QuietCore
<1> QED BY <1>1, <1>2 DEF InsertProvision

LEMMA CheckpointPendingCore ==
    ASSUME Core, NEW p \in Procs, CheckpointPending(p)
    PROVE  Core'
<1>0. /\ Course(p) /\ proc[p].pc = "pending" /\ proc[p].name \in Names
      /\ UNCHANGED <<droplet, late, landed, sshKey, stray, used, reserved, boxes, saved, forgotten, acts>>
  BY CoreTypes DEF CheckpointPending, At, cloud, Course
<1>1. CASE Held(p) /\ Record(p, proc[p].resource) /\ Goto(p, "lookup")
  <2>1. prov' \in [Names -> Operation]
    BY <1>0, <1>1, Records, CoreTypes DEF Proc
  <2>2. proc[p].op # 0
    BY <1>1 DEF Held
  <2> QED BY <1>0, <1>1, <2>1, <2>2, GotoCore, Still, CoreTypes DEF World, Labels, Preparing
<1>2. CASE Return(p) /\ UNCHANGED prov
  BY <1>0, <1>2, ReturnCore, Still DEF cloud, inventory
<1> QED BY <1>1, <1>2 DEF CheckpointPending

LEMMA LookupCore ==
    ASSUME Core, NEW p \in Procs, Lookup(p)
    PROVE  Core'
<1>0. /\ Course(p) /\ proc[p].pc = "lookup"
      /\ UNCHANGED <<droplet, late, landed, sshKey, stray, used, reserved, boxes, saved, forgotten, acts>>
  BY CoreTypes DEF Lookup, At, cloud
<1>1. CASE Goto(p, "key") /\ UNCHANGED prov
  BY <1>0, <1>1, GotoCore, Still DEF cloud, inventory, Labels, Asking
<1>2. CASE Abandon(p)
  BY <1>0, <1>2, AbandonCore, Still, CoreTypes
<1>3. ASSUME NEW d \in Droplets, proc' = [proc EXCEPT ![p].pc = "cleanup", ![p].machine = d], UNCHANGED prov
      PROVE  Core'
  BY <1>0, <1>3, ObtainedCore, Still DEF cloud, inventory, Asking
<1>4. Correlated(proc[p].op) \subseteq Droplets
  BY DEF Correlated
<1> QED BY <1>1, <1>2, <1>3, <1>4 DEF Lookup

LEMMA EnsureKeyCore ==
    ASSUME Core, NEW p \in Procs, EnsureKey(p)
    PROVE  Core'
<1>0. /\ proc[p].pc = "key" /\ sshKey' = (IF sshKey = 0 THEN proc[p].op ELSE sshKey)
      /\ UNCHANGED <<droplet, late, landed, stray, used, reserved, boxes, saved, forgotten>>
  BY DEF EnsureKey, At
<1>1. sshKey' \in Ops
  BY <1>0, CoreTypes DEF Proc
<1>2. CASE Goto(p, "create") /\ UNCHANGED <<prov, acts>>
  <2>1. World'
    BY <1>0, <1>1, <1>2, Still DEF World, WorldBut
  <2> QED BY <1>0, <1>2, <2>1, GotoCore DEF Labels, Asking
<1>3. CASE Fault /\ Abandon(p)
  <2>1. WorldBut'
    BY <1>0, <1>1, <1>3, Still, FaultActs DEF World, WorldBut
  <2> QED BY <1>0, <1>3, <2>1, AbandonCore
<1> QED BY <1>2, <1>3 DEF EnsureKey

(* A Droplet that is created.                                                *)
LEMMA Creates ==
    ASSUME droplet \in [Droplets -> Droplet], NEW d \in Droplets, NEW o \in Ops, Create(d, o)
    PROVE  /\ droplet' \in [Droplets -> Droplet] /\ droplet[d].st = "unborn"
           /\ droplet'[d] = [st |-> "on", op |-> o, tagged |-> TRUE]
           /\ \A e \in Droplets \ {d} : droplet'[e] = droplet[e]
BY DEF Create, Droplet

LEMMA CreateDropletCore ==
    ASSUME Core, NEW p \in Procs, CreateDroplet(p)
    PROVE  Core'
<1>0. /\ proc[p].pc = "create" /\ Course(p)
      /\ UNCHANGED <<landed, sshKey, stray, prov, reserved, boxes, used, saved, forgotten>>
  BY CoreTypes DEF CreateDroplet, At, inventory
<1>1. proc[p].op \in Ops /\ proc[p].op # 0 /\ acts' \in 0..MaxActs
  <2>1. proc[p].op \in Ops /\ proc[p].op # 0
    BY <1>0, CoreTypes DEF Course, InFlight, Asking, Proc
  <2>2. acts' \in 0..MaxActs
    BY CoreTypes, FaultActs, AcquisitionConstants DEF CreateDroplet, Fault
  <2> QED BY <2>1, <2>2
<1>2. late' \subseteq Requests
  <2>1. late \subseteq Requests
    BY Still DEF World, WorldBut
  <2>2. [kind |-> "create", of |-> proc[p].op] \in Requests
    BY <1>1, AcquisitionConstants DEF Ops, Requests
  <2> QED BY <2>1, <2>2 DEF CreateDroplet
<1>3. droplet' \in [Droplets -> Droplet]
  <2>1. droplet \in [Droplets -> Droplet]
    BY Still DEF World, WorldBut
  <2>2. \/ UNCHANGED droplet
        \/ \E d \in Droplets : Create(d, proc[p].op)
    BY DEF CreateDroplet
  <2> QED BY <1>1, <2>1, <2>2, Creates
<1>4. World'
  BY <1>0, <1>1, <1>2, <1>3, Still DEF World, WorldBut
<1>5. CASE Goto(p, "reconcile")
  BY <1>0, <1>4, <1>5, GotoCore DEF Labels, Asking
<1>6. CASE proc' = [proc EXCEPT ![p].pc = "reconcile", ![p].rejected = TRUE]
  <2> DEFINE r == [proc[p] EXCEPT !.pc = "reconcile", !.rejected = TRUE]
  <2>1. r \in Proc /\ r.pc = "reconcile" /\ r.kind = proc[p].kind /\ r.name = proc[p].name /\ r.op = proc[p].op
    BY ProcType DEF Proc, Labels
  <2>2. proc' = [proc EXCEPT ![p] = r]
    BY <1>6
  <2> HIDE DEF r
  <2>3. Only(p) /\ proc'[p] = r
    BY <2>1, <2>2, Moves, CoreTypes DEF Only
  <2>4. Course(p)'
    BY <1>0, <2>1, <2>3 DEF Course, HasDroplet, InFlight, Provisions, Preparing, Asking, Obtained, Adding, Destroying
  <2> QED BY <1>0, <1>4, <2>3, <2>4, QuietCore
<1>7. ASSUME NEW d \in Droplets, proc' = [proc EXCEPT ![p].pc = "cleanup", ![p].machine = d]
      PROVE  Core'
  BY <1>0, <1>4, <1>7, ObtainedCore DEF Asking
<1> QED BY <1>5, <1>6, <1>7 DEF CreateDroplet

(* Deleting a key: it is gone, it was not there, or it is astray.            *)
LEMMA DeletesKey ==
    ASSUME Core, NEW o \in Ops, DeleteKey(o)
    PROVE  /\ sshKey' \in Ops /\ stray' \subseteq Ops /\ acts' \in 0..MaxActs
           /\ sshKey' \in {0, sshKey} /\ stray \subseteq stray'
           /\ sshKey' # o \/ sshKey' = 0 \/ o \in stray'
BY CoreTypes, AcquisitionConstants DEF DeleteKey, Ops

LEMMA ReconcileCore ==
    ASSUME Core, NEW p \in Procs, Reconcile(p)
    PROVE  Core'
<1>0. /\ proc[p].pc = "reconcile" /\ proc[p].op \in Ops
      /\ UNCHANGED <<droplet, late, landed, used, reserved, boxes, saved, forgotten>>
  BY CoreTypes DEF Reconcile, At, Proc
<1>1. ASSUME NEW d \in Droplets, proc' = [proc EXCEPT ![p].pc = "cleanup", ![p].machine = d],
             UNCHANGED <<sshKey, stray, prov, acts>>
      PROVE  Core'
  BY <1>0, <1>1, ObtainedCore, Still DEF cloud, inventory, Asking
<1>2. CASE Abandon(p)
  <2>1. sshKey' \in Ops /\ stray' \subseteq Ops /\ acts' \in 0..MaxActs
    <3>1. CASE DeleteKey(proc[p].op)
      BY <1>0, <3>1, DeletesKey
    <3>2. CASE UNCHANGED <<sshKey, stray, acts>>
      BY <3>2, CoreTypes
    <3>3. CASE Fault /\ UNCHANGED stray /\ sshKey' \in {0, sshKey}
      BY <3>3, CoreTypes, FaultActs, AcquisitionConstants DEF Ops
    <3>4. DeleteKey(proc[p].op) \/ UNCHANGED <<sshKey, stray, acts>>
            \/ (Fault /\ UNCHANGED stray /\ sshKey' \in {0, sshKey})
      BY DEF Reconcile
    <3> QED BY <3>1, <3>2, <3>3, <3>4
  <2>2. WorldBut'
    BY <1>0, <2>1, Still DEF World, WorldBut
  <2> QED BY <1>0, <1>2, <2>2, AbandonCore
<1>3. Correlated(proc[p].op) \subseteq Droplets
  BY DEF Correlated
<1> QED BY <1>1, <1>2, <1>3 DEF Reconcile

LEMMA CleanupKeyCore ==
    ASSUME Core, NEW p \in Procs, CleanupKey(p)
    PROVE  Core'
<1>0. /\ proc[p].pc = "cleanup" /\ proc[p].op \in Ops /\ DeleteKey(proc[p].op) /\ Goto(p, "identify")
      /\ UNCHANGED <<droplet, late, landed, prov, used, reserved, boxes, saved, forgotten>>
  BY CoreTypes DEF CleanupKey, At, Proc, inventory
<1>1. World'
  BY <1>0, DeletesKey, Still DEF World, WorldBut
<1> QED BY <1>0, <1>1, GotoCore DEF Labels, Obtained

LEMMA IdentifyCore ==
    ASSUME Core, NEW p \in Procs, Identify(p)
    PROVE  Core'
<1>0. /\ proc[p].pc = "identify" /\ Course(p) /\ proc[p].name \in Names /\ proc[p].machine \in Droplets
      /\ UNCHANGED <<droplet, late, landed, sshKey, stray, used, reserved, boxes, saved, forgotten, acts>>
  BY CoreTypes DEF Identify, At, cloud, Course, HasDroplet, Obtained
<1>1. CASE Abandon(p)
  BY <1>0, <1>1, AbandonCore, Still, CoreTypes
<1>2. CASE Return(p) /\ UNCHANGED prov
  BY <1>0, <1>2, ReturnCore, Still DEF cloud, inventory
<1>3. CASE /\ Held(p) /\ Record(p, proc[p].machine)
           /\ proc' = [proc EXCEPT ![p].pc = "wait", ![p].resource = proc[p].machine]
  <2> DEFINE r == [proc[p] EXCEPT !.pc = "wait", !.resource = proc[p].machine]
  <2>0. proc[p].machine \in 0..MaxDroplets
    BY <1>0, AcquisitionConstants DEF Droplets
  <2>1. r \in Proc /\ r.pc = "wait" /\ r.kind = proc[p].kind /\ r.name = proc[p].name /\ r.op = proc[p].op
        /\ r.machine = proc[p].machine
    BY <2>0, ProcType DEF Proc, Labels
  <2>2. proc' = [proc EXCEPT ![p] = r]
    BY <1>3
  <2> HIDE DEF r
  <2>3. Only(p) /\ proc'[p] = r
    BY <2>1, <2>2, Moves, CoreTypes DEF Only
  <2>4. Course(p)'
    BY <1>0, <2>1, <2>3 DEF Course, HasDroplet, InFlight, Provisions, Preparing, Asking, Obtained, Adding, Destroying
  <2>5. prov' \in [Names -> Operation]
    BY <1>0, <1>3, <2>0, Records
  <2> QED BY <1>0, <2>3, <2>4, <2>5, QuietCore, Still, CoreTypes DEF World
<1> QED BY <1>1, <1>2, <1>3 DEF Identify

LEMMA WaitReadyCore ==
    ASSUME Core, NEW p \in Procs, WaitReady(p)
    PROVE  Core'
<1>0. /\ proc[p].pc = "wait" /\ Course(p) /\ proc[p].name \in Names
      /\ UNCHANGED <<droplet, late, landed, sshKey, stray, used, reserved, boxes, saved, forgotten, acts>>
  BY CoreTypes DEF WaitReady, At, cloud, Course
<1>1. CASE Abandon(p)
  BY <1>0, <1>1, AbandonCore, Still, CoreTypes
<1>2. CASE Return(p) /\ UNCHANGED prov
  BY <1>0, <1>2, ReturnCore, Still DEF cloud, inventory
<1>3. CASE Held(p) /\ Record(p, proc[p].resource) /\ Goto(p, "preflight")
  <2>1. prov' \in [Names -> Operation]
    BY <1>0, <1>3, Records, CoreTypes DEF Proc
  <2> QED BY <1>0, <1>3, <2>1, GotoCore, Still, CoreTypes DEF World, Labels, Obtained, Adding
<1> QED BY <1>1, <1>2, <1>3 DEF WaitReady

LEMMA AdoptCore ==
    ASSUME Core, NEW p \in Procs, NEW n \in Names, NEW m \in Machines, Adopt(p, n, m)
    PROVE  Core'
<1> DEFINE r == [Idle EXCEPT !.pc = "preflight", !.kind = "adopt", !.name = n, !.machine = m]
<1>1. proc' = [proc EXCEPT ![p] = r] /\ UNCHANGED <<cloud, inventory, acts>>
  BY DEF Adopt
<1>2. r \in Proc /\ r.pc = "preflight" /\ r.kind = "adopt" /\ r.name = n /\ r.machine = m /\ r.op = 0
  BY IdleProc DEF Proc, Idle, Labels, Kinds
<1> HIDE DEF r
<1>3. Only(p) /\ proc'[p] = r
  BY <1>1, <1>2, Moves, CoreTypes DEF Only
<1>4. Course(p)'
  BY <1>2, <1>3 DEF Course, HasDroplet, InFlight, Provisions, Preparing, Asking, Obtained, Adding, Destroying
<1> QED BY <1>1, <1>3, <1>4, QuietCore, Still DEF cloud, inventory

LEMMA PreflightCore ==
    ASSUME Core, NEW p \in Procs, Preflight(p)
    PROVE  Core'
<1>0. /\ proc[p].pc = "preflight"
      /\ UNCHANGED <<droplet, late, landed, sshKey, stray, used, reserved, boxes, saved, forgotten, acts>>
  BY DEF Preflight, At, cloud
<1>1. CASE Abandon(p)
  BY <1>0, <1>1, AbandonCore, Still, CoreTypes
<1>2. CASE Goto(p, "reserve") /\ UNCHANGED prov
  BY <1>0, <1>2, GotoCore, Still DEF cloud, inventory, Labels, Adding
<1> QED BY <1>1, <1>2 DEF Preflight

LEMMA ReserveCore ==
    ASSUME Core, NEW p \in Procs, Reserve(p)
    PROVE  Core'
<1>0. /\ proc[p].pc = "reserve" /\ Course(p) /\ proc[p].name \in Names /\ proc[p].machine \in Machines
      /\ UNCHANGED <<droplet, late, landed, sshKey, stray, used, boxes, saved, forgotten, acts>>
  BY CoreTypes DEF Reserve, At, cloud, Course, Adding
<1>1. CASE Abandon(p) /\ UNCHANGED reserved
  BY <1>0, <1>1, AbandonCore, Still, CoreTypes
<1>2. CASE /\ reserved' = [reserved EXCEPT ![N(p)] = proc[p].machine]
           /\ Goto(p, "save") /\ UNCHANGED prov
  <2>1. World'
    BY <1>0, <1>2, Still DEF World, WorldBut
  <2> QED BY <1>0, <1>2, <2>1, GotoCore DEF Labels, Adding
<1> QED BY <1>1, <1>2 DEF Reserve

LEMMA CompleteProvisionCore ==
    ASSUME Core, NEW p \in Procs, CompleteProvision(p)
    PROVE  Core'
<1>0. /\ proc[p].pc = "complete" /\ Return(p)
      /\ UNCHANGED <<droplet, late, landed, sshKey, stray, used, reserved, boxes, saved, forgotten, acts>>
      /\ prov' = prov \/ prov' = [prov EXCEPT ![N(p)] = NoOperation]
  BY DEF CompleteProvision, At, cloud
<1>1. NoOperation \in Operation
  BY AcquisitionConstants DEF NoOperation, Operation, Ops
<1>2. World'
  BY <1>0, <1>1, Still DEF World, WorldBut
<1> QED BY <1>0, <1>2, ReturnCore

(* The Box of n is removed, and perhaps the operation that obtained it.      *)
LEMMA Removes ==
    ASSUME Core, NEW n \in Names, RemoveRecord(n)
    PROVE  /\ boxes' = [boxes EXCEPT ![n] = NoBox] /\ boxes' \in [Names -> Box]
           /\ reserved' \in [Names -> Machines \cup {None}] /\ prov' \in [Names -> Operation]
           /\ \/ UNCHANGED prov
              \/ /\ boxes[n].kind = "provisioned" /\ prov[n].op = boxes[n].op
                 /\ prov' = [prov EXCEPT ![n] = NoOperation]
           /\ \A m \in Names : Recorded(m)'
<1>1. NoBox \in Box /\ NoOperation \in Operation
  BY AcquisitionConstants DEF NoBox, Box, NoOperation, Operation, Ops
<1>2. boxes' = [boxes EXCEPT ![n] = NoBox] /\ reserved' = [reserved EXCEPT ![n] = None]
  BY DEF RemoveRecord
<1>3. \/ UNCHANGED prov
      \/ /\ boxes[n].kind = "provisioned" /\ prov[n].op = boxes[n].op
         /\ prov' = [prov EXCEPT ![n] = NoOperation]
  BY DEF RemoveRecord
<1>4. boxes' \in [Names -> Box] /\ reserved' \in [Names -> Machines \cup {None}] /\ prov' \in [Names -> Operation]
  BY <1>1, <1>2, <1>3 DEF Core, TypeOK
<1>5. \A m \in Names : Recorded(m)'
  BY <1>2 DEF Core, TypeOK, Recorded, NoBox
<1> QED BY <1>2, <1>3, <1>4, <1>5

LEMMA CompleteAddCore ==
    ASSUME Core, NEW p \in Procs, CompleteAdd(p)
    PROVE  Core'
<1> DEFINE k == IF proc[p].kind = "adopt" THEN "adopted" ELSE "provisioned"
           b == [id |-> saved + 1, machine |-> proc[p].machine, op |-> proc[p].op, kind |-> k]
<1>0. /\ proc[p].pc = "save" /\ Course(p) /\ proc[p].name \in Names /\ proc[p].machine \in Machines
      /\ proc[p].kind \in {"adopt", "provision"}
      /\ UNCHANGED <<droplet, late, landed, sshKey, stray, used, forgotten, acts>>
  BY CoreTypes DEF CompleteAdd, At, cloud, Course, Adding
<1>1. CASE Abandon(p) /\ UNCHANGED <<saved, boxes, reserved>>
  BY <1>0, <1>1, AbandonCore, Still, CoreTypes
<1>2. CASE /\ saved < MaxBoxes /\ saved' = saved + 1 /\ boxes' = [boxes EXCEPT ![N(p)] = b]
           /\ reserved' = [reserved EXCEPT ![N(p)] = None] /\ UNCHANGED prov
           /\ IF proc[p].kind = "adopt" THEN Return(p)
              ELSE proc' = [proc EXCEPT ![p].pc = "complete", ![p].box = saved + 1]
  <2>1. saved \in 0..MaxBoxes /\ saved' \in 0..MaxBoxes
    BY <1>2, AcquisitionConstants DEF Core, TypeOK
  <2>2. k \in {"adopted", "provisioned"} /\ (k = "provisioned" <=> proc[p].kind = "provision")
        /\ proc[p].op \in Ops
    BY <1>0, CoreTypes DEF Proc
  <2> HIDE DEF k
  <2>3. b \in Box
    BY <1>0, <1>2, <2>1, <2>2 DEF Box
  <2>4. /\ b.kind = k /\ b.machine = proc[p].machine /\ b.op = proc[p].op
    OBVIOUS
  <2> HIDE DEF b
  <2>5. boxes' \in [Names -> Box]
    BY <1>0, <1>2, <2>3, CoreTypes DEF N
  <2>6. k = "provisioned" => proc[p].machine \in Droplets /\ proc[p].op # 0
    BY <1>0, <2>2 DEF Course, HasDroplet, InFlight, Provisions, Adding
  <2>7. k = "adopted" => proc[p].op = 0
    BY <1>0, <2>2 DEF Course
  <2>8. \A n \in Names : Recorded(n)'
    BY <1>0, <1>2, <2>2, <2>4, <2>6, <2>7, CoreTypes DEF N, Recorded, Core
  <2>9. World'
    BY <1>0, <1>2, Still DEF World, WorldBut
  <2>10. Only(p) /\ Course(p)'
    <3>1. CASE Return(p)
      BY <3>1, Returns, IdleCourse, CoreTypes DEF Only
    <3>2. CASE proc[p].kind = "provision" /\ proc' = [proc EXCEPT ![p].pc = "complete", ![p].box = saved + 1]
      <4> DEFINE i == saved + 1
                 r == [proc[p] EXCEPT !.pc = "complete", !.box = i]
      <4>0. i \in 0..MaxBoxes
        BY <1>2, <2>1
      <4> HIDE DEF i
      <4>1. r \in Proc /\ r.pc = "complete" /\ r.kind = proc[p].kind /\ r.name = proc[p].name /\ r.op = proc[p].op
        BY <4>0, ProcType DEF Proc, Labels
      <4>2. proc' = [proc EXCEPT ![p] = r]
        BY <3>2 DEF i
      <4> HIDE DEF r
      <4>3. Only(p) /\ proc'[p] = r
        BY <4>1, <4>2, Moves, CoreTypes DEF Only
      <4> QED BY <1>0, <3>2, <4>1, <4>3 DEF Course, HasDroplet, InFlight, Provisions, Preparing, Asking, Obtained, Adding, Destroying
    <3> QED BY <1>0, <1>2, <3>1, <3>2
  <2>11. \A q \in Procs : Course(q)'
    BY <2>10, OthersCourse, CoreTypes
  <2> QED BY <1>0, <2>1, <2>5, <2>8, <2>9, <2>10, <2>11 DEF Core, TypeOK, World, WorldBut, Only
<1>3. \/ Abandon(p) /\ UNCHANGED <<saved, boxes, reserved>>
      \/ /\ saved < MaxBoxes /\ saved' = saved + 1 /\ boxes' = [boxes EXCEPT ![N(p)] = b]
         /\ reserved' = [reserved EXCEPT ![N(p)] = None] /\ UNCHANGED prov
         /\ IF proc[p].kind = "adopt" THEN Return(p)
            ELSE proc' = [proc EXCEPT ![p].pc = "complete", ![p].box = saved + 1]
  <2>1. saved \in 0..MaxBoxes
    BY DEF Core, TypeOK
  <2> QED BY <2>1 DEF CompleteAdd
<1> QED BY <1>1, <1>2, <1>3

LEMMA RemoveCore ==
    ASSUME Core, NEW p \in Procs, NEW n \in Names, Remove(p, n)
    PROVE  Core'
<1>1. RemoveRecord(n) /\ UNCHANGED <<cloud, used, saved, proc, acts>>
  BY DEF Remove
<1>2. forgotten' \subseteq Droplets
  BY DEF Remove, Core, TypeOK, Recorded
<1>3. \A q \in Procs : Course(q)'
  BY <1>1 DEF Core, Course, HasDroplet, InFlight, Provisions
<1> QED BY <1>1, <1>2, <1>3, Removes DEF Core, TypeOK, cloud

LEMMA ForgetCore ==
    ASSUME Core, NEW p \in Procs, Forget(p)
    PROVE  Core'
<1>1. /\ Return(p) /\ proc[p].pc = "forget" /\ proc[p].name \in Names
      /\ UNCHANGED <<cloud, used, saved, forgotten, acts>>
  BY CoreTypes DEF Forget, At, Course
<1>2. Only(p) /\ \A q \in Procs : Course(q)'
  BY <1>1, Returns, IdleCourse, OthersCourse, CoreTypes DEF Only
<1>3. CASE RemoveRecord(N(p))
  BY <1>1, <1>2, <1>3, Removes DEF Core, TypeOK, cloud, Only, N
<1>4. CASE UNCHANGED <<boxes, reserved, prov>>
  BY <1>1, <1>4, ReturnCore, Still DEF cloud, inventory
<1> QED BY <1>3, <1>4 DEF Forget

LEMMA DestroyCore ==
    ASSUME Core, NEW p \in Procs, NEW n \in Names, Destroy(p, n)
    PROVE  Core'
<1> DEFINE r == [Idle EXCEPT !.pc = "inspect", !.kind = "destroy", !.name = n,
                             !.op = boxes[n].op, !.machine = boxes[n].machine]
<1>1. /\ proc' = [proc EXCEPT ![p] = r] /\ "destroy" \in Commands[p] /\ boxes[n].kind = "provisioned"
      /\ UNCHANGED <<cloud, inventory, acts>>
  BY DEF Destroy
<1>2. boxes[n].op \in Ops /\ boxes[n].machine \in Droplets
  BY <1>1 DEF Core, TypeOK, Recorded, Box
<1>3. r \in Proc /\ r.pc = "inspect" /\ r.kind = "destroy" /\ r.name = n /\ r.machine \in Droplets
  BY <1>2, IdleProc DEF Proc, Idle, Labels, Kinds, Machines
<1> HIDE DEF r
<1>4. Only(p) /\ proc'[p] = r
  BY <1>1, <1>3, Moves, CoreTypes DEF Only
<1>5. Course(p)'
  BY <1>1, <1>3, <1>4 DEF Course, HasDroplet, InFlight, Provisions, Preparing, Asking, Obtained, Adding, Destroying
<1> QED BY <1>1, <1>4, <1>5, QuietCore, Still DEF cloud, inventory

LEMMA InspectCore ==
    ASSUME Core, NEW p \in Procs, Inspect(p)
    PROVE  Core'
<1>1. /\ proc[p].pc = "inspect" /\ UNCHANGED <<cloud, inventory, acts>>
      /\ Goto(p, "forget") \/ Goto(p, "delete") \/ Return(p)
  BY DEF Inspect, At
<1>2. CASE Return(p)
  BY <1>1, <1>2, ReturnCore, Still DEF inventory
<1>3. CASE Goto(p, "forget")
  BY <1>1, <1>3, GotoCore, Still DEF inventory, Labels, Destroying
<1>4. CASE Goto(p, "delete")
  BY <1>1, <1>4, GotoCore, Still DEF inventory, Labels, Destroying
<1> QED BY <1>1, <1>2, <1>3, <1>4

(* A Droplet only loses what it has: its tag, and itself.                    *)
Fades ==
  /\ droplet' \in [Droplets -> Droplet]
  /\ \A d \in Droplets :
        /\ droplet'[d].op = droplet[d].op
        /\ droplet'[d].st = droplet[d].st
             \/ (droplet[d].st \in {"on", "deleting"} /\ droplet'[d].st \in {"deleting", "gone"})
        /\ droplet'[d].tagged => droplet[d].tagged

LEMMA DeleteFades ==
    ASSUME droplet \in [Droplets -> Droplet], NEW d \in Droplets, Delete(d)
    PROVE  Fades
BY DEF Delete, Fades, Droplet

LEMMA RequestDeleteCore ==
    ASSUME Core, NEW p \in Procs, RequestDelete(p)
    PROVE  Core' /\ (Fades \/ UNCHANGED droplet)
<1>1. /\ proc[p].pc = "delete" /\ proc[p].machine \in Droplets
      /\ UNCHANGED <<landed, sshKey, stray, prov, reserved, boxes, used, saved, forgotten>>
      /\ Goto(p, "confirm") \/ Return(p)
      /\ Delete(proc[p].machine) \/ UNCHANGED droplet
      /\ late' = late \/ late' = late \cup {[kind |-> "delete", of |-> proc[p].machine]}
      /\ Fault \/ UNCHANGED acts
  BY CoreTypes DEF RequestDelete, At, inventory, Course, Destroying
<1>2. droplet \in [Droplets -> Droplet] /\ late \subseteq Requests
  BY DEF Core, TypeOK
<1>3. Fades \/ UNCHANGED droplet
  BY <1>1, <1>2, DeleteFades
<1>4. World'
  <2>1. late' \subseteq Requests
    BY <1>1, <1>2 DEF Requests
  <2>2. acts' \in 0..MaxActs
    BY <1>1, FaultActs, CoreTypes
  <2> QED BY <1>1, <1>2, <1>3, <2>1, <2>2, Still DEF World, WorldBut, Fades
<1>5. CASE Return(p)
  BY <1>1, <1>3, <1>4, <1>5, ReturnCore
<1>6. CASE Goto(p, "confirm")
  BY <1>1, <1>3, <1>4, <1>6, GotoCore DEF Labels, Destroying
<1> QED BY <1>1, <1>5, <1>6

LEMMA ConfirmDeleteCore ==
    ASSUME Core, NEW p \in Procs, ConfirmDelete(p)
    PROVE  Core'
<1>1. /\ proc[p].pc = "confirm" /\ UNCHANGED <<cloud, inventory>>
      /\ Goto(p, "forget") \/ Return(p)
      /\ Fault \/ UNCHANGED acts
  BY DEF ConfirmDelete, At
<1>2. World'
  BY <1>1, FaultActs, Still DEF cloud, inventory, World
<1>3. CASE Return(p)
  BY <1>1, <1>2, <1>3, ReturnCore DEF inventory
<1>4. CASE Goto(p, "forget")
  BY <1>1, <1>2, <1>4, GotoCore DEF inventory, Labels, Destroying
<1> QED BY <1>1, <1>3, <1>4

LEMMA StopCore ==
    ASSUME Core, NEW p \in Procs, Stop(p) \/ Fail(p)
    PROVE  Core'
<1>1. proc[p].pc # "idle" /\ Fault /\ UNCHANGED <<cloud, reserved, boxes, used, saved, forgotten>>
  BY DEF Stop, Fail, At, inventory
<1>2. WorldBut'
  BY <1>1, FaultActs, Still DEF cloud
<1>3. CASE Abandon(p)
  BY <1>1, <1>2, <1>3, AbandonCore
<1>4. CASE Return(p) /\ UNCHANGED prov
  BY <1>1, <1>2, <1>4, ReturnCore, Still DEF World
<1> QED BY <1>3, <1>4 DEF Stop, Fail, inventory

(* Steps of the provider and of people.                                      *)
LEMMA CloudCore ==
    ASSUME Core, World', UNCHANGED <<boxes, saved, forgotten, proc>>
    PROVE  Core'
BY DEF Core, TypeOK, World, WorldBut, Recorded, Course, HasDroplet, InFlight, Provisions

LEMMA FadesCore ==
    ASSUME Core, (\E d \in Droplets : Vanish(d)) \/ People
    PROVE  Core' /\ Fades
<1>0. droplet \in [Droplets -> Droplet]
  BY DEF Core, TypeOK
<1>1. UNCHANGED <<late, landed, sshKey, stray, inventory, proc>> /\ (Fault \/ UNCHANGED acts)
  BY DEF Vanish, People, DeleteOutside, Untag
<1>2. Fades
  <2>1. ASSUME NEW d \in Droplets, Vanish(d) PROVE Fades
    BY <1>0, <2>1 DEF Vanish, Fades, Droplet
  <2>2. ASSUME NEW d \in Droplets, DeleteOutside(d) PROVE Fades
    BY <1>0, <2>2 DEF DeleteOutside, Fades, Droplet
  <2>3. ASSUME NEW d \in Droplets, Untag(d) PROVE Fades
    BY <1>0, <2>3 DEF Untag, Fades, Droplet
  <2> QED BY <2>1, <2>2, <2>3 DEF People
<1>3. World'
  BY <1>1, <1>2, FaultActs, Still DEF World, WorldBut, Fades, inventory
<1> QED BY <1>1, <1>2, <1>3, CloudCore DEF inventory

LEMMA LandCore ==
    ASSUME Core, NEW r \in late, Land(r)
    PROVE  /\ Core'
           /\ \/ Fades /\ UNCHANGED landed
              \/ /\ r \in [kind : {"create"}, of : 1..MaxOps]
                 /\ landed' = landed \cup {r.of} /\ \E d \in Droplets : Create(d, r.of)
<1>0. droplet \in [Droplets -> Droplet] /\ late \subseteq Requests /\ r \in Requests
  BY DEF Core, TypeOK
<1>1. /\ UNCHANGED <<sshKey, stray, inventory, proc, acts>> /\ late' \subseteq late
  BY DEF Land
<1>2. CASE r.kind = "create" /\ (\E d \in Droplets : Create(d, r.of)) /\ landed' = landed \cup {r.of}
  <2>1. r \in [kind : {"create"}, of : 1..MaxOps] /\ r.of \in Ops
    BY <1>0, <1>2 DEF Requests, Ops
  <2>2. droplet' \in [Droplets -> Droplet]
    BY <1>0, <1>2, <2>1, Creates
  <2>3. World'
    BY <1>0, <1>1, <1>2, <2>1, <2>2, Still DEF World, WorldBut, inventory
  <2> QED BY <1>1, <1>2, <2>1, <2>3, CloudCore DEF inventory
<1>3. CASE r.kind = "delete" /\ Delete(r.of) /\ UNCHANGED landed
  <2>1. r.of \in Droplets
    BY <1>0, <1>3 DEF Requests
  <2>2. Fades
    BY <1>0, <1>3, <2>1, DeleteFades
  <2>3. World'
    BY <1>0, <1>1, <1>3, <2>2, Still DEF World, WorldBut, inventory, Fades
  <2> QED BY <1>1, <1>3, <2>2, <2>3, CloudCore DEF inventory
<1> QED BY <1>2, <1>3 DEF Land

LEMMA InitCore == Init => Core
<1> SUFFICES ASSUME Init PROVE Core
  OBVIOUS
<1>1. NoBox \in Box /\ NoOperation \in Operation /\ [st |-> "unborn", op |-> 0, tagged |-> FALSE] \in Droplet
  BY AcquisitionConstants DEF NoBox, Box, NoOperation, Operation, Ops, Droplet
<1>2. TypeOK
  BY <1>1, IdleProc, AcquisitionConstants DEF Init, TypeOK, Ops
<1>3. \A p \in Procs : Course(p)
  BY DEF Init, Course, Idle, HasDroplet, InFlight, Provisions, Preparing, Asking, Obtained, Adding, Destroying
<1>4. \A n \in Names : Recorded(n)
  BY DEF Init, Recorded, NoBox
<1> QED BY <1>2, <1>3, <1>4 DEF Core

LEMMA NextCore ==
    ASSUME Core, [Next]_vars
    PROVE  Core'
<1>1. ASSUME NEW p \in Procs, Start(p)
      PROVE  Core'
  BY <1>1, ProvisionCore, RemoveCore, DestroyCore, AdoptCore DEF Start
<1>2. ASSUME NEW p \in Procs, Step(p)
      PROVE  Core'
  BY <1>2, FindCommittedCore, BeginProvisionCore, InsertProvisionCore, CheckpointPendingCore, LookupCore,
     EnsureKeyCore, CreateDropletCore, ReconcileCore, CleanupKeyCore, IdentifyCore, WaitReadyCore,
     PreflightCore, ReserveCore, CompleteAddCore, CompleteProvisionCore, InspectCore, RequestDeleteCore,
     ConfirmDeleteCore, ForgetCore DEF Step
<1>3. CASE UNCHANGED vars
  BY <1>3, CloudCore, Still DEF vars, cloud, inventory
<1> QED BY <1>1, <1>2, <1>3, StopCore, FadesCore, LandCore DEF Next, Provider

LEMMA CoreInvariance == Spec => []Core
<1>1. Core /\ [Next]_vars => Core'
  BY NextCore
<1> QED BY InitCore, <1>1, PTL DEF Spec

(* Droplets, operations, reservations, Boxes and commands are well typed: no *)
(* statement writes a resource or a machine that its table does not hold     *)
(* (internal/inventory/sqlite/store.go).                                     *)
THEOREM TypeCorrect == Spec => []TypeOK
<1>1. Core => TypeOK
  BY DEF Core
<1> QED BY CoreInvariance, <1>1, PTL

-----------------------------------------------------------------------------
(* Removing a Box: whoever destroys one finds it as it was.                  *)

(* One command at a time removes or destroys Boxes.                          *)
Removals   == {"remove", "destroy"}
OneRemoves ==
  \A p, q \in Procs :
     Commands[p] \cap Removals # {} /\ Commands[q] \cap Removals # {} => p = q

Born(d) == droplet[d].st # "unborn"

(* The Droplets of Boxes and of commands have been created.                  *)
AllBorn ==
  /\ \A n \in Names : boxes[n].kind = "provisioned" => Born(boxes[n].machine)
  /\ \A p \in Procs : HasDroplet(p) => Born(proc[p].machine)

(* A command that destroys a Box is about its Droplet, and forgets it when   *)
(* it is gone.                                                               *)
Doomed(p) ==
  /\ proc[p].pc \in Destroying =>
        boxes[proc[p].name].kind = "provisioned" /\ boxes[proc[p].name].machine = proc[p].machine
  /\ proc[p].pc = "forget" => ~Exists(proc[p].machine)

Removing == Core /\ AllBorn /\ \A p \in Procs : Doomed(p)

Others(p) == \A q \in Procs \ {p} : proc'[q] = proc[q]

(* A Droplet that was created and is gone does not come back.                *)
Ages == \A d \in Droplets : Born(d) => Born(d)' /\ (Exists(d)' => Exists(d))

LEMMA FadesAges == Fades => Ages
BY DEF Fades, Ages, Born, Exists

LEMMA SameAges == UNCHANGED droplet => Ages
BY DEF Ages, Born, Exists

LEMMA CreateAges ==
    ASSUME Core, NEW d \in Droplets, NEW o \in Ops, Create(d, o)
    PROVE  Ages
<1>1. droplet \in [Droplets -> Droplet]
  BY DEF Core, TypeOK
<1> QED BY <1>1, Creates DEF Ages, Born, Exists

LEMMA QuietRemoving ==
    ASSUME Removing, NEW p \in Procs, Core', Others(p), Ages, UNCHANGED boxes,
           HasDroplet(p)' => \/ HasDroplet(p) /\ proc'[p].machine = proc[p].machine
                             \/ Born(proc[p].machine)',
           Doomed(p)'
    PROVE  Removing'
<1>1. \A n \in Names : (boxes[n].kind = "provisioned" => Born(boxes[n].machine))'
  BY DEF Removing, AllBorn, Core, Recorded, Ages, Born
<1>2. \A q \in Procs : (HasDroplet(q) => Born(proc[q].machine))'
  <2>1. (HasDroplet(p) => Born(proc[p].machine))'
    BY DEF Removing, AllBorn, Core, Course, Ages, Born
  <2>2. ASSUME NEW q \in Procs \ {p} PROVE (HasDroplet(q) => Born(proc[q].machine))'
    BY <2>2 DEF Removing, AllBorn, Core, Course, Ages, Born, Others, HasDroplet, Provisions
  <2> QED BY <2>1, <2>2
<1>3. \A q \in Procs : Doomed(q)'
  <2>1. ASSUME NEW q \in Procs \ {p} PROVE Doomed(q)'
    <3>1. proc'[q] = proc[q] /\ Doomed(q) /\ Course(q)
      BY DEF Others, Removing, Core
    <3>2. proc[q].pc \in Destroying => proc[q].machine \in Droplets /\ Born(proc[q].machine)
      BY <3>1 DEF Removing, AllBorn, Doomed, Course, Destroying
    <3> QED BY <3>1, <3>2 DEF Doomed, Ages, Exists, Destroying
  <2> QED BY <2>1
<1> QED BY <1>1, <1>2, <1>3 DEF Removing, AllBorn

(* A step of a command that changes neither Boxes nor Droplets and does not  *)
(* come from or go to the labels where a Droplet is at hand.                 *)
LEMMA PlainRemoving ==
    ASSUME Removing, NEW p \in Procs, Core', Others(p), UNCHANGED <<droplet, boxes>>,
           HasDroplet(p)' => HasDroplet(p) /\ proc'[p].machine = proc[p].machine,
           proc'[p].pc \notin Destroying
    PROVE  Removing'
BY QuietRemoving, SameAges DEF Doomed, Destroying

LEMMA CommandRemoving ==
    ASSUME Removing, NEW p \in Procs,
           (\E n \in Names : Provision(p, n) \/ \E m \in Machines : Adopt(p, n, m))
             \/ FindCommitted(p) \/ BeginProvision(p) \/ InsertProvision(p) \/ CheckpointPending(p)
             \/ EnsureKey(p) \/ CleanupKey(p) \/ Identify(p) \/ WaitReady(p) \/ Preflight(p) \/ Reserve(p)
             \/ CompleteProvision(p) \/ Stop(p) \/ Fail(p)
    PROVE  Removing'
<1> USE DEF cloud, inventory, At, Goto, Return, Abandon
<1>0. Core /\ proc \in [Procs -> Proc] /\ Course(p)
  BY CoreTypes DEF Removing
<1>1. Core'
  BY <1>0, ProvisionCore, AdoptCore, FindCommittedCore, BeginProvisionCore, InsertProvisionCore, CheckpointPendingCore,
     EnsureKeyCore, CleanupKeyCore, IdentifyCore, WaitReadyCore, PreflightCore, ReserveCore,
     CompleteProvisionCore, StopCore
<1> DEFINE Shape == /\ Others(p) /\ UNCHANGED <<droplet, boxes>>
                    /\ HasDroplet(p)' => HasDroplet(p) /\ proc'[p].machine = proc[p].machine
                    /\ proc'[p].pc \notin Destroying
<1> USE DEF Others, HasDroplet, Provisions, Obtained, Adding, Destroying, Proc, Idle
<1>2. ASSUME NEW n \in Names, Provision(p, n) PROVE Shape
  BY <1>0, <1>2 DEF Provision
<1>3. ASSUME NEW n \in Names, NEW m \in Machines, Adopt(p, n, m) PROVE Shape
  BY <1>0, <1>3 DEF Adopt
<1>4. CASE FindCommitted(p)
  BY <1>0, <1>1, <1>4, PlainRemoving DEF FindCommitted
<1>5. CASE BeginProvision(p)
  BY <1>0, <1>1, <1>5, PlainRemoving DEF BeginProvision
<1>6. CASE InsertProvision(p)
  BY <1>0, <1>1, <1>6, PlainRemoving DEF InsertProvision
<1>7. CASE CheckpointPending(p)
  BY <1>0, <1>1, <1>7, PlainRemoving DEF CheckpointPending
<1>8. CASE EnsureKey(p)
  BY <1>0, <1>1, <1>8, PlainRemoving DEF EnsureKey
<1>9. CASE CleanupKey(p)
  BY <1>0, <1>1, <1>9, PlainRemoving DEF CleanupKey, Course
<1>10. CASE Identify(p)
  BY <1>0, <1>1, <1>10, PlainRemoving DEF Identify, Course
<1>11. CASE WaitReady(p)
  BY <1>0, <1>1, <1>11, PlainRemoving DEF WaitReady, Course
<1>12. CASE Preflight(p)
  BY <1>0, <1>1, <1>12, PlainRemoving DEF Preflight
<1>13. CASE Reserve(p)
  BY <1>0, <1>1, <1>13, PlainRemoving DEF Reserve
<1>14. CASE CompleteProvision(p)
  BY <1>0, <1>1, <1>14, PlainRemoving DEF CompleteProvision
<1>15. CASE Stop(p) \/ Fail(p)
  BY <1>0, <1>1, <1>15, PlainRemoving DEF Stop, Fail
<1>16. CASE Shape
  BY <1>1, <1>16, PlainRemoving
<1> QED BY <1>2, <1>3, <1>4, <1>5, <1>6, <1>7, <1>8, <1>9, <1>10, <1>11, <1>12, <1>13, <1>14, <1>15, <1>16

(* A Droplet is found or created.                                            *)
LEMMA ObtainRemoving ==
    ASSUME Removing, NEW p \in Procs, Lookup(p) \/ CreateDroplet(p) \/ Reconcile(p)
    PROVE  Removing'
<1> USE DEF cloud, inventory, At, Goto, Return, Abandon
<1>0. Core /\ proc \in [Procs -> Proc] /\ Course(p) /\ droplet \in [Droplets -> Droplet]
  BY CoreTypes DEF Removing, Core, TypeOK
<1>1. Core'
  BY <1>0, LookupCore, CreateDropletCore, ReconcileCore
<1>2. \A d \in Correlated(proc[p].op) : d \in Droplets /\ Born(d)
  BY DEF Correlated, Exists, Born
<1>3. UNCHANGED boxes /\ Others(p) /\ proc'[p].pc \notin Destroying
  BY <1>0 DEF Lookup, CreateDroplet, Reconcile, Others, Destroying, Idle, Proc
<1>4. CASE Lookup(p) \/ Reconcile(p)
  <2>1. UNCHANGED droplet
    BY <1>4 DEF Lookup, Reconcile
  <2>2. HasDroplet(p)' => proc'[p].machine \in Correlated(proc[p].op)
    BY <1>0, <1>4 DEF Lookup, Reconcile, HasDroplet, Provisions, Obtained, Adding, Idle, Proc
  <2> QED BY <1>0, <1>1, <1>2, <1>3, <2>1, <2>2, QuietRemoving, SameAges DEF Born, Doomed, Destroying
<1>5. CASE CreateDroplet(p)
  <2>0. proc[p].op \in Ops
    BY <1>0 DEF Proc
  <2>1. CASE UNCHANGED droplet
    <3>1. ~HasDroplet(p)'
      <4>1. ASSUME NEW d \in Droplets, Create(d, proc[p].op), UNCHANGED droplet PROVE FALSE
        <5>1. droplet[d].st = "unborn" /\ droplet'[d].st = "on"
          BY <1>0, <2>0, <4>1, Creates
        <5> QED BY <4>1, <5>1
      <4> QED BY <1>0, <1>5, <2>1, <4>1 DEF CreateDroplet, HasDroplet, Obtained, Adding, Proc
    <3> QED BY <1>1, <1>3, <2>1, <3>1, PlainRemoving
  <2>2. ASSUME NEW d \in Droplets, Create(d, proc[p].op), HasDroplet(p)' => proc'[p].machine = d
        PROVE  Removing'
    <3> DEFINE o == proc[p].op
    <3>0. o \in Ops /\ Create(d, o)
      BY <2>0, <2>2
    <3>1. droplet'[d].st = "on"
      <4> HIDE DEF o
      <4>1. droplet'[d] = [st |-> "on", op |-> o, tagged |-> TRUE]
        BY <1>0, <3>0, Creates
      <4> QED BY <4>1
    <3>2. Ages
      BY <1>0, <2>0, <2>2, CreateAges
    <3>3. HasDroplet(p)' => Born(proc[p].machine)'
      BY <2>2, <3>1 DEF Born
    <3> QED BY <1>0, <1>1, <1>3, <3>2, <3>3, QuietRemoving DEF Doomed, Destroying
  <2>3. \/ UNCHANGED droplet
        \/ \E d \in Droplets : Create(d, proc[p].op) /\ (HasDroplet(p)' => proc'[p].machine = d)
    BY <1>0, <1>5 DEF CreateDroplet, HasDroplet, Obtained, Adding, Proc
  <2> QED BY <2>1, <2>2, <2>3
<1> QED BY <1>4, <1>5

(* Saving a Box: its name is free, so nobody destroys one of that name.      *)
LEMMA SaveRemoving ==
    ASSUME Removing, NEW p \in Procs, CompleteAdd(p)
    PROVE  /\ Removing'
           /\ \A n \in Names : boxes'[n] = boxes[n] \/ boxes[n] = NoBox
<1> USE DEF cloud, inventory, At, Goto, Return, Abandon
<1>0. Core /\ proc \in [Procs -> Proc] /\ Course(p) /\ boxes \in [Names -> Box] /\ proc[p].pc = "save"
      /\ proc[p].name \in Names
  BY CoreTypes DEF Removing, CompleteAdd, Course
<1>1. Core'
  BY <1>0, CompleteAddCore
<1>2. UNCHANGED <<droplet, forgotten>> /\ Others(p) /\ proc'[p].pc \notin Destroying /\ ~HasDroplet(p)'
  BY <1>0 DEF CompleteAdd, Others, HasDroplet, Obtained, Adding, Destroying, Idle, Proc
<1>3. CASE UNCHANGED boxes
  BY <1>1, <1>2, <1>3, PlainRemoving
<1>4. CASE ~UNCHANGED boxes
  <2> DEFINE n == proc[p].name
  <2>1. /\ boxes[n] = NoBox /\ \A m \in Names \ {n} : boxes'[m] = boxes[m]
        /\ boxes'[n].kind = "provisioned" => proc[p].kind # "adopt" /\ boxes'[n].machine = proc[p].machine
    BY <1>0, <1>4 DEF CompleteAdd, N
  <2>2. \A m \in Names : (boxes[m].kind = "provisioned" => Born(boxes[m].machine))'
    <3>1. proc[p].kind # "adopt" => HasDroplet(p)
      BY <1>0 DEF Course, HasDroplet, Provisions, Adding
    <3>2. HasDroplet(p) => Born(proc[p].machine)
      BY DEF Removing, AllBorn
    <3>3. droplet' = droplet
      BY <1>2
    <3>4. boxes'[n].kind = "provisioned" => droplet'[boxes'[n].machine].st # "unborn"
      BY <2>1, <3>1, <3>2, <3>3 DEF Born
    <3>5. \A m \in Names : boxes[m].kind = "provisioned" => droplet[boxes[m].machine].st # "unborn"
      BY DEF Removing, AllBorn, Born
    <3> HIDE DEF n
    <3>6. ASSUME NEW m \in Names, m # n
          PROVE  boxes'[m].kind = "provisioned" => droplet'[boxes'[m].machine].st # "unborn"
      BY <2>1, <3>3, <3>5, <3>6
    <3> QED BY <3>4, <3>6 DEF Born
  <2>3. \A q \in Procs : (HasDroplet(q) => Born(proc[q].machine))'
    BY <1>2 DEF Removing, AllBorn, Others, HasDroplet, Provisions, Born
  <2>4. \A q \in Procs : Doomed(q)'
    <3>1. Doomed(p)'
      BY <1>2 DEF Doomed, Destroying
    <3>2. ASSUME NEW q \in Procs \ {p} PROVE Doomed(q)'
      <4>1. proc'[q] = proc[q] /\ Doomed(q) /\ Course(q)
        BY <1>0, <1>2, CoreTypes DEF Others, Removing
      <4>2. proc[q].pc \in Destroying => proc[q].name \in Names \ {n}
        BY <2>1, <4>1 DEF Doomed, Course, Destroying, NoBox
      <4> QED BY <1>2, <2>1, <4>1, <4>2 DEF Doomed, Exists, Destroying
    <3> QED BY <3>1, <3>2
  <2> QED BY <1>1, <2>1, <2>2, <2>3, <2>4 DEF Removing, AllBorn
<1> QED BY <1>3, <1>4

(* Removing the Box of n, when nobody else destroys it.                      *)
LEMMA RecordRemoving ==
    ASSUME Removing, NEW n \in Names, RemoveRecord(n), UNCHANGED droplet, Core',
           NEW p \in Procs, Others(p), proc'[p].pc \notin Destroying, ~HasDroplet(p)',
           \A q \in Procs \ {p} : proc[q].pc \notin Destroying
    PROVE  Removing'
<1>1. boxes' = [boxes EXCEPT ![n] = NoBox] /\ boxes \in [Names -> Box]
  BY CoreTypes DEF RemoveRecord, Removing
<1>2. \A m \in Names : (boxes[m].kind = "provisioned" => Born(boxes[m].machine))'
  BY <1>1 DEF Removing, AllBorn, NoBox, Born
<1>3. \A q \in Procs : (HasDroplet(q) => Born(proc[q].machine))'
  BY DEF Removing, AllBorn, Others, HasDroplet, Provisions, Born
<1>4. \A q \in Procs : Doomed(q)'
  BY DEF Others, Doomed, Destroying
<1> QED BY <1>2, <1>3, <1>4 DEF Removing, AllBorn

(* No other command destroys while this one may remove.                      *)
LEMMA Alone ==
    ASSUME OneRemoves, Core, NEW p \in Procs, Commands[p] \cap Removals # {}
    PROVE  \A q \in Procs \ {p} : proc[q].pc \notin Destroying
<1> SUFFICES ASSUME NEW q \in Procs \ {p}, proc[q].pc \in Destroying PROVE FALSE
  OBVIOUS
<1>1. Course(q)
  BY DEF Core
<1>2. Commands[q] \cap Removals # {}
  BY <1>1 DEF Course, Removals
<1> QED BY <1>2 DEF OneRemoves

(* What may become of the Boxes in one step.                                 *)
Forgets == \A n \in Names :
             boxes[n].kind = "provisioned" /\ boxes'[n] # boxes[n] =>
               ~Exists(boxes[n].machine) \/ boxes[n].machine \in forgotten'

LEMMA RemoveRemoving ==
    ASSUME OneRemoves, Removing, NEW p \in Procs, NEW n \in Names, Remove(p, n)
    PROVE  Removing' /\ Forgets
<1>0. Core /\ Course(p)
  BY CoreTypes DEF Removing
<1>1. /\ proc[p].pc = "idle" /\ RemoveRecord(n) /\ Commands[p] \cap Removals # {} /\ UNCHANGED <<droplet, proc>>
      /\ boxes[n].kind = "provisioned" => boxes[n].machine \in forgotten'
  BY DEF Remove, At, Removals, cloud
<1>2. \A q \in Procs \ {p} : proc[q].pc \notin Destroying
  BY <1>0, <1>1, Alone
<1>3. Core'
  BY <1>0, RemoveCore
<1>4. Removing'
  BY <1>1, <1>2, <1>3, RecordRemoving DEF Others, Destroying, HasDroplet, Obtained, Adding
<1>5. Forgets
  BY <1>0, <1>1, CoreTypes DEF Forgets, RemoveRecord
<1> QED BY <1>4, <1>5

LEMMA ForgetRemoving ==
    ASSUME OneRemoves, Removing, NEW p \in Procs, Forget(p)
    PROVE  Removing' /\ Forgets
<1> DEFINE n == proc[p].name
<1>0. Core /\ Course(p) /\ Doomed(p) /\ proc \in [Procs -> Proc]
  BY CoreTypes DEF Removing
<1>1. /\ proc[p].pc = "forget" /\ n \in Names /\ Return(p) /\ UNCHANGED droplet
      /\ boxes[n].kind = "provisioned" /\ ~Exists(boxes[n].machine) /\ Commands[p] \cap Removals # {}
  BY <1>0 DEF Forget, At, Course, Doomed, Destroying, Removals, cloud
<1>2. Others(p) /\ proc'[p].pc \notin Destroying /\ ~HasDroplet(p)'
  BY <1>0, <1>1 DEF Return, Others, HasDroplet, Provisions, Obtained, Adding, Destroying, Idle
<1>3. Core'
  BY <1>0, ForgetCore
<1>4. RemoveRecord(n)
  BY <1>1 DEF Forget, N, NoBox
<1>5. \A q \in Procs \ {p} : proc[q].pc \notin Destroying
  BY <1>0, <1>1, Alone
<1>6. Removing'
  BY <1>1, <1>2, <1>3, <1>4, <1>5, RecordRemoving
<1>7. Forgets
  BY <1>0, <1>1, <1>4, CoreTypes DEF Forgets, RemoveRecord
<1> QED BY <1>6, <1>7

LEMMA DestroyRemoving ==
    ASSUME Removing, NEW p \in Procs,
           (\E n \in Names : Destroy(p, n)) \/ Inspect(p) \/ RequestDelete(p) \/ ConfirmDelete(p)
    PROVE  Removing' /\ UNCHANGED boxes
<1> USE DEF cloud, inventory, At, Goto, Return
<1>0. Core /\ Course(p) /\ Doomed(p) /\ proc \in [Procs -> Proc] /\ boxes \in [Names -> Box]
  BY CoreTypes DEF Removing
<1>1. Core'
  BY <1>0, DestroyCore, InspectCore, RequestDeleteCore, ConfirmDeleteCore
<1>2. UNCHANGED boxes /\ Others(p) /\ ~HasDroplet(p)'
  <2> USE <1>0 DEF Others, HasDroplet, Obtained, Adding, Idle, Proc
  <2>1. ASSUME NEW n \in Names, Destroy(p, n)
        PROVE  UNCHANGED boxes /\ Others(p) /\ ~HasDroplet(p)'
    BY <2>1 DEF Destroy
  <2>2. CASE Inspect(p)
    BY <2>2 DEF Inspect
  <2>3. CASE RequestDelete(p)
    BY <2>3 DEF RequestDelete
  <2>4. CASE ConfirmDelete(p)
    BY <2>4 DEF ConfirmDelete
  <2> QED BY <2>1, <2>2, <2>3, <2>4
<1>3. Ages
  BY <1>0, RequestDeleteCore, FadesAges, SameAges DEF Destroy, Inspect, ConfirmDelete
<1>4. Doomed(p)'
  <2>1. ASSUME NEW n \in Names, Destroy(p, n) PROVE Doomed(p)'
    BY <1>0, <2>1 DEF Destroy, Doomed, Destroying, Idle
  <2>2. CASE Inspect(p)
    BY <1>0, <2>2 DEF Inspect, Doomed, Destroying, Idle, Exists, Proc
  <2>3. CASE RequestDelete(p)
    BY <1>0, <2>3 DEF RequestDelete, Doomed, Destroying, Idle, Proc
  <2>4. CASE ConfirmDelete(p)
    BY <1>0, <2>4 DEF ConfirmDelete, Doomed, Destroying, Idle, Exists, Proc
  <2> QED BY <2>1, <2>2, <2>3, <2>4
<1> QED BY <1>1, <1>2, <1>3, <1>4, QuietRemoving

LEMMA CloudRemoving ==
    ASSUME Removing, Ages, Core', UNCHANGED <<boxes, proc>>
    PROVE  Removing'
<1>1. \A n \in Names : (boxes[n].kind = "provisioned" => Born(boxes[n].machine))'
  BY DEF Removing, AllBorn, Core, Recorded, Ages, Born
<1>2. \A q \in Procs : (HasDroplet(q) => Born(proc[q].machine))'
  BY DEF Removing, AllBorn, Core, Course, Ages, Born, HasDroplet, Provisions
<1>3. ASSUME NEW q \in Procs PROVE Doomed(q)'
  <2>1. Doomed(q) /\ Course(q)
    BY DEF Removing, Core
  <2>2. proc[q].pc \in Destroying => proc[q].machine \in Droplets /\ Born(proc[q].machine)
    BY <2>1 DEF Removing, AllBorn, Doomed, Course, Destroying
  <2> QED BY <2>1, <2>2 DEF Doomed, Ages, Exists, Destroying
<1> QED BY <1>1, <1>2, <1>3 DEF Removing, AllBorn

LEMMA NextRemoving ==
    ASSUME OneRemoves, Removing, [Next]_vars
    PROVE  Removing' /\ Forgets
<1>0. Core /\ boxes \in [Names -> Box]
  BY CoreTypes DEF Removing
<1>1. UNCHANGED boxes => Forgets
  BY DEF Forgets
<1>2. ASSUME NEW p \in Procs,
             (\E n \in Names : Provision(p, n) \/ \E m \in Machines : Adopt(p, n, m))
               \/ FindCommitted(p) \/ BeginProvision(p) \/ InsertProvision(p) \/ CheckpointPending(p)
               \/ EnsureKey(p) \/ CleanupKey(p) \/ Identify(p) \/ WaitReady(p) \/ Preflight(p) \/ Reserve(p)
               \/ CompleteProvision(p) \/ Stop(p) \/ Fail(p)
      PROVE  Removing' /\ Forgets
  <2>1. UNCHANGED boxes
    BY <1>2 DEF Provision, Adopt, FindCommitted, BeginProvision, InsertProvision, CheckpointPending, EnsureKey,
                CleanupKey, Identify, WaitReady, Preflight, Reserve, CompleteProvision, Stop, Fail, inventory
  <2> QED BY <1>1, <1>2, <2>1, CommandRemoving
<1>3. ASSUME NEW p \in Procs, Lookup(p) \/ CreateDroplet(p) \/ Reconcile(p)
      PROVE  Removing' /\ Forgets
  BY <1>1, <1>3, ObtainRemoving DEF Lookup, CreateDroplet, Reconcile, inventory
<1>4. ASSUME NEW p \in Procs, CompleteAdd(p)
      PROVE  Removing' /\ Forgets
  BY <1>4, SaveRemoving DEF Forgets, NoBox
<1>5. ASSUME NEW p \in Procs,
             (\E n \in Names : Destroy(p, n)) \/ Inspect(p) \/ RequestDelete(p) \/ ConfirmDelete(p)
      PROVE  Removing' /\ Forgets
  BY <1>1, <1>5, DestroyRemoving
<1>6. CASE People \/ Provider
  <2>1. Core' /\ UNCHANGED <<boxes, proc>>
    BY <1>0, <1>6, FadesCore, LandCore DEF Provider, People, Vanish, Land, DeleteOutside, Untag, inventory
  <2>2. Ages
    <3>1. ASSUME NEW r \in late, Land(r) PROVE Ages
      BY <1>0, <3>1, LandCore, CreateAges, FadesAges DEF Ops
    <3> QED BY <1>0, <1>6, <3>1, FadesCore, FadesAges DEF Provider
  <2> QED BY <1>1, <2>1, <2>2, CloudRemoving
<1>7. CASE UNCHANGED vars
  BY <1>0, <1>1, <1>7, CloudRemoving, NextCore, SameAges DEF vars
<1> QED BY <1>2, <1>3, <1>4, <1>5, <1>6, <1>7, RemoveRemoving, ForgetRemoving DEF Next, Start, Step

LEMMA InitRemoving == Init => Removing
<1> SUFFICES ASSUME Init PROVE Removing
  OBVIOUS
<1>1. Core
  BY InitCore
<1> QED BY <1>1 DEF Init, Removing, AllBorn, Doomed, HasDroplet, Provisions, Idle, NoBox, Destroying

(* When one command at a time removes or destroys Boxes, a Box obtained from *)
(* the provider leaves the inventory only by `box remove`, or after its      *)
(* Droplet is no longer found (Service.Destroy and the removal it ends in),  *)
(* whatever requests are lost or late and whoever else adds Boxes meanwhile. *)
THEOREM NothingForgotten ==
    ASSUME OneRemoves
    PROVE  Spec => ForgottenWhenGone
<1>1. Removing /\ [Next]_vars => Removing'
  BY NextRemoving
<1>2. Removing /\ [Next]_vars =>
        [\A n \in Names :
           boxes[n].kind = "provisioned" /\ boxes'[n] # boxes[n] =>
             ~Exists(boxes[n].machine) \/ boxes[n].machine \in forgotten']_vars
  BY NextRemoving DEF Forgets
<1> QED BY InitRemoving, <1>1, <1>2, PTL DEF Spec, ForgottenWhenGone

-----------------------------------------------------------------------------
(* Provisioning: an operation creates one Droplet.                           *)

(* One command at a time provisions.                                         *)
OneProvisions ==
  \A p, q \in Procs : "provision" \in Commands[p] /\ "provision" \in Commands[q] => p = q

(* A Droplet nobody deleted or untagged, of an operation all creates of      *)
(* which landed before they were given up.                                   *)
Live(d) == droplet[d].st = "on" /\ droplet[d].tagged /\ droplet[d].op \notin landed

(* A command about to create a Droplet has none, and one that has a Droplet  *)
(* has no other.                                                             *)
Made(p) ==
  /\ Provisions(p) /\ proc[p].pc \in {"key", "create"} =>
        \A d \in Droplets : Live(d) => droplet[d].op # proc[p].op
  /\ HasDroplet(p) => \A d \in Droplets : Live(d) /\ droplet[d].op = proc[p].op => d = proc[p].machine

Single == Core /\ NoDuplicate /\ \A p \in Procs : Made(p)

(* No Droplet comes to live.                                                 *)
Dims == \A d \in Droplets : Live(d)' => Live(d) /\ droplet'[d].op = droplet[d].op

LEMMA FadesDims == Fades /\ landed \subseteq landed' => Dims
BY DEF Fades, Dims, Live

LEMMA SameDims == UNCHANGED <<droplet, landed>> => Dims
BY DEF Dims, Live

LEMMA DimsSingle ==
    ASSUME Core, NoDuplicate, Dims
    PROVE  NoDuplicate'
BY DEF NoDuplicate, Dims, Live

(* A step of a command that creates nothing.                                 *)
LEMMA QuietSingle ==
    ASSUME Single, NEW p \in Procs, Core', Others(p), Dims, Made(p)'
    PROVE  Single'
<1>1. NoDuplicate'
  BY DimsSingle DEF Single
<1>2. ASSUME NEW q \in Procs \ {p} PROVE Made(q)'
  BY <1>2 DEF Single, Made, Others, Dims, HasDroplet, Provisions
<1> QED BY <1>1, <1>2 DEF Single

(* A command that goes on with the Droplet it has, or without.               *)
LEMMA PlainSingle ==
    ASSUME Single, NEW p \in Procs, Core', Others(p), Dims,
           proc'[p].pc \notin {"key", "create"} \/ (Provisions(p) /\ proc[p].pc = "key" /\ proc'[p].op = proc[p].op),
           HasDroplet(p)' => HasDroplet(p) /\ proc'[p].machine = proc[p].machine /\ proc'[p].op = proc[p].op
    PROVE  Single'
<1>1. Made(p)'
  BY DEF Single, Made, Dims
<1> QED BY <1>1, QuietSingle

LEMMA CommandSingle ==
    ASSUME Single, NEW p \in Procs,
           (\E n \in Names : Provision(p, n) \/ Remove(p, n) \/ Destroy(p, n)
                             \/ \E m \in Machines : Adopt(p, n, m))
             \/ FindCommitted(p) \/ BeginProvision(p) \/ InsertProvision(p) \/ CheckpointPending(p)
             \/ EnsureKey(p) \/ CleanupKey(p) \/ Identify(p) \/ WaitReady(p) \/ Preflight(p) \/ Reserve(p)
             \/ CompleteAdd(p) \/ CompleteProvision(p) \/ Inspect(p) \/ ConfirmDelete(p) \/ Forget(p)
             \/ Stop(p) \/ Fail(p)
    PROVE  Single'
<1> USE DEF cloud, inventory, At, Goto, Return, Abandon
<1>0. Core /\ proc \in [Procs -> Proc] /\ Course(p)
  BY CoreTypes DEF Single
<1>1. Core'
  BY <1>0, ProvisionCore, AdoptCore, FindCommittedCore, BeginProvisionCore, InsertProvisionCore, CheckpointPendingCore,
     EnsureKeyCore, CleanupKeyCore, IdentifyCore, WaitReadyCore, PreflightCore, ReserveCore, CompleteAddCore,
     CompleteProvisionCore, RemoveCore, DestroyCore, InspectCore, ConfirmDeleteCore, ForgetCore, StopCore
<1> DEFINE Shape == /\ Others(p) /\ UNCHANGED <<droplet, landed>>
                    /\ proc'[p].pc \notin {"key", "create"} \/ (Provisions(p) /\ proc[p].pc = "key" /\ proc'[p].op = proc[p].op)
                    /\ HasDroplet(p)' => HasDroplet(p) /\ proc'[p].machine = proc[p].machine /\ proc'[p].op = proc[p].op
<1>2. CASE Shape
  BY <1>1, <1>2, PlainSingle, SameDims
<1> HIDE DEF Shape
<1> USE <1>0 DEF Others, HasDroplet, Provisions, Obtained, Adding, Preparing, Asking, Course, Proc, Idle
<1>3. ASSUME NEW n \in Names, Provision(p, n) PROVE Shape
  BY <1>3 DEF Provision, Shape
<1>4. ASSUME NEW n \in Names, NEW m \in Machines, Adopt(p, n, m) PROVE Shape
  BY <1>4 DEF Adopt, Shape
<1>5. ASSUME NEW n \in Names, Remove(p, n) PROVE Shape
  BY <1>5 DEF Remove, Shape
<1>6. ASSUME NEW n \in Names, Destroy(p, n) PROVE Shape
  BY <1>6 DEF Destroy, Shape
<1>7. CASE FindCommitted(p)
  BY <1>2, <1>7 DEF FindCommitted, Shape
<1>8. CASE BeginProvision(p)
  BY <1>2, <1>8 DEF BeginProvision, Shape
<1>9. CASE InsertProvision(p)
  BY <1>2, <1>9 DEF InsertProvision, Shape
<1>10. CASE CheckpointPending(p)
  BY <1>2, <1>10 DEF CheckpointPending, Shape
<1>11. CASE EnsureKey(p)
  BY <1>2, <1>11 DEF EnsureKey, Shape
<1>12. CASE CleanupKey(p)
  BY <1>2, <1>12 DEF CleanupKey, Shape
<1>13. CASE Identify(p)
  BY <1>2, <1>13 DEF Identify, Shape
<1>14. CASE WaitReady(p)
  BY <1>2, <1>14 DEF WaitReady, Shape
<1>15. CASE Preflight(p)
  BY <1>2, <1>15 DEF Preflight, Shape
<1>16. CASE Reserve(p)
  BY <1>2, <1>16 DEF Reserve, Shape
<1>17. CASE CompleteAdd(p)
  BY <1>2, <1>17 DEF CompleteAdd, Shape
<1>18. CASE CompleteProvision(p)
  BY <1>2, <1>18 DEF CompleteProvision, Shape
<1>19. CASE Inspect(p)
  BY <1>2, <1>19 DEF Inspect, Shape
<1>20. CASE ConfirmDelete(p)
  BY <1>2, <1>20 DEF ConfirmDelete, Shape
<1>21. CASE Forget(p)
  BY <1>2, <1>21 DEF Forget, Shape
<1>22. CASE Stop(p) \/ Fail(p)
  BY <1>2, <1>22 DEF Stop, Fail, Shape
<1> QED BY <1>2, <1>3, <1>4, <1>5, <1>6, <1>7, <1>8, <1>9, <1>10, <1>11, <1>12, <1>13, <1>14, <1>15, <1>16, <1>17,
           <1>18, <1>19, <1>20, <1>21, <1>22

(* While one command provisions, no other has a Droplet or asks for one.     *)
LEMMA Lone ==
    ASSUME OneProvisions, Core, NEW p \in Procs, "provision" \in Commands[p]
    PROVE  \A q \in Procs \ {p} : ~Provisions(q)
BY CoreTypes DEF OneProvisions, Course, Provisions

(* Finding the Droplet by its tag: it is the only one, or there is none.     *)
LEMMA FoundSingle ==
    ASSUME Single, NEW p \in Procs, Lookup(p) \/ Reconcile(p)
    PROVE  Single'
<1> USE DEF At, Goto, Return, Abandon
<1>0. Core /\ proc \in [Procs -> Proc] /\ Core' /\ Others(p) /\ UNCHANGED <<droplet, landed>>
  BY CoreTypes, LookupCore, ReconcileCore DEF Single, Lookup, Reconcile, cloud, Others
<1>1. Dims
  BY <1>0, SameDims
<1>2. CASE Abandon(p)
  BY <1>0, <1>1, <1>2, PlainSingle DEF HasDroplet, Obtained, Adding, Idle
<1>3. ASSUME NEW d \in Droplets, Correlated(proc[p].op) = {d},
             proc' = [proc EXCEPT ![p].pc = "cleanup", ![p].machine = d]
      PROVE  Single'
  <2>1. proc'[p].pc = "cleanup" /\ proc'[p].machine = d /\ proc'[p].op = proc[p].op
    BY <1>0, <1>3 DEF Proc
  <2>2. \A e \in Droplets : Live(e) /\ droplet[e].op = proc[p].op => e = d
    BY <1>3 DEF Correlated, Live, Exists
  <2>3. Made(p)'
    BY <1>0, <2>1, <2>2 DEF Made, Live
  <2> QED BY <1>0, <1>1, <2>3, QuietSingle
<1>4. CASE Correlated(proc[p].op) = {} /\ Goto(p, "key")
  <2>1. proc'[p].pc = "key" /\ proc'[p].op = proc[p].op
    BY <1>0, <1>4 DEF Proc
  <2>2. \A e \in Droplets : Live(e) => droplet[e].op # proc[p].op
    BY <1>4 DEF Correlated, Live, Exists
  <2>3. Made(p)'
    BY <1>0, <2>1, <2>2 DEF Made, Live, HasDroplet, Obtained, Adding
  <2> QED BY <1>0, <1>1, <2>3, QuietSingle
<1>5. Correlated(proc[p].op) \subseteq Droplets
  BY DEF Correlated
<1> QED BY <1>2, <1>3, <1>4, <1>5 DEF Lookup, Reconcile

LEMMA CreateSingle ==
    ASSUME OneProvisions, Single, NEW p \in Procs, CreateDroplet(p)
    PROVE  Single'
<1> USE DEF At, Goto
<1>0. /\ Core /\ proc \in [Procs -> Proc] /\ Core' /\ Course(p) /\ droplet \in [Droplets -> Droplet]
      /\ Provisions(p) /\ proc[p].pc = "create" /\ proc[p].op \in Ops /\ Others(p) /\ UNCHANGED landed
  BY CoreTypes, CreateDropletCore DEF Single, CreateDroplet, Others, Core, TypeOK, Course, Asking, Proc
<1>1. CASE UNCHANGED droplet /\ proc'[p].pc = "reconcile"
  BY <1>0, <1>1, SameDims, PlainSingle DEF HasDroplet, Obtained, Adding
<1>2. ASSUME NEW d \in Droplets, Create(d, proc[p].op),
             HasDroplet(p)' => proc'[p].machine = d, proc'[p].pc # "key", proc'[p].pc # "create",
             proc'[p].op = proc[p].op
      PROVE  Single'
  <2>1. /\ droplet'[d] = [st |-> "on", op |-> proc[p].op, tagged |-> TRUE]
        /\ \A e \in Droplets \ {d} : droplet'[e] = droplet[e]
    BY <1>0, <1>2, Creates
  <2>2. \A e \in Droplets : Live(e) => droplet[e].op # proc[p].op
    BY <1>0 DEF Single, Made
  <2>3. \A e \in Droplets \ {d} : Live(e)' => Live(e) /\ droplet'[e].op = droplet[e].op
    BY <1>0, <2>1 DEF Live
  <2>4. droplet'[d].op = proc[p].op
    BY <2>1
  <2>5. \A e \in Droplets \ {d} : Live(e)' => droplet'[e].op # droplet'[d].op
    BY <2>2, <2>3, <2>4
  <2>6. ASSUME NEW e \in Droplets, NEW f \in Droplets, e # f, Live(e)', Live(f)'
        PROVE  droplet'[e].op # droplet'[f].op
    <3>1. CASE e = d \/ f = d
      BY <2>5, <2>6, <3>1
    <3>2. CASE e # d /\ f # d
      BY <2>3, <2>6, <3>2 DEF Single, NoDuplicate, Live
    <3> QED BY <3>1, <3>2
  <2>7. NoDuplicate'
    BY <2>6 DEF NoDuplicate, Live
  <2>8. Made(p)'
    BY <1>2, <2>4, <2>5 DEF Made
  <2>9. \A q \in Procs \ {p} : Made(q)'
    <3>1. \A q \in Procs \ {p} : ~Provisions(q)
      BY <1>0, Lone DEF Course, Provisions
    <3> QED BY <1>0, <3>1 DEF Made, Others, Provisions, HasDroplet
  <2> QED BY <1>0, <2>7, <2>8, <2>9 DEF Single
<1>3. \/ UNCHANGED droplet /\ proc'[p].pc = "reconcile"
      \/ \E d \in Droplets : /\ Create(d, proc[p].op) /\ (HasDroplet(p)' => proc'[p].machine = d)
                             /\ proc'[p].pc \in {"cleanup", "reconcile"} /\ proc'[p].op = proc[p].op
  BY <1>0 DEF CreateDroplet, HasDroplet, Obtained, Adding, Proc
<1> QED BY <1>1, <1>2, <1>3

LEMMA CloudSingle ==
    ASSUME Single, Dims, Core', UNCHANGED proc
    PROVE  Single'
<1>1. NoDuplicate'
  BY DimsSingle DEF Single
<1>2. ASSUME NEW q \in Procs PROVE Made(q)'
  BY DEF Single, Made, Dims, HasDroplet, Provisions
<1> QED BY <1>1, <1>2 DEF Single

(* A Droplet that lands late is not one of those the property is about.      *)
LEMMA LandDims ==
    ASSUME Core, NEW r \in late, Land(r)
    PROVE  Dims
<1>1. droplet \in [Droplets -> Droplet]
  BY DEF Core, TypeOK
<1>2. CASE Fades /\ UNCHANGED landed
  BY <1>2, FadesDims
<1>3. ASSUME r \in [kind : {"create"}, of : 1..MaxOps], landed' = landed \cup {r.of},
             NEW d \in Droplets, Create(d, r.of)
      PROVE  Dims
  <2>1. r.of \in Ops
    BY <1>3, AcquisitionConstants DEF Ops
  <2>2. /\ droplet'[d] = [st |-> "on", op |-> r.of, tagged |-> TRUE]
        /\ \A e \in Droplets \ {d} : droplet'[e] = droplet[e]
    BY <1>1, <1>3, <2>1, Creates
  <2>3. droplet'[d].op = r.of
    BY <2>2
  <2>4. ~Live(d)'
    BY <1>3, <2>3 DEF Live
  <2> QED BY <1>3, <2>2, <2>4 DEF Dims, Live
<1> QED BY <1>2, <1>3, LandCore

LEMMA CloudDims ==
    ASSUME Core, People \/ Provider
    PROVE  Dims
<1>1. CASE (\E d \in Droplets : Vanish(d)) \/ People
  <2>1. UNCHANGED landed
    BY <1>1 DEF Vanish, People, DeleteOutside, Untag
  <2> QED BY <1>1, <2>1, FadesCore, FadesDims
<1>2. ASSUME NEW r \in late, Land(r) PROVE Dims
  BY <1>2, LandDims
<1> QED BY <1>1, <1>2 DEF Provider

LEMMA NextSingle ==
    ASSUME OneProvisions, Single, [Next]_vars
    PROVE  Single'
<1>0. Core /\ Core' /\ proc \in [Procs -> Proc]
  BY NextCore, CoreTypes DEF Single
<1>1. ASSUME NEW p \in Procs, RequestDelete(p)
      PROVE  Single'
  <2>1. UNCHANGED landed /\ Others(p) /\ proc'[p].pc \notin {"key", "create"} \cup Obtained \cup Adding
    BY <1>0, <1>1 DEF RequestDelete, Others, Goto, Return, Idle, Obtained, Adding, Proc
  <2>2. Dims
    BY <1>0, <1>1, <2>1, RequestDeleteCore, FadesDims, SameDims
  <2> QED BY <1>0, <2>1, <2>2, PlainSingle DEF HasDroplet
<1>2. CASE People \/ Provider
  <2>1. UNCHANGED proc
    BY <1>2 DEF Provider, People, Vanish, Land, DeleteOutside, Untag
  <2> QED BY <1>0, <1>2, <2>1, CloudDims, CloudSingle
<1>3. CASE UNCHANGED vars
  BY <1>0, <1>3, CloudSingle, SameDims DEF vars
<1> QED BY <1>1, <1>2, <1>3, CommandSingle, FoundSingle, CreateSingle DEF Next, Start, Step

LEMMA InitSingle == Init => Single
<1> SUFFICES ASSUME Init PROVE Single
  OBVIOUS
<1>1. Core
  BY InitCore
<1> QED BY <1>1 DEF Init, Single, NoDuplicate, Made, HasDroplet, Provisions, Idle

LEMMA SingleInvariance ==
    ASSUME OneProvisions
    PROVE  Spec => []Single
<1>1. Single /\ [Next]_vars => Single'
  BY NextSingle
<1> QED BY InitSingle, <1>1, PTL DEF Spec

(* When one command at a time provisions, no two Droplets that nobody        *)
(* deleted carry the tag of one operation, wherever it was interrupted and   *)
(* however often it was repeated (Cloud.Provision's reconciliation): the     *)
(* create is sent only after the tag was found on nothing.                   *)
THEOREM OneDroplet ==
    ASSUME OneProvisions
    PROVE  Spec => []NoDuplicate
<1>1. Single => NoDuplicate
  BY DEF Single
<1> QED BY SingleInvariance, <1>1, PTL

-----------------------------------------------------------------------------
(* The operation of a command, its Box and its key.                          *)

(* The operation o has no Box yet.                                           *)
Fresh(o) == \A n \in Names : boxes[n].op # o

(* Operations are drawn once, and a Box is under the name of its operation.  *)
Numbered ==
  /\ \A n \in Names : /\ prov[n].op <= used /\ boxes[n].op <= used
                      /\ prov[n].op = 0 => prov[n] = NoOperation
  /\ \A n, m \in Names : n # m /\ prov[n].op # 0 => prov[n].op # prov[m].op /\ prov[n].op # boxes[m].op

(* A key that is there is of a recorded operation that has no Box.           *)
Keyed == sshKey # 0 /\ sshKey \notin stray => Fresh(sshKey) /\ \E n \in Names : prov[n].op = sshKey

(* The operation of a command is recorded and has no Box while the command   *)
(* is under way.                                                             *)
Flight(p) ==
  /\ Provisions(p) /\ proc[p].pc = "begin" /\ prov[proc[p].name].op # 0 => Fresh(prov[proc[p].name].op)
  /\ Provisions(p) /\ proc[p].pc = "pending" /\ proc[p].op # 0 /\ prov[proc[p].name].op = proc[p].op =>
        Fresh(proc[p].op)
  /\ InFlight(p) => prov[proc[p].name].op = proc[p].op /\ Fresh(proc[p].op)

(* Its key is away, or astray, once its Droplet has been reached.            *)
KeyAway(p) ==
  Provisions(p) /\ proc[p].pc \in {"identify", "wait"} \cup Adding =>
     sshKey # proc[p].op \/ proc[p].op \in stray

Keeping == Core /\ Numbered /\ Keyed /\ \A p \in Procs : Flight(p) /\ KeyAway(p)

(* A step of the table of operations that draws and ends none.               *)
Checkpoints ==
  \A n \in Names : prov'[n].op = prov[n].op /\ (prov[n].op = 0 => prov'[n] = prov[n])

LEMMA SameCheckpoints == UNCHANGED prov => Checkpoints
BY DEF Checkpoints

LEMMA RecordCheckpoints ==
    ASSUME Core, NEW p \in Procs, NEW d \in 0..MaxDroplets, Held(p), proc[p].name \in Names, Record(p, d)
    PROVE  Checkpoints
<1>1. \A n \in Names : prov'[n].op = prov[n].op
  BY Records
<1>2. prov \in [Names -> Operation] /\ prov[proc[p].name].op # 0
  BY CoreTypes DEF Held, N
<1>3. \A n \in Names \ {proc[p].name} : prov'[n] = prov[n]
  BY <1>2 DEF Record, N
<1> QED BY <1>1, <1>2, <1>3 DEF Checkpoints

LEMMA AbandonCheckpoints ==
    ASSUME Core, NEW p \in Procs, proc[p].name \in Names, Abandon(p)
    PROVE  Checkpoints
<1>1. proc[p].resource \in 0..MaxDroplets
  BY CoreTypes DEF Proc
<1> QED BY <1>1, RecordCheckpoints, SameCheckpoints DEF Abandon

LEMMA CheckpointsKeep ==
    ASSUME Keeping, Checkpoints, UNCHANGED <<boxes, sshKey, stray, used>>
    PROVE  Numbered' /\ Keyed'
<1>1. Numbered'
  BY DEF Keeping, Numbered, Checkpoints
<1>2. Keyed'
  BY DEF Keeping, Keyed, Checkpoints, Fresh
<1> QED BY <1>1, <1>2

(* A step of a command that changes neither Boxes nor keys nor operations.   *)
LEMMA QuietKeeping ==
    ASSUME Keeping, NEW p \in Procs, Core', Others(p), Checkpoints, UNCHANGED <<boxes, sshKey, stray, used>>,
           Flight(p)', KeyAway(p)'
    PROVE  Keeping'
<1>1. ASSUME NEW q \in Procs \ {p} PROVE Flight(q)' /\ KeyAway(q)'
  <2>1. proc'[q] = proc[q] /\ Flight(q) /\ KeyAway(q) /\ Course(q)
    BY CoreTypes DEF Keeping, Others
  <2>2. proc[q].pc \in {"begin", "pending"} \cup Asking \cup Obtained \cup Adding =>
            proc[q].name \in Names /\ prov'[proc[q].name].op = prov[proc[q].name].op
    BY <2>1 DEF Course, Checkpoints, Asking, Obtained, Adding
  <2>3. Flight(q)'
    BY <2>1, <2>2 DEF Flight, Fresh, InFlight, Provisions
  <2>4. KeyAway(q)'
    BY <2>1 DEF KeyAway, Provisions
  <2> QED BY <2>3, <2>4
<1> QED BY <1>1, CheckpointsKeep DEF Keeping

(* A command that goes on with its operation, or without.                    *)
GoesOn(p) ==
  \/ ~Provisions(p)'
  \/ proc'[p].pc \notin {"begin", "pending", "identify", "wait"} \cup Asking \cup Obtained \cup Adding
  \/ /\ Provisions(p) /\ proc'[p].op = proc[p].op /\ proc'[p].name = proc[p].name
     /\ proc[p].pc \in Asking \cup Obtained \cup Adding
     /\ proc'[p].pc \in Asking \cup Obtained \cup Adding
     /\ proc'[p].pc \in {"identify", "wait"} \cup Adding => proc[p].pc \in {"identify", "wait"} \cup Adding

LEMMA GoesOnKeeping ==
    ASSUME Keeping, NEW p \in Procs, Core', Others(p), Checkpoints, UNCHANGED <<boxes, sshKey, stray, used>>,
           GoesOn(p)
    PROVE  Keeping'
<1>1. CASE ~Provisions(p)' \/ proc'[p].pc \notin {"begin", "pending", "identify", "wait"} \cup Asking \cup Obtained \cup Adding
  <2>1. Flight(p)' /\ KeyAway(p)'
    BY <1>1 DEF Flight, KeyAway, InFlight, Provisions
  <2> QED BY <2>1, QuietKeeping
<1>2. CASE /\ Provisions(p) /\ proc'[p].op = proc[p].op /\ proc'[p].name = proc[p].name
           /\ proc[p].pc \in Asking \cup Obtained \cup Adding
           /\ proc'[p].pc \in Asking \cup Obtained \cup Adding
           /\ proc'[p].pc \in {"identify", "wait"} \cup Adding => proc[p].pc \in {"identify", "wait"} \cup Adding
  <2>0. Course(p) /\ proc[p].name \in Names /\ Flight(p) /\ KeyAway(p) /\ InFlight(p)
    BY <1>2, CoreTypes DEF Keeping, Course, Asking, Obtained, Adding, InFlight
  <2>1. prov'[proc[p].name].op = proc[p].op /\ Fresh(proc[p].op)
    BY <2>0 DEF Flight, Checkpoints
  <2>2. Flight(p)'
    BY <1>2, <2>1 DEF Flight, Fresh, Asking, Obtained, Adding
  <2>3. KeyAway(p)'
    BY <1>2, <2>0 DEF KeyAway
  <2> QED BY <2>2, <2>3, QuietKeeping
<1> QED BY <1>1, <1>2 DEF GoesOn

LEMMA CommandKeeping ==
    ASSUME Keeping, NEW p \in Procs,
           (\E n \in Names : Destroy(p, n) \/ \E m \in Machines : Adopt(p, n, m))
             \/ Lookup(p) \/ CreateDroplet(p) \/ Identify(p) \/ WaitReady(p) \/ Preflight(p) \/ Reserve(p)
             \/ Inspect(p) \/ RequestDelete(p) \/ ConfirmDelete(p) \/ Stop(p) \/ Fail(p)
    PROVE  Keeping'
<1> USE DEF cloud, inventory, At, Goto, Return
<1>0. Core /\ proc \in [Procs -> Proc] /\ Course(p) /\ proc[p].resource \in 0..MaxDroplets
  BY CoreTypes DEF Keeping, Proc
<1>1. Core'
  BY <1>0, AdoptCore, LookupCore, CreateDropletCore, IdentifyCore, WaitReadyCore, PreflightCore, ReserveCore,
     DestroyCore, InspectCore, RequestDeleteCore, ConfirmDeleteCore, StopCore
<1>2. UNCHANGED <<boxes, sshKey, stray, used>>
  BY DEF Adopt, Lookup, CreateDroplet, Identify, WaitReady, Preflight, Reserve, Destroy, Inspect, RequestDelete,
         ConfirmDelete, Stop, Fail
<1>3. Others(p)
  <2> USE <1>0 DEF Others, Abandon
  <2>1. CASE (\E n \in Names : Destroy(p, n) \/ \E m \in Machines : Adopt(p, n, m)) \/ Lookup(p) \/ CreateDroplet(p)
    BY <2>1 DEF Destroy, Adopt, Lookup, CreateDroplet
  <2>2. CASE Identify(p) \/ WaitReady(p) \/ Preflight(p) \/ Reserve(p)
    BY <2>2 DEF Identify, WaitReady, Preflight, Reserve
  <2>3. CASE Inspect(p) \/ RequestDelete(p) \/ ConfirmDelete(p) \/ Stop(p) \/ Fail(p)
    BY <2>3 DEF Inspect, RequestDelete, ConfirmDelete, Stop, Fail
  <2> QED BY <2>1, <2>2, <2>3
<1> DEFINE Shape == Checkpoints /\ GoesOn(p)
<1>4. CASE Shape
  BY <1>1, <1>2, <1>3, <1>4, GoesOnKeeping
<1>5. CASE Abandon(p) /\ proc[p].pc # "idle"
  <2>1. ~Provisions(p)' /\ proc[p].name \in Names
    BY <1>0, <1>5 DEF Abandon, Provisions, Idle, Course
  <2> QED BY <1>0, <1>4, <1>5, <2>1, AbandonCheckpoints DEF GoesOn
<1>6. CASE Return(p) /\ UNCHANGED prov
  <2>1. ~Provisions(p)'
    BY <1>0, <1>6 DEF Provisions, Idle
  <2> QED BY <1>4, <1>6, <2>1, SameCheckpoints DEF GoesOn
<1> HIDE DEF Shape
<1> USE <1>0 DEF Proc, Course, Asking, Obtained, Adding, Destroying, Provisions
<1>7. ASSUME NEW n \in Names, Destroy(p, n) PROVE Keeping'
  BY <1>4, <1>7, SameCheckpoints DEF Destroy, Idle, Shape, GoesOn
<1>8. ASSUME NEW n \in Names, NEW m \in Machines, Adopt(p, n, m) PROVE Keeping'
  BY <1>4, <1>8, SameCheckpoints DEF Adopt, Idle, Shape, GoesOn
<1>9. CASE Lookup(p)
  <2>1. CASE proc[p].pc # "idle" /\ Abandon(p)
    BY <1>5, <2>1
  <2>2. CASE ~Abandon(p)
    BY <1>4, <1>9, <2>2, SameCheckpoints DEF Lookup, Shape, GoesOn
  <2> QED BY <1>9, <2>1, <2>2 DEF Lookup
<1>10. CASE CreateDroplet(p)
  BY <1>4, <1>10, SameCheckpoints DEF CreateDroplet, Shape, GoesOn
<1>11. CASE Identify(p)
  <2>1. CASE Held(p) /\ Record(p, proc[p].machine)
             /\ proc' = [proc EXCEPT ![p].pc = "wait", ![p].resource = proc[p].machine]
    <3>1. proc[p].pc = "identify" /\ proc[p].machine \in 0..MaxDroplets /\ proc[p].name \in Names
      BY <1>11, AcquisitionConstants DEF Identify, HasDroplet, Droplets
    <3>2. Checkpoints
      BY <2>1, <3>1, RecordCheckpoints
    <3> QED BY <1>4, <2>1, <3>1, <3>2 DEF Shape, GoesOn
  <2> QED BY <1>5, <1>6, <1>11, <2>1 DEF Identify
<1>12. CASE WaitReady(p)
  <2>1. CASE Held(p) /\ Record(p, proc[p].resource) /\ Goto(p, "preflight")
    <3>1. proc[p].pc = "wait" /\ proc[p].name \in Names
      BY <1>12 DEF WaitReady
    <3>2. Checkpoints
      BY <2>1, <3>1, RecordCheckpoints
    <3> QED BY <1>4, <2>1, <3>1, <3>2 DEF Shape, GoesOn
  <2> QED BY <1>5, <1>6, <1>12, <2>1 DEF WaitReady
<1>13. CASE Preflight(p) \/ Reserve(p)
  <2>1. CASE proc[p].pc # "idle" /\ Abandon(p)
    BY <1>5, <2>1
  <2>2. CASE ~Abandon(p)
    BY <1>4, <1>13, <2>2, SameCheckpoints DEF Preflight, Reserve, Shape, GoesOn
  <2> QED BY <1>13, <2>1, <2>2 DEF Preflight, Reserve
<1>14. CASE Inspect(p) \/ RequestDelete(p) \/ ConfirmDelete(p)
  <2>1. CASE Return(p)
    BY <1>6, <1>14, <2>1 DEF Inspect, RequestDelete, ConfirmDelete
  <2>2. CASE ~Return(p)
    BY <1>4, <1>14, <2>2, SameCheckpoints DEF Inspect, RequestDelete, ConfirmDelete, Shape, GoesOn
  <2> QED BY <2>1, <2>2
<1>15. CASE Stop(p) \/ Fail(p)
  BY <1>5, <1>6, <1>15 DEF Stop, Fail
<1> QED BY <1>7, <1>8, <1>9, <1>10, <1>11, <1>12, <1>13, <1>14, <1>15

(* On the way to the provider.                                               *)
LEMMA BeginKeeping ==
    ASSUME Keeping, NEW p \in Procs,
           (\E n \in Names : Provision(p, n)) \/ FindCommitted(p) \/ BeginProvision(p) \/ CheckpointPending(p)
    PROVE  Keeping'
<1> USE DEF cloud, inventory, At, Goto, Return
<1>0. Core /\ proc \in [Procs -> Proc] /\ Course(p) /\ proc[p].resource \in 0..MaxDroplets /\ Flight(p) /\ Numbered
      /\ boxes \in [Names -> Box] /\ prov \in [Names -> Operation]
  BY CoreTypes DEF Keeping, Proc
<1>1. Core'
  BY <1>0, ProvisionCore, FindCommittedCore, BeginProvisionCore, CheckpointPendingCore
<1>2. UNCHANGED <<boxes, sshKey, stray, used>> /\ Others(p)
  BY <1>0 DEF Provision, FindCommitted, BeginProvision, CheckpointPending, Others
<1>3. CASE Checkpoints /\ GoesOn(p)
  BY <1>1, <1>2, <1>3, GoesOnKeeping
<1>4. CASE Return(p) /\ UNCHANGED prov
  <2>1. ~Provisions(p)'
    BY <1>0, <1>4 DEF Provisions, Idle
  <2> QED BY <1>3, <1>4, <2>1, SameCheckpoints DEF GoesOn
<1>5. ASSUME Checkpoints, Flight(p)', proc'[p].pc \in {"begin", "pending", "lookup"} PROVE Keeping'
  BY <1>1, <1>2, <1>5, QuietKeeping DEF KeyAway, Adding
<1> USE <1>0 DEF Proc, Course, Preparing, Asking, Obtained, Adding, Provisions
<1>6. ASSUME NEW n \in Names, Provision(p, n) PROVE Keeping'
  <2>1. CASE prov[n] = NoOperation
    <3>1. proc'[p].pc = "begin" /\ proc'[p].name = n /\ UNCHANGED prov
      BY <1>6, <2>1 DEF Provision, Idle
    <3>2. prov[n].op = 0
      BY <2>1 DEF NoOperation
    <3>3. Flight(p)'
      BY <3>1, <3>2 DEF Flight, InFlight
    <3> QED BY <1>5, <3>1, <3>3, SameCheckpoints
  <2>2. CASE prov[n] # NoOperation
    BY <1>3, <1>6, <2>2, SameCheckpoints DEF Provision, Idle, GoesOn
  <2> QED BY <2>1, <2>2
<1>7. CASE FindCommitted(p)
  <2>1. CASE boxes[N(p)] = NoBox /\ Goto(p, "begin") /\ UNCHANGED prov
    <3>1. prov[proc[p].name].op # 0 => Fresh(prov[proc[p].name].op)
      BY <1>7, <2>1 DEF FindCommitted, Fresh, Numbered, N, NoBox
    <3>2. /\ proc'[p].pc = "begin" /\ proc'[p].name = proc[p].name
          /\ prov' = prov /\ \A o : Fresh(o)' <=> Fresh(o)
      BY <1>2, <2>1 DEF Fresh
    <3>3. Flight(p)'
      BY <3>1, <3>2 DEF Flight, InFlight
    <3> QED BY <1>5, <3>2, <3>3, SameCheckpoints
  <2>2. CASE proc' = [proc EXCEPT ![p].pc = "complete", ![p].box = boxes[N(p)].id] /\ UNCHANGED prov
    BY <1>3, <2>2, SameCheckpoints DEF GoesOn
  <2> QED BY <1>4, <1>7, <2>1, <2>2 DEF FindCommitted
<1>8. CASE BeginProvision(p)
  <2>1. CASE prov[N(p)] = NoOperation
    BY <1>3, <1>8, <2>1, SameCheckpoints DEF BeginProvision, GoesOn
  <2>2. CASE prov[N(p)] # NoOperation
    <3>1. /\ proc[p].pc = "begin" /\ proc'[p].pc = "pending" /\ proc'[p].op = prov[proc[p].name].op
          /\ proc'[p].name = proc[p].name /\ UNCHANGED prov
      BY <1>8, <2>2 DEF BeginProvision, N
    <3>2. Flight(p)'
      BY <1>2, <3>1 DEF Flight, InFlight, Fresh
    <3> QED BY <1>5, <3>1, <3>2, SameCheckpoints
  <2> QED BY <2>1, <2>2
<1>9. CASE CheckpointPending(p)
  <2>1. CASE Held(p) /\ Record(p, proc[p].resource) /\ Goto(p, "lookup")
    <3>1. proc[p].pc = "pending" /\ proc[p].name \in Names /\ proc[p].op # 0 /\ prov[proc[p].name].op = proc[p].op
      BY <1>9, <2>1 DEF CheckpointPending, Held, N
    <3>2. Checkpoints
      BY <2>1, <3>1, RecordCheckpoints
    <3>3. proc'[p].pc = "lookup" /\ proc'[p].name = proc[p].name /\ proc'[p].op = proc[p].op
      BY <2>1
    <3>4. Flight(p)'
      BY <1>2, <3>1, <3>2, <3>3 DEF Flight, InFlight, Fresh, Checkpoints
    <3> QED BY <1>5, <3>2, <3>3, <3>4
  <2> QED BY <1>4, <1>9, <2>1 DEF CheckpointPending
<1> QED BY <1>6, <1>7, <1>8, <1>9

(* A step of the command that provisions.                                    *)
LEMMA ProvisionerKeeping ==
    ASSUME OneProvisions, Keeping, NEW p \in Procs, "provision" \in Commands[p],
           Core', Others(p), Numbered', Keyed', Flight(p)', KeyAway(p)'
    PROVE  Keeping'
<1>1. \A q \in Procs \ {p} : ~Provisions(q)'
  BY Lone DEF Keeping, Others, Provisions
<1>2. \A q \in Procs \ {p} : Flight(q)' /\ KeyAway(q)'
  BY <1>1 DEF Flight, KeyAway, InFlight, Provisions
<1> QED BY <1>2 DEF Keeping

LEMMA InsertKeeping ==
    ASSUME OneProvisions, Keeping, NEW p \in Procs, InsertProvision(p)
    PROVE  Keeping'
<1> DEFINE n == proc[p].name
<1> USE DEF cloud, inventory, At
<1>0. /\ Core /\ Core' /\ proc \in [Procs -> Proc] /\ Course(p) /\ proc[p].pc = "insert" /\ n \in Names
      /\ "provision" \in Commands[p] /\ UNCHANGED <<boxes, sshKey, stray>>
      /\ prov \in [Names -> Operation] /\ boxes \in [Names -> Box] /\ used \in Nat
  BY CoreTypes, InsertProvisionCore DEF Keeping, InsertProvision, Course, Preparing, Provisions, Core, TypeOK, Ops
<1>1. CASE Return(p) /\ UNCHANGED <<used, prov>>
  BY <1>0, <1>1, SameCheckpoints, GoesOnKeeping DEF Return, Others, Provisions, Idle, GoesOn
<1>2. CASE /\ prov[n] = NoOperation /\ used' = used + 1
           /\ prov' = [prov EXCEPT ![n] = [op |-> used + 1, resource |-> 0]]
           /\ proc' = [proc EXCEPT ![p].pc = "pending", ![p].op = used + 1]
  <2>1. /\ prov[n].op = 0 /\ prov'[n].op = used + 1 /\ \A m \in Names \ {n} : prov'[m] = prov[m]
    BY <1>0, <1>2 DEF NoOperation
  <2>2. /\ proc'[p].pc = "pending" /\ proc'[p].op = used + 1 /\ proc'[p].name = n /\ Others(p)
    BY <1>0, <1>2 DEF Proc, Others
  <2>3. \A m \in Names : prov[m].op \in Nat /\ boxes[m].op \in Nat /\ prov[m].op <= used /\ boxes[m].op <= used
    BY <1>0 DEF Operation, Box, Ops, Keeping, Numbered
  <2>4. Numbered'
    <3>1. \A m \in Names : prov'[m].op <= used' /\ boxes'[m].op <= used'
      BY <1>0, <1>2, <2>1, <2>3
    <3>2. \A m \in Names : prov'[m].op = 0 => prov'[m] = NoOperation
      BY <1>0, <2>1 DEF Keeping, Numbered
    <3>3. ASSUME NEW i \in Names, NEW m \in Names, i # m, prov'[i].op # 0
          PROVE  prov'[i].op # prov'[m].op /\ prov'[i].op # boxes'[m].op
      <4>1. CASE i = n
        BY <1>0, <2>1, <2>3, <3>3, <4>1
      <4>2. CASE i # n /\ m = n
        BY <1>0, <2>1, <2>3, <3>3, <4>2 DEF Keeping, Numbered
      <4>3. CASE i # n /\ m # n
        BY <1>0, <2>1, <3>3, <4>3 DEF Keeping, Numbered
      <4> QED BY <4>1, <4>2, <4>3
    <3> QED BY <3>1, <3>2, <3>3 DEF Numbered
  <2>5. Keyed'
    BY <1>0, <2>1 DEF Keeping, Keyed, Fresh
  <2>6. Flight(p)'
    <3>1. \A m \in Names : boxes'[m].op # used + 1
      BY <1>0, <2>3
    <3> QED BY <2>2, <3>1 DEF Flight, InFlight, Fresh, Asking, Obtained, Adding
  <2>7. KeyAway(p)'
    BY <2>2 DEF KeyAway, Adding
  <2> QED BY <1>0, <2>2, <2>4, <2>5, <2>6, <2>7, ProvisionerKeeping
<1> QED BY <1>1, <1>2 DEF InsertProvision, N

(* The key of the account is set or deleted.                                 *)
LEMMA KeyKeeping ==
    ASSUME OneProvisions, Keeping, NEW p \in Procs, EnsureKey(p) \/ Reconcile(p) \/ CleanupKey(p)
    PROVE  Keeping'
<1> USE DEF cloud, inventory, At, Goto
<1>0. /\ Core /\ Core' /\ proc \in [Procs -> Proc] /\ Course(p) /\ "provision" \in Commands[p]
      /\ proc[p].pc \in {"key", "reconcile", "cleanup"} /\ proc[p].name \in Names
      /\ proc[p].op \in Ops /\ proc[p].op # 0 /\ UNCHANGED <<boxes, used>>
      /\ prov[proc[p].name].op = proc[p].op /\ Fresh(proc[p].op)
  <2>1. Core /\ Core' /\ proc \in [Procs -> Proc] /\ Course(p) /\ UNCHANGED <<boxes, used>> /\ Flight(p)
        /\ proc[p].pc \in {"key", "reconcile", "cleanup"} /\ proc[p].op \in Ops
    BY CoreTypes, EnsureKeyCore, ReconcileCore, CleanupKeyCore DEF Keeping, EnsureKey, Reconcile, CleanupKey, Proc
  <2> QED BY <2>1 DEF Course, Flight, InFlight, Provisions, Asking, Obtained
<1>1. Checkpoints /\ Others(p)
  <2>1. CASE Abandon(p)
    BY <1>0, <2>1, AbandonCheckpoints, Returns DEF Abandon, Others
  <2>2. CASE ~Abandon(p)
    BY <1>0, <2>2, SameCheckpoints DEF EnsureKey, Reconcile, CleanupKey, Others
  <2> QED BY <2>1, <2>2
<1>2. Numbered'
  BY <1>0, <1>1 DEF Keeping, Numbered, Checkpoints
<1>3. /\ stray \subseteq stray'
      /\ sshKey' \in {0, sshKey, proc[p].op}
      /\ CleanupKey(p) => sshKey' # proc[p].op \/ proc[p].op \in stray'
  <2>1. CASE EnsureKey(p)
    BY <1>0, <2>1 DEF EnsureKey, CleanupKey
  <2>2. CASE CleanupKey(p)
    BY <1>0, <2>2, DeletesKey DEF CleanupKey
  <2>3. CASE Reconcile(p)
    BY <1>0, <2>3, DeletesKey DEF Reconcile, CleanupKey
  <2> QED BY <2>1, <2>2, <2>3
<1>4. Keyed'
  BY <1>0, <1>1, <1>3 DEF Keeping, Keyed, Checkpoints, Fresh
<1>5. Flight(p)' /\ KeyAway(p)'
  <2>1. CASE proc'[p] = Idle
    BY <2>1 DEF Idle, Flight, KeyAway, InFlight, Provisions
  <2>2. CASE /\ proc'[p].pc \in {"create", "cleanup", "identify"} /\ proc'[p].op = proc[p].op
             /\ proc'[p].name = proc[p].name
             /\ proc'[p].pc = "identify" => CleanupKey(p)
    <3>1. Flight(p)'
      BY <1>0, <1>1, <2>2 DEF Flight, InFlight, Fresh, Checkpoints
    <3>2. KeyAway(p)'
      BY <1>3, <2>2 DEF KeyAway, Adding
    <3> QED BY <3>1, <3>2
  <2>3. EnsureKey(p) => proc'[p] = Idle \/ proc'[p] = [proc[p] EXCEPT !.pc = "create"]
    BY <1>0 DEF EnsureKey, Abandon, Return
  <2>4. CleanupKey(p) => proc'[p] = [proc[p] EXCEPT !.pc = "identify"]
    BY <1>0 DEF CleanupKey
  <2>5. Reconcile(p) => proc'[p] = Idle \/ \E d \in Droplets : proc'[p] = [proc[p] EXCEPT !.pc = "cleanup", !.machine = d]
    <3>1. Correlated(proc[p].op) \subseteq Droplets
      BY DEF Correlated
    <3> QED BY <1>0, <3>1 DEF Reconcile, Abandon, Return
  <2> QED BY <1>0, <2>1, <2>2, <2>3, <2>4, <2>5 DEF Proc
<1> QED BY <1>0, <1>1, <1>2, <1>4, <1>5, ProvisionerKeeping

(* Saving a Box; a Box that is adopted has no operation.                     *)
LEMMA SaveKeeping ==
    ASSUME OneProvisions, Keeping, NEW p \in Procs, CompleteAdd(p)
    PROVE  Keeping'
<1> DEFINE n == proc[p].name
<1> USE DEF cloud, inventory, At, Goto, Return
<1>0. /\ Core /\ Core' /\ proc \in [Procs -> Proc] /\ Course(p) /\ proc[p].pc = "save" /\ n \in Names
      /\ UNCHANGED <<sshKey, stray, used>> /\ prov \in [Names -> Operation] /\ boxes \in [Names -> Box]
      /\ proc[p].op \in Ops /\ used \in Nat /\ Flight(p) /\ KeyAway(p)
  BY CoreTypes, CompleteAddCore DEF Keeping, CompleteAdd, Course, Core, TypeOK, Ops, Proc
<1>1. CASE Abandon(p) /\ UNCHANGED boxes
  <2>1. Others(p) /\ ~Provisions(p)'
    BY <1>0, <1>1 DEF Abandon, Others, Provisions, Idle
  <2> QED BY <1>0, <1>1, <2>1, AbandonCheckpoints, GoesOnKeeping DEF GoesOn
<1>2. CASE ~(Abandon(p) /\ UNCHANGED boxes)
  <2>1. /\ UNCHANGED prov /\ boxes[n] = NoBox /\ \A m \in Names \ {n} : boxes'[m] = boxes[m]
        /\ boxes'[n].op = proc[p].op
    BY <1>0, <1>2 DEF CompleteAdd, N
  <2>2. proc[p].kind = "adopt" => proc'[p] = Idle /\ proc[p].op = 0
    BY <1>0, <1>2 DEF CompleteAdd, Course
  <2>3. proc[p].kind # "adopt" => /\ proc'[p].pc = "complete" /\ Provisions(p) /\ "provision" \in Commands[p]
                                  /\ prov[n].op = proc[p].op /\ Fresh(proc[p].op) /\ proc[p].op # 0
                                  /\ sshKey # proc[p].op \/ proc[p].op \in stray
    BY <1>0, <1>2 DEF CompleteAdd, Course, Adding, Provisions, Flight, InFlight, KeyAway, Proc
  <2>4. Others(p)
    BY <1>0, <1>2 DEF CompleteAdd, Others
  <2>5. ASSUME NEW o, o # 0, o # proc[p].op, Fresh(o) PROVE Fresh(o)'
    BY <2>1, <2>5 DEF Fresh
  <2>6. Numbered'
    <3>1. boxes'[n].op <= used
      <4>1. CASE proc[p].kind = "adopt"
        BY <1>0, <2>1, <2>2, <4>1
      <4>2. CASE proc[p].kind # "adopt"
        BY <1>0, <2>1, <2>3, <4>2 DEF Keeping, Numbered
      <4> QED BY <4>1, <4>2
    <3>2. ASSUME NEW m \in Names, m # n, prov[m].op # 0 PROVE prov[m].op # boxes'[n].op
      BY <1>0, <2>1, <2>2, <2>3, <3>2 DEF Keeping, Numbered
    <3> QED BY <1>0, <2>1, <3>1, <3>2 DEF Keeping, Numbered
  <2>7. Keyed'
    BY <1>0, <2>1, <2>2, <2>3, <2>5 DEF Keeping, Keyed
  <2>8. CASE proc[p].kind # "adopt"
    <3>1. Flight(p)' /\ KeyAway(p)'
      BY <2>3, <2>8 DEF Flight, KeyAway, InFlight, Asking, Obtained, Adding
    <3> QED BY <1>0, <2>3, <2>4, <2>6, <2>7, <2>8, <3>1, ProvisionerKeeping
  <2>9. CASE proc[p].kind = "adopt"
    <3>1. Flight(p)' /\ KeyAway(p)'
      BY <2>2, <2>9 DEF Flight, KeyAway, InFlight, Provisions, Idle
    <3>2. ASSUME NEW q \in Procs \ {p} PROVE Flight(q)' /\ KeyAway(q)'
      <4>1. proc'[q] = proc[q] /\ Flight(q) /\ KeyAway(q) /\ Course(q)
        BY <1>0, <2>4, CoreTypes DEF Keeping, Others
      <4>2. \A o : o # 0 /\ Fresh(o) => Fresh(o)'
        BY <2>2, <2>5, <2>9
      <4> HIDE DEF n
      <4>3. Flight(q)'
        <5>1. /\ (proc[q].pc)' = proc[q].pc /\ (proc[q].name)' = proc[q].name /\ (proc[q].op)' = proc[q].op
              /\ (InFlight(q))' <=> InFlight(q)
          BY <4>1 DEF InFlight, Provisions
        <5> QED BY <2>1, <4>1, <4>2, <5>1 DEF Flight, Course, Provisions
      <4> QED BY <1>0, <4>1, <4>3 DEF KeyAway, Provisions
    <3> QED BY <1>0, <2>6, <2>7, <3>1, <3>2 DEF Keeping
  <2> QED BY <2>8, <2>9
<1> QED BY <1>1, <1>2

LEMMA CompleteKeeping ==
    ASSUME OneProvisions, Keeping, NEW p \in Procs, CompleteProvision(p)
    PROVE  Keeping'
<1> DEFINE n == proc[p].name
<1>0. /\ Core /\ Core' /\ Course(p) /\ n \in Names /\ "provision" \in Commands[p] /\ proc[p].pc = "complete"
      /\ Others(p) /\ proc'[p] = Idle /\ UNCHANGED <<boxes, sshKey, stray, used>> /\ prov \in [Names -> Operation]
      /\ \/ prov' = prov
         \/ prov' = [prov EXCEPT ![n] = NoOperation] /\ prov[n].op = boxes[n].op /\ prov[n].op # 0
  BY CoreTypes, CompleteProvisionCore DEF Keeping, CompleteProvision, Course, At, Return, Others, N, Held, cloud, Provisions
<1>1. CASE prov' = prov
  BY <1>0, <1>1, SameCheckpoints, GoesOnKeeping DEF GoesOn, Provisions, Idle
<1>2. CASE prov' = [prov EXCEPT ![n] = NoOperation] /\ prov[n].op = boxes[n].op /\ prov[n].op # 0
  <2>1. prov'[n] = NoOperation /\ prov'[n].op = 0 /\ \A m \in Names \ {n} : prov'[m] = prov[m]
    BY <1>0, <1>2 DEF NoOperation
  <2>2. Numbered'
    <3>1. 0 <= used
      BY <1>0 DEF Core, TypeOK, Ops
    <3> QED BY <1>0, <2>1, <3>1 DEF Keeping, Numbered
  <2>3. Keyed'
    BY <1>0, <1>2, <2>1 DEF Keeping, Keyed, Fresh
  <2>4. Flight(p)' /\ KeyAway(p)'
    BY <1>0 DEF Flight, KeyAway, InFlight, Provisions, Idle
  <2> QED BY <1>0, <2>2, <2>3, <2>4, ProvisionerKeeping
<1> QED BY <1>0, <1>1, <1>2

(* Removing a Box, and the operation that obtained it if that is recorded.   *)
LEMMA RecordKeeping ==
    ASSUME Keeping, NEW n \in Names, RemoveRecord(n), Core', NEW p \in Procs, Others(p), ~Provisions(p)',
           UNCHANGED <<sshKey, stray, used>>
    PROVE  Keeping'
<1>0. Core /\ prov \in [Names -> Operation] /\ boxes \in [Names -> Box] /\ used \in Nat /\ Recorded(n)
  BY CoreTypes DEF Keeping, Core, TypeOK, Ops
<1>1. /\ boxes'[n].op = 0 /\ \A m \in Names \ {n} : boxes'[m] = boxes[m] /\ prov'[m] = prov[m]
      /\ \/ prov'[n] = prov[n]
         \/ /\ boxes[n].op # 0 /\ prov[n].op = boxes[n].op
            /\ prov'[n] = NoOperation /\ prov'[n].op = 0
  BY <1>0, Removes DEF Recorded, NoBox, NoOperation
<1>2. ASSUME NEW o, o # 0, Fresh(o) PROVE Fresh(o)'
  BY <1>1, <1>2 DEF Fresh
<1>3. Numbered'
  BY <1>0, <1>1 DEF Keeping, Numbered
<1>4. Keyed'
  BY <1>1, <1>2 DEF Keeping, Keyed, Fresh
<1>5. Flight(p)' /\ KeyAway(p)'
  BY DEF Flight, KeyAway, InFlight, Provisions
<1>6. ASSUME NEW q \in Procs \ {p} PROVE Flight(q)' /\ KeyAway(q)'
  <2>1. proc'[q] = proc[q] /\ Flight(q) /\ KeyAway(q) /\ Course(q)
    BY CoreTypes DEF Keeping, Others
  <2>2. /\ (proc[q].pc)' = proc[q].pc /\ (proc[q].name)' = proc[q].name /\ (proc[q].op)' = proc[q].op
        /\ (InFlight(q))' <=> InFlight(q)
    BY <2>1 DEF InFlight, Provisions
  <2>3. Flight(q)'
    <3>1. ASSUME proc[q].name \in Names
          PROVE  prov'[proc[q].name] = prov[proc[q].name] \/ (prov'[proc[q].name].op = 0 /\ ~Fresh(prov[proc[q].name].op))
      BY <1>1, <3>1 DEF Fresh
    <3>2. proc[q].pc \in {"begin", "pending"} \/ InFlight(q) => proc[q].name \in Names
      BY <2>1 DEF Course, InFlight, Asking, Obtained, Adding
    <3> QED BY <1>2, <2>1, <2>2, <3>1, <3>2 DEF Flight, Course, Provisions
  <2> QED BY <2>1, <2>3 DEF KeyAway, Provisions
<1> QED BY <1>3, <1>4, <1>5, <1>6 DEF Keeping

LEMMA RemoveKeeping ==
    ASSUME Keeping, NEW p \in Procs, (\E n \in Names : Remove(p, n)) \/ Forget(p)
    PROVE  Keeping'
<1>0. Core /\ Core' /\ Course(p) /\ proc \in [Procs -> Proc] /\ UNCHANGED <<sshKey, stray, used>>
  BY CoreTypes, RemoveCore, ForgetCore DEF Keeping, Remove, Forget, cloud
<1>1. Others(p) /\ ~Provisions(p)'
  BY <1>0 DEF Remove, Forget, At, Return, Others, Provisions, Idle, Course
<1>2. CASE \E n \in Names : RemoveRecord(n)
  BY <1>0, <1>1, <1>2, RecordKeeping
<1>3. CASE UNCHANGED <<boxes, prov>>
  BY <1>0, <1>1, <1>3, SameCheckpoints, GoesOnKeeping DEF GoesOn
<1> QED BY <1>0, <1>2, <1>3 DEF Remove, Forget, N, At, Course

LEMMA CloudKeeping ==
    ASSUME Keeping, Core', UNCHANGED <<boxes, sshKey, stray, used, prov, proc>>
    PROVE  Keeping'
BY DEF Keeping, Numbered, Keyed, Flight, KeyAway, Fresh, InFlight, Provisions

LEMMA NextKeeping ==
    ASSUME OneProvisions, Keeping, [Next]_vars
    PROVE  Keeping'
<1>0. Core /\ Core'
  BY NextCore DEF Keeping
<1>1. CASE People \/ Provider \/ UNCHANGED vars
  <2>1. UNCHANGED <<boxes, sshKey, stray, used, prov, proc>>
    BY <1>1 DEF People, Provider, Vanish, Land, DeleteOutside, Untag, inventory, vars
  <2> QED BY <1>0, <2>1, CloudKeeping
<1> QED BY <1>1, CommandKeeping, BeginKeeping, InsertKeeping, KeyKeeping, SaveKeeping, CompleteKeeping, RemoveKeeping
        DEF Next, Start, Step

LEMMA InitKeeping == Init => Keeping
<1> SUFFICES ASSUME Init PROVE Keeping
  OBVIOUS
<1>1. Core
  BY InitCore
<1>2. Numbered
  BY DEF Init, Numbered, NoOperation, NoBox
<1> QED BY <1>1, <1>2 DEF Init, Keeping, Keyed, Flight, KeyAway, InFlight, Provisions, Idle

LEMMA KeepingInvariance ==
    ASSUME OneProvisions
    PROVE  Spec => []Keeping
<1>1. Keeping /\ [Next]_vars => Keeping'
  BY NextKeeping
<1> QED BY InitKeeping, <1>1, PTL DEF Spec

(* When one command at a time provisions, a temporary SSH key that the       *)
(* provider did not refuse to delete belongs to a recorded operation, for a  *)
(* retry to delete it by (cleanupManagedKeys, cleanupOperationKeys): no Box  *)
(* is saved and no operation ended while its key is there.                   *)
THEOREM KeyGoes ==
    ASSUME OneProvisions
    PROVE  Spec => []KeyIsTemporary
<1>1. Keeping => KeyIsTemporary
  BY DEF Keeping, Keyed, KeyIsTemporary
<1> QED BY KeepingInvariance, <1>1, PTL

-----------------------------------------------------------------------------
(* No machine is lost.                                                       *)

(* Only the Droplet of a Box is live for the operation of the Box.           *)
Sole ==
  \A n \in Names : boxes[n].kind = "provisioned" =>
     \A d \in Droplets : Live(d) /\ droplet[d].op = boxes[n].op => d = boxes[n].machine

Tagged == \A d \in Droplets : droplet[d].tagged => droplet[d].op # 0

(* The inventory knows a Droplet by its operation, or as the machine of the  *)
(* Box it obtained.                                                          *)
Known(d) ==
  \/ d \in forgotten
  \/ \E n \in Names : prov[n].op = droplet[d].op
  \/ \E n \in Names : boxes[n].kind = "provisioned" /\ boxes[n].machine = d

Accounted == \A d \in Droplets : Live(d) => Known(d)

Ledger == Sole /\ Tagged /\ Accounted
Accounting == Single /\ Keeping /\ Removing /\ Ledger

(* Most steps of a command neither record nor end an operation.              *)
LEMMA MostCheckpoint ==
    ASSUME Core, NEW p \in Procs,
           (\E n \in Names : Provision(p, n) \/ Destroy(p, n) \/ \E m \in Machines : Adopt(p, n, m))
             \/ FindCommitted(p) \/ BeginProvision(p) \/ CheckpointPending(p) \/ Lookup(p) \/ EnsureKey(p)
             \/ CreateDroplet(p) \/ Reconcile(p) \/ CleanupKey(p) \/ Identify(p) \/ WaitReady(p) \/ Preflight(p)
             \/ Reserve(p) \/ CompleteAdd(p) \/ Inspect(p) \/ RequestDelete(p) \/ ConfirmDelete(p)
             \/ Stop(p) \/ Fail(p)
    PROVE  Checkpoints
<1> USE DEF cloud, inventory, At
<1>0. Course(p) /\ proc[p].resource \in 0..MaxDroplets
  BY CoreTypes DEF Proc
<1>1. CASE UNCHANGED prov
  BY <1>1, SameCheckpoints
<1>2. CASE proc[p].pc # "idle" /\ Abandon(p)
  BY <1>0, <1>2, AbandonCheckpoints DEF Course
<1>3. CASE proc[p].pc \in {"pending", "wait"} /\ Held(p) /\ Record(p, proc[p].resource)
  BY <1>0, <1>3, RecordCheckpoints DEF Course
<1>4. CASE proc[p].pc = "identify" /\ Held(p) /\ Record(p, proc[p].machine)
  <2>1. proc[p].machine \in 0..MaxDroplets /\ proc[p].name \in Names
    BY <1>0, <1>4, AcquisitionConstants DEF Course, HasDroplet, Provisions, Obtained, Droplets
  <2> QED BY <1>4, <2>1, RecordCheckpoints
<1>5. CASE (\E n \in Names : Provision(p, n) \/ Destroy(p, n) \/ \E m \in Machines : Adopt(p, n, m))
            \/ FindCommitted(p) \/ BeginProvision(p) \/ CreateDroplet(p) \/ CleanupKey(p) \/ Inspect(p)
            \/ RequestDelete(p) \/ ConfirmDelete(p) \/ Stop(p)
  BY <1>1, <1>5 DEF Provision, Destroy, Adopt, FindCommitted, BeginProvision, CreateDroplet, CleanupKey, Inspect,
                    RequestDelete, ConfirmDelete, Stop
<1>6. CASE Lookup(p) \/ EnsureKey(p) \/ Reconcile(p) \/ Preflight(p) \/ Reserve(p) \/ CompleteAdd(p) \/ Fail(p)
  BY <1>1, <1>2, <1>6 DEF Lookup, EnsureKey, Reconcile, Preflight, Reserve, CompleteAdd, Fail
<1>7. CASE CheckpointPending(p) \/ Identify(p) \/ WaitReady(p)
  BY <1>1, <1>2, <1>3, <1>4, <1>7 DEF CheckpointPending, Identify, WaitReady
<1> QED BY <1>5, <1>6, <1>7

LEMMA FadesTagged ==
    ASSUME Tagged, Fades \/ UNCHANGED droplet
    PROVE  Tagged'
BY DEF Tagged, Fades

LEMMA CreateTagged ==
    ASSUME Core, Tagged, NEW o \in Ops, o # 0, NEW d \in Droplets, Create(d, o)
    PROVE  Tagged'
<1>1. /\ droplet'[d] = [st |-> "on", op |-> o, tagged |-> TRUE]
      /\ \A e \in Droplets \ {d} : droplet'[e] = droplet[e]
  BY Creates DEF Core, TypeOK
<1> QED BY <1>1 DEF Tagged

LEMMA QuietLedger ==
    ASSUME Ledger, Dims, Tagged', Checkpoints, UNCHANGED <<boxes, forgotten>>
    PROVE  Ledger'
<1>1. Sole'
  BY DEF Ledger, Sole, Dims
<1>2. Accounted'
  BY DEF Ledger, Accounted, Known, Dims, Checkpoints
<1> QED BY <1>1, <1>2 DEF Ledger

LEMMA CommandLedger ==
    ASSUME Accounting, NEW p \in Procs,
           (\E n \in Names : Provision(p, n) \/ Destroy(p, n) \/ \E m \in Machines : Adopt(p, n, m))
             \/ FindCommitted(p) \/ BeginProvision(p) \/ CheckpointPending(p) \/ Lookup(p) \/ EnsureKey(p)
             \/ Reconcile(p) \/ CleanupKey(p) \/ Identify(p) \/ WaitReady(p) \/ Preflight(p)
             \/ Reserve(p) \/ Inspect(p) \/ RequestDelete(p) \/ ConfirmDelete(p) \/ Stop(p) \/ Fail(p)
    PROVE  Ledger'
<1> USE DEF cloud, inventory
<1>0. Core /\ Ledger
  BY DEF Accounting, Single
<1>1. UNCHANGED <<boxes, forgotten, landed>>
  BY DEF Provision, Destroy, Adopt, FindCommitted, BeginProvision, CheckpointPending, Lookup, EnsureKey, Reconcile,
         CleanupKey, Identify, WaitReady, Preflight, Reserve, Inspect, RequestDelete, ConfirmDelete, Stop, Fail
<1>2. Fades \/ UNCHANGED droplet
  BY <1>0, RequestDeleteCore
     DEF Provision, Destroy, Adopt, FindCommitted, BeginProvision, CheckpointPending, Lookup, EnsureKey, Reconcile,
         CleanupKey, Identify, WaitReady, Preflight, Reserve, Inspect, ConfirmDelete, Stop, Fail
<1>3. Dims /\ Tagged'
  BY <1>0, <1>1, <1>2, FadesDims, SameDims, FadesTagged DEF Ledger
<1> QED BY <1>0, <1>1, <1>3, MostCheckpoint, QuietLedger

(* A Droplet is created for an operation that is recorded and has no Box.    *)
LEMMA CreateLedger ==
    ASSUME Accounting, NEW p \in Procs, CreateDroplet(p)
    PROVE  Ledger'
<1> DEFINE o == proc[p].op
<1>0. /\ Core /\ Ledger /\ Course(p) /\ Flight(p) /\ o \in Ops /\ proc[p].pc = "create"
      /\ droplet \in [Droplets -> Droplet] /\ UNCHANGED <<boxes, forgotten, landed, prov>>
  BY CoreTypes DEF Accounting, Keeping, Core, TypeOK, CreateDroplet, At, Proc, inventory
<1>1. proc[p].name \in Names /\ prov[proc[p].name].op = o /\ Fresh(o) /\ o # 0
  BY <1>0 DEF Course, Flight, InFlight, Provisions, Asking
<1>2. CASE UNCHANGED droplet
  BY <1>0, <1>2, SameDims, FadesTagged, SameCheckpoints, QuietLedger DEF Ledger
<1>3. ASSUME NEW d \in Droplets, Create(d, o) PROVE Ledger'
  <2> HIDE DEF o
  <2>1. /\ droplet'[d] = [st |-> "on", op |-> o, tagged |-> TRUE]
        /\ \A e \in Droplets \ {d} : droplet'[e] = droplet[e]
    BY <1>0, <1>3, Creates
  <2>2. droplet'[d].op = o
    BY <2>1
  <2>3. Tagged'
    BY <1>0, <1>1, <1>3, CreateTagged DEF Ledger
  <2>4. Sole'
    BY <1>0, <1>1, <2>1, <2>2 DEF Ledger, Sole, Live, Fresh
  <2>5. Accounted'
    BY <1>0, <1>1, <2>1, <2>2 DEF Ledger, Accounted, Known, Live
  <2> QED BY <2>3, <2>4, <2>5 DEF Ledger
<1> QED BY <1>2, <1>3 DEF CreateDroplet

LEMMA InsertLedger ==
    ASSUME Accounting, NEW p \in Procs, InsertProvision(p)
    PROVE  Ledger'
<1>0. Ledger /\ UNCHANGED <<droplet, landed, boxes, forgotten>>
  BY DEF Accounting, InsertProvision, cloud
<1>1. Tagged' /\ Sole'
  BY <1>0 DEF Ledger, Tagged, Sole, Live
<1>2. \A n \in Names : prov[n].op # 0 => prov'[n].op = prov[n].op
  BY CoreTypes DEF Accounting, Single, InsertProvision, NoOperation
<1>3. Accounted'
  BY <1>0, <1>2 DEF Ledger, Tagged, Accounted, Known, Live
<1> QED BY <1>1, <1>3 DEF Ledger

(* The Box that is saved is of the one Droplet of its operation.             *)
LEMMA SaveLedger ==
    ASSUME Accounting, NEW p \in Procs, CompleteAdd(p)
    PROVE  Ledger'
<1> DEFINE n == proc[p].name
<1>0. /\ Core /\ Ledger /\ Course(p) /\ Made(p) /\ boxes \in [Names -> Box] /\ n \in Names /\ proc[p].pc = "save"
      /\ UNCHANGED <<droplet, landed, forgotten>>
  BY CoreTypes DEF Accounting, Single, CompleteAdd, Course, At, cloud
<1>1. Checkpoints
  BY <1>0, MostCheckpoint
<1>2. Tagged' /\ Dims
  BY <1>0, FadesTagged, SameDims DEF Ledger
<1>3. CASE UNCHANGED boxes
  BY <1>0, <1>1, <1>2, <1>3, QuietLedger
<1>4. CASE ~UNCHANGED boxes
  <2>1. /\ boxes[n] = NoBox /\ \A m \in Names \ {n} : boxes'[m] = boxes[m]
        /\ boxes'[n].op = proc[p].op /\ boxes'[n].machine = proc[p].machine
        /\ boxes'[n].kind = "provisioned" => proc[p].kind # "adopt"
    BY <1>0, <1>4 DEF CompleteAdd, N
  <2>2. boxes'[n].kind = "provisioned" => \A d \in Droplets : Live(d) /\ droplet[d].op = proc[p].op => d = proc[p].machine
    BY <1>0, <2>1 DEF Course, Adding, Made, HasDroplet, Provisions
  <2>3. boxes[n].kind # "provisioned"
    BY <2>1 DEF NoBox
  <2> HIDE DEF n
  <2>4. Sole'
    BY <1>0, <2>1, <2>2 DEF Ledger, Sole, Live
  <2>5. Accounted'
    BY <1>0, <1>1, <2>1, <2>3 DEF Ledger, Accounted, Known, Live, Checkpoints
  <2> QED BY <1>2, <2>4, <2>5 DEF Ledger
<1> QED BY <1>3, <1>4

(* An operation ends when its Box is there.                                  *)
LEMMA CompleteLedger ==
    ASSUME Accounting, NEW p \in Procs, CompleteProvision(p)
    PROVE  Ledger'
<1> DEFINE n == proc[p].name
<1>0. /\ Core /\ Ledger /\ n \in Names /\ UNCHANGED <<droplet, landed, boxes, forgotten>>
      /\ \/ prov' = prov
         \/ /\ prov' = [prov EXCEPT ![n] = NoOperation]
            /\ prov[n].op = boxes[n].op /\ boxes[n].kind = "provisioned"
  BY CoreTypes DEF Accounting, Single, CompleteProvision, Course, At, N, Held, cloud
<1> HIDE DEF n
<1>1. Sole' /\ Tagged'
  BY <1>0 DEF Ledger, Sole, Tagged, Live
<1>2. ASSUME NEW d \in Droplets, Live(d)' PROVE Known(d)'
  <2>1. Live(d) /\ Known(d)
    BY <1>0, <1>2 DEF Live, Ledger, Accounted
  <2>2. CASE d \in forgotten \/ \E m \in Names : boxes[m].kind = "provisioned" /\ boxes[m].machine = d
    BY <1>0, <2>2 DEF Known
  <2>3. ASSUME NEW m \in Names, prov[m].op = droplet[d].op PROVE Known(d)'
    <3>1. CASE prov'[m] = prov[m]
      BY <1>0, <2>3, <3>1 DEF Known
    <3>2. CASE prov'[m] # prov[m]
      <4>1. m = n /\ prov[n].op = boxes[n].op /\ boxes[n].kind = "provisioned"
        BY <1>0, <3>2, CoreTypes
      <4>2. boxes[n].machine = d
        BY <1>0, <2>1, <2>3, <4>1 DEF Ledger, Sole
      <4> QED BY <1>0, <4>1, <4>2 DEF Known
    <3> QED BY <3>1, <3>2
  <2> QED BY <2>1, <2>2, <2>3 DEF Known
<1> QED BY <1>1, <1>2 DEF Ledger, Accounted

(* What a removal forgets is gone or was removed by name.                    *)
LEMMA RecordLedger ==
    ASSUME Accounting, NEW n \in Names, RemoveRecord(n), Forgets, UNCHANGED <<droplet, landed>>,
           forgotten \subseteq forgotten'
    PROVE  Ledger'
<1>0. /\ Core /\ Ledger /\ prov \in [Names -> Operation] /\ boxes \in [Names -> Box]
      /\ boxes'[n] = NoBox /\ NoBox.kind = "none" /\ \A m \in Names \ {n} : boxes'[m] = boxes[m] /\ prov'[m] = prov[m]
      /\ prov'[n] = prov[n] \/ (boxes[n].kind = "provisioned" /\ prov[n].op = boxes[n].op)
  BY CoreTypes, Removes DEF Accounting, Single, NoBox
<1>1. Sole' /\ Tagged'
  BY <1>0 DEF Ledger, Sole, Tagged, Live
<1>2. ASSUME NEW d \in Droplets, Live(d)' PROVE Known(d)'
  <2>1. Live(d) /\ Known(d)
    BY <1>2 DEF Live, Accounting, Ledger, Accounted
  <2>2. CASE d \in forgotten
    BY <2>2 DEF Known
  <2>3. CASE boxes[n].kind = "provisioned" /\ boxes[n].machine = d
    <3>1. boxes'[n] # boxes[n] /\ Exists(d)
      BY <1>0, <2>1, <2>3 DEF Live, Exists
    <3> QED BY <2>3, <3>1 DEF Forgets, Known
  <2>4. ASSUME NEW m \in Names \ {n}, boxes[m].kind = "provisioned", boxes[m].machine = d PROVE Known(d)'
    BY <1>0, <2>4 DEF Known
  <2>5. ASSUME NEW m \in Names, prov[m].op = droplet[d].op PROVE Known(d)'
    <3>1. CASE prov'[m] = prov[m]
      BY <2>5, <3>1 DEF Known
    <3>2. CASE prov'[m] # prov[m]
      <4>1. m = n /\ prov[n].op = boxes[n].op /\ boxes[n].kind = "provisioned"
        BY <1>0, <3>2
      <4>2. boxes[n].machine = d
        BY <1>0, <2>1, <2>5, <4>1 DEF Ledger, Sole
      <4> QED BY <2>3, <4>1, <4>2
    <3> QED BY <3>1, <3>2
  <2> QED BY <2>1, <2>2, <2>3, <2>4, <2>5 DEF Known
<1> QED BY <1>1, <1>2 DEF Ledger, Accounted

LEMMA RemoveLedger ==
    ASSUME Accounting, Forgets, NEW p \in Procs, (\E n \in Names : Remove(p, n)) \/ Forget(p)
    PROVE  Ledger'
<1>1. UNCHANGED <<droplet, landed>> /\ forgotten \subseteq forgotten'
  BY DEF Remove, Forget, cloud
<1>2. CASE \E n \in Names : RemoveRecord(n)
  BY <1>1, <1>2, RecordLedger
<1>3. CASE Forget(p) /\ UNCHANGED <<boxes, prov>>
  <2>1. Ledger /\ UNCHANGED forgotten
    BY <1>3 DEF Accounting, Forget
  <2> QED BY <1>1, <1>3, <2>1, SameDims, SameCheckpoints, FadesTagged, QuietLedger DEF Ledger
<1>4. Forget(p) => N(p) \in Names
  BY CoreTypes DEF Accounting, Single, Forget, N, At, Course
<1> QED BY <1>2, <1>3, <1>4 DEF Remove, Forget

LEMMA CloudLedger ==
    ASSUME Accounting, People \/ Provider
    PROVE  Ledger'
<1>0. Core /\ Ledger /\ UNCHANGED <<boxes, prov, forgotten>>
  BY DEF Accounting, Single, People, Provider, Vanish, Land, DeleteOutside, Untag, inventory
<1>1. Tagged'
  <2>1. CASE (\E d \in Droplets : Vanish(d)) \/ People
    BY <1>0, <2>1, FadesCore, FadesTagged DEF Ledger
  <2>2. ASSUME NEW r \in late, Land(r) PROVE Tagged'
    <3>1. ASSUME r \in [kind : {"create"}, of : 1..MaxOps], NEW d \in Droplets, Create(d, r.of) PROVE Tagged'
      <4>1. r.of \in Ops /\ r.of # 0
        BY <3>1, AcquisitionConstants DEF Ops
      <4> QED BY <1>0, <3>1, <4>1, CreateTagged DEF Ledger
    <3> QED BY <1>0, <2>2, <3>1, LandCore, FadesTagged DEF Ledger
  <2> QED BY <2>1, <2>2 DEF Provider
<1> QED BY <1>0, <1>1, CloudDims, SameCheckpoints, QuietLedger

LEMMA NextAccounting ==
    ASSUME OneProvisions, OneRemoves, Accounting, [Next]_vars
    PROVE  Accounting'
<1>1. Single' /\ Keeping' /\ Removing' /\ Forgets
  BY NextSingle, NextKeeping, NextRemoving DEF Accounting
<1>2. Ledger'
  <2>1. CASE UNCHANGED vars
    BY <2>1, SameDims, SameCheckpoints, FadesTagged, QuietLedger DEF vars, Accounting, Ledger
  <2> QED BY <1>1, <2>1, CommandLedger, CreateLedger, InsertLedger, SaveLedger, CompleteLedger, RemoveLedger, CloudLedger
          DEF Next, Start, Step
<1> QED BY <1>1, <1>2 DEF Accounting

LEMMA InitAccounting == Init => Accounting
<1> SUFFICES ASSUME Init PROVE Accounting
  OBVIOUS
<1>1. Ledger
  BY DEF Init, Ledger, Sole, Tagged, Accounted, Live, NoBox
<1> QED BY <1>1, InitSingle, InitKeeping, InitRemoving DEF Accounting

(* When one command at a time provisions and one removes, every tagged       *)
(* Droplet nobody asked to delete is known to the inventory by its operation *)
(* or as the machine of its Box, unless `box remove` forgot it or it landed  *)
(* late: an operation ends only when its Box is there, and with a Box goes   *)
(* only the operation that obtained it (CompleteProvision, the removal of a  *)
(* Box, Service.Destroy).                                                    *)
THEOREM DropletsKnown ==
    ASSUME OneProvisions, OneRemoves
    PROVE  Spec => []NoneLost
<1>1. Accounting /\ [Next]_vars => Accounting'
  BY NextAccounting
<1>2. Accounting => NoneLost
  BY DEF Accounting, Ledger, Accounted, Known, Live, NoneLost
<1> QED BY InitAccounting, <1>1, <1>2, PTL DEF Spec
==============================================================================
