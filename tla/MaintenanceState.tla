-------------------------- MODULE MaintenanceState --------------------------
(***************************************************************************)
(* The machines that may answer at a Box's address, what Schooner keeps on *)
(* them (identity, host runtime, configuration, prerequisites), and the    *)
(* inventories and commands of the workstations that maintain the Box      *)
(* (internal/box/service.go, internal/runtime/ssh, internal/config).       *)
(***************************************************************************)
EXTENDS Naturals

CONSTANTS
    Stations,    \* workstations, each with an inventory and one command
    Machines,    \* machines that may have the address of the Box
    Versions,    \* versions of Schooner; 0 is a development build
    OldVersion,  \* one whose host protocol lacks what is required now
    Missing, Damaged, \* no executable; one that does not start
    NoBox,
    MaxStarts,   \* bound: commands
    MaxActs,     \* bound: what people do
    MaxFaults    \* bound: commands that break off

(* What is installed: a version, and whose it is if it is no release. *)
Artifact == [version : Versions, build : Stations \cup {NoBox}]

ASSUME MaintenanceConstants ==
    /\ Versions \subseteq Nat /\ 0 \in Versions
    /\ NoBox \notin Machines \cup Versions /\ Missing \notin Artifact /\ Damaged \notin Artifact

VARIABLES
    at,         \* the machine that answers
    identity,   \* the identity file of each machine
    runtime,    \* the executable at the install path of each machine
    config,     \* machines whose host configuration names the Worktree Root
    root,       \* machines that have the Worktree Root
    tools,      \* machines that have Git and tmux
    cli,        \* the version of Schooner on each workstation
    box,        \* the Box in each inventory
    cmd,        \* the command of each workstation
    touched,    \* history: machines whose runtime people replaced
    ids, starts, acts, faults \* counters and bounds

machineVars == <<at, identity, runtime, config, root, tools>>
bounds == <<starts, acts, faults>>
vars == <<machineVars, cli, box, cmd, touched, ids, bounds>>

(* No identity file, one that was created and not yet written, identities. *)
NoIdentity == 0
Blank == 1
FirstIdentity == 2

Dev == 0
(* Builds of a release are alike, development builds are their maker's.    *)
Build(s) == [version |-> cli[s], build |-> IF cli[s] = Dev THEN s ELSE NoBox]
Runs(m) == runtime[m] \notin {Missing, Damaged}
Capable(a) == a.version # OldVersion

(* What an inventory has of the Box: its identity, whether it names the    *)
(* managed runtime, and the version last observed there, if any was.       *)
Record == [identity : Nat, path : BOOLEAN, seen : Versions \cup {NoBox}]
Idle == [pc |-> "idle", op |-> "setup", expect |-> NoIdentity, on |-> NoBox,
         baseline |-> Missing, staged |-> NoBox, lacks |-> FALSE, tries |-> 0, seen |-> Dev]

Init ==
    /\ at \in Machines
    /\ identity \in [Machines -> {NoIdentity, FirstIdentity}]
    /\ \A m \in Machines : identity[m] # NoIdentity => m = at
    /\ runtime \in [Machines -> {Missing, Damaged} \cup {[version |-> v, build |-> NoBox] : v \in Versions}]
    /\ \A m \in Machines : m # at => runtime[m] = Missing
    /\ config = {} /\ root = {} /\ tools = {}
    /\ cli \in [Stations -> Versions \ {OldVersion}]
    /\ box \in [Stations -> {NoBox, [identity |-> FirstIdentity, path |-> FALSE, seen |-> NoBox]}]
    /\ \A s \in Stations : box[s] # NoBox => identity[at] = FirstIdentity
    /\ cmd = [s \in Stations |-> Idle]
    /\ touched = {} /\ ids = FirstIdentity + 1 /\ starts = 0 /\ acts = 0 /\ faults = 0

At(s, pc) == cmd[s].pc = pc
Set(s, v) == cmd' = [cmd EXCEPT ![s] = v]
Go(s, pc) == Set(s, [cmd[s] EXCEPT !.pc = pc])
End(s) == Set(s, Idle)

Unmoved == UNCHANGED <<at, identity, runtime, config, root, tools>>
Steps == UNCHANGED <<cli, touched, ids, bounds>>
Looks == Unmoved /\ Steps /\ UNCHANGED box

(* config.Write replaces the file in one step. *)
WriteConfig(m) == config' = config \cup {m}

(* Every request that changes a machine through its runtime names the      *)
(* machine it is meant for (Runtime.operationIdentity, ValidateHello).     *)
Answers(s) == Runs(at) /\ identity[at] = cmd[s].expect /\ identity[at] >= FirstIdentity
=============================================================================
