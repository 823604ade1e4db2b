--------------------------- MODULE BoxMaintenance ---------------------------
(***************************************************************************)
(* `schooner box add`, `setup`, `update`, `status` and `remove` as         *)
(* internal/box/service.go runs them over SSH.  A command is a sequence of *)
(* connections, and nothing but the identity file ties two of them to the  *)
(* same machine.                                                           *)
(***************************************************************************)
EXTENDS HostInstall

Begin(s, c) ==
    /\ At(s, "idle") /\ starts < MaxStarts
    /\ starts' = starts + 1
    /\ Set(s, c)
    /\ Unmoved /\ UNCHANGED <<cli, touched, ids, acts, faults, box>>

Recorded(s, op, pc) == [Idle EXCEPT !.op = op, !.pc = pc, !.expect = box[s].identity]

Add(s) == box[s] = NoBox /\ Begin(s, [Idle EXCEPT !.op = "add", !.pc = "inspect"])
Maintain(s, op) == box[s] # NoBox /\ Begin(s, Recorded(s, op, "inspect"))
Status(s) == box[s] # NoBox /\ box[s].path /\ Begin(s, Recorded(s, "status", "hello"))

(* inspect.sh: an identity file that was never written reads as none. *)
Inspect(s) ==
    /\ At(s, "inspect")
    /\ IF cmd[s].op # "add" /\ identity[at] # cmd[s].expect THEN End(s)
       ELSE Set(s, [cmd[s] EXCEPT !.lacks = at \notin tools,
                                  !.pc = IF cmd[s].op = "add" THEN "create" ELSE "assess"])
    /\ Looks

(* Mutant: `>` without noclobber. *)
ClobberIdentity(s) ==
    /\ At(s, "create")
    /\ identity' = [identity EXCEPT ![at] = Blank]
    /\ Set(s, [cmd[s] EXCEPT !.on = at, !.pc = "write"])
    /\ Steps /\ UNCHANGED <<at, runtime, config, root, tools, box>>

(* identity.sh creates the file with noclobber, writes it, and reads what  *)
(* the file now says: another command may have been first.                 *)
CreateIdentity(s) ==
    /\ At(s, "create")
    /\ IF identity[at] = NoIdentity
       THEN identity' = [identity EXCEPT ![at] = Blank] /\ Set(s, [cmd[s] EXCEPT !.on = at, !.pc = "write"])
       ELSE Set(s, [cmd[s] EXCEPT !.on = at, !.pc = "read"]) /\ UNCHANGED identity
    /\ Steps /\ UNCHANGED <<at, runtime, config, root, tools, box>>

WriteIdentity(s) ==
    /\ At(s, "write")
    /\ identity' = [identity EXCEPT ![cmd[s].on] = ids]
    /\ ids' = ids + 1
    /\ Go(s, "read")
    /\ UNCHANGED <<at, runtime, config, root, tools, box, cli, touched, bounds>>

(* Mutant: the identity that was read is not looked at. *)
ReadAnything(s) ==
    /\ At(s, "read")
    /\ Set(s, [cmd[s] EXCEPT !.expect = identity[cmd[s].on], !.on = NoBox, !.pc = "assess"])
    /\ Looks

ReadIdentity(s) ==
    /\ At(s, "read")
    /\ IF identity[cmd[s].on] < FirstIdentity THEN End(s)
       ELSE Set(s, [cmd[s] EXCEPT !.expect = identity[cmd[s].on], !.on = NoBox, !.pc = "assess"])
    /\ Looks

(* prepareHost. The packages and the Worktree Root are made on whatever    *)
(* machine answers.                                                        *)
InstallTools(s) ==
    /\ At(s, "tools")
    /\ \E sudo \in BOOLEAN :
          LET needed == cmd[s].op # "update" /\ cmd[s].lacks
              ready == [cmd[s] EXCEPT !.pc = "root", !.baseline = Missing, !.staged = NoBox, !.tries = 0] IN
          /\ tools' = IF needed /\ sudo THEN tools \cup {at} ELSE tools
          /\ IF needed /\ ~sudo THEN End(s) ELSE Set(s, ready)
    /\ Steps /\ UNCHANGED <<at, identity, runtime, config, root, box>>

EnsureWorktreeRoot(s) ==
    /\ At(s, "root")
    /\ root' = root \cup {at}
    /\ Go(s, "offer")
    /\ Steps /\ UNCHANGED <<at, identity, runtime, config, tools, box>>

(* invokeHostOperation: a handshake, then the operation on a connection of *)
(* its own, whose request names the machine again.                         *)
OfferConfiguration(s) ==
    /\ At(s, "offer")
    /\ IF Answers(s) /\ Capable(runtime[at]) THEN Go(s, "configure") ELSE End(s)
    /\ Looks

Configure(s) ==
    /\ At(s, "configure")
    /\ IF Answers(s) THEN WriteConfig(at) /\ Go(s, "hello")
       ELSE End(s) /\ UNCHANGED config
    /\ Steps /\ UNCHANGED <<at, identity, runtime, root, tools, box>>

(* InspectHost: a handshake and an inspection. *)
HelloAgain(s) ==
    /\ At(s, "hello")
    /\ IF Answers(s) /\ Capable(runtime[at])
       THEN Set(s, [cmd[s] EXCEPT !.seen = runtime[at].version, !.pc = "report"])
       ELSE End(s)
    /\ Looks

Reported(s) ==
    /\ cmd[s].op # "status" => at \in root
    /\ cmd[s].op \in {"add", "setup"} => at \in tools

(* The record the command began with names no runtime, or another one. *)
Outdated(s) == cmd[s].op \in {"setup", "update"} /\ box[s] # NoBox /\ ~box[s].path

Report(s) ==
    /\ At(s, "report")
    /\ IF Answers(s) /\ Reported(s) THEN Go(s, IF Outdated(s) THEN "path" ELSE "save") ELSE End(s)
    /\ Looks

CompleteAdd(s) ==
    box' = [box EXCEPT ![s] = [identity |-> cmd[s].expect, path |-> TRUE, seen |-> cmd[s].seen]]

(* Two statements of their own, UpdateRuntimePath and SaveObservation find *)
(* the record the command began with, or fail.                             *)
UpdateRuntimePath(s) ==
    /\ At(s, "path")
    /\ IF box[s] = NoBox THEN End(s) /\ UNCHANGED box
       ELSE box' = [box EXCEPT ![s] = [@ EXCEPT !.path = TRUE]] /\ Go(s, "save")
    /\ Unmoved /\ Steps

SaveObservation(s) ==
    box' = IF box[s] = NoBox THEN box ELSE [box EXCEPT ![s] = [@ EXCEPT !.seen = cmd[s].seen]]

Save(s) ==
    /\ At(s, "save")
    /\ IF cmd[s].op = "add" THEN CompleteAdd(s) ELSE SaveObservation(s)
    /\ End(s)
    /\ Unmoved /\ Steps

(* The connection is lost, or the workstation dies. Where that leaves an   *)
(* identity file that was never written, it stays that way.                *)
Break(s) ==
    /\ ~At(s, "idle") /\ faults < MaxFaults
    /\ faults' = faults + 1
    /\ End(s)
    /\ Unmoved /\ UNCHANGED <<cli, touched, ids, starts, acts, box>>

(* The address comes to name another machine. *)
Swap ==
    /\ acts < MaxActs
    /\ \E m \in Machines \ {at} : at' = m
    /\ acts' = acts + 1
    /\ UNCHANGED <<identity, runtime, config, root, tools, cli, box, cmd, touched, ids, starts, faults>>

(* Someone installs or removes Schooner on a machine. *)
Reinstall(m) ==
    /\ acts < MaxActs
    /\ \E r \in {Missing} \cup {[version |-> v, build |-> NoBox] : v \in Versions} :
          r # runtime[m] /\ runtime' = [runtime EXCEPT ![m] = r]
    /\ touched' = touched \cup {m}
    /\ acts' = acts + 1
    /\ UNCHANGED <<at, identity, config, root, tools, cli, box, cmd, ids, starts, faults>>

(* `schooner box remove` forgets the Box, also while a command is at it. *)
Forget(s) ==
    /\ acts < MaxActs /\ box[s] # NoBox
    /\ box' = [box EXCEPT ![s] = NoBox]
    /\ acts' = acts + 1
    /\ Unmoved /\ UNCHANGED <<cli, cmd, touched, ids, starts, faults>>

Identify(s) == CreateIdentity(s) \/ WriteIdentity(s) \/ ReadIdentity(s)
Prepare(s) == InstallTools(s) \/ EnsureWorktreeRoot(s) \/ OfferConfiguration(s) \/ Configure(s)
Verify(s) == HelloAgain(s) \/ Report(s) \/ UpdateRuntimePath(s) \/ Save(s)

Next ==
    \/ \E s \in Stations :
          \/ Add(s) \/ Status(s) \/ \E op \in {"setup", "update"} : Maintain(s, op)
          \/ Inspect(s) \/ Identify(s) \/ EnsureHost(s) \/ Prepare(s) \/ Verify(s)
          \/ Break(s) \/ Forget(s)
    \/ Swap
    \/ \E m \in Machines : Reinstall(m)

Spec == Init /\ [][Next]_vars

(* Every variable holds a value of its kind, and a command that prepares   *)
(* or verifies a machine has an identity to hold it to.                    *)
TypeOK ==
    /\ at \in Machines
    /\ identity \in [Machines -> Nat] /\ runtime \in [Machines -> Artifact \cup {Missing, Damaged}]
    /\ config \subseteq Machines /\ root \subseteq Machines /\ tools \subseteq Machines
    /\ cli \in [Stations -> Versions]
    /\ box \in [Stations -> Record \cup {NoBox}]
    /\ \A s \in Stations :
          /\ {cmd[s].staged, cmd[s].on} \subseteq Machines \cup {NoBox}
          /\ cmd[s].pc \notin {"idle", "inspect", "create", "write", "read"} => cmd[s].expect >= FirstIdentity

(* A command never replaces a runtime that can be named by an older one or *)
(* by one it cannot be compared with, when other commands or a person      *)
(* install on the machine meanwhile (replacementAllowed, the fingerprint   *)
(* of promoteCommand).  A person acts once (MaxActs): a runtime that is    *)
(* replaced and put back between fingerprint and promotion passes for the  *)
(* one that was assessed.                                                  *)
NoDowngrade ==
    [][\A m \in Machines :
          acts' = acts /\ Runs(m) /\ runtime'[m] # runtime[m]
          => \/ runtime'[m].version = Dev /\ runtime[m].version = Dev
             \/ Comparable(runtime'[m].version, runtime[m].version) /\ runtime'[m].version >= runtime[m].version]_vars

(* Only a command that was begun for, or has identified, a machine changes *)
(* its runtime and its configuration, even when the address comes to name  *)
(* another machine between two connections (ExpectedIdentity, the staged   *)
(* file's own handshake, operationIdentity).                               *)
RightMachine ==
    [][\A m \in Machines :
          acts' = acts /\ (runtime'[m] # runtime[m] \/ (m \in config' /\ m \notin config))
          => \E s \in Stations : cmd'[s] # cmd[s] /\ cmd[s].expect = identity[m]]_vars

(* The identity a record holds stays the identity of one machine, whoever  *)
(* else adds that machine; and if the record names a runtime, the machine  *)
(* has the Worktree Root, a configuration that names it and, where nobody  *)
(* reinstalled by hand, a runtime that is not older than the one last seen.*)
(* The address changes hands once (MaxActs): two swaps in one command may  *)
(* have it fingerprint one machine and assess another.                     *)
Prepared ==
    \A s \in Stations : box[s] # NoBox =>
        \E m \in Machines : /\ identity[m] = box[s].identity
                            /\ box[s].path => m \in config \cap root
                            /\ box[s].path /\ m \notin touched =>
                                  /\ Runs(m)
                                  /\ box[s].seen \notin {NoBox, runtime[m].version}
                                     => runtime[m].version > box[s].seen /\ box[s].seen # Dev

=============================================================================
