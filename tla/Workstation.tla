----------------------------- MODULE Workstation -----------------------------
(* Four mechanisms of the local program and of the runtime on a Box that     *)
(* share no state with each other: updating the executable, keeping host     *)
(* runtimes, running a command, and cloning a repository.  A step of one     *)
(* commutes with every step of another, so each is followed by itself while  *)
(* the others rest in their initial states.                                  *)
EXTENDS SelfUpdate, ArtifactStore

CONSTANTS MaxProcesses, Rounds, MaxStops,
          Callers, MaxCalls, MaxActs

VARIABLES part,           \* the mechanism that is followed
          kind, job, proc, fg, heard, chld, cancel, budget,
          journal, stage, target, cloneLock, call, tip, cloneSpent

Process == INSTANCE ProcessControl
Clone   == INSTANCE RepositoryClone WITH lock <- cloneLock, spent <- cloneSpent

ASSUME WorkstationConstants ==
  /\ UpdateConstants /\ StoreConstants
  /\ Process!ProcessConstants /\ Clone!CloneConstants

runs    == <<kind, job, proc, fg, heard, chld, cancel, budget>>
clones  == <<journal, stage, target, cloneLock, call, tip, cloneSpent>>
vars    == <<part, updVars, artVars, runs, clones>>

Init ==
  /\ part \in {"update", "store", "process", "clone"}
  /\ UpdateInit /\ StoreInit /\ Process!Init /\ Clone!Init
  \* what an initial state may vary in is varied where it is followed
  /\ part # "update" => receipt = 1
  /\ part # "store" => file = "none" /\ digest = "none"
  /\ part # "process" => kind = "captured"

Updates == part = "update" /\ UpdateNext /\ UNCHANGED <<part, artVars, runs, clones>>
Stores  == part = "store" /\ StoreNext /\ UNCHANGED <<part, updVars, runs, clones>>
Runs    == part = "process" /\ Process!Next /\ UNCHANGED <<part, updVars, artVars, clones>>
Clones  == part = "clone" /\ Clone!Next /\ UNCHANGED <<part, updVars, artVars, runs>>

Next == Updates \/ Stores \/ Runs \/ Clones

Spec == Init /\ [][Next]_vars

-----------------------------------------------------------------------------
(* The terminal comes back, and a cancellation leaves nothing it could see   *)
(* (process_group_unix.go:64-176).                                           *)
JobControl == Process!JobControl

(* Only a clone git finished is promoted, and it replaces nothing            *)
(* (lifecycle.go:392-521).                                                   *)
ClonedWhole == Clone!ClonedWhole
=============================================================================
