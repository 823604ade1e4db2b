---------------------------- MODULE HostInstall ----------------------------
(***************************************************************************)
(* Runtime.EnsureHost: the runtime of a machine is assessed, fingerprinted *)
(* and assessed again; an artifact is uploaded beside it, asked who it is, *)
(* and renamed over it if the runtime still has the fingerprint. Every     *)
(* step is an SSH connection of its own.                                   *)
(***************************************************************************)
EXTENDS MaintenanceState

MaxTries == 3

(* What a step of assessHost finds: a runtime that can be reused, the      *)
(* version of one that cannot, or nothing it can name.                     *)
Reusable(s) == Answers(s) /\ Capable(runtime[at])
Stranger(s) == Runs(at) /\ identity[at] >= FirstIdentity /\ identity[at] # cmd[s].expect
Unnamed == ~Runs(at)

(* semver.Compare has no answer for development builds. *)
Comparable(a, b) == Dev \notin {a, b}

(* replacementAllowed *)
Allowed(s) ==
    \/ Unnamed
    \/ cli[s] = Dev /\ runtime[at].version = Dev
    \/ Comparable(cli[s], runtime[at].version) /\ runtime[at].version <= cli[s]

(* compatibleHostDecision: setup and add take any runtime that works, but  *)
(* a development build is always replaced by the one at hand.              *)
Kept(s) ==
    /\ Reusable(s)
    /\ LET there == runtime[at].version IN
       IF cmd[s].op = "update" THEN Comparable(cli[s], there) /\ there >= cli[s]
       ELSE ~(cli[s] = Dev /\ there = Dev)

(* What ends the command: another machine, a runtime an update cannot name *)
(* or compare, or one that is newer.                                       *)
Refuses(s) ==
    \/ Stranger(s)
    \/ cmd[s].op = "update" /\ Unnamed
    \/ ~Allowed(s)

Assessed(s, next) ==
    IF Stranger(s) THEN End(s)
    ELSE IF Kept(s) THEN Go(s, "tools")
    ELSE IF Refuses(s) THEN End(s)
    ELSE Go(s, next)

Assess(s) == At(s, "assess") /\ Assessed(s, "fingerprint") /\ Looks

Fingerprint(s) ==
    /\ At(s, "fingerprint")
    /\ Set(s, [cmd[s] EXCEPT !.baseline = runtime[at], !.pc = "reassess"])
    /\ Looks

Reassess(s) == At(s, "reassess") /\ Assessed(s, "upload") /\ Looks

(* stageCommand: a file of its own name, kept only if its digest is right. *)
Upload(s) ==
    /\ At(s, "upload")
    /\ Set(s, [cmd[s] EXCEPT !.staged = at, !.pc = "try"])
    /\ Looks

(* Mutant: the staged file is not asked which machine it is on. *)
TryNothing(s) ==
    /\ At(s, "try")
    /\ IF cmd[s].staged = at THEN Go(s, "promote") ELSE End(s)
    /\ Looks

(* validateCandidateHello of the staged file. *)
TryStaged(s) ==
    /\ At(s, "try")
    /\ IF cmd[s].staged = at /\ identity[at] = cmd[s].expect THEN Go(s, "promote") ELSE End(s)
    /\ Looks

(* Mutant: the fingerprint is not compared under the lock. *)
PromoteBlindly(s) ==
    /\ At(s, "promote")
    /\ IF cmd[s].staged = at
       THEN runtime' = [runtime EXCEPT ![at] = Build(s)] /\ Go(s, "confirm")
       ELSE End(s) /\ UNCHANGED runtime
    /\ Steps /\ UNCHANGED <<at, identity, config, root, tools, box>>

(* promoteCommand, under the install lock of the machine. A runtime that   *)
(* changed since it was fingerprinted is assessed again, three times.      *)
Promote(s) ==
    /\ At(s, "promote")
    /\ IF runtime[at] # cmd[s].baseline
       THEN /\ IF cmd[s].tries + 1 < MaxTries
               THEN Set(s, [cmd[s] EXCEPT !.pc = "assess", !.tries = @ + 1, !.staged = NoBox, !.baseline = Missing])
               ELSE End(s)
            /\ UNCHANGED runtime
       ELSE IF cmd[s].staged = at
       THEN runtime' = [runtime EXCEPT ![at] = Build(s)] /\ Go(s, "confirm")
       ELSE End(s) /\ UNCHANGED runtime
    /\ Steps /\ UNCHANGED <<at, identity, config, root, tools, box>>

(* The promoted runtime must say it is the one that was uploaded. *)
Confirm(s) ==
    /\ At(s, "confirm")
    /\ IF Answers(s) /\ runtime[at].version = cli[s] THEN Go(s, "tools") ELSE End(s)
    /\ Looks

EnsureHost(s) ==
    Assess(s) \/ Fingerprint(s) \/ Reassess(s) \/ Upload(s) \/ TryStaged(s) \/ Promote(s) \/ Confirm(s)
=============================================================================
