-------------------------- MODULE RepositoryClone --------------------------
(* Cloning one repository to one path of a Box: the version-1 operation,     *)
(* keyed by the address it was given, and the version-2 operation, keyed by  *)
(* the Repository Identity every address of it shares, which first           *)
(* reconciles what a version-1 operation left behind.  Every operation       *)
(* checkpoints its progress, clones into a staging directory it owns, and    *)
(* promotes that by a rename that replaces nothing.                          *)
(*                                                                           *)
(* A step of a call is everything between two effects another call, a person *)
(* or a crash can come between.  The branch selector is left out: a call     *)
(* with another one is an operation with another key.                        *)
EXTENDS Naturals

CONSTANTS Callers,
          MaxCalls,    \* bound: clones that are asked for
          MaxActs,     \* bound: what people and the remote do meanwhile
          MaxFaults    \* bound: crashes and failed calls

\* what is assumed of the constants
CloneConstants == MaxCalls \in Nat /\ MaxActs \in Nat /\ MaxFaults \in Nat

Sources  == {"https", "ssh"}        \* the addresses of the repository
V2       == "identity"
Keys     == Sources \cup {V2}
Nobody   == "nobody"
NoTree   == [kind |-> "none", head |-> 0, origin |-> "none", whole |-> FALSE]
Foreign  == [NoTree EXCEPT !.kind = "foreign"]
Cloned(head, origin, whole) == [kind |-> "clone", head |-> head, origin |-> origin, whole |-> whole]
\* What an inspection cannot read: nothing, something foreign, or a checkout cut short early.
Unreadable(origin) == [Cloned(0, origin, FALSE) EXCEPT !.kind = "broken"]
Inspects(tree)     == tree.kind = "clone"

NoRecord == [cp |-> "none", supplied |-> "none", snap |-> NoTree]
NoStage  == [at |-> "absent", tree |-> NoTree]
Idle     == [pc |-> "rest", key |-> V2, source |-> "https", tries |-> 0]

VARIABLES journal,  \* the record of each operation
          stage,    \* the staging directory of each operation, and what is cloned in it
          target,   \* what lies at the path
          lock,     \* the caller that holds the lock of the path
          call,     \* what each caller is doing
          tip,      \* the commit the remote's branch names
          spent     \* what has been used of the bounds

cloneVars == <<journal, stage, target, lock, call, tip, spent>>

Init ==
  /\ journal = [k \in Keys |-> NoRecord]
  /\ stage = [k \in Keys |-> NoStage]
  /\ target = NoTree /\ lock = Nobody
  /\ call = [c \in Callers |-> Idle]
  /\ tip = 1
  /\ spent = [calls |-> 0, acts |-> 0, faults |-> 0]

Spend(what, bound) == spent[what] < bound /\ spent' = [spent EXCEPT ![what] = @ + 1]
Fault  == Spend("faults", MaxFaults)
Calm   == UNCHANGED spent
Key(c) == call[c].key

Goes(c, pc) == call' = [call EXCEPT ![c].pc = pc] /\ UNCHANGED lock
Return(c)   == /\ call' = [call EXCEPT ![c] = Idle]
               /\ lock' = IF lock = c THEN Nobody ELSE lock
Save(k, cp) == journal' = [journal EXCEPT ![k].cp = cp]
Still       == UNCHANGED <<journal, stage, target, tip>>

\* A staging directory is removed when it is there and carries the owner's marker.
Removable(k) == stage[k].at # "unmarked"
Clear(k)     == stage' = [stage EXCEPT ![k] = NoStage]
TryClear(k)  == stage' = IF Removable(k) THEN [stage EXCEPT ![k] = NoStage] ELSE stage

\* The clone that was recorded is still what lies at the path.
Matches(k) == Inspects(target) /\ target = journal[k].snap

(***************************************************************************)
(* What a version-2 clone makes of the version-1 records.                  *)
(***************************************************************************)
Begin(c, source, pc) ==
  /\ call[c].pc = "rest" /\ Spend("calls", MaxCalls)
  /\ call' = [call EXCEPT ![c] = [Idle EXCEPT !.pc = pc, !.source = source,
                                              !.key = IF pc = "open" THEN source ELSE V2]]
  /\ UNCHANGED lock /\ Still

\* The checkout whose origin and branch tell what a record under another address cloned.
Checkout(s) ==
  CASE journal[s].cp = "clone_finished"  -> stage[s].tree
    [] journal[s].cp = "complete"        -> target
    [] journal[s].cp = "promote_pending" -> IF stage[s].tree.kind = "none" THEN target ELSE stage[s].tree
    [] OTHER                             -> NoTree

Version1(c) ==
  IF journal[call[c].source].cp # "none" THEN {call[c].source}
  ELSE {s \in Sources : Inspects(Checkout(s))}

Proceed(c, source, key) ==
  call' = [call EXCEPT ![c].pc = "open", ![c].source = source, ![c].key = key] /\ UNCHANGED lock

Reconcile(c) ==
  /\ call[c].pc = "reconcile"
  /\ IF lock # Nobody THEN Return(c) /\ Still /\ Calm
     ELSE LET found == Version1(c)
          IN \/ /\ found = {}
                /\ Proceed(c, call[c].source, V2) /\ Still /\ Calm
             \/ /\ \E s, t \in found : s # t
                /\ Return(c) /\ Still /\ Calm
             \/ \E s \in found :
                  /\ found = {s}
                  /\ \/ /\ journal[s].cp = "complete"
                        /\ Return(c) /\ Still /\ Calm
                     \/ /\ journal[s].cp = "aborted"
                        /\ Proceed(c, s, V2) /\ Still /\ Calm
                     \/ /\ journal[s].cp \in {"clone_finished", "promote_pending"}
                        /\ Proceed(c, s, s) /\ Still /\ Calm
                     \/ /\ journal[s].cp \in {"requested", "clone_pending"} /\ ~Removable(s)
                        /\ Return(c) /\ Still /\ Calm
                     \/ /\ journal[s].cp \in {"requested", "clone_pending"} /\ Removable(s)
                        /\ Clear(s)
                        /\ \/ Save(s, "aborted") /\ Proceed(c, s, V2) /\ Calm
                           \/ Fault /\ Return(c) /\ UNCHANGED journal
                        /\ UNCHANGED <<target, tip>>

(***************************************************************************)
(* The clone.                                                              *)
(***************************************************************************)
Incomplete(k) == journal[k].cp \notin {"none", "complete", "aborted"}

\* The lock is not waited for; another interrupted operation on the path refuses this one.
Open(c) ==
  /\ call[c].pc = "open"
  /\ IF lock # Nobody \/ \E k \in Keys \ {Key(c)} : Incomplete(k)
     THEN Return(c) /\ Still
     ELSE /\ Save(Key(c), IF journal[Key(c)].cp = "none" THEN "requested" ELSE journal[Key(c)].cp)
          /\ lock' = c
          /\ call' = [call EXCEPT ![c].pc = IF Key(c) = V2 THEN "supply" ELSE "look"]
          /\ UNCHANGED <<stage, target, tip>>
  /\ Calm

\* A version-2 record keeps the address its first call was given.
Supply(c) ==
  /\ call[c].pc = "supply"
  /\ journal' = [journal EXCEPT ![V2].supplied = IF @ = "none" THEN call[c].source ELSE @]
  /\ call' = [call EXCEPT ![c].pc = "look", ![c].source = journal'[V2].supplied]
  /\ Calm /\ UNCHANGED <<stage, target, lock, tip>>

\* The path is taken: by this clone, promoted before it could be recorded as complete,
\* or by something that makes the operation fail.
LookTaken(c) ==
  /\ call[c].pc = "look" /\ target.kind # "none"
  /\ LET k == Key(c)
         cp == journal[k].cp
         promoted == cp = "promote_pending" /\ stage[k].tree.kind = "none" /\ Matches(k)
     IN /\ journal' = [journal EXCEPT ![k].cp = IF promoted THEN "complete"
                                                ELSE IF cp = "requested" THEN "aborted" ELSE @]
        /\ IF promoted THEN TryClear(k) ELSE UNCHANGED stage
  /\ Return(c) /\ Calm /\ UNCHANGED <<target, tip>>

LookFree(c) ==
  /\ call[c].pc = "look" /\ target.kind = "none"
  /\ Goes(c, IF Inspects(stage[Key(c)].tree) THEN "staged" ELSE "pending")
  /\ Calm /\ Still

Pending(c) ==
  /\ call[c].pc = "pending"
  /\ \/ Save(Key(c), "clone_pending") /\ Goes(c, "prepare") /\ Calm
     \/ Fault /\ Return(c) /\ UNCHANGED journal
  /\ UNCHANGED <<stage, target, tip>>

\* The path has come to lie in another Worktree, or beyond the bounds of discovery.
Undiscoverable(c) ==
  /\ call[c].pc \in {"prepare", "promote"} /\ Fault
  /\ Return(c) /\ Still

\* Before each attempt the staging directory is made anew, and then marked.
Prepare(c) ==
  /\ call[c].pc = "prepare"
  /\ IF Removable(Key(c))
     THEN /\ stage' = [stage EXCEPT ![Key(c)] = [at |-> "unmarked", tree |-> NoTree]]
          /\ Goes(c, "mark")
     ELSE Return(c) /\ UNCHANGED stage
  /\ Calm /\ UNCHANGED <<journal, target, tip>>

Mark(c) ==
  /\ call[c].pc = "mark"
  /\ \/ stage' = [stage EXCEPT ![Key(c)].at = "marked"] /\ Goes(c, "git") /\ Calm
     \/ Fault /\ Clear(Key(c)) /\ Return(c)
  /\ UNCHANGED <<journal, target, tip>>

\* The transports of an address: as supplied, over SSH, with the managed key, anonymously.
Transports(c) == IF Key(c) # V2 THEN 1 ELSE IF call[c].source = "ssh" THEN 3 ELSE 4

\* Git clones, under the origin as it was supplied whatever the transport.
GitClones(c) ==
  /\ call[c].pc = "git"
  /\ stage' = [stage EXCEPT ![Key(c)].tree = Cloned(tip, call[c].source, TRUE)]
  /\ Goes(c, "finished") /\ Calm
  /\ UNCHANGED <<journal, target, tip>>

\* Git fails by itself and removes what it has cloned: a refused authentication goes on
\* to the next transport, if there is one, and any other failure ends the call.
GitRefuses(c) ==
  /\ call[c].pc = "git"
  /\ \/ /\ call[c].tries + 1 < Transports(c)
        /\ call' = [call EXCEPT ![c].pc = "prepare", ![c].tries = @ + 1]
        /\ UNCHANGED lock /\ Calm
     \/ /\ call[c].tries + 1 = Transports(c)
        /\ Return(c) /\ Calm
     \/ Fault /\ Return(c)
  /\ Still

\* A call that dies while git runs leaves what git had cloned so far.
Interrupted(c) ==
  /\ call[c].pc = "git" /\ Fault /\ Return(c)
  /\ \E tree \in {Cloned(tip, call[c].source, whole) : whole \in BOOLEAN} \cup {Unreadable(call[c].source)} :
       stage' = [stage EXCEPT ![Key(c)].tree = tree]
  /\ UNCHANGED <<journal, target, tip>>

Finished(c) ==
  /\ call[c].pc = "finished"
  /\ \/ Save(Key(c), "clone_finished") /\ Goes(c, "staged") /\ Calm
     \/ Fault /\ Return(c) /\ UNCHANGED journal
  /\ UNCHANGED <<stage, target, tip>>

\* Mutant: whatever can be inspected is promoted.
TrustedAlways(k) == TRUE

\* A staged clone is trusted only when its completion was checkpointed.
Trusted(k) == journal[k].cp # "clone_pending"

Staged(c) ==
  /\ call[c].pc = "staged"
  /\ LET k == Key(c)
     IN \/ /\ Trusted(k)
           /\ journal' = [journal EXCEPT ![k].snap = stage[k].tree, ![k].cp = "promote_pending"]
           /\ Goes(c, "promote") /\ Calm
        \/ /\ ~Trusted(k)
           /\ Return(c) /\ UNCHANGED journal /\ Calm
        \/ Trusted(k) /\ Fault /\ Return(c) /\ UNCHANGED journal
  /\ UNCHANGED <<stage, target, tip>>

\* The rename replaces nothing.
Promote(c) ==
  /\ call[c].pc = "promote"
  /\ \/ /\ target.kind = "none"
        /\ target' = stage[Key(c)].tree
        /\ stage' = [stage EXCEPT ![Key(c)].tree = NoTree]
        /\ Goes(c, "verify") /\ Calm
     \/ /\ target.kind # "none"
        /\ Return(c) /\ Calm /\ UNCHANGED <<target, stage>>
  /\ UNCHANGED <<journal, tip>>

Verify(c) ==
  /\ call[c].pc = "verify"
  /\ TryClear(Key(c))
  /\ IF Matches(Key(c)) THEN Goes(c, "complete") ELSE Return(c)
  /\ Calm /\ UNCHANGED <<journal, target, tip>>

Complete(c) ==
  /\ call[c].pc = "complete"
  /\ \/ Save(Key(c), "complete") /\ Calm
     \/ Fault /\ UNCHANGED journal
  /\ Return(c)
  /\ UNCHANGED <<stage, target, tip>>

(***************************************************************************)
(* What happens around the calls.                                          *)
(***************************************************************************)
Crash(c) ==
  /\ call[c].pc # "rest" /\ Fault
  /\ Return(c) /\ Still

\* A person puts something at the path, takes it away, or commits in the clone.
Person ==
  /\ Spend("acts", MaxActs)
  /\ target' \in (IF target.kind = "none" THEN {Foreign}
                  ELSE {NoTree, [target EXCEPT !.head = 0]})
  /\ UNCHANGED <<journal, stage, lock, call, tip>>

Pushed ==
  /\ Spend("acts", MaxActs)
  /\ tip' = tip + 1
  /\ UNCHANGED <<journal, stage, target, lock, call>>

Next ==
  \/ \E c \in Callers, s \in Sources : \E pc \in {"reconcile", "open"} : Begin(c, s, pc)
  \/ \E c \in Callers :
       \/ Reconcile(c) \/ Open(c) \/ Supply(c) \/ LookTaken(c) \/ LookFree(c) \/ Pending(c)
       \/ Undiscoverable(c) \/ Prepare(c)
       \/ Mark(c) \/ GitClones(c) \/ GitRefuses(c) \/ Interrupted(c) \/ Finished(c) \/ Staged(c)
       \/ Promote(c) \/ Verify(c) \/ Complete(c) \/ Crash(c)
  \/ Person \/ Pushed

Spec == Init /\ [][Next]_cloneVars

-----------------------------------------------------------------------------
(* Whatever calls, crashes and retries come between, the path changes by a   *)
(* call only from nothing to a clone git finished, and at most one           *)
(* interrupted operation owns it; a clone recorded as complete has the       *)
(* origin first recorded for its operation (lifecycle.go:392-521, 523-574). *)
ClonedWhole ==
  [][/\ target' # target /\ spent'.acts = spent.acts => target.kind = "none" /\ target'.whole
     /\ \A k, m \in Keys : Incomplete(k)' /\ Incomplete(m)' => k = m
     /\ \A k \in Keys : journal'[k].cp = "complete" /\ journal[k].cp # "complete" =>
          journal'[k].snap.origin = IF k = V2 THEN journal[k].supplied ELSE k]_cloneVars
=============================================================================
