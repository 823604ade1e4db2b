----------------------------- MODULE SelfUpdate -----------------------------
(* How the local executable finds and installs a newer release of itself     *)
(* (internal/selfupdate).  Any number of updaters share one executable, its  *)
(* ownership receipt, the lock directory beside them and the cache of the    *)
(* last release check.  Releases are published, withdrawn and published      *)
(* badly while they run; people run the installer, which takes the same      *)
(* lock, and rebuild the executable from source, which takes none.           *)
(*                                                                           *)
(* A version is a number and stands for the digest of its executable too:    *)
(* 0 is a build from source, and a receipt 0 is a missing or unusable one.   *)
EXTENDS Naturals

CONSTANTS Updaters,    \* processes that check for or install releases
          Newest,      \* the releases are 1..Newest
          MaxChecks,   \* bound: runs of the updaters
          MaxReleases, \* bound: changes of what the release server offers
          MaxFaults    \* bound: crashes, lost answers, failed writes, outsiders

Nobody == "nobody"
Dead   == "dead"          \* a lock or a claim whose owner has crashed
Modes  == {"check", "apply", "automatic"}

\* what is assumed of the constants
UpdateConstants ==
  /\ Newest \in Nat \ {0}
  /\ MaxChecks \in Nat /\ MaxReleases \in Nat /\ MaxFaults \in Nat
  /\ Nobody \notin Updaters /\ Dead \notin Updaters

VARIABLES exe,      \* the installed executable
          receipt,  \* the release the ownership receipt vouches for
          lock,     \* who made the lock directory, and whether it names its owner
          claim,    \* who claimed the automatic check, and whether 5 minutes passed
          cache,    \* the last release seen, its entity tag, and whether it is fresh
          server,   \* what the release server offers under which entity tag
          upd,      \* what each updater is doing
          spent     \* what has been used of the bounds

updVars == <<exe, receipt, lock, claim, cache, server, upd, spent>>

NoCache == [latest |-> 0, tag |-> 0, fresh |-> FALSE]
Free    == [holder |-> Nobody, owner |-> FALSE]
NoClaim == [holder |-> Nobody, old |-> FALSE]
Rest    == [pc |-> "rest", mode |-> "check", mine |-> 0, cache |-> NoCache,
            found |-> 0, direct |-> FALSE, base |-> 0, vouched |-> 0]

UpdateInit ==
  /\ exe = 1 /\ receipt \in {0, 1}
  /\ lock = Free /\ claim = NoClaim /\ cache = NoCache
  /\ server = [latest |-> 1, sound |-> TRUE, tag |-> 1]
  /\ upd = [u \in Updaters |-> Rest]
  /\ spent = [checks |-> 0, releases |-> 0, faults |-> 0]

\* the receipt vouches for exactly the running release: the installation is direct
Direct(mine) == receipt = mine /\ exe = mine

Goes(u, pc)   == upd' = [upd EXCEPT ![u].pc = pc]
LeaveLock(u)  == lock' = IF lock.holder = u /\ lock.owner THEN Free ELSE lock
LeaveClaim(u) == claim' = IF claim.holder = u THEN NoClaim ELSE claim
\* the deferred releases of an updater that returns
Return(u)     == LeaveLock(u) /\ LeaveClaim(u) /\ upd' = [upd EXCEPT ![u] = Rest]
Spend(what)   == spent' = [spent EXCEPT ![what] = @ + 1]
UpdateFault         == spent.faults < MaxFaults /\ Spend("faults")

(***************************************************************************)
(* The release check.                                                      *)
(***************************************************************************)
\* A build from source never gets this far, nor does an automatic check within a day.
Start(u, mode) ==
  /\ upd[u].pc = "rest" /\ exe # 0
  /\ spent.checks < MaxChecks /\ Spend("checks")
  /\ mode = "automatic" => ~cache.fresh
  /\ upd' = [upd EXCEPT ![u] =
       [Rest EXCEPT !.pc = IF mode = "automatic" THEN "claim" ELSE "ask",
                    !.mode = mode, !.mine = exe, !.cache = cache,
                    !.direct = mode # "automatic" /\ Direct(exe)]]
  /\ UNCHANGED <<exe, receipt, lock, claim, cache, server>>

\* The claim file is created exclusively; one older than five minutes is first retired.
Claim(u) ==
  /\ upd[u].pc \in {"claim", "claimAgain"}
  /\ \/ /\ claim.holder = Nobody
        /\ claim' = [holder |-> u, old |-> FALSE]
        /\ Goes(u, "recheck")
        /\ UNCHANGED lock
     \/ /\ claim.holder # Nobody /\ claim.old /\ upd[u].pc = "claim"
        /\ Goes(u, "retire")
        /\ UNCHANGED <<lock, claim>>
     \/ /\ claim.holder # Nobody /\ (claim.old => upd[u].pc = "claimAgain")
        /\ Return(u)
  /\ UNCHANGED <<exe, receipt, cache, server, spent>>

\* Whatever claim lies there by now is renamed away, and removed.
Retire(u) ==
  /\ upd[u].pc = "retire"
  /\ IF claim.holder = Nobody THEN Return(u)
     ELSE claim' = NoClaim /\ Goes(u, "claimAgain") /\ UNCHANGED lock
  /\ UNCHANGED <<exe, receipt, cache, server, spent>>

Recheck(u) ==
  /\ upd[u].pc = "recheck"
  /\ IF cache.fresh THEN Return(u)
     ELSE /\ upd' = [upd EXCEPT ![u].cache = cache, ![u].pc = "ask"]
          /\ UNCHANGED <<lock, claim>>
  /\ UNCHANGED <<exe, receipt, cache, server, spent>>

\* What a good answer leaves to be cached; an answer that is refused changes no field
\* of the cache the check read but the time of the attempt.
Seen(old) == [latest |-> server.latest, tag |-> server.tag, fresh |-> TRUE]

Answer(u, found, seen) ==
  upd' = [upd EXCEPT ![u].pc = "save", ![u].found = found,
                     ![u].cache = [seen EXCEPT !.fresh = TRUE]]

\* The server answers "not modified" to the tag it still offers, and the document otherwise.
Ask(u) ==
  /\ upd[u].pc = "ask"
  /\ LET old == upd[u].cache
         unmodified == old.tag # 0 /\ old.tag = server.tag
     IN \/ /\ unmodified /\ Answer(u, old.latest, old)
           /\ UNCHANGED spent
        \/ /\ ~unmodified /\ server.sound /\ Answer(u, server.latest, Seen(old))
           /\ UNCHANGED spent
        \/ /\ ~unmodified /\ ~server.sound /\ Answer(u, 0, old)
           /\ UNCHANGED spent
        \/ UpdateFault /\ Answer(u, 0, old)
  /\ UNCHANGED <<exe, receipt, lock, claim, cache, server>>

\* Only a requested update of a directly installed, older executable goes on.
Applies(u) == upd[u].mode = "apply" /\ upd[u].direct /\ upd[u].found > upd[u].mine

\* The cache is replaced by a rename, a failure of which is ignored.
Save(u) ==
  /\ upd[u].pc = "save"
  /\ \/ cache' = upd[u].cache /\ UNCHANGED spent
     \/ UpdateFault /\ UNCHANGED cache
  /\ IF Applies(u)
     THEN Goes(u, "resolve") /\ UNCHANGED <<lock, claim>>
     ELSE Return(u)
  /\ UNCHANGED <<exe, receipt, server>>

(***************************************************************************)
(* The update of the executable.                                           *)
(***************************************************************************)
\* The release is downloaded and verified before the lock is taken.
ResolveInstallation(u) ==
  /\ upd[u].pc = "resolve"
  /\ \/ Goes(u, "lock") /\ UNCHANGED <<lock, claim, spent>>
     \/ UpdateFault /\ Return(u)
  /\ UNCHANGED <<exe, receipt, cache, server>>

\* An existing lock is reported and never retired, whatever its owner.
AcquireLock(u) ==
  /\ upd[u].pc = "lock"
  /\ IF lock.holder # Nobody THEN Return(u)
     ELSE /\ lock' = [holder |-> u, owner |-> FALSE]
          /\ Goes(u, "own") /\ UNCHANGED claim
  /\ UNCHANGED <<exe, receipt, cache, server, spent>>

WriteOwner(u) ==
  /\ upd[u].pc = "own"
  /\ \/ /\ lock' = [lock EXCEPT !.owner = TRUE]
        /\ Goes(u, "classify") /\ UNCHANGED <<claim, spent>>
     \/ /\ UpdateFault
        /\ lock' = Free /\ Goes(u, "refused") /\ UNCHANGED claim
  /\ UNCHANGED <<exe, receipt, cache, server>>

Refused(u) ==
  /\ upd[u].pc = "refused"
  /\ Return(u)
  /\ UNCHANGED <<exe, receipt, cache, server, spent>>

\* Mutant: the classification before the lock was taken is relied on.
OwnedBefore(u) == TRUE

\* Ownership is classified again under the lock, against the version that is running,
\* and the executable and the receipt are fingerprinted.
Owned(u) == Direct(upd[u].mine)

Classify(u) ==
  /\ upd[u].pc = "classify"
  /\ IF Owned(u)
     THEN /\ upd' = [upd EXCEPT ![u].pc = "stage", ![u].base = exe, ![u].vouched = receipt]
          /\ UNCHANGED <<lock, claim>>
     ELSE Return(u)
  /\ UNCHANGED <<exe, receipt, cache, server, spent>>

\* The candidate is copied beside the executable and checked against its digest.
StageCandidate(u) ==
  /\ upd[u].pc = "stage"
  /\ \/ Goes(u, "identify") /\ UNCHANGED <<lock, claim, spent>>
     \/ UpdateFault /\ Return(u)
  /\ UNCHANGED <<exe, receipt, cache, server>>

\* The candidate is run to report its version and platform.
VerifyCandidate(u) ==
  /\ upd[u].pc = "identify"
  /\ \/ Goes(u, "revalidate") /\ UNCHANGED <<lock, claim, spent>>
     \/ UpdateFault /\ Return(u)
  /\ UNCHANGED <<exe, receipt, cache, server>>

Revalidate(u) ==
  /\ upd[u].pc \in {"revalidate", "revalidateReceipt"}
  /\ IF upd[u].pc = "revalidate"
     THEN IF exe = upd[u].base
          THEN Goes(u, "revalidateReceipt") /\ UNCHANGED <<lock, claim>>
          ELSE Return(u)
     ELSE IF receipt = upd[u].vouched
          THEN Goes(u, "promote") /\ UNCHANGED <<lock, claim>>
          ELSE Return(u)
  /\ UNCHANGED <<exe, receipt, cache, server, spent>>

Promote(u) ==
  /\ upd[u].pc = "promote"
  /\ \/ /\ exe' = upd[u].found
        /\ Goes(u, "receipt") /\ UNCHANGED <<lock, claim, spent>>
     \/ UpdateFault /\ Return(u) /\ UNCHANGED exe
  /\ UNCHANGED <<receipt, cache, server>>

\* A receipt that cannot be written leaves the new executable without an owner.
WriteReceipt(u) ==
  /\ upd[u].pc = "receipt"
  /\ \/ receipt' = upd[u].found /\ UNCHANGED spent
     \/ UpdateFault /\ UNCHANGED receipt
  /\ Return(u)
  /\ UNCHANGED <<exe, cache, server>>

(***************************************************************************)
(* What happens around the updaters.                                       *)
(***************************************************************************)
\* A crashed updater leaves its lock directory and its claim.
Crash(u) ==
  /\ upd[u].pc # "rest" /\ UpdateFault
  /\ upd' = [upd EXCEPT ![u] = Rest]
  /\ lock' = IF lock.holder = u THEN [lock EXCEPT !.holder = Dead] ELSE lock
  /\ claim' = IF claim.holder = u THEN [claim EXCEPT !.holder = Dead] ELSE claim
  /\ UNCHANGED <<exe, receipt, cache, server>>

\* A person removes the stale lock, no updater or installer holding it.
ClearLock ==
  /\ lock.holder = Dead
  /\ lock' = Free
  /\ UNCHANGED <<exe, receipt, claim, cache, server, upd, spent>>

\* The installer replaces the executable and its receipt under the same lock; a
\* build from source replaces the executable alone, at any time.
Install(v) ==
  /\ lock.holder = Nobody /\ UpdateFault
  /\ exe' = v /\ receipt' = v
  /\ UNCHANGED <<lock, claim, cache, server, upd>>

Rebuild ==
  /\ exe # 0 /\ UpdateFault
  /\ exe' = 0
  /\ UNCHANGED <<receipt, lock, claim, cache, server, upd>>

\* A release is published or withdrawn, or a draft or a prerelease is offered.
Offer(v, sound) ==
  /\ spent.releases < MaxReleases /\ Spend("releases")
  /\ server' = [latest |-> v, sound |-> sound, tag |-> server.tag + 1]
  /\ UNCHANGED <<exe, receipt, lock, claim, cache, upd>>

\* Five minutes make a claim old, and a day makes the cache stale.
Time ==
  /\ \/ /\ claim.holder # Nobody /\ ~claim.old
        /\ claim' = [claim EXCEPT !.old = TRUE] /\ UNCHANGED cache
     \/ /\ cache.fresh
        /\ cache' = [cache EXCEPT !.fresh = FALSE] /\ UNCHANGED claim
  /\ UNCHANGED <<exe, receipt, lock, server, upd, spent>>

UpdateNext ==
  \/ \E u \in Updaters : \E mode \in Modes : Start(u, mode)
  \/ \E u \in Updaters :
       \/ Claim(u) \/ Retire(u) \/ Recheck(u) \/ Ask(u) \/ Save(u)
       \/ ResolveInstallation(u) \/ AcquireLock(u) \/ WriteOwner(u) \/ Refused(u)
       \/ Classify(u) \/ StageCandidate(u) \/ VerifyCandidate(u) \/ Revalidate(u) \/ Promote(u)
       \/ WriteReceipt(u) \/ Crash(u)
  \/ ClearLock \/ Rebuild \/ Time
  \/ \E v \in 1..Newest : Install(v) \/ \E sound \in BOOLEAN : Offer(v, sound)

UpdateSpec == UpdateInit /\ [][UpdateNext]_updVars

-----------------------------------------------------------------------------
(* An update replaces the executable by a newer one only, whatever other     *)
(* updaters and installers did between its check and its rename, and what a  *)
(* check reports is the sound release offered when it asked, never one       *)
(* remembered under the tag of an answer that was refused                    *)
(* (selfupdate.go:254-289, cache.go:73-104).                                 *)
NewerRelease ==
  [][\A u \in Updaters :
       /\ upd[u].pc = "promote" /\ upd'[u].pc = "receipt" => exe' > exe
       /\ upd[u].pc = "ask" /\ upd'[u].found # 0 =>
            server.sound /\ upd'[u].found = server.latest]_updVars
=============================================================================
