---------------------------- MODULE ArtifactStore ---------------------------
(* Where host runtimes come from (internal/artifact).  A development build   *)
(* writes a generation of executables, publishes it by renaming a pointer to *)
(* it and removes the generations nobody leases; a resolver leases the       *)
(* generation the pointer names and confirms the pointer before it trusts    *)
(* the lease, because the lock file it leased may have been recreated in a   *)
(* directory that is being removed.  A released executable is downloaded,    *)
(* verified, and cached beside a file that holds its digest.                 *)
EXTENDS Naturals

CONSTANTS Builders, Resolvers,
          MaxGenerations,   \* bound: development builds
          MaxTries,         \* attempts of a resolver to lease what is published
          MaxAsks,          \* bound: artifacts that are asked for
          MaxStoreFaults         \* bound: crashes, cancellations and failures

\* what is assumed of the constants
StoreConstants ==
  MaxGenerations \in Nat /\ MaxTries \in Nat /\ MaxAsks \in Nat /\ MaxStoreFaults \in Nat

None        == "none"
Generations == 1..MaxGenerations
Contents    == {None, "good", "damaged"}   \* of a file of one released version

VARIABLES pointer,   \* the published generation, 0 before the first
          gens,      \* what lies in each generation directory
          build,     \* the build that holds the build lock
          resolver,  \* what each resolver is doing
          file,      \* the cached release executable
          digest,    \* the digest recorded beside it
          used       \* what has been used of the bounds

artVars == <<pointer, gens, build, resolver, file, digest, used>>

NoBuild == [by |-> None, pc |-> "rest", active |-> 0, todo |-> {}, at |-> 0,
            unlinked |-> FALSE, gen |-> 0]
Asleep  == [pc |-> "rest", gen |-> 0, tries |-> 0]

StoreInit ==
  /\ pointer = 0
  /\ gens = [g \in Generations |-> "absent"]
  /\ build = NoBuild
  /\ resolver = [r \in Resolvers |-> Asleep]
  /\ file \in Contents /\ digest \in {None, "good"}
  /\ used = [asks |-> 0, faults |-> 0]

StoreFault == used.faults < MaxStoreFaults /\ used' = [used EXCEPT !.faults = @ + 1]
Calm  == UNCHANGED used

(***************************************************************************)
(* The development build.                                                  *)
(***************************************************************************)
\* The generations a sweep visits: every directory but the active one.
Others(active) == {g \in Generations : gens[g] # "absent"} \ {active}

Builds(record) == build' = record
Step(pc)       == Builds([build EXCEPT !.pc = pc])

\* Under the build lock, held until the build returns, the published generation is read.
BeginBuild(b) ==
  /\ build = NoBuild /\ \E g \in Generations : gens[g] = "absent" /\ g > pointer
  /\ Builds([NoBuild EXCEPT !.by = b, !.pc = "sweep", !.active = pointer,
                            !.todo = Others(pointer)])
  /\ UNCHANGED <<pointer, gens, resolver, file, digest>> /\ Calm

Leased(g) == \E r \in Resolvers : resolver[r].gen = g /\ resolver[r].pc \in {"confirm", "verify", "held"}

\* A generation is removed only under an exclusive lease that is not waited for.
Busy(g) == Leased(g)

Visit(g) ==
  /\ build.pc \in {"sweep", "resweep"} /\ build.at = 0 /\ g \in build.todo
  /\ Builds([build EXCEPT !.todo = @ \ {g}, !.at = IF Busy(g) THEN 0 ELSE g])
  /\ UNCHANGED <<pointer, gens, resolver, file, digest>> /\ Calm

\* The lock file goes in any order with the rest of the directory, and then the lease
\* of a resolver that creates it again excludes nobody.
Unlink ==
  /\ build.at # 0 /\ ~build.unlinked
  /\ Builds([build EXCEPT !.unlinked = TRUE])
  /\ UNCHANGED <<pointer, gens, resolver, file, digest>> /\ Calm

RemoveFiles ==
  /\ build.at # 0 /\ gens[build.at] # "partial"
  /\ gens' = [gens EXCEPT ![build.at] = "partial"]
  /\ UNCHANGED <<pointer, build, resolver, file, digest>> /\ Calm

\* A lock file recreated meanwhile makes the removal fail, which ends the build unless
\* its generation is published already.
RemoveDirectory ==
  /\ build.at # 0 /\ build.unlinked /\ gens[build.at] = "partial"
  /\ \/ /\ gens' = [gens EXCEPT ![build.at] = "absent"]
        /\ Builds([build EXCEPT !.at = 0, !.unlinked = FALSE])
     \/ /\ Leased(build.at)
        /\ Builds(NoBuild) /\ UNCHANGED gens
  /\ UNCHANGED <<pointer, resolver, file, digest>> /\ Calm

MakeGeneration(g) ==
  /\ build.pc = "sweep" /\ build.at = 0 /\ build.todo = {}
  /\ gens[g] = "absent" /\ g > pointer
  /\ gens' = [gens EXCEPT ![g] = "building"]
  /\ Builds([build EXCEPT !.pc = "compile", !.gen = g])
  /\ UNCHANGED <<pointer, resolver, file, digest>> /\ Calm

\* Both executables, their manifest, and the verification of what was written.
Compile ==
  /\ build.pc = "compile"
  /\ \/ /\ gens' = [gens EXCEPT ![build.gen] = "complete"]
        /\ Step("publish") /\ Calm
     \/ /\ StoreFault
        /\ gens' = [gens EXCEPT ![build.gen] = "absent"] /\ Builds(NoBuild)
  /\ UNCHANGED <<pointer, resolver, file, digest>>

Publish ==
  /\ build.pc = "publish"
  /\ \/ /\ pointer' = build.gen
        /\ Builds([build EXCEPT !.pc = "resweep", !.active = build.gen,
                                !.todo = Others(build.gen)])
        /\ UNCHANGED gens /\ Calm
     \/ /\ StoreFault
        /\ gens' = [gens EXCEPT ![build.gen] = "absent"] /\ Builds(NoBuild)
        /\ UNCHANGED pointer
  /\ UNCHANGED <<resolver, file, digest>>

EndBuild ==
  /\ build.pc = "resweep" /\ build.at = 0 /\ build.todo = {}
  /\ Builds(NoBuild)
  /\ UNCHANGED <<pointer, gens, resolver, file, digest>> /\ Calm

\* The operating system gives up the locks of a build that dies.
CrashBuild ==
  /\ build # NoBuild /\ StoreFault
  /\ Builds(NoBuild)
  /\ UNCHANGED <<pointer, gens, resolver, file, digest>>

(***************************************************************************)
(* Resolving the development runtime.                                      *)
(***************************************************************************)
To(r, pc) == resolver' = [resolver EXCEPT ![r].pc = pc]
Leaves(r) == resolver' = [resolver EXCEPT ![r] = Asleep]
Again(r)  == IF resolver[r].tries + 1 < MaxTries
             THEN resolver' = [resolver EXCEPT ![r] =
                    [pc |-> "pointer", gen |-> 0, tries |-> @.tries + 1]]
             ELSE Leaves(r)
Keeps     == UNCHANGED <<pointer, gens, build, file, digest>>

Resolve(r, pc) ==
  /\ resolver[r].pc = "rest" /\ used.asks < MaxAsks
  /\ To(r, pc)
  /\ used' = [used EXCEPT !.asks = @ + 1]
  /\ Keeps

\* Nothing published: the directory itself is tried, without a lease.
ReadPointer(r) ==
  /\ resolver[r].pc = "pointer"
  /\ IF pointer = 0 THEN Leaves(r)
     ELSE resolver' = [resolver EXCEPT ![r].pc = "lease", ![r].gen = pointer]
  /\ Keeps /\ Calm

\* Waits while a sweep holds the lock file; may have opened the file before it was
\* unlinked, or create it again afterwards; finds no directory once that is gone.
Lease(r) ==
  /\ resolver[r].pc = "lease"
  /\ LET g == resolver[r].gen
     IN \/ /\ build.at # g \/ build.unlinked
           /\ To(r, "confirm")
        \/ gens[g] = "absent" /\ Again(r)
  /\ Keeps /\ Calm

\* Mutant: the leased generation is not confirmed.
ConfirmedOnce(r) == TRUE

Confirmed(r) == pointer = resolver[r].gen

Confirm(r) ==
  /\ resolver[r].pc = "confirm"
  /\ IF Confirmed(r) THEN To(r, "verify") ELSE Again(r)
  /\ Keeps /\ Calm

\* The manifest names the executable and the executable has the digest it names.
VerifyGeneration(r) ==
  /\ resolver[r].pc = "verify"
  /\ IF gens[resolver[r].gen] = "complete" THEN To(r, "held") ELSE Leaves(r)
  /\ Keeps /\ Calm

(***************************************************************************)
(* Resolving a release.                                                    *)
(***************************************************************************)
\* A cached executable is trusted when it still has the digest beside it.
Cached(r) ==
  /\ resolver[r].pc = "cached"
  /\ To(r, IF digest # None /\ file = digest THEN "given" ELSE "manifest")
  /\ Keeps /\ Calm

FetchManifest(r) ==
  /\ resolver[r].pc = "manifest"
  /\ \/ To(r, "download") /\ Calm
     \/ StoreFault /\ Leaves(r)
  /\ Keeps

\* The download goes to a temporary file that is renamed when it has the digest of the
\* manifest, and removed otherwise.
Accepts(content) == content = "good"

Download(r) ==
  /\ resolver[r].pc = "download"
  /\ \/ \E content \in {"good", "damaged"} :
          IF Accepts(content)
          THEN file' = content /\ To(r, "digest")
          ELSE Leaves(r) /\ UNCHANGED file
     \/ Leaves(r) /\ UNCHANGED file
  /\ UNCHANGED <<pointer, gens, build, digest>> /\ Calm

WriteDigest(r) ==
  /\ resolver[r].pc = "digest"
  /\ \/ digest' = "good" /\ To(r, "given") /\ Calm
     \/ StoreFault /\ Leaves(r) /\ UNCHANGED digest
  /\ UNCHANGED <<pointer, gens, build, file>>

\* The caller is done with the executable, or the resolver is cancelled or dies; either
\* gives up the lease.
Release(r) ==
  /\ \/ resolver[r].pc \in {"held", "given"} /\ Calm
     \/ resolver[r].pc # "rest" /\ StoreFault
  /\ Leaves(r)
  /\ Keeps

StoreNext ==
  \/ \E b \in Builders : BeginBuild(b)
  \/ \E g \in Generations : Visit(g) \/ MakeGeneration(g)
  \/ Unlink \/ RemoveFiles \/ RemoveDirectory \/ Compile \/ Publish \/ EndBuild \/ CrashBuild
  \/ \E r \in Resolvers :
       \/ \E pc \in {"pointer", "cached"} : Resolve(r, pc)
       \/ ReadPointer(r) \/ Lease(r) \/ Confirm(r) \/ VerifyGeneration(r)
       \/ Cached(r) \/ FetchManifest(r) \/ Download(r) \/ WriteDigest(r) \/ Release(r)

StoreSpec == StoreInit /\ [][StoreNext]_artVars

-----------------------------------------------------------------------------
(* What was resolved stays what was verified until its caller is done: a     *)
(* leased generation keeps every file whatever builds publish and sweep, and *)
(* a release is replaced at its cached path by a verified copy only          *)
(* (development.go:220-245, artifact.go:179-254, 363-421).                   *)
ResolvedKept ==
  \A r \in Resolvers :
    /\ resolver[r].pc = "held" => gens[resolver[r].gen] = "complete"
    /\ resolver[r].pc = "given" => file = "good"
=============================================================================
