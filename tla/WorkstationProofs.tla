--------------------------- MODULE WorkstationProofs --------------------------
(* What holds on a workstation for any number of builds, generations,        *)
(* resolvers, updaters, releases, checks and faults: first of resolved       *)
(* runtimes, then of the release check and of the update of the executable.  *)
EXTENDS Workstation, TLAPS

ResolverLabels == {"rest", "pointer", "lease", "confirm", "verify", "held", "cached",
                   "manifest", "download", "digest", "given"}
BuildLabels    == {"rest", "sweep", "compile", "publish", "resweep"}
Numbers        == 0..MaxGenerations
ResolverType   == [pc : ResolverLabels, gen : Numbers, tries : Nat]
BuildType      == [by : Builders \cup {None}, pc : BuildLabels, active : Numbers,
                   todo : SUBSET Generations, at : Numbers, unlinked : BOOLEAN,
                   gen : Numbers]
GenStates      == {"absent", "building", "complete", "partial"}

StoreOK ==
  /\ pointer \in Numbers
  /\ gens \in [Generations -> GenStates]
  /\ build \in BuildType
  /\ resolver \in [Resolvers -> ResolverType]

(* A build removes nothing but what was not published when it looked, and while  *)
(* it removes nobody else publishes; what it writes is newer than what is        *)
(* published.                                                                    *)
Builder ==
  /\ build.pc # "rest" => build.active = pointer /\ pointer \notin build.todo
  /\ build.at # 0 => build.pc \in {"sweep", "resweep"} /\ build.at # pointer
  /\ build.pc \in {"compile", "publish"} => build.gen > pointer

(* A confirmed lease is on a generation that was published and is not being      *)
(* removed: a removal that had begun when the lease was confirmed is of another  *)
(* generation than the published one, and a later one finds the lease.           *)
Confirmations ==
  \A r \in Resolvers :
    /\ resolver[r].pc \in {"lease", "confirm", "verify", "held"} => resolver[r].gen # 0
    /\ resolver[r].pc \in {"verify", "held"} =>
         resolver[r].gen # build.at /\ resolver[r].gen \leq pointer

(* Only a verified file is cached, and its digest is written after it.           *)
Downloads ==
  /\ digest \in {None, "good"}
  /\ \A r \in Resolvers : resolver[r].pc \in {"digest", "given"} => file = "good"

(* A generation that is held is complete. *)
Held == \A r \in Resolvers : resolver[r].pc = "held" => gens[resolver[r].gen] = "complete"

StoreInv == StoreOK /\ Builder /\ Confirmations /\ Downloads /\ Held

-----------------------------------------------------------------------------
(* Lemmas on how a resolver moves on, starts again or gives up. *)

LEMMA AsleepType == ASSUME StoreConstants PROVE Asleep \in ResolverType
BY DEF Asleep, ResolverType, ResolverLabels, Numbers, StoreConstants

(* Nobody but r moves. *)
Sole(r) == \A w \in Resolvers \ {r} : resolver'[w] = resolver[w]

LEMMA MovesData ==
    ASSUME StoreOK, NEW r \in Resolvers, NEW rec \in ResolverType,
           resolver' = [resolver EXCEPT ![r] = rec]
    PROVE  resolver' \in [Resolvers -> ResolverType] /\ Sole(r) /\ resolver'[r] = rec
BY DEF StoreOK, Sole

LEMMA ToData ==
    ASSUME StoreOK, NEW r \in Resolvers, NEW pc \in ResolverLabels, To(r, pc)
    PROVE  /\ resolver' \in [Resolvers -> ResolverType] /\ Sole(r)
           /\ resolver'[r].pc = pc /\ resolver'[r].gen = resolver[r].gen
<1> DEFINE rec == [resolver[r] EXCEPT !.pc = pc]
<1>1. resolver[r] \in ResolverType /\ resolver' = [resolver EXCEPT ![r] = rec]
  BY DEF To, StoreOK
<1>2. rec \in ResolverType /\ rec.pc = pc /\ rec.gen = resolver[r].gen
  BY <1>1 DEF ResolverType
<1> HIDE DEF rec
<1> QED BY <1>1, <1>2, MovesData

LEMMA LeavesData ==
    ASSUME StoreConstants, StoreOK, NEW r \in Resolvers, Leaves(r)
    PROVE  /\ resolver' \in [Resolvers -> ResolverType] /\ Sole(r)
           /\ resolver'[r].pc = "rest"
<1>1. Asleep \in ResolverType /\ Asleep.pc = "rest"
  BY AsleepType DEF Asleep
<1> QED BY <1>1, MovesData DEF Leaves

LEMMA AgainData ==
    ASSUME StoreConstants, StoreOK, NEW r \in Resolvers, Again(r)
    PROVE  /\ resolver' \in [Resolvers -> ResolverType] /\ Sole(r)
           /\ resolver'[r].pc \in {"rest", "pointer"}
<1> DEFINE rec == [pc |-> "pointer", gen |-> 0, tries |-> resolver[r].tries + 1]
<1>1. resolver[r].tries \in Nat
  BY DEF StoreOK, ResolverType
<1>2. rec \in ResolverType /\ rec.pc = "pointer"
  BY <1>1 DEF ResolverType, ResolverLabels, Numbers, StoreConstants
<1>3. CASE resolver' = [resolver EXCEPT ![r] = rec]
  <2> HIDE DEF rec
  <2> QED BY <1>2, <1>3, MovesData
<1>4. CASE Leaves(r)
  BY <1>4, LeavesData
<1>5. resolver' = [resolver EXCEPT ![r] = rec] \/ Leaves(r)
  BY DEF Again, StoreOK
<1> QED BY <1>3, <1>4, <1>5

LEMMA LeaseData ==
    ASSUME StoreOK, NEW r \in Resolvers, pointer # 0,
           resolver' = [resolver EXCEPT ![r].pc = "lease", ![r].gen = pointer]
    PROVE  /\ resolver' \in [Resolvers -> ResolverType] /\ Sole(r)
           /\ resolver'[r].pc = "lease" /\ resolver'[r].gen = pointer
<1> DEFINE rec == [resolver[r] EXCEPT !.pc = "lease", !.gen = pointer]
<1>1. resolver[r] \in ResolverType /\ pointer \in Numbers /\ resolver' = [resolver EXCEPT ![r] = rec]
  BY DEF StoreOK
<1>2. rec \in ResolverType /\ rec.pc = "lease" /\ rec.gen = pointer
  BY <1>1 DEF ResolverType, ResolverLabels
<1> HIDE DEF rec
<1> QED BY <1>1, <1>2, MovesData

LEMMA Ranges ==
    ASSUME StoreConstants, StoreOK
    PROVE  /\ pointer \in Nat /\ build.gen \in Nat /\ build.at \in Nat
           /\ \A r \in Resolvers : /\ resolver[r].gen \in Nat
                                   /\ resolver[r].gen # 0 => resolver[r].gen \in Generations
BY DEF StoreConstants, StoreOK, BuildType, ResolverType, Numbers, Generations

(* What nobody holds may change. *)
LEMMA HeldElsewhere ==
    ASSUME StoreConstants, StoreOK, Confirmations, Held, resolver' = resolver,
           NEW x, NEW v, gens' = [gens EXCEPT ![x] = v],
           \A r \in Resolvers : resolver[r].pc = "held" => resolver[r].gen # x
    PROVE  Held'
<1> SUFFICES ASSUME NEW r \in Resolvers, resolver[r].pc = "held"
             PROVE  gens'[resolver[r].gen] = "complete"
  BY DEF Held
<1>1. resolver[r].gen # 0 /\ resolver[r].gen # x
  BY DEF Confirmations
<1>2. resolver[r].gen \in Generations
  BY <1>1, Ranges
<1>3. gens'[resolver[r].gen] = gens[resolver[r].gen]
  BY <1>1, <1>2 DEF StoreOK
<1> QED BY <1>3 DEF Held

(* Lemmas on the records a build passes through. *)

LEMMA NoBuildType ==
    ASSUME StoreConstants
    PROVE  NoBuild \in BuildType /\ NoBuild.pc = "rest" /\ NoBuild.at = 0
BY DEF NoBuild, BuildType, BuildLabels, Numbers, StoreConstants

LEMMA StepData ==
    ASSUME StoreOK, NEW pc \in BuildLabels, Step(pc)
    PROVE  /\ build' \in BuildType /\ build'.pc = pc /\ build'.active = build.active
           /\ build'.at = build.at /\ build'.gen = build.gen /\ build'.todo = build.todo
BY DEF StoreOK, Step, Builds, BuildType

LEMMA VisitData ==
    ASSUME StoreConstants, StoreOK, NEW g \in Generations, Visit(g)
    PROVE  /\ build' \in BuildType /\ build'.pc = build.pc /\ build'.active = build.active
           /\ build'.gen = build.gen /\ build'.todo = build.todo \ {g}
           /\ build'.at = 0 \/ (build'.at = g /\ ~Leased(g))
<1> DEFINE place == IF Busy(g) THEN 0 ELSE g
<1>1. place \in Numbers /\ (place = 0 \/ (place = g /\ ~Leased(g)))
  BY DEF Busy, Numbers, Generations, StoreConstants
<1>2. build' = [build EXCEPT !.todo = build.todo \ {g}, !.at = place]
  BY DEF Visit, Builds
<1> HIDE DEF place
<1>3. build \in BuildType /\ build.todo \ {g} \in SUBSET Generations
  BY DEF StoreOK, BuildType
<1> QED BY <1>1, <1>2, <1>3 DEF BuildType

LEMMA MakeData ==
    ASSUME StoreConstants, StoreOK, NEW g \in Generations, MakeGeneration(g)
    PROVE  /\ build' \in BuildType /\ build'.pc = "compile" /\ build'.active = build.active
           /\ build'.at = build.at /\ build'.gen = g /\ build'.todo = build.todo
<1>1. build \in BuildType /\ g \in Numbers /\ build' = [build EXCEPT !.pc = "compile", !.gen = g]
  BY DEF StoreOK, MakeGeneration, Builds, Numbers, Generations, StoreConstants
<1> QED BY <1>1 DEF BuildType, BuildLabels

LEMMA RemoveData ==
    ASSUME StoreConstants, StoreOK, Builds([build EXCEPT !.at = 0, !.unlinked = FALSE])
    PROVE  /\ build' \in BuildType /\ build'.pc = build.pc /\ build'.active = build.active
           /\ build'.at = 0 /\ build'.gen = build.gen /\ build'.todo = build.todo
<1>1. build \in BuildType /\ 0 \in Numbers
  BY DEF StoreOK, Numbers, StoreConstants
<1> QED BY <1>1 DEF BuildType, Builds

LEMMA PublishData ==
    ASSUME StoreOK, Builds([build EXCEPT !.pc = "resweep", !.active = build.gen,
                                         !.todo = Others(build.gen)])
    PROVE  /\ build' \in BuildType /\ build'.pc = "resweep" /\ build'.active = build.gen
           /\ build'.at = build.at /\ build'.gen = build.gen /\ build.gen \in Numbers
           /\ build'.todo = Others(build.gen)
<1>1. build \in BuildType /\ Others(build.gen) \in SUBSET Generations
  BY DEF StoreOK, Others
<1> QED BY <1>1 DEF BuildType, BuildLabels, Builds

-----------------------------------------------------------------------------
(* Every step keeps the types. *)
LEMMA StoreDataStep ==
    ASSUME StoreConstants, StoreOK, StoreNext
    PROVE  StoreOK'
<1>1. ASSUME NEW b \in Builders, BeginBuild(b) PROVE StoreOK'
  BY <1>1 DEF BeginBuild, StoreOK, Builds, NoBuild, Others, BuildType, BuildLabels, Numbers,
     StoreConstants
<1>2. ASSUME NEW g \in Generations, Visit(g) PROVE StoreOK'
  BY <1>2, VisitData DEF Visit, StoreOK, Leased
<1>3. ASSUME NEW g \in Generations, MakeGeneration(g) PROVE StoreOK'
  BY <1>3, MakeData DEF MakeGeneration, StoreOK, GenStates
<1>4. CASE Unlink
  BY <1>4 DEF Unlink, StoreOK, Builds, BuildType
<1>5. CASE RemoveFiles
  BY <1>5 DEF RemoveFiles, StoreOK, Builds, GenStates
<1>6. CASE RemoveDirectory
  BY <1>6, RemoveData, NoBuildType DEF RemoveDirectory, StoreOK, Builds, GenStates
<1>7. CASE Compile
  BY <1>7, StepData, NoBuildType DEF Compile, StoreOK, Builds, GenStates, BuildLabels
<1>8. CASE Publish
  BY <1>8, PublishData, NoBuildType DEF Publish, StoreOK, Builds, Others, GenStates
<1>9. CASE EndBuild
  BY <1>9, NoBuildType DEF EndBuild, StoreOK, Builds
<1>10. CASE CrashBuild
  BY <1>10, NoBuildType DEF CrashBuild, StoreOK, Builds
<1>11. ASSUME NEW r \in Resolvers, NEW pc \in {"pointer", "cached"}, Resolve(r, pc)
       PROVE  StoreOK'
  BY <1>11, ToData DEF Resolve, StoreOK, Keeps, ResolverLabels
<1>12. ASSUME NEW r \in Resolvers, ReadPointer(r) PROVE StoreOK'
  BY <1>12, LeaseData, LeavesData DEF ReadPointer, StoreOK, Keeps, ResolverLabels
<1>13. ASSUME NEW r \in Resolvers, Lease(r) PROVE StoreOK'
  BY <1>13, ToData, AgainData DEF Lease, StoreOK, Keeps, ResolverLabels
<1>14. ASSUME NEW r \in Resolvers, Confirm(r) PROVE StoreOK'
  BY <1>14, ToData, AgainData DEF Confirm, StoreOK, Keeps, Confirmed, ResolverLabels
<1>15. ASSUME NEW r \in Resolvers, VerifyGeneration(r) PROVE StoreOK'
  BY <1>15, ToData, LeavesData DEF VerifyGeneration, StoreOK, Keeps, ResolverLabels
<1>16. ASSUME NEW r \in Resolvers, Cached(r) PROVE StoreOK'
  BY <1>16, ToData DEF Cached, StoreOK, Keeps, ResolverLabels
<1>17. ASSUME NEW r \in Resolvers, FetchManifest(r) PROVE StoreOK'
  BY <1>17, ToData, LeavesData DEF FetchManifest, StoreOK, Keeps, ResolverLabels
<1>18. ASSUME NEW r \in Resolvers, Download(r) PROVE StoreOK'
  BY <1>18, ToData, LeavesData DEF Download, StoreOK, Accepts, ResolverLabels
<1>19. ASSUME NEW r \in Resolvers, WriteDigest(r) PROVE StoreOK'
  BY <1>19, ToData, LeavesData DEF WriteDigest, StoreOK, ResolverLabels
<1>20. ASSUME NEW r \in Resolvers, Release(r) PROVE StoreOK'
  BY <1>20, LeavesData DEF Release, StoreOK, Keeps, ResolverLabels
<1> QED BY <1>1, <1>2, <1>3, <1>4, <1>5, <1>6, <1>7, <1>8, <1>9, <1>10, <1>11, <1>12, <1>13,
   <1>14, <1>15, <1>16, <1>17, <1>18, <1>19, <1>20 DEF StoreNext

(* Nobody but the build publishes, and it sweeps after that. *)
LEMMA BuilderStep ==
    ASSUME StoreConstants, StoreOK, Builder, StoreNext
    PROVE  Builder'
<1>1. ASSUME NEW b \in Builders, BeginBuild(b) PROVE Builder'
  BY <1>1 DEF BeginBuild, StoreOK, Builder, Builds, NoBuild, Others, Generations
<1>2. ASSUME NEW g \in Generations, Visit(g) PROVE Builder'
  BY <1>2, VisitData DEF Visit, StoreOK, Builder, Leased, Generations
<1>3. ASSUME NEW g \in Generations, MakeGeneration(g) PROVE Builder'
  BY <1>3, MakeData DEF MakeGeneration, StoreOK, Builder
<1>4. CASE Unlink
  BY <1>4 DEF Unlink, StoreOK, Builder, Builds, BuildType
<1>5. CASE RemoveFiles
  BY <1>5 DEF RemoveFiles, StoreOK, Builder, Builds
<1>6. CASE RemoveDirectory
  BY <1>6, RemoveData, NoBuildType DEF RemoveDirectory, StoreOK, Builder, Builds
<1>7. CASE Compile
  BY <1>7, StepData, NoBuildType DEF Compile, StoreOK, Builder, Builds, BuildLabels
<1>8. CASE Publish
  BY <1>8, PublishData, NoBuildType DEF Publish, StoreOK, Builder, Builds, Others, Numbers
<1>9. CASE EndBuild
  BY <1>9, NoBuildType DEF EndBuild, StoreOK, Builder, Builds
<1>10. CASE CrashBuild
  BY <1>10, NoBuildType DEF CrashBuild, StoreOK, Builder, Builds
<1>11. ASSUME NEW r \in Resolvers, NEW pc \in {"pointer", "cached"}, Resolve(r, pc)
       PROVE  Builder'
  BY <1>11, ToData DEF Resolve, StoreOK, Builder, Keeps, ResolverLabels, Sole
<1>12. ASSUME NEW r \in Resolvers, ReadPointer(r) PROVE Builder'
  BY <1>12, LeaseData, LeavesData DEF ReadPointer, StoreOK, Builder, Keeps, ResolverLabels,
     Sole
<1>13. ASSUME NEW r \in Resolvers, Lease(r) PROVE Builder'
  BY <1>13, ToData, AgainData DEF Lease, StoreOK, Builder, Keeps, ResolverLabels, Sole
<1>14. ASSUME NEW r \in Resolvers, Confirm(r) PROVE Builder'
  BY <1>14, ToData, AgainData DEF Confirm, StoreOK, Builder, Keeps, Confirmed,
     ResolverLabels, Sole
<1>15. ASSUME NEW r \in Resolvers, VerifyGeneration(r) PROVE Builder'
  BY <1>15, ToData, LeavesData DEF VerifyGeneration, StoreOK, Builder, Keeps,
     ResolverLabels, Sole
<1>16. ASSUME NEW r \in Resolvers, Cached(r) PROVE Builder'
  BY <1>16, ToData DEF Cached, StoreOK, Builder, Keeps, ResolverLabels, Sole
<1>17. ASSUME NEW r \in Resolvers, FetchManifest(r) PROVE Builder'
  BY <1>17, ToData, LeavesData DEF FetchManifest, StoreOK, Builder, Keeps, ResolverLabels,
     Sole
<1>18. ASSUME NEW r \in Resolvers, Download(r) PROVE Builder'
  BY <1>18, ToData, LeavesData DEF Download, StoreOK, Builder, Accepts, ResolverLabels,
     Sole
<1>19. ASSUME NEW r \in Resolvers, WriteDigest(r) PROVE Builder'
  BY <1>19, ToData, LeavesData DEF WriteDigest, StoreOK, Builder, ResolverLabels, Sole
<1>20. ASSUME NEW r \in Resolvers, Release(r) PROVE Builder'
  BY <1>20, LeavesData DEF Release, StoreOK, Builder, Keeps, ResolverLabels, Sole
<1> QED BY <1>1, <1>2, <1>3, <1>4, <1>5, <1>6, <1>7, <1>8, <1>9, <1>10, <1>11, <1>12, <1>13,
   <1>14, <1>15, <1>16, <1>17, <1>18, <1>19, <1>20 DEF StoreNext

(* A lease is confirmed on what is published, and then no sweep begins on it. *)
LEMMA ConfirmationsStep ==
    ASSUME StoreConstants, StoreOK, Builder, Confirmations, StoreNext
    PROVE  Confirmations'
<1>1. ASSUME NEW b \in Builders, BeginBuild(b) PROVE Confirmations'
  BY <1>1 DEF BeginBuild, StoreOK, Builder, Confirmations, Builds, NoBuild, Others
<1>2. ASSUME NEW g \in Generations, Visit(g) PROVE Confirmations'
  BY <1>2, VisitData DEF Visit, StoreOK, Builder, Confirmations, Leased, Generations
<1>3. ASSUME NEW g \in Generations, MakeGeneration(g) PROVE Confirmations'
  BY <1>3, MakeData DEF MakeGeneration, StoreOK, Builder, Confirmations
<1>4. CASE Unlink
  BY <1>4 DEF Unlink, StoreOK, Builder, Confirmations, Builds, BuildType
<1>5. CASE RemoveFiles
  BY <1>5 DEF RemoveFiles, StoreOK, Builder, Confirmations, Builds
<1>6. CASE RemoveDirectory
  BY <1>6, RemoveData, NoBuildType DEF RemoveDirectory, StoreOK, Builder, Confirmations,
     Builds
<1>7. CASE Compile
  BY <1>7, StepData, NoBuildType DEF Compile, StoreOK, Builder, Confirmations, Builds,
     BuildLabels
<1>8. CASE Publish
  BY <1>8, PublishData, NoBuildType, Ranges DEF Publish, StoreOK, Builder, Confirmations,
     Builds, Others, Numbers, ResolverType
<1>9. CASE EndBuild
  BY <1>9, NoBuildType DEF EndBuild, StoreOK, Builder, Confirmations, Builds
<1>10. CASE CrashBuild
  BY <1>10, NoBuildType DEF CrashBuild, StoreOK, Builder, Confirmations, Builds
<1>11. ASSUME NEW r \in Resolvers, NEW pc \in {"pointer", "cached"}, Resolve(r, pc)
       PROVE  Confirmations'
  BY <1>11, ToData DEF Resolve, StoreOK, Builder, Confirmations, Keeps, ResolverLabels,
     Sole
<1>12. ASSUME NEW r \in Resolvers, ReadPointer(r) PROVE Confirmations'
  BY <1>12, LeaseData, LeavesData DEF ReadPointer, StoreOK, Builder, Confirmations, Keeps,
     ResolverLabels, Sole
<1>13. ASSUME NEW r \in Resolvers, Lease(r) PROVE Confirmations'
  BY <1>13, ToData, AgainData DEF Lease, StoreOK, Builder, Confirmations, Keeps,
     ResolverLabels, Sole
<1>14. ASSUME NEW r \in Resolvers, Confirm(r) PROVE Confirmations'
  BY <1>14, ToData, AgainData, Ranges DEF Confirm, StoreOK, Builder, Confirmations, Keeps,
     Confirmed, ResolverLabels, Sole
<1>15. ASSUME NEW r \in Resolvers, VerifyGeneration(r) PROVE Confirmations'
  BY <1>15, ToData, LeavesData DEF VerifyGeneration, StoreOK, Builder, Confirmations, Keeps,
     ResolverLabels, Sole
<1>16. ASSUME NEW r \in Resolvers, Cached(r) PROVE Confirmations'
  BY <1>16, ToData DEF Cached, StoreOK, Builder, Confirmations, Keeps, ResolverLabels, Sole
<1>17. ASSUME NEW r \in Resolvers, FetchManifest(r) PROVE Confirmations'
  BY <1>17, ToData, LeavesData DEF FetchManifest, StoreOK, Builder, Confirmations, Keeps,
     ResolverLabels, Sole
<1>18. ASSUME NEW r \in Resolvers, Download(r) PROVE Confirmations'
  BY <1>18, ToData, LeavesData DEF Download, StoreOK, Builder, Confirmations, Accepts,
     ResolverLabels, Sole
<1>19. ASSUME NEW r \in Resolvers, WriteDigest(r) PROVE Confirmations'
  BY <1>19, ToData, LeavesData DEF WriteDigest, StoreOK, Builder, Confirmations,
     ResolverLabels, Sole
<1>20. ASSUME NEW r \in Resolvers, Release(r) PROVE Confirmations'
  BY <1>20, LeavesData DEF Release, StoreOK, Builder, Confirmations, Keeps, ResolverLabels,
     Sole
<1> QED BY <1>1, <1>2, <1>3, <1>4, <1>5, <1>6, <1>7, <1>8, <1>9, <1>10, <1>11, <1>12, <1>13,
   <1>14, <1>15, <1>16, <1>17, <1>18, <1>19, <1>20 DEF StoreNext

(* A file that does not verify is never renamed into the cache. *)
LEMMA DownloadsStep ==
    ASSUME StoreConstants, StoreOK, Downloads, StoreNext
    PROVE  Downloads'
<1>1. ASSUME NEW b \in Builders, BeginBuild(b) PROVE Downloads'
  BY <1>1 DEF BeginBuild, StoreOK, Downloads, None, Builds, NoBuild, Others
<1>2. ASSUME NEW g \in Generations, Visit(g) PROVE Downloads'
  BY <1>2, VisitData DEF Visit, StoreOK, Downloads, None, Leased
<1>3. ASSUME NEW g \in Generations, MakeGeneration(g) PROVE Downloads'
  BY <1>3, MakeData DEF MakeGeneration, StoreOK, Downloads, None
<1>4. CASE Unlink
  BY <1>4 DEF Unlink, StoreOK, Downloads, None, Builds
<1>5. CASE RemoveFiles
  BY <1>5 DEF RemoveFiles, StoreOK, Downloads, None, Builds
<1>6. CASE RemoveDirectory
  BY <1>6, RemoveData, NoBuildType DEF RemoveDirectory, StoreOK, Downloads, None, Builds
<1>7. CASE Compile
  BY <1>7, StepData, NoBuildType DEF Compile, StoreOK, Downloads, None, Builds
<1>8. CASE Publish
  BY <1>8, PublishData, NoBuildType DEF Publish, StoreOK, Downloads, None, Builds, Others
<1>9. CASE EndBuild
  BY <1>9, NoBuildType DEF EndBuild, StoreOK, Downloads, None, Builds
<1>10. CASE CrashBuild
  BY <1>10, NoBuildType DEF CrashBuild, StoreOK, Downloads, None, Builds
<1>11. ASSUME NEW r \in Resolvers, NEW pc \in {"pointer", "cached"}, Resolve(r, pc)
       PROVE  Downloads'
  BY <1>11, ToData DEF Resolve, StoreOK, Downloads, None, Keeps, ResolverLabels, Sole
<1>12. ASSUME NEW r \in Resolvers, ReadPointer(r) PROVE Downloads'
  BY <1>12, LeaseData, LeavesData DEF ReadPointer, StoreOK, Downloads, None, Keeps,
     ResolverLabels, Sole
<1>13. ASSUME NEW r \in Resolvers, Lease(r) PROVE Downloads'
  BY <1>13, ToData, AgainData DEF Lease, StoreOK, Downloads, None, Keeps, ResolverLabels,
     Sole
<1>14. ASSUME NEW r \in Resolvers, Confirm(r) PROVE Downloads'
  BY <1>14, ToData, AgainData DEF Confirm, StoreOK, Downloads, None, Keeps, Confirmed,
     ResolverLabels, Sole
<1>15. ASSUME NEW r \in Resolvers, VerifyGeneration(r) PROVE Downloads'
  BY <1>15, ToData, LeavesData DEF VerifyGeneration, StoreOK, Downloads, None, Keeps,
     ResolverLabels, Sole
<1>16. ASSUME NEW r \in Resolvers, Cached(r) PROVE Downloads'
  BY <1>16, ToData DEF Cached, StoreOK, Downloads, None, Keeps, ResolverLabels, Sole
<1>17. ASSUME NEW r \in Resolvers, FetchManifest(r) PROVE Downloads'
  BY <1>17, ToData, LeavesData DEF FetchManifest, StoreOK, Downloads, None, Keeps,
     ResolverLabels, Sole
<1>18. ASSUME NEW r \in Resolvers, Download(r) PROVE Downloads'
  BY <1>18, ToData, LeavesData DEF Download, StoreOK, Downloads, None, Accepts,
     ResolverLabels, Sole
<1>19. ASSUME NEW r \in Resolvers, WriteDigest(r) PROVE Downloads'
  BY <1>19, ToData, LeavesData DEF WriteDigest, StoreOK, Downloads, None, ResolverLabels,
     Sole
<1>20. ASSUME NEW r \in Resolvers, Release(r) PROVE Downloads'
  BY <1>20, LeavesData DEF Release, StoreOK, Downloads, None, Keeps, ResolverLabels, Sole
<1> QED BY <1>1, <1>2, <1>3, <1>4, <1>5, <1>6, <1>7, <1>8, <1>9, <1>10, <1>11, <1>12, <1>13,
   <1>14, <1>15, <1>16, <1>17, <1>18, <1>19, <1>20 DEF StoreNext

(* What changes in a generation changes where nobody holds it. *)
LEMMA HeldStep ==
    ASSUME StoreConstants, StoreOK, Builder, Confirmations, Held, StoreNext
    PROVE  Held'
<1>1. ASSUME NEW b \in Builders, BeginBuild(b) PROVE Held'
  BY <1>1 DEF BeginBuild, StoreOK, Builder, Confirmations, Held, Builds, NoBuild, Others
<1>2. ASSUME NEW g \in Generations, Visit(g) PROVE Held'
  BY <1>2, VisitData DEF Visit, StoreOK, Builder, Confirmations, Held, Leased
<1>3. ASSUME NEW g \in Generations, MakeGeneration(g) PROVE Held'
  <2>1. \A r \in Resolvers : resolver[r].pc = "held" => resolver[r].gen # g
    BY <1>3 DEF MakeGeneration, Held
  <2> QED BY <1>3, <2>1, HeldElsewhere DEF MakeGeneration
<1>4. CASE Unlink
  BY <1>4 DEF Unlink, StoreOK, Builder, Confirmations, Held, Builds
<1>5. CASE RemoveFiles
  BY <1>5 DEF RemoveFiles, StoreOK, Builder, Confirmations, Held, Builds
<1>6. CASE RemoveDirectory
  <2>1. \A r \in Resolvers : resolver[r].pc = "held" => resolver[r].gen # build.at
    BY DEF Confirmations
  <2> QED BY <1>6, <2>1, HeldElsewhere DEF RemoveDirectory, Held
<1>7. CASE Compile
  <2>1. \A r \in Resolvers : resolver[r].pc = "held" => resolver[r].gen # build.gen
    BY <1>7, Ranges DEF Compile, Builder, Confirmations
  <2> QED BY <1>7, <2>1, HeldElsewhere DEF Compile
<1>8. CASE Publish
  <2>1. \A r \in Resolvers : resolver[r].pc = "held" => resolver[r].gen # build.gen
    BY <1>8, Ranges DEF Publish, Builder, Confirmations
  <2> QED BY <1>8, <2>1, HeldElsewhere DEF Publish, Held
<1>9. CASE EndBuild
  BY <1>9, NoBuildType DEF EndBuild, StoreOK, Builder, Confirmations, Held, Builds
<1>10. CASE CrashBuild
  BY <1>10, NoBuildType DEF CrashBuild, StoreOK, Builder, Confirmations, Held, Builds
<1>11. ASSUME NEW r \in Resolvers, NEW pc \in {"pointer", "cached"}, Resolve(r, pc)
       PROVE  Held'
  BY <1>11, ToData DEF Resolve, StoreOK, Builder, Confirmations, Held, Keeps,
     ResolverLabels, Sole
<1>12. ASSUME NEW r \in Resolvers, ReadPointer(r) PROVE Held'
  BY <1>12, LeaseData, LeavesData DEF ReadPointer, StoreOK, Builder, Confirmations, Held,
     Keeps, ResolverLabels, Sole
<1>13. ASSUME NEW r \in Resolvers, Lease(r) PROVE Held'
  BY <1>13, ToData, AgainData DEF Lease, StoreOK, Builder, Confirmations, Held, Keeps,
     ResolverLabels, Sole
<1>14. ASSUME NEW r \in Resolvers, Confirm(r) PROVE Held'
  BY <1>14, ToData, AgainData DEF Confirm, StoreOK, Builder, Confirmations, Held, Keeps,
     Confirmed, ResolverLabels, Sole
<1>15. ASSUME NEW r \in Resolvers, VerifyGeneration(r) PROVE Held'
  BY <1>15, ToData, LeavesData DEF VerifyGeneration, StoreOK, Builder, Confirmations, Held,
     Keeps, ResolverLabels, Sole
<1>16. ASSUME NEW r \in Resolvers, Cached(r) PROVE Held'
  BY <1>16, ToData DEF Cached, StoreOK, Builder, Confirmations, Held, Keeps, ResolverLabels,
     Sole
<1>17. ASSUME NEW r \in Resolvers, FetchManifest(r) PROVE Held'
  BY <1>17, ToData, LeavesData DEF FetchManifest, StoreOK, Builder, Confirmations, Held,
     Keeps, ResolverLabels, Sole
<1>18. ASSUME NEW r \in Resolvers, Download(r) PROVE Held'
  BY <1>18, ToData, LeavesData DEF Download, StoreOK, Builder, Confirmations, Held, Accepts,
     ResolverLabels, Sole
<1>19. ASSUME NEW r \in Resolvers, WriteDigest(r) PROVE Held'
  BY <1>19, ToData, LeavesData DEF WriteDigest, StoreOK, Builder, Confirmations, Held,
     ResolverLabels, Sole
<1>20. ASSUME NEW r \in Resolvers, Release(r) PROVE Held'
  BY <1>20, LeavesData DEF Release, StoreOK, Builder, Confirmations, Held, Keeps,
     ResolverLabels, Sole
<1> QED BY <1>1, <1>2, <1>3, <1>4, <1>5, <1>6, <1>7, <1>8, <1>9, <1>10, <1>11, <1>12, <1>13,
   <1>14, <1>15, <1>16, <1>17, <1>18, <1>19, <1>20 DEF StoreNext

LEMMA InitStoreInv == ASSUME StoreConstants PROVE StoreInit => StoreInv
<1> SUFFICES ASSUME StoreInit PROVE StoreInv
  OBVIOUS
<1>1. StoreOK
  BY AsleepType DEF StoreInit, StoreOK, NoBuild, BuildType, BuildLabels, Numbers, GenStates, StoreConstants
<1>2. \A r \in Resolvers : resolver[r].pc = "rest"
  BY DEF StoreInit, Asleep
<1>3. build.pc = "rest" /\ build.at = 0
  BY DEF StoreInit, NoBuild
<1>4. digest \in {None, "good"}
  BY DEF StoreInit
<1> QED BY <1>1, <1>2, <1>3, <1>4 DEF StoreInv, Builder, Confirmations, Downloads, Held

LEMMA StepStoreInv == ASSUME StoreConstants, StoreInv, [StoreNext]_artVars PROVE StoreInv'
<1>1. CASE StoreNext
  BY <1>1, StoreDataStep, BuilderStep, ConfirmationsStep, DownloadsStep, HeldStep DEF StoreInv
<1>2. CASE UNCHANGED artVars
  BY <1>2 DEF artVars, StoreInv, StoreOK, Builder, Confirmations, Downloads, Held
<1> QED BY <1>1, <1>2

(* However many builds publish and sweep generations, and however many downloads    *)
(* replace the cached release, what was resolved stays what was verified until its  *)
(* caller is done (development.go:220-245, artifact.go:179-254, 363-421).           *)
THEOREM Kept == Spec => []ResolvedKept
<1>1. StoreConstants
  BY WorkstationConstants
<1>2. Init => StoreInv
  BY <1>1, InitStoreInv DEF Init
<1>3. [Next]_vars => [StoreNext]_artVars
  BY DEF Next, Updates, Stores, Runs, Clones, vars
<1>4. StoreInv /\ [Next]_vars => StoreInv'
  BY <1>1, <1>3, StepStoreInv
<1>5. StoreInv => ResolvedKept
  BY DEF StoreInv, Held, Downloads, ResolvedKept
<1> QED BY <1>2, <1>4, <1>5, PTL DEF Spec

-----------------------------------------------------------------------------
(* What is stored and what an updater knows, of what the proof speaks of. *)
CacheType == [latest : Nat, tag : Nat, fresh : BOOLEAN]
LockType  == [holder : Updaters \cup {Nobody, Dead}, owner : BOOLEAN]
Labels    == {"rest", "claim", "claimAgain", "retire", "recheck", "ask", "save", "resolve",
              "lock", "own", "refused", "classify", "stage", "identify", "revalidate",
              "revalidateReceipt", "promote", "receipt"}
Updater   == [pc : Labels, mode : Modes, mine : Nat, cache : CacheType, found : Nat,
              direct : BOOLEAN, base : Nat, vouched : Nat]

DataOK ==
  /\ exe \in Nat /\ receipt \in Nat
  /\ lock \in LockType
  /\ cache \in CacheType
  /\ server \in [latest : Nat, sound : BOOLEAN, tag : Nat \ {0}]
  /\ upd \in [Updaters -> Updater]

(* A cache that carries the tag the server offers holds what the server offers, *)
(* and no cache is ahead of the server.                                         *)
Faithful(c) ==
  /\ c.tag \leq server.tag
  /\ c.tag = server.tag => server.sound /\ c.latest = server.latest

CachesFaithful == Faithful(cache) /\ \A u \in Updaters : Faithful(upd[u].cache)

(* An updater past the lock is the one the lock names. *)
Holding   == {"own", "classify", "stage", "identify", "revalidate", "revalidateReceipt",
              "promote", "receipt"}
HoldsLock == \A u \in Updaters : upd[u].pc \in Holding => lock.holder = u

(* An updater has found nothing before it is answered; on its way to the       *)
(* rename it found a newer release than the one it runs, and from its classification on it works from the executable it runs.  *)
Updating   == {"resolve", "lock"} \cup Holding
Classified == {"stage", "identify", "revalidate", "revalidateReceipt", "promote"}
Asking     == {"rest", "claim", "claimAgain", "retire", "recheck", "ask"}
Progress ==
  \A u \in Updaters :
    /\ upd[u].pc \in Asking => upd[u].found = 0
    /\ upd[u].pc \in Updating => upd[u].found > upd[u].mine
    /\ upd[u].pc \in Classified => upd[u].base = upd[u].mine

(* Between its last look at the executable and the rename nobody but a build   *)
(* from source can have replaced it: whoever else does so takes the lock.      *)
Unreplaced ==
  \A u \in Updaters :
    upd[u].pc \in {"revalidateReceipt", "promote"} => exe \in {upd[u].base, 0}

IInv == DataOK /\ CachesFaithful /\ HoldsLock /\ Progress /\ Unreplaced

-----------------------------------------------------------------------------
(* Lemmas on how an updater moves on and how it returns. *)

LEMMA RestType == Rest \in Updater
BY DEF Rest, NoCache, Updater, CacheType, Labels, Modes

(* The locks and caches that a step writes are locks and caches. *)
LEMMA Stored ==
    ASSUME DataOK
    PROVE  /\ Free \in LockType
           /\ \A u \in Updaters : [holder |-> u, owner |-> FALSE] \in LockType
           /\ [lock EXCEPT !.owner = TRUE] \in LockType
           /\ [lock EXCEPT !.holder = Dead] \in LockType
           /\ [lock EXCEPT !.owner = TRUE].holder = lock.holder
           /\ LET c == [cache EXCEPT !.fresh = FALSE]
              IN c \in CacheType /\ c.latest = cache.latest /\ c.tag = cache.tag
<1>1. \A l \in LockType : /\ [l EXCEPT !.owner = TRUE] \in LockType
                          /\ [l EXCEPT !.owner = TRUE].holder = l.holder
                          /\ [l EXCEPT !.holder = Dead] \in LockType
  BY DEF LockType
<1>2. \A c \in CacheType : LET d == [c EXCEPT !.fresh = FALSE]
                           IN d \in CacheType /\ d.latest = c.latest /\ d.tag = c.tag
  BY DEF CacheType
<1>3. /\ Free \in LockType
      /\ \A u \in Updaters : [holder |-> u, owner |-> FALSE] \in LockType
  BY DEF Free, LockType
<1> QED BY <1>1, <1>2, <1>3 DEF DataOK

LEMMA Known ==
    ASSUME DataOK, NEW u \in Updaters
    PROVE  /\ upd[u] \in Updater /\ upd[u].cache \in CacheType
           /\ upd[u].found \in Nat /\ upd[u].mine \in Nat /\ upd[u].base \in Nat
           /\ upd[u].cache.tag \in Nat /\ cache.tag \in Nat /\ server.tag \in Nat \ {0}
BY DEF DataOK, Updater, CacheType

(* Nobody but u moves. *)
Alone(u) == \A w \in Updaters \ {u} : upd'[w] = upd[w]

LEMMA GoesData ==
    ASSUME DataOK, NEW u \in Updaters, NEW pc \in Labels, Goes(u, pc)
    PROVE  /\ upd' \in [Updaters -> Updater] /\ Alone(u)
           /\ upd'[u].pc = pc /\ upd'[u].cache = upd[u].cache
           /\ upd'[u].found = upd[u].found /\ upd'[u].mine = upd[u].mine
           /\ upd'[u].base = upd[u].base
<1>1. [upd[u] EXCEPT !.pc = pc] \in Updater
  BY DEF DataOK, Updater
<1>2. upd' = [upd EXCEPT ![u] = [upd[u] EXCEPT !.pc = pc]]
  BY DEF DataOK, Goes
<1>3. upd[u] \in Updater /\ upd'[u] = [upd[u] EXCEPT !.pc = pc]
  BY <1>2 DEF DataOK
<1>4. /\ upd'[u].pc = pc /\ upd'[u].cache = upd[u].cache
      /\ upd'[u].found = upd[u].found /\ upd'[u].mine = upd[u].mine
      /\ upd'[u].base = upd[u].base
  BY <1>3 DEF Updater
<1> QED BY <1>1, <1>2, <1>4 DEF DataOK, Alone

LEMMA RestData ==
    ASSUME DataOK, NEW u \in Updaters, upd' = [upd EXCEPT ![u] = Rest]
    PROVE  /\ upd' \in [Updaters -> Updater] /\ Alone(u)
           /\ upd'[u].pc = "rest" /\ upd'[u].cache.tag = 0 /\ upd'[u].found = 0
BY RestType DEF DataOK, Alone, Rest, NoCache

LEMMA ReturnData ==
    ASSUME DataOK, NEW u \in Updaters, Return(u)
    PROVE  /\ upd' \in [Updaters -> Updater] /\ Alone(u)
           /\ upd'[u].pc = "rest" /\ upd'[u].cache.tag = 0 /\ upd'[u].found = 0
           /\ lock' \in LockType /\ (lock.holder = u \/ lock' = lock)
<1>1. upd' = [upd EXCEPT ![u] = Rest]
  BY DEF Return
<1>2. lock' = IF lock.holder = u /\ lock.owner THEN Free ELSE lock
  BY DEF Return, LeaveLock
<1> QED BY <1>1, <1>2, RestData, Stored DEF DataOK

LEMMA StartData ==
    ASSUME DataOK, NEW u \in Updaters, NEW mode \in Modes, Start(u, mode)
    PROVE  /\ upd' \in [Updaters -> Updater] /\ Alone(u)
           /\ upd'[u].pc \in {"claim", "ask"} /\ upd'[u].cache = cache
           /\ upd'[u].found = 0
<1> DEFINE rec == [Rest EXCEPT !.pc = IF mode = "automatic" THEN "claim" ELSE "ask",
                    !.mode = mode, !.mine = exe, !.cache = cache,
                    !.direct = mode # "automatic" /\ Direct(exe)]
<1>1. upd' = [upd EXCEPT ![u] = rec]
  BY DEF Start
<1>2. exe \in Nat /\ cache \in CacheType
  BY DEF DataOK
<1>3. rec \in Updater /\ rec.pc \in {"claim", "ask"} /\ rec.cache = cache /\ rec.found = 0
  BY <1>2 DEF Updater, Rest, Labels
<1> HIDE DEF rec
<1> QED BY <1>1, <1>3 DEF DataOK, Alone

LEMMA RecheckData ==
    ASSUME DataOK, NEW u \in Updaters,
           upd' = [upd EXCEPT ![u].cache = cache, ![u].pc = "ask"]
    PROVE  /\ upd' \in [Updaters -> Updater] /\ Alone(u)
           /\ upd'[u].pc = "ask" /\ upd'[u].cache = cache /\ upd'[u].found = upd[u].found
<1> DEFINE rec == [upd[u] EXCEPT !.cache = cache, !.pc = "ask"]
<1>1. ASSUME NEW a \in Updater, NEW c \in CacheType
      PROVE  LET b == [a EXCEPT !.cache = c, !.pc = "ask"]
             IN b \in Updater /\ b.pc = "ask" /\ b.cache = c /\ b.found = a.found
  BY DEF Updater, Labels
<1>2. upd \in [Updaters -> Updater] /\ upd[u] \in Updater /\ cache \in CacheType
  BY DEF DataOK
<1>3. rec \in Updater /\ rec.pc = "ask" /\ rec.cache = cache /\ rec.found = upd[u].found
  BY ONLY <1>1, <1>2
<1>4. upd' = [upd EXCEPT ![u] = rec]
  OBVIOUS
<1> HIDE DEF rec
<1>5. upd' \in [Updaters -> Updater] /\ Alone(u) /\ upd'[u] = rec
  BY <1>2, <1>3, <1>4 DEF Alone
<1> QED BY <1>3, <1>5

LEMMA ClassifyData ==
    ASSUME DataOK, NEW u \in Updaters,
           upd' = [upd EXCEPT ![u].pc = "stage", ![u].base = exe, ![u].vouched = receipt]
    PROVE  /\ upd' \in [Updaters -> Updater] /\ Alone(u)
           /\ upd'[u].pc = "stage" /\ upd'[u].cache = upd[u].cache
           /\ upd'[u].found = upd[u].found /\ upd'[u].mine = upd[u].mine
           /\ upd'[u].base = exe
<1> DEFINE rec == [upd[u] EXCEPT !.pc = "stage", !.base = exe, !.vouched = receipt]
<1>1. /\ upd[u] \in Updater /\ exe \in Nat /\ receipt \in Nat
      /\ upd' = [upd EXCEPT ![u] = rec]
  BY DEF DataOK
<1>2. /\ rec \in Updater /\ rec.pc = "stage" /\ rec.cache = upd[u].cache
      /\ rec.found = upd[u].found /\ rec.mine = upd[u].mine /\ rec.base = exe
  BY <1>1 DEF Updater, Labels
<1> HIDE DEF rec
<1>3. upd \in [Updaters -> Updater] /\ rec \in Updater /\ upd' = [upd EXCEPT ![u] = rec]
  BY <1>1, <1>2 DEF DataOK
<1>4. upd' \in [Updaters -> Updater] /\ Alone(u) /\ upd'[u] = rec
  BY <1>3 DEF Alone
<1> QED BY <1>2, <1>4

(* An answer leaves a version, 0 when it is refused, and a cache: the one that *)
(* was read or what the server offers.                                         *)
LEMMA AskData ==
    ASSUME DataOK, NEW u \in Updaters, Ask(u)
    PROVE  LET c == upd'[u].cache
               found == upd'[u].found
           IN /\ upd' \in [Updaters -> Updater] /\ Alone(u) /\ upd'[u].pc = "save"
              /\ \/ c.latest = upd[u].cache.latest /\ c.tag = upd[u].cache.tag
                 \/ server.sound /\ c.latest = server.latest /\ c.tag = server.tag
              /\ \/ found = 0
                 \/ found = server.latest /\ server.sound
                 \/ found = upd[u].cache.latest /\ upd[u].cache.tag = server.tag
<1>1. PICK found, seen : /\ Answer(u, found, seen)
                         /\ \/ seen = upd[u].cache
                            \/ server.sound /\ seen = Seen(upd[u].cache)
                         /\ \/ found = 0
                            \/ found = server.latest /\ server.sound
                            \/ found = upd[u].cache.latest /\ upd[u].cache.tag = server.tag
  BY DEF Ask
<1> DEFINE c == [seen EXCEPT !.fresh = TRUE]
<1>2. upd[u] \in Updater /\ upd[u].cache \in CacheType
  BY DEF DataOK, Updater
<1>3. Seen(upd[u].cache) \in CacheType
  BY DEF DataOK, Seen, CacheType
<1>4. found \in Nat /\ seen \in CacheType
  BY <1>1, <1>2, <1>3 DEF DataOK, CacheType
<1>5. c \in CacheType /\ c.latest = seen.latest /\ c.tag = seen.tag
  BY <1>4 DEF CacheType
<1> DEFINE rec == [upd[u] EXCEPT !.pc = "save", !.found = found, !.cache = c]
<1>6. upd' = [upd EXCEPT ![u] = rec]
  BY <1>1 DEF Answer, DataOK
<1>7. rec \in Updater /\ rec.pc = "save" /\ rec.found = found /\ rec.cache = c
  BY <1>2, <1>4, <1>5 DEF Updater, Labels
<1>8. \/ c.latest = upd[u].cache.latest /\ c.tag = upd[u].cache.tag
      \/ server.sound /\ c.latest = server.latest /\ c.tag = server.tag
  BY <1>1, <1>5 DEF Seen
<1> HIDE DEF rec, c
<1>9. /\ upd' \in [Updaters -> Updater] /\ Alone(u)
      /\ upd'[u].pc = "save" /\ upd'[u].found = found /\ upd'[u].cache = c
  BY <1>6, <1>7 DEF DataOK, Alone
<1> QED BY <1>1, <1>8, <1>9

(* Caches stay faithful to a server that does not change when one updater keeps *)
(* its cache or drops it.                                                       *)
LEMMA FaithfulKept ==
    ASSUME DataOK, CachesFaithful, UNCHANGED <<server, cache>>, NEW u \in Updaters, Alone(u),
           upd'[u].cache.tag = 0 \/ upd'[u].cache = upd[u].cache
    PROVE  CachesFaithful'
<1>1. 0 \leq server.tag /\ server.tag # 0
  BY Known
<1>2. Faithful(upd[u].cache)' /\ Faithful(cache)'
  BY <1>1 DEF CachesFaithful, Faithful
<1>3. \A w \in Updaters \ {u} : Faithful(upd[w].cache)'
  BY DEF CachesFaithful, Faithful, Alone
<1> QED BY <1>2, <1>3 DEF CachesFaithful

(* A new tag is ahead of every cache. *)
LEMMA FaithfulAhead ==
    ASSUME DataOK, CachesFaithful, UNCHANGED <<upd, cache>>, server'.tag = server.tag + 1
    PROVE  CachesFaithful'
<1>1. \A c : c.tag \in Nat /\ Faithful(c) => c.tag \leq server'.tag /\ c.tag # server'.tag
  BY Known DEF Faithful, DataOK
<1>2. cache.tag \in Nat /\ \A u \in Updaters : upd[u].cache.tag \in Nat
  BY Known DEF DataOK, CacheType
<1> QED BY <1>1, <1>2 DEF CachesFaithful, Faithful

-----------------------------------------------------------------------------
(* Every step keeps the types. *)
LEMMA DataStep ==
    ASSUME UpdateConstants, DataOK, UpdateNext
    PROVE  DataOK'
<1>1. ASSUME NEW u \in Updaters, NEW mode \in Modes, Start(u, mode) PROVE DataOK'
  BY <1>1, StartData DEF Start, DataOK
<1>2. ASSUME NEW u \in Updaters, Claim(u) PROVE DataOK'
  BY <1>2, GoesData, ReturnData DEF Claim, DataOK, Labels
<1>3. ASSUME NEW u \in Updaters, Retire(u) PROVE DataOK'
  BY <1>3, GoesData, ReturnData DEF Retire, DataOK, Labels
<1>4. ASSUME NEW u \in Updaters, Recheck(u) PROVE DataOK'
  BY <1>4, RecheckData, ReturnData DEF Recheck, DataOK
<1>5. ASSUME NEW u \in Updaters, Ask(u) PROVE DataOK'
  BY <1>5, AskData DEF Ask, DataOK
<1>6. ASSUME NEW u \in Updaters, Save(u) PROVE DataOK'
  BY <1>6, GoesData, ReturnData, Known DEF Save, DataOK, Labels
<1>7. ASSUME NEW u \in Updaters, ResolveInstallation(u) PROVE DataOK'
  BY <1>7, GoesData, ReturnData DEF ResolveInstallation, DataOK, Labels
<1>8. ASSUME NEW u \in Updaters, AcquireLock(u) PROVE DataOK'
  BY <1>8, GoesData, ReturnData, Stored DEF AcquireLock, DataOK, Labels
<1>9. ASSUME NEW u \in Updaters, WriteOwner(u) PROVE DataOK'
  BY <1>9, GoesData, Stored DEF WriteOwner, DataOK, Labels
<1>10. ASSUME NEW u \in Updaters, Refused(u) PROVE DataOK'
  BY <1>10, ReturnData DEF Refused, DataOK
<1>11. ASSUME NEW u \in Updaters, Classify(u) PROVE DataOK'
  BY <1>11, ClassifyData, ReturnData DEF Classify, DataOK
<1>12. ASSUME NEW u \in Updaters, StageCandidate(u) PROVE DataOK'
  BY <1>12, GoesData, ReturnData DEF StageCandidate, DataOK, Labels
<1>13. ASSUME NEW u \in Updaters, VerifyCandidate(u) PROVE DataOK'
  BY <1>13, GoesData, ReturnData DEF VerifyCandidate, DataOK, Labels
<1>14. ASSUME NEW u \in Updaters, Revalidate(u) PROVE DataOK'
  BY <1>14, GoesData, ReturnData DEF Revalidate, DataOK, Labels
<1>15. ASSUME NEW u \in Updaters, Promote(u) PROVE DataOK'
  BY <1>15, GoesData, ReturnData, Known DEF Promote, DataOK, Labels
<1>16. ASSUME NEW u \in Updaters, WriteReceipt(u) PROVE DataOK'
  BY <1>16, ReturnData, Known DEF WriteReceipt, DataOK
<1>17. ASSUME NEW u \in Updaters, Crash(u) PROVE DataOK'
  BY <1>17, RestData, Stored DEF Crash, DataOK
<1>18. CASE ClearLock
  BY <1>18, Stored DEF ClearLock, DataOK
<1>19. CASE Rebuild
  BY <1>19 DEF Rebuild, DataOK
<1>20. CASE Time
  BY <1>20, Stored DEF Time, DataOK
<1>21. ASSUME NEW v \in 1..Newest, Install(v) PROVE DataOK'
  BY <1>21 DEF Install, DataOK, UpdateConstants
<1>22. ASSUME NEW v \in 1..Newest, NEW sound \in BOOLEAN, Offer(v, sound)
       PROVE  DataOK'
  BY <1>22 DEF Offer, DataOK, UpdateConstants
<1> QED BY <1>1, <1>2, <1>3, <1>4, <1>5, <1>6, <1>7, <1>8, <1>9, <1>10, <1>11, <1>12, <1>13,
   <1>14, <1>15, <1>16, <1>17, <1>18, <1>19, <1>20, <1>21, <1>22 DEF UpdateNext

(* A cache is written with what was read or with what the server offers now; the *)
(* server never offers anything under a tag it used before.                     *)
LEMMA FaithfulStep ==
    ASSUME UpdateConstants, DataOK, CachesFaithful, UpdateNext
    PROVE  CachesFaithful'
<1>1. ASSUME NEW u \in Updaters, NEW mode \in Modes, Start(u, mode) PROVE CachesFaithful'
  BY <1>1, StartData DEF Start, DataOK, CachesFaithful, Faithful, Alone
<1>2. ASSUME NEW u \in Updaters, Claim(u) PROVE CachesFaithful'
  BY <1>2, GoesData, ReturnData DEF Claim, DataOK, CachesFaithful, Faithful, Alone, Labels
<1>3. ASSUME NEW u \in Updaters, Retire(u) PROVE CachesFaithful'
  BY <1>3, GoesData, ReturnData DEF Retire, DataOK, CachesFaithful, Faithful, Alone, Labels
<1>4. ASSUME NEW u \in Updaters, Recheck(u) PROVE CachesFaithful'
  BY <1>4, RecheckData, ReturnData DEF Recheck, DataOK, CachesFaithful, Faithful, Alone
<1>5. ASSUME NEW u \in Updaters, Ask(u) PROVE CachesFaithful'
  BY <1>5, AskData DEF Ask, DataOK, CachesFaithful, Faithful, Alone
<1>6. ASSUME NEW u \in Updaters, Save(u) PROVE CachesFaithful'
  BY <1>6, GoesData, ReturnData DEF Save, DataOK, CachesFaithful, Faithful, Alone, Labels
<1>7. ASSUME NEW u \in Updaters, ResolveInstallation(u) PROVE CachesFaithful'
  BY <1>7, GoesData, ReturnData DEF ResolveInstallation, DataOK, CachesFaithful, Faithful, Alone, Labels
<1>8. ASSUME NEW u \in Updaters, AcquireLock(u) PROVE CachesFaithful'
  BY <1>8, GoesData, ReturnData DEF AcquireLock, DataOK, CachesFaithful, Faithful, Alone,
     Labels
<1>9. ASSUME NEW u \in Updaters, WriteOwner(u) PROVE CachesFaithful'
  BY <1>9, GoesData DEF WriteOwner, DataOK, CachesFaithful, Faithful, Alone, Labels
<1>10. ASSUME NEW u \in Updaters, Refused(u) PROVE CachesFaithful'
  BY <1>10, ReturnData DEF Refused, DataOK, CachesFaithful, Faithful, Alone
<1>11. ASSUME NEW u \in Updaters, Classify(u) PROVE CachesFaithful'
  <2>1. CASE Owned(u)
    BY <1>11, <2>1, ClassifyData, FaithfulKept DEF Classify
  <2>2. CASE ~Owned(u)
    BY <1>11, <2>2, ReturnData, FaithfulKept DEF Classify
  <2> QED BY <2>1, <2>2
<1>12. ASSUME NEW u \in Updaters, StageCandidate(u) PROVE CachesFaithful'
  BY <1>12, GoesData, ReturnData DEF StageCandidate, DataOK, CachesFaithful, Faithful,
     Alone, Labels
<1>13. ASSUME NEW u \in Updaters, VerifyCandidate(u) PROVE CachesFaithful'
  BY <1>13, GoesData, ReturnData DEF VerifyCandidate, DataOK, CachesFaithful, Faithful,
     Alone, Labels
<1>14. ASSUME NEW u \in Updaters, Revalidate(u) PROVE CachesFaithful'
  BY <1>14, GoesData, ReturnData DEF Revalidate, DataOK, CachesFaithful, Faithful, Alone,
     Labels
<1>15. ASSUME NEW u \in Updaters, Promote(u) PROVE CachesFaithful'
  BY <1>15, GoesData, ReturnData DEF Promote, DataOK, CachesFaithful, Faithful, Alone,
     Labels
<1>16. ASSUME NEW u \in Updaters, WriteReceipt(u) PROVE CachesFaithful'
  BY <1>16, ReturnData DEF WriteReceipt, DataOK, CachesFaithful, Faithful, Alone
<1>17. ASSUME NEW u \in Updaters, Crash(u) PROVE CachesFaithful'
  BY <1>17, RestData, FaithfulKept DEF Crash
<1>18. CASE ClearLock
  BY <1>18 DEF ClearLock, DataOK, CachesFaithful, Faithful
<1>19. CASE Rebuild
  BY <1>19 DEF Rebuild, DataOK, CachesFaithful, Faithful
<1>20. CASE Time
  BY <1>20, Stored DEF Time, DataOK, CachesFaithful, Faithful
<1>21. ASSUME NEW v \in 1..Newest, Install(v) PROVE CachesFaithful'
  BY <1>21 DEF Install, DataOK, CachesFaithful, Faithful
<1>22. ASSUME NEW v \in 1..Newest, NEW sound \in BOOLEAN, Offer(v, sound)
       PROVE  CachesFaithful'
  BY <1>22, FaithfulAhead DEF Offer
<1> QED BY <1>1, <1>2, <1>3, <1>4, <1>5, <1>6, <1>7, <1>8, <1>9, <1>10, <1>11, <1>12, <1>13,
   <1>14, <1>15, <1>16, <1>17, <1>18, <1>19, <1>20, <1>21, <1>22 DEF UpdateNext

(* The lock changes hands only through its holder, and through a person after its *)
(* holder has died.                                                              *)
LEMMA LockStep ==
    ASSUME UpdateConstants, DataOK, HoldsLock, UpdateNext
    PROVE  HoldsLock'
<1>1. ASSUME NEW u \in Updaters, NEW mode \in Modes, Start(u, mode) PROVE HoldsLock'
  BY <1>1, StartData DEF Start, DataOK, HoldsLock, Holding, UpdateConstants, Alone
<1>2. ASSUME NEW u \in Updaters, Claim(u) PROVE HoldsLock'
  BY <1>2, GoesData, ReturnData DEF Claim, DataOK, HoldsLock, Holding, UpdateConstants,
     Alone, Labels
<1>3. ASSUME NEW u \in Updaters, Retire(u) PROVE HoldsLock'
  BY <1>3, GoesData, ReturnData DEF Retire, DataOK, HoldsLock, Holding, UpdateConstants,
     Alone, Labels
<1>4. ASSUME NEW u \in Updaters, Recheck(u) PROVE HoldsLock'
  BY <1>4, RecheckData, ReturnData DEF Recheck, DataOK, HoldsLock, Holding, UpdateConstants,
     Alone
<1>5. ASSUME NEW u \in Updaters, Ask(u) PROVE HoldsLock'
  BY <1>5, AskData DEF Ask, DataOK, HoldsLock, Holding, UpdateConstants, Alone
<1>6. ASSUME NEW u \in Updaters, Save(u) PROVE HoldsLock'
  BY <1>6, GoesData, ReturnData DEF Save, DataOK, HoldsLock, Holding, UpdateConstants,
     Alone, Labels
<1>7. ASSUME NEW u \in Updaters, ResolveInstallation(u) PROVE HoldsLock'
  BY <1>7, GoesData, ReturnData DEF ResolveInstallation, DataOK, HoldsLock, Holding, UpdateConstants,
     Alone, Labels
<1>8. ASSUME NEW u \in Updaters, AcquireLock(u) PROVE HoldsLock'
  BY <1>8, GoesData, ReturnData DEF AcquireLock, DataOK, HoldsLock, Holding,
     UpdateConstants, Alone, Labels
<1>9. ASSUME NEW u \in Updaters, WriteOwner(u) PROVE HoldsLock'
  <2>1. CASE Goes(u, "classify") /\ lock' = [lock EXCEPT !.owner = TRUE]
    <3>1. lock'.holder = lock.holder
      BY <2>1, Stored
    <3>2. Alone(u) /\ lock.holder = u
      BY <1>9, <2>1, GoesData DEF WriteOwner, HoldsLock, Holding, Labels
    <3> QED BY <3>1, <3>2 DEF HoldsLock, Alone
  <2>2. CASE Goes(u, "refused")
    <3>1. Alone(u) /\ upd'[u].pc = "refused" /\ lock.holder = u
      BY <1>9, <2>2, GoesData DEF WriteOwner, HoldsLock, Holding, Labels
    <3>2. \A w \in Updaters \ {u} : upd'[w].pc \notin Holding
      BY <3>1 DEF HoldsLock, Alone
    <3> QED BY <3>1, <3>2 DEF HoldsLock, Holding
  <2> QED BY <1>9, <2>1, <2>2 DEF WriteOwner
<1>10. ASSUME NEW u \in Updaters, Refused(u) PROVE HoldsLock'
  BY <1>10, ReturnData DEF Refused, DataOK, HoldsLock, Holding, UpdateConstants, Alone
<1>11. ASSUME NEW u \in Updaters, Classify(u) PROVE HoldsLock'
  BY <1>11, ClassifyData, ReturnData DEF Classify, DataOK, HoldsLock, Holding,
     UpdateConstants, Alone
<1>12. ASSUME NEW u \in Updaters, StageCandidate(u) PROVE HoldsLock'
  BY <1>12, GoesData, ReturnData DEF StageCandidate, DataOK, HoldsLock, Holding,
     UpdateConstants, Alone, Labels
<1>13. ASSUME NEW u \in Updaters, VerifyCandidate(u) PROVE HoldsLock'
  BY <1>13, GoesData, ReturnData DEF VerifyCandidate, DataOK, HoldsLock, Holding,
     UpdateConstants, Alone, Labels
<1>14. ASSUME NEW u \in Updaters, Revalidate(u) PROVE HoldsLock'
  BY <1>14, GoesData, ReturnData DEF Revalidate, DataOK, HoldsLock, Holding,
     UpdateConstants, Alone, Labels
<1>15. ASSUME NEW u \in Updaters, Promote(u) PROVE HoldsLock'
  BY <1>15, GoesData, ReturnData DEF Promote, DataOK, HoldsLock, Holding, UpdateConstants,
     Alone, Labels
<1>16. ASSUME NEW u \in Updaters, WriteReceipt(u) PROVE HoldsLock'
  BY <1>16, ReturnData DEF WriteReceipt, DataOK, HoldsLock, Holding, UpdateConstants, Alone
<1>17. ASSUME NEW u \in Updaters, Crash(u) PROVE HoldsLock'
  BY <1>17, RestData DEF Crash, DataOK, HoldsLock, Holding, UpdateConstants, Alone
<1>18. CASE ClearLock
  BY <1>18 DEF ClearLock, DataOK, HoldsLock, Holding, UpdateConstants
<1>19. CASE Rebuild
  BY <1>19 DEF Rebuild, DataOK, HoldsLock, Holding, UpdateConstants
<1>20. CASE Time
  BY <1>20 DEF Time, DataOK, HoldsLock, Holding, UpdateConstants
<1>21. ASSUME NEW v \in 1..Newest, Install(v) PROVE HoldsLock'
  BY <1>21 DEF Install, DataOK, HoldsLock, Holding, UpdateConstants
<1>22. ASSUME NEW v \in 1..Newest, NEW sound \in BOOLEAN, Offer(v, sound)
       PROVE  HoldsLock'
  BY <1>22 DEF Offer, DataOK, HoldsLock, Holding, UpdateConstants
<1> QED BY <1>1, <1>2, <1>3, <1>4, <1>5, <1>6, <1>7, <1>8, <1>9, <1>10, <1>11, <1>12, <1>13,
   <1>14, <1>15, <1>16, <1>17, <1>18, <1>19, <1>20, <1>21, <1>22 DEF UpdateNext

(* What an updater found and what it works from are settled before it goes on. *)
LEMMA ProgressStep ==
    ASSUME UpdateConstants, DataOK, Progress, UpdateNext
    PROVE  Progress'
<1>1. ASSUME NEW u \in Updaters, NEW mode \in Modes, Start(u, mode) PROVE Progress'
  <2>1. Alone(u) /\ upd'[u].pc \in {"claim", "ask"} /\ upd'[u].found = 0
    BY <1>1, StartData
  <2>2. ~ (upd'[u].pc \in Updating) /\ ~ (upd'[u].pc \in Classified)
    BY <2>1 DEF Updating, Holding, Classified
  <2> QED BY <2>1, <2>2 DEF Progress, Alone
<1>2. ASSUME NEW u \in Updaters, Claim(u) PROVE Progress'
  BY <1>2, GoesData, ReturnData DEF Claim, DataOK, Progress, Asking, Updating, Holding,
     Classified, Alone, Labels
<1>3. ASSUME NEW u \in Updaters, Retire(u) PROVE Progress'
  BY <1>3, GoesData, ReturnData DEF Retire, DataOK, Progress, Asking, Updating, Holding,
     Classified, Alone, Labels
<1>4. ASSUME NEW u \in Updaters, Recheck(u) PROVE Progress'
  BY <1>4, RecheckData, ReturnData DEF Recheck, DataOK, Progress, Asking, Updating, Holding,
     Classified, Alone
<1>5. ASSUME NEW u \in Updaters, Ask(u) PROVE Progress'
  BY <1>5, AskData DEF Ask, DataOK, Progress, Asking, Updating, Holding, Classified, Alone
<1>6. ASSUME NEW u \in Updaters, Save(u) PROVE Progress'
  BY <1>6, GoesData, ReturnData DEF Save, DataOK, Progress, Asking, Updating, Holding,
     Classified, Alone, Labels, Applies
<1>7. ASSUME NEW u \in Updaters, ResolveInstallation(u) PROVE Progress'
  BY <1>7, GoesData, ReturnData DEF ResolveInstallation, DataOK, Progress, Asking, Updating, Holding,
     Classified, Alone, Labels
<1>8. ASSUME NEW u \in Updaters, AcquireLock(u) PROVE Progress'
  BY <1>8, GoesData, ReturnData DEF AcquireLock, DataOK, Progress, Asking, Updating,
     Holding, Classified, Alone, Labels
<1>9. ASSUME NEW u \in Updaters, WriteOwner(u) PROVE Progress'
  BY <1>9, GoesData DEF WriteOwner, DataOK, Progress, Asking, Updating, Holding, Classified,
     Alone, Labels
<1>10. ASSUME NEW u \in Updaters, Refused(u) PROVE Progress'
  BY <1>10, ReturnData DEF Refused, DataOK, Progress, Asking, Updating, Holding, Classified,
     Alone
<1>11. ASSUME NEW u \in Updaters, Classify(u) PROVE Progress'
  <2>1. CASE Owned(u)
    <3>1. /\ upd'[u].pc = "stage" /\ upd'[u].base = exe /\ Alone(u)
          /\ upd'[u].found = upd[u].found /\ upd'[u].mine = upd[u].mine
      BY <1>11, <2>1, ClassifyData DEF Classify
    <3>2. upd[u].pc = "classify" /\ exe = upd[u].mine
      BY <1>11, <2>1 DEF Classify, Owned, Direct
    <3> QED BY <3>1, <3>2 DEF Progress, Asking, Updating, Holding, Classified, Alone
  <2>2. CASE ~Owned(u)
    BY <1>11, <2>2, ReturnData
       DEF Classify, Progress, Asking, Updating, Holding, Classified, Alone
  <2> QED BY <2>1, <2>2
<1>12. ASSUME NEW u \in Updaters, StageCandidate(u) PROVE Progress'
  BY <1>12, GoesData, ReturnData DEF StageCandidate, DataOK, Progress, Asking, Updating,
     Holding, Classified, Alone, Labels
<1>13. ASSUME NEW u \in Updaters, VerifyCandidate(u) PROVE Progress'
  BY <1>13, GoesData, ReturnData DEF VerifyCandidate, DataOK, Progress, Asking, Updating,
     Holding, Classified, Alone, Labels
<1>14. ASSUME NEW u \in Updaters, Revalidate(u) PROVE Progress'
  BY <1>14, GoesData, ReturnData DEF Revalidate, DataOK, Progress, Asking, Updating,
     Holding, Classified, Alone, Labels
<1>15. ASSUME NEW u \in Updaters, Promote(u) PROVE Progress'
  BY <1>15, GoesData, ReturnData DEF Promote, DataOK, Progress, Asking, Updating, Holding,
     Classified, Alone, Labels
<1>16. ASSUME NEW u \in Updaters, WriteReceipt(u) PROVE Progress'
  BY <1>16, ReturnData DEF WriteReceipt, DataOK, Progress, Asking, Updating, Holding,
     Classified, Alone
<1>17. ASSUME NEW u \in Updaters, Crash(u) PROVE Progress'
  BY <1>17, RestData DEF Crash, DataOK, Progress, Asking, Updating, Holding, Classified,
     Alone
<1>18. CASE ClearLock
  BY <1>18 DEF ClearLock, DataOK, Progress, Asking, Updating, Holding, Classified
<1>19. CASE Rebuild
  BY <1>19 DEF Rebuild, DataOK, Progress, Asking, Updating, Holding, Classified
<1>20. CASE Time
  BY <1>20 DEF Time, DataOK, Progress, Asking, Updating, Holding, Classified
<1>21. ASSUME NEW v \in 1..Newest, Install(v) PROVE Progress'
  BY <1>21 DEF Install, DataOK, Progress, Asking, Updating, Holding, Classified
<1>22. ASSUME NEW v \in 1..Newest, NEW sound \in BOOLEAN, Offer(v, sound)
       PROVE  Progress'
  BY <1>22 DEF Offer, DataOK, Progress, Asking, Updating, Holding, Classified
<1> QED BY <1>1, <1>2, <1>3, <1>4, <1>5, <1>6, <1>7, <1>8, <1>9, <1>10, <1>11, <1>12, <1>13,
   <1>14, <1>15, <1>16, <1>17, <1>18, <1>19, <1>20, <1>21, <1>22 DEF UpdateNext

(* Under the lock only its holder and a build from source replace the executable. *)
LEMMA UnreplacedStep ==
    ASSUME UpdateConstants, DataOK, HoldsLock, Progress, Unreplaced, UpdateNext
    PROVE  Unreplaced'
<1>1. ASSUME NEW u \in Updaters, NEW mode \in Modes, Start(u, mode) PROVE Unreplaced'
  BY <1>1, StartData DEF Start, DataOK, HoldsLock, Progress, Unreplaced, Holding,
     UpdateConstants, Alone
<1>2. ASSUME NEW u \in Updaters, Claim(u) PROVE Unreplaced'
  BY <1>2, GoesData, ReturnData DEF Claim, DataOK, HoldsLock, Progress, Unreplaced, Holding,
     UpdateConstants, Alone, Labels
<1>3. ASSUME NEW u \in Updaters, Retire(u) PROVE Unreplaced'
  BY <1>3, GoesData, ReturnData DEF Retire, DataOK, HoldsLock, Progress, Unreplaced,
     Holding, UpdateConstants, Alone, Labels
<1>4. ASSUME NEW u \in Updaters, Recheck(u) PROVE Unreplaced'
  BY <1>4, RecheckData, ReturnData DEF Recheck, DataOK, HoldsLock, Progress, Unreplaced,
     Holding, UpdateConstants, Alone
<1>5. ASSUME NEW u \in Updaters, Ask(u) PROVE Unreplaced'
  BY <1>5, AskData DEF Ask, DataOK, HoldsLock, Progress, Unreplaced, Holding,
     UpdateConstants, Alone
<1>6. ASSUME NEW u \in Updaters, Save(u) PROVE Unreplaced'
  BY <1>6, GoesData, ReturnData DEF Save, DataOK, HoldsLock, Progress, Unreplaced, Holding,
     UpdateConstants, Alone, Labels
<1>7. ASSUME NEW u \in Updaters, ResolveInstallation(u) PROVE Unreplaced'
  BY <1>7, GoesData, ReturnData DEF ResolveInstallation, DataOK, HoldsLock, Progress, Unreplaced,
     Holding, UpdateConstants, Alone, Labels
<1>8. ASSUME NEW u \in Updaters, AcquireLock(u) PROVE Unreplaced'
  BY <1>8, GoesData, ReturnData DEF AcquireLock, DataOK, HoldsLock, Progress, Unreplaced,
     Holding, UpdateConstants, Alone, Labels
<1>9. ASSUME NEW u \in Updaters, WriteOwner(u) PROVE Unreplaced'
  BY <1>9, GoesData DEF WriteOwner, DataOK, HoldsLock, Progress, Unreplaced, Holding,
     UpdateConstants, Alone, Labels
<1>10. ASSUME NEW u \in Updaters, Refused(u) PROVE Unreplaced'
  BY <1>10, ReturnData DEF Refused, DataOK, HoldsLock, Progress, Unreplaced, Holding,
     UpdateConstants, Alone
<1>11. ASSUME NEW u \in Updaters, Classify(u) PROVE Unreplaced'
  BY <1>11, ClassifyData, ReturnData DEF Classify, DataOK, HoldsLock, Progress, Unreplaced,
     Holding, UpdateConstants, Alone
<1>12. ASSUME NEW u \in Updaters, StageCandidate(u) PROVE Unreplaced'
  BY <1>12, GoesData, ReturnData DEF StageCandidate, DataOK, HoldsLock, Progress,
     Unreplaced, Holding, UpdateConstants, Alone, Labels
<1>13. ASSUME NEW u \in Updaters, VerifyCandidate(u) PROVE Unreplaced'
  BY <1>13, GoesData, ReturnData DEF VerifyCandidate, DataOK, HoldsLock, Progress,
     Unreplaced, Holding, UpdateConstants, Alone, Labels
<1>14. ASSUME NEW u \in Updaters, Revalidate(u) PROVE Unreplaced'
  BY <1>14, GoesData, ReturnData DEF Revalidate, DataOK, HoldsLock, Progress, Unreplaced,
     Holding, UpdateConstants, Alone, Labels
<1>15. ASSUME NEW u \in Updaters, Promote(u) PROVE Unreplaced'
  BY <1>15, GoesData, ReturnData DEF Promote, DataOK, HoldsLock, Progress, Unreplaced,
     Holding, UpdateConstants, Alone, Labels
<1>16. ASSUME NEW u \in Updaters, WriteReceipt(u) PROVE Unreplaced'
  BY <1>16, ReturnData DEF WriteReceipt, DataOK, HoldsLock, Progress, Unreplaced, Holding,
     UpdateConstants, Alone
<1>17. ASSUME NEW u \in Updaters, Crash(u) PROVE Unreplaced'
  BY <1>17, RestData DEF Crash, DataOK, HoldsLock, Progress, Unreplaced, Holding,
     UpdateConstants, Alone
<1>18. CASE ClearLock
  BY <1>18 DEF ClearLock, DataOK, HoldsLock, Progress, Unreplaced, Holding, UpdateConstants
<1>19. CASE Rebuild
  BY <1>19 DEF Rebuild, DataOK, HoldsLock, Progress, Unreplaced, Holding, UpdateConstants
<1>20. CASE Time
  BY <1>20 DEF Time, DataOK, HoldsLock, Progress, Unreplaced, Holding, UpdateConstants
<1>21. ASSUME NEW v \in 1..Newest, Install(v) PROVE Unreplaced'
  BY <1>21 DEF Install, DataOK, HoldsLock, Progress, Unreplaced, Holding, UpdateConstants
<1>22. ASSUME NEW v \in 1..Newest, NEW sound \in BOOLEAN, Offer(v, sound)
       PROVE  Unreplaced'
  BY <1>22 DEF Offer, DataOK, HoldsLock, Progress, Unreplaced, Holding, UpdateConstants
<1> QED BY <1>1, <1>2, <1>3, <1>4, <1>5, <1>6, <1>7, <1>8, <1>9, <1>10, <1>11, <1>12, <1>13,
   <1>14, <1>15, <1>16, <1>17, <1>18, <1>19, <1>20, <1>21, <1>22 DEF UpdateNext

-----------------------------------------------------------------------------
(* The property of one step, under the invariant. *)
NewerStep ==
  \A u \in Updaters :
    /\ upd[u].pc = "promote" /\ upd'[u].pc = "receipt" => exe' > exe
    /\ upd[u].pc = "ask" /\ upd'[u].found # 0 =>
         server.sound /\ upd'[u].found = server.latest

(* Only the rename passes from promote to receipt, and only an answer finds a     *)
(* release.                                                                      *)
LEMMA OnlyNewer ==
    ASSUME UpdateConstants, IInv, UpdateNext
    PROVE  NewerStep
<1>1. ASSUME NEW u \in Updaters, NEW mode \in Modes, Start(u, mode) PROVE NewerStep
  BY <1>1, StartData DEF Start, DataOK, IInv, NewerStep, Progress, Asking, Alone
<1>2. ASSUME NEW u \in Updaters, Claim(u) PROVE NewerStep
  BY <1>2, GoesData, ReturnData DEF Claim, DataOK, IInv, NewerStep, Progress, Asking, Alone,
     Labels
<1>3. ASSUME NEW u \in Updaters, Retire(u) PROVE NewerStep
  BY <1>3, GoesData, ReturnData DEF Retire, DataOK, IInv, NewerStep, Progress, Asking,
     Alone, Labels
<1>4. ASSUME NEW u \in Updaters, Recheck(u) PROVE NewerStep
  BY <1>4, RecheckData, ReturnData DEF Recheck, DataOK, IInv, NewerStep, Progress, Asking,
     Alone
<1>5. ASSUME NEW u \in Updaters, Ask(u) PROVE NewerStep
  BY <1>5, AskData, Known DEF Ask, DataOK, IInv, NewerStep, Progress, Asking, Alone,
     CachesFaithful, Faithful
<1>6. ASSUME NEW u \in Updaters, Save(u) PROVE NewerStep
  BY <1>6, GoesData, ReturnData DEF Save, DataOK, IInv, NewerStep, Progress, Asking, Alone,
     Labels
<1>7. ASSUME NEW u \in Updaters, ResolveInstallation(u) PROVE NewerStep
  BY <1>7, GoesData, ReturnData DEF ResolveInstallation, DataOK, IInv, NewerStep, Progress, Asking,
     Alone, Labels
<1>8. ASSUME NEW u \in Updaters, AcquireLock(u) PROVE NewerStep
  BY <1>8, GoesData, ReturnData DEF AcquireLock, DataOK, IInv, NewerStep, Progress, Asking,
     Alone, Labels
<1>9. ASSUME NEW u \in Updaters, WriteOwner(u) PROVE NewerStep
  BY <1>9, GoesData DEF WriteOwner, DataOK, IInv, NewerStep, Progress, Asking, Alone, Labels
<1>10. ASSUME NEW u \in Updaters, Refused(u) PROVE NewerStep
  BY <1>10, ReturnData DEF Refused, DataOK, IInv, NewerStep, Progress, Asking, Alone
<1>11. ASSUME NEW u \in Updaters, Classify(u) PROVE NewerStep
  <2>1. DataOK /\ Progress /\ upd[u].pc = "classify"
    BY <1>11 DEF Classify, IInv
  <2>2. ASSUME Owned(u) PROVE Alone(u) /\ upd'[u].pc # "receipt"
    BY <1>11, <2>1, <2>2, ClassifyData DEF Classify
  <2>3. ASSUME ~ Owned(u) PROVE Alone(u) /\ upd'[u].pc # "receipt"
    BY <1>11, <2>1, <2>3, ReturnData DEF Classify
  <2>4. Alone(u) /\ upd'[u].pc # "receipt"
    BY <2>2, <2>3
  <2> QED BY <2>1, <2>4 DEF Alone, NewerStep, Progress, Asking
<1>12. ASSUME NEW u \in Updaters, StageCandidate(u) PROVE NewerStep
  BY <1>12, GoesData, ReturnData DEF StageCandidate, DataOK, IInv, NewerStep, Progress,
     Asking, Alone, Labels
<1>13. ASSUME NEW u \in Updaters, VerifyCandidate(u) PROVE NewerStep
  BY <1>13, GoesData, ReturnData DEF VerifyCandidate, DataOK, IInv, NewerStep, Progress,
     Asking, Alone, Labels
<1>14. ASSUME NEW u \in Updaters, Revalidate(u) PROVE NewerStep
  BY <1>14, GoesData, ReturnData DEF Revalidate, DataOK, IInv, NewerStep, Progress, Asking,
     Alone, Labels
<1>15. ASSUME NEW u \in Updaters, Promote(u) PROVE NewerStep
  BY <1>15, GoesData, ReturnData, Known DEF Promote, DataOK, IInv, NewerStep, Progress,
     Asking, Alone, Labels, Unreplaced, Classified, Updating, Holding
<1>16. ASSUME NEW u \in Updaters, WriteReceipt(u) PROVE NewerStep
  BY <1>16, ReturnData DEF WriteReceipt, DataOK, IInv, NewerStep, Progress, Asking, Alone
<1>17. ASSUME NEW u \in Updaters, Crash(u) PROVE NewerStep
  BY <1>17, RestData DEF Crash, DataOK, IInv, NewerStep, Progress, Asking, Alone
<1>18. CASE ClearLock
  BY <1>18 DEF ClearLock, DataOK, IInv, NewerStep, Progress, Asking
<1>19. CASE Rebuild
  BY <1>19 DEF Rebuild, DataOK, IInv, NewerStep, Progress, Asking
<1>20. CASE Time
  BY <1>20 DEF Time, DataOK, IInv, NewerStep, Progress, Asking
<1>21. ASSUME NEW v \in 1..Newest, Install(v) PROVE NewerStep
  BY <1>21 DEF Install, DataOK, IInv, NewerStep, Progress, Asking
<1>22. ASSUME NEW v \in 1..Newest, NEW sound \in BOOLEAN, Offer(v, sound)
       PROVE  NewerStep
  BY <1>22 DEF Offer, DataOK, IInv, NewerStep, Progress, Asking
<1> QED BY <1>1, <1>2, <1>3, <1>4, <1>5, <1>6, <1>7, <1>8, <1>9, <1>10, <1>11, <1>12, <1>13,
   <1>14, <1>15, <1>16, <1>17, <1>18, <1>19, <1>20, <1>21, <1>22 DEF UpdateNext

LEMMA InitIInv == UpdateInit => IInv
<1> SUFFICES ASSUME UpdateInit PROVE IInv
  OBVIOUS
<1>1. DataOK
  BY RestType DEF UpdateInit, DataOK, Free, LockType, NoCache, CacheType
<1>2. \A u \in Updaters : upd[u].pc = "rest" /\ upd[u].found = 0 /\ upd[u].cache.tag = 0
  BY DEF UpdateInit, Rest, NoCache
<1>3. cache.tag = 0 /\ server.tag = 1
  BY DEF UpdateInit, NoCache
<1>4. CachesFaithful
  BY <1>2, <1>3 DEF CachesFaithful, Faithful
<1>5. HoldsLock /\ Progress /\ Unreplaced
  BY <1>2 DEF HoldsLock, Progress, Unreplaced, Holding, Updating, Classified
<1> QED BY <1>1, <1>4, <1>5 DEF IInv

LEMMA StepIInv == ASSUME UpdateConstants, IInv, [UpdateNext]_updVars PROVE IInv'
<1>1. CASE UpdateNext
  BY <1>1, DataStep, FaithfulStep, LockStep, ProgressStep, UnreplacedStep DEF IInv
<1>2. CASE UNCHANGED updVars
  BY <1>2 DEF updVars, IInv, DataOK, CachesFaithful, Faithful, HoldsLock, Progress, Unreplaced
<1> QED BY <1>1, <1>2

(* However many updaters, installers and releases there are, an update installs a   *)
(* newer release than the one it replaces, and a check reports the sound release    *)
(* that is offered when it asks (selfupdate.go:254-289, cache.go:73-104).           *)
THEOREM Newer == Spec => NewerRelease
<1>1. UpdateConstants
  BY WorkstationConstants
<1>2. Init => IInv
  BY InitIInv DEF Init
<1>3. [Next]_vars => [UpdateNext]_updVars
  BY DEF Next, Updates, Stores, Runs, Clones, vars
<1>4. IInv /\ [Next]_vars => IInv'
  BY <1>1, <1>3, StepIInv
<1>5. IInv /\ [Next]_vars => [NewerStep]_updVars
  BY <1>1, <1>3, OnlyNewer
<1>6. [][NewerStep]_updVars => NewerRelease
  BY DEF NewerStep, NewerRelease
<1> QED BY <1>2, <1>4, <1>5, <1>6, PTL DEF Spec
===============================================================================
