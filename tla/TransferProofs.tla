--------------------------- MODULE TransferProofs ----------------------------
(* What holds of push and pull for any number of workstations, Worktrees,    *)
(* commits, commands, faults and acts of people; in particular that they     *)
(* implement DirectionalTransfer.                                            *)
EXTENDS WorkspaceTransfer, TLAPS

Labels    == {"idle", "revalidate", "exact", "discover", "clone", "seed", "capture", "read",
              "compare", "preflight", "wait", "observe", "inspect", "fetch", "apply", "link"}
PushOnly  == {"clone", "seed", "capture", "compare", "wait"}
PullOnly  == {"observe", "inspect", "fetch", "apply"}
AfterSeed == {"capture", "read", "compare", "preflight", "wait", "link"}
Commanded == [pc : Labels, op : {"push", "pull"}, dry : BOOLEAN, linked : BOOLEAN,
              path : Paths, box : Nat, identity : Nat, mine : Origins,
              source : Held, destination : Held, seed : Held]

(* What the checkouts, the Box, the inventory and the links hold. *)
World ==
  /\ local \in [Clients -> Tree] /\ remote \in [Paths -> Held]
  /\ machine \in Nat /\ inventory \in [box : Nat, identity : Nat]
  /\ link \in [Clients -> Links \cup {NoLink}]
  /\ net \subseteq Request
  /\ held \in [Places -> SUBSET Held] /\ cloned \in [Paths -> SUBSET Tree]
  /\ \A c \in Clients : local[c] \in held[c]
  /\ \A p \in Paths : remote[p] \in held[p]

Counters ==
  /\ machine \in 1 .. acts + 1 /\ starts \in 0 .. MaxStarts
  /\ acts \in 0 .. MaxActs /\ faults \in 0 .. MaxFaults

(* A destination that may be replaced has no work of its own, and what it    *)
(* has committed is part of what comes; or a clone made it as it is.         *)
Replaceable(source, destination, clones) ==
  /\ Related(source.origin, destination.origin)
  /\ destination.work = "clean"
  /\ Older(destination.head, source.head) \/ destination \in clones

Fresh(k) == [head |-> Upstream, work |-> "clean", origin |-> k.mine]

(* A command carries what its source held, towards a destination it found    *)
(* replaceable, and its seed is what a clone made.                           *)
Sound(c, k, had, clones) ==
  /\ k \in Commanded
  /\ k.pc \in PushOnly => k.op = "push"
  /\ k.pc \in PullOnly => k.op = "pull"
  /\ k.pc = "seed" => Fresh(k) \in clones[k.path]
  /\ k.seed # Absent => k.op = "push" /\ k.pc \in AfterSeed /\ k.seed \in clones[k.path]
  /\ k.op = "push" /\ k.pc \in {"read", "compare", "preflight"} =>
       k.source \in had[c] \ {Absent}
  /\ k.op = "push" /\ k.pc = "preflight" /\ k.destination # Absent =>
       Replaceable(k.source, k.destination, clones[k.path])
  /\ k.op = "pull" /\ k.pc \in {"fetch", "read", "apply"} =>
       /\ k.source \in had[k.path] \ {Absent}
       /\ Replaceable(k.source, k.destination, {})
  /\ k.pc = "inspect" => k.destination # Absent

Commands == cmd \in [Clients -> Commanded] /\ \A c \in Clients : Sound(c, cmd[c], held, cloned)

(* So does a request, and one that is past its reception is at the machine   *)
(* it was meant for.                                                         *)
Carried(r) ==
  /\ r.payload \in held[r.by]
  /\ r.expected # Absent => Replaceable(r.payload, r.expected, cloned[r.path])
  /\ r.pc = "lock" => r.identity = machine

Requests == \A r \in net : Carried(r)

(* A command that waits for an answer is waited for. *)
Waits == \A c \in Clients : At(c, "wait") => \E r \in net : r.by = c /\ r.live

IInv == World /\ Counters /\ Commands /\ Requests /\ Waits

-----------------------------------------------------------------------------
(* The history only grows, so what is sound stays so.                        *)
Grows ==
  /\ \A x \in Places : held[x] \subseteq held'[x]
  /\ \A p \in Paths : cloned[p] \subseteq cloned'[p]

LEMMA StaysSound ==
    ASSUME NEW c \in Clients, NEW k \in Commanded, Grows, Sound(c, k, held, cloned)
    PROVE  Sound(c, k, held', cloned')
<1>1. c \in Places /\ k.path \in Paths /\ k.path \in Places
  BY DEF Places, Commanded
<1>2. held[c] \subseteq held'[c] /\ held[k.path] \subseteq held'[k.path]
      /\ cloned[k.path] \subseteq cloned'[k.path]
  BY <1>1 DEF Grows
<1> QED BY <1>2 DEF Sound, Replaceable

LEMMA StaysCarried ==
    ASSUME Grows, machine' = machine, NEW r \in Request, Carried(r)
    PROVE  /\ r.payload \in held'[r.by]
           /\ r.expected # Absent => Replaceable(r.payload, r.expected, cloned'[r.path])
           /\ r.pc = "lock" => r.identity = machine'
<1>1. r.by \in Places /\ r.path \in Paths
  BY DEF Request, Places
<1> QED BY <1>1 DEF Grows, Carried, Replaceable

(* What a step does to one command: it is sound and waits for nothing.       *)
Fine(c) == \E k \in Commanded : Set(c, k) /\ Sound(c, k, held, cloned) /\ k.pc # "wait"

LEMMA IdleSound ==
    ASSUME TransferConstants, NEW c \in Clients
    PROVE  Idle \in Commanded /\ Sound(c, Idle, held, cloned) /\ Idle.pc = "idle"
BY DEF TransferConstants, Idle, Sound, Commanded, Labels, PushOnly, PullOnly, AfterSeed, Origins, Held

LEMMA Ends ==
    ASSUME TransferConstants, NEW c \in Clients, NEW o, End(c, o)
    PROVE  Fine(c)
BY IdleSound DEF End, Fine

LEMMA Moves ==
    ASSUME Commands, NEW c \in Clients, Fine(c), Grows
    PROVE  /\ Commands' /\ cmd'[c].pc # "wait"
           /\ \A d \in Clients \ {c} : cmd'[d] = cmd[d]
<1> PICK k \in Commanded : Set(c, k) /\ Sound(c, k, held, cloned) /\ k.pc # "wait"
  BY DEF Fine
<1>1. cmd' \in [Clients -> Commanded] /\ cmd'[c] = k
      /\ \A d \in Clients \ {c} : cmd'[d] = cmd[d]
  BY DEF Set, Commands
<1>2. Sound(c, k, held', cloned')
  BY StaysSound
<1>3. ASSUME NEW d \in Clients \ {c} PROVE Sound(d, cmd[d], held', cloned')
  BY StaysSound DEF Commands
<1> QED BY <1>1, <1>2, <1>3 DEF Commands

(* A command that is not c keeps waiting for the request it has sent.        *)
LEMMA Awaits ==
    ASSUME Waits, NEW c \in Clients, cmd'[c].pc # "wait",
           \A d \in Clients \ {c} : cmd'[d] = cmd[d],
           \A r \in net : r.by # c => \E q \in net' : q.by = r.by /\ (r.live => q.live)
    PROVE  Waits'
BY DEF Waits, At

LEMMA Known ==
    ASSUME World, Commands, NEW c \in Clients
    PROVE  /\ cmd[c] \in Commanded /\ Sound(c, cmd[c], held, cloned)
           /\ cmd[c].path \in Paths /\ cmd[c].path \in Places /\ c \in Places
           /\ cmd[c].mine \in Origins /\ cmd[c].op \in {"push", "pull"}
           /\ local[c] \in Tree /\ local[c] \in held[c] /\ local[c] \in Held
           /\ remote[cmd[c].path] \in Held /\ remote[cmd[c].path] \in held[cmd[c].path]
           /\ cmd[c].source \in Held /\ cmd[c].destination \in Held /\ cmd[c].seed \in Held
BY DEF World, Commands, Commanded, Places, Held

(* A command goes on to a label at which nothing more is asked of it.        *)
LEMMA Goes ==
    ASSUME NEW c \in Clients, cmd[c] \in Commanded, Sound(c, cmd[c], held, cloned),
           NEW pc \in Labels, Go(c, pc), pc \notin {"wait", "seed", "inspect"},
           cmd[c].seed # Absent => pc \in AfterSeed,
           pc \in PushOnly \cup {"read", "preflight"} => cmd[c].op = "push",
           pc \in PullOnly => cmd[c].op = "pull" /\ pc = "observe",
           pc \in {"read", "compare"} => cmd[c].source \in held[c] \ {Absent},
           pc # "preflight"
    PROVE  Fine(c)
<1> DEFINE k == [cmd[c] EXCEPT !.pc = pc]
<1>1. /\ k \in Commanded /\ k.pc = pc /\ k.op = cmd[c].op /\ k.seed = cmd[c].seed
      /\ k.source = cmd[c].source /\ k.path = cmd[c].path
  BY DEF Commanded
<1>2. Set(c, k)
  BY DEF Go
<1> HIDE DEF k
<1>3. Sound(c, k, held, cloned)
  BY <1>1 DEF Sound, PullOnly, PushOnly
<1> QED BY <1>1, <1>2, <1>3 DEF Fine

(* A command without a seed may take another path.                           *)
LEMMA Elsewhere ==
    ASSUME World, Commands, NEW c \in Clients, NEW p \in Paths,
           cmd[c].pc = "discover",
           NEW pc \in {"observe", "capture", "clone"},
           IF pc = "observe" THEN cmd[c].op = "pull" ELSE cmd[c].op = "push",
           Set(c, [cmd[c] EXCEPT !.path = p, !.pc = pc])
    PROVE  Fine(c)
<1> DEFINE k == [cmd[c] EXCEPT !.path = p, !.pc = pc]
<1>1. cmd[c] \in Commanded /\ Sound(c, cmd[c], held, cloned)
  BY Known
<1>2. k \in Commanded /\ k.pc = pc /\ k.op = cmd[c].op /\ k.seed = cmd[c].seed
  BY <1>1 DEF Commanded, Labels
<1>3. cmd[c].seed = Absent
  BY <1>1 DEF Sound, AfterSeed
<1> HIDE DEF k
<1>4. Sound(c, k, held, cloned)
  BY <1>2, <1>3 DEF Sound, PushOnly, PullOnly
<1> QED BY <1>2, <1>4 DEF Fine, k

(* The steps by which a command finds its way and looks at both sides.       *)
LEMMA RoutesFine ==
    ASSUME TransferConstants, World, Commands, NEW c \in Clients
    PROVE  /\ Start(c) => Fine(c)
           /\ Revalidate(c) \/ SaveLink(c) \/ Unsupported(c) \/ Collision(c) => Fine(c)
           /\ Exact(c) \/ RoutePull(c) => Fine(c)
<1>1. ASSUME NEW op \in {"push", "pull"}, NEW dry \in BOOLEAN, NEW exact \in BOOLEAN,
             NEW p \in Paths, Begin(c, op, dry, exact, p)
      PROVE  Fine(c)
  <2>1. CASE \E o : End(c, o)
    BY <2>1, Ends
  <2>2. CASE ~ \E o : End(c, o)
    <3> DEFINE linked == Found(c, exact) /\ ~exact /\ inventory.box = link[c].box
    <3> DEFINE q == IF linked THEN link[c].path ELSE p
    <3> DEFINE b == inventory.box
    <3> DEFINE i == inventory.identity
    <3> DEFINE o == local[c].origin
    <3> DEFINE pc == IF linked THEN "revalidate" ELSE IF exact THEN "exact" ELSE "discover"
    <3> DEFINE k == [Idle EXCEPT !.pc = pc, !.op = op, !.dry = dry, !.linked = linked, !.path = q,
                       !.box = b, !.identity = i, !.mine = o]
    <3>1. Set(c, k)
      BY <1>1, <2>2 DEF Begin
    <3>2. /\ linked \in BOOLEAN /\ q \in Paths /\ b \in Nat /\ i \in Nat /\ o \in Origins
          /\ pc \in {"revalidate", "exact", "discover"}
      BY DEF World, Found, Links, Tree
    <3> HIDE DEF linked, q, b, i, o, pc
    <3>3. k \in Commanded
      BY <3>2, IdleSound DEF Commanded, Labels
    <3>4. k.pc = pc /\ k.seed = Absent
      BY DEF Idle
    <3> HIDE DEF k
    <3>5. Sound(c, k, held, cloned)
      BY <3>2, <3>3, <3>4 DEF Sound, PushOnly, PullOnly
    <3> QED BY <3>1, <3>2, <3>3, <3>4, <3>5 DEF Fine
  <2> QED BY <2>1, <2>2
<1>2. Revalidate(c) => Fine(c)
  BY Known, Ends, Goes DEF Revalidate, Conflict, Routed, At, Labels, AfterSeed, PushOnly, PullOnly, Sound
<1>3. SaveLink(c) \/ Unsupported(c) \/ Collision(c) => Fine(c)
  BY Ends DEF SaveLink, Unsupported, Collision, Conflict
<1>4. Exact(c) => Fine(c)
  BY Known, Ends, Goes DEF Exact, Conflict, At, Labels, AfterSeed, PushOnly, PullOnly, Sound
<1>5. ASSUME RoutePull(c) PROVE Fine(c)
  <2>1. CASE \E o : End(c, o)
    BY <2>1, Ends
  <2>2. CASE At(c, "exact") /\ ~ \E o : End(c, o)
    BY <1>5, <2>2, Known, Goes DEF RoutePull, At, Labels, AfterSeed, PushOnly, PullOnly, Sound
  <2>3. CASE At(c, "discover") /\ ~ \E o : End(c, o)
    <3> PICK p \in Paths : Set(c, [cmd[c] EXCEPT !.path = p, !.pc = "observe"])
      BY <1>5, <2>3 DEF RoutePull, At, Choices, Conflict
    <3>1. Set(c, [cmd[c] EXCEPT !.path = p, !.pc = "observe"])
      OBVIOUS
    <3>2. cmd[c].op = "pull"
      BY <1>5 DEF RoutePull
    <3> QED BY <2>3, <3>1, <3>2, Elsewhere DEF At, AfterSeed
  <2> QED BY <1>5, <2>1, <2>2, <2>3 DEF RoutePull
<1> QED BY <1>1, <1>2, <1>3, <1>4, <1>5 DEF Start

(* What two observations that are neither unchanged nor refused agree on.    *)
LEMMA Accepted ==
    ASSUME NEW source \in Tree, NEW destination \in Tree, NEW safe \in BOOLEAN,
           ~Unchanged(source, destination), ~Refused(source, destination, safe)
    PROVE  Related(source.origin, destination.origin) /\ destination.work = "clean" /\ safe
BY DEF Unchanged, Refused, Works, Tree

(* The steps by which a push looks at both sides.                            *)
LEMMA PushFine ==
    ASSUME TransferConstants, World, Commands, NEW c \in Clients
    PROVE  /\ Discover(c) \/ SeedSeen(c) \/ Capture(c) => Fine(c)
           /\ Read(c) \/ Compare(c) => Fine(c)
<1>1. ASSUME Discover(c) PROVE Fine(c)
  <2>1. CASE \E o : End(c, o)
    BY <2>1, Ends
  <2>2. CASE ~ \E o : End(c, o)
    <3>1. cmd[c].pc = "discover" /\ cmd[c].op = "push" /\ DefaultPath \in Paths
      BY <1>1 DEF Discover, At, TransferConstants
    <3>2. \E p \in Paths : \E pc \in {"capture", "clone"} :
             Set(c, [cmd[c] EXCEPT !.path = p, !.pc = pc])
      BY <1>1, <2>2, <3>1 DEF Discover, Choices, Conflict
    <3> QED BY <3>1, <3>2, Elsewhere
  <2> QED BY <2>1, <2>2
<1>2. ASSUME SeedSeen(c) PROVE Fine(c)
  <2>1. CASE \E o : End(c, o)
    BY <2>1, Ends
  <2>2. CASE ~ \E o : End(c, o)
    <3> DEFINE e == CloneOf(c)
    <3> DEFINE k == [cmd[c] EXCEPT !.seed = e, !.pc = "capture"]
    <3>1. Set(c, k) /\ cmd[c].pc = "seed"
      BY <1>2, <2>2 DEF SeedSeen, Conflict, At
    <3>2. cmd[c] \in Commanded /\ cmd[c].op = "push" /\ e \in cloned[cmd[c].path] /\ e \in Held
      BY <3>1, Known DEF Sound, Fresh, CloneOf, PushOnly, World, Held
    <3> HIDE DEF e
    <3>3. /\ k \in Commanded /\ k.pc = "capture" /\ k.op = "push" /\ k.seed = e
          /\ k.path = cmd[c].path
      BY <3>2 DEF Commanded, Labels
    <3> HIDE DEF k
    <3>4. Sound(c, k, held, cloned)
      BY <3>2, <3>3 DEF Sound, PullOnly, AfterSeed
    <3> QED BY <3>1, <3>3, <3>4 DEF Fine
  <2> QED BY <2>1, <2>2
<1>3. ASSUME Capture(c) PROVE Fine(c)
  <2> DEFINE pc == IF cmd[c].dry THEN "compare" ELSE "read"
  <2> DEFINE t == local[c]
  <2> DEFINE k == [cmd[c] EXCEPT !.source = t, !.pc = pc]
  <2>1. /\ Set(c, k) /\ cmd[c].pc = "capture" /\ cmd[c] \in Commanded
        /\ Sound(c, cmd[c], held, cloned) /\ t \in held[c] /\ t \in Tree /\ t \in Held
        /\ pc \in {"compare", "read"}
    BY <1>3, Known DEF Capture, At
  <2>2. t # Absent /\ cmd[c].op = "push"
    BY <2>1 DEF TransferConstants, Sound, PushOnly
  <2> HIDE DEF pc, t
  <2>3. /\ k \in Commanded /\ k.pc = pc /\ k.op = "push" /\ k.seed = cmd[c].seed
        /\ k.source = t /\ k.path = cmd[c].path
    BY <2>1, <2>2 DEF Commanded, Labels
  <2> HIDE DEF k
  <2>4. Sound(c, k, held, cloned)
    BY <2>1, <2>2, <2>3 DEF Sound, PushOnly, PullOnly, AfterSeed
  <2> QED BY <2>1, <2>3, <2>4 DEF Fine
<1>4. ASSUME Read(c) PROVE Fine(c)
  <2>1. cmd[c].pc = "read" /\ cmd[c].op = "push" /\ (Go(c, "compare") \/ \E o : End(c, o))
    BY <1>4 DEF Read, At, Conflict
  <2> QED BY <2>1, Known, Ends, Goes DEF Sound, Labels, AfterSeed, PushOnly, PullOnly
<1>5. ASSUME Compare(c) PROVE Fine(c)
  <2>1. CASE \E o : End(c, o)
    BY <2>1, Ends
  <2>2. CASE ~ \E o : End(c, o)
    <3> DEFINE there == remote[cmd[c].path]
    <3>1. /\ cmd[c].pc = "compare" /\ cmd[c] \in Commanded /\ Sound(c, cmd[c], held, cloned)
          /\ there \in Held /\ cmd[c].op = "push" /\ cmd[c].source \in held[c] \ {Absent}
          /\ cmd[c].source \in Tree
      BY <1>5, Known DEF Compare, At, Sound, PushOnly, Held
    <3>2. \E pc \in {"link", "preflight"} :
             /\ Set(c, [cmd[c] EXCEPT !.destination = there, !.pc = pc])
             /\ pc = "preflight" /\ there # Absent =>
                  /\ ~Unchanged(cmd[c].source, there)
                  /\ ~Refused(cmd[c].source, there, cmd[c].seed # Absent \/ Older(there.head, cmd[c].source.head))
                  /\ cmd[c].seed \in {Absent, there}
      BY <1>5, <2>2 DEF Compare, Conflict
    <3> PICK pc \in {"link", "preflight"} :
             /\ Set(c, [cmd[c] EXCEPT !.destination = there, !.pc = pc])
             /\ pc = "preflight" /\ there # Absent =>
                  /\ ~Unchanged(cmd[c].source, there)
                  /\ ~Refused(cmd[c].source, there, cmd[c].seed # Absent \/ Older(there.head, cmd[c].source.head))
                  /\ cmd[c].seed \in {Absent, there}
      BY <3>2
    <3>3. pc = "preflight" /\ there # Absent =>
             Replaceable(cmd[c].source, there, cloned[cmd[c].path])
      <4> SUFFICES ASSUME pc = "preflight", there # Absent
                   PROVE  Replaceable(cmd[c].source, there, cloned[cmd[c].path])
        OBVIOUS
      <4>1. there \in Tree
        BY <3>1 DEF Held
      <4> DEFINE safe == cmd[c].seed # Absent \/ Older(there.head, cmd[c].source.head)
      <4>2. /\ safe \in BOOLEAN /\ ~Unchanged(cmd[c].source, there)
            /\ ~Refused(cmd[c].source, there, safe) /\ cmd[c].seed \in {Absent, there}
        OBVIOUS
      <4>3. cmd[c].seed # Absent => there \in cloned[cmd[c].path]
        BY <3>1, <4>2 DEF Sound
      <4> HIDE DEF there
      <4>4. Related(cmd[c].source.origin, there.origin) /\ there.work = "clean" /\ safe
        BY <3>1, <4>1, <4>2, Accepted
      <4> QED BY <4>3, <4>4 DEF Replaceable
    <3> DEFINE k == [cmd[c] EXCEPT !.destination = there, !.pc = pc]
    <3>4. Set(c, k)
      OBVIOUS
    <3> HIDE DEF there
    <3>5. /\ k \in Commanded /\ k.pc = pc /\ k.op = "push" /\ k.seed = cmd[c].seed
          /\ k.source = cmd[c].source /\ k.path = cmd[c].path /\ k.destination = there
      BY <3>1 DEF Commanded, Labels
    <3> HIDE DEF k
    <3>6. Sound(c, k, held, cloned)
      BY <3>1, <3>3, <3>5 DEF Sound, PushOnly, PullOnly, AfterSeed
    <3> QED BY <3>4, <3>5, <3>6 DEF Fine
  <2> QED BY <2>1, <2>2
<1> QED BY <1>1, <1>2, <1>3, <1>4, <1>5

(* The steps by which a pull looks at both sides.                            *)
LEMMA PullFine ==
    ASSUME TransferConstants, World, Commands, NEW c \in Clients
    PROVE  /\ Observe(c) \/ Inspect(c) => Fine(c)
           /\ PreflightPull(c) \/ Fetch(c) \/ Download(c) => Fine(c)
<1>1. ASSUME Observe(c) PROVE Fine(c)
  <2> DEFINE t == local[c]
  <2> DEFINE k == [cmd[c] EXCEPT !.destination = t, !.pc = "inspect"]
  <2>1. /\ Set(c, k) /\ cmd[c].pc = "observe" /\ cmd[c] \in Commanded
        /\ Sound(c, cmd[c], held, cloned) /\ t \in Tree /\ t \in Held
    BY <1>1, Known DEF Observe, At
  <2>2. t # Absent /\ cmd[c].op = "pull" /\ cmd[c].seed = Absent
    BY <2>1 DEF TransferConstants, Sound, PullOnly, AfterSeed
  <2> HIDE DEF t
  <2>3. /\ k \in Commanded /\ k.pc = "inspect" /\ k.op = "pull" /\ k.seed = Absent
        /\ k.destination = t
    BY <2>1, <2>2 DEF Commanded, Labels
  <2> HIDE DEF k
  <2>4. Sound(c, k, held, cloned)
    BY <2>2, <2>3 DEF Sound, PushOnly
  <2> QED BY <2>1, <2>3, <2>4 DEF Fine
<1>2. ASSUME Inspect(c) PROVE Fine(c)
  <2>1. CASE \E o : End(c, o)
    BY <2>1, Ends
  <2>2. CASE ~ \E o : End(c, o)
    <3> DEFINE there == remote[cmd[c].path]
    <3> DEFINE mine == cmd[c].destination
    <3>1. /\ cmd[c].pc = "inspect" /\ cmd[c] \in Commanded /\ Sound(c, cmd[c], held, cloned)
          /\ there \in Held /\ there \in held[cmd[c].path] /\ cmd[c].op = "pull"
          /\ mine \in Tree /\ cmd[c].seed = Absent
      BY <1>2, Known DEF Inspect, At, Sound, PullOnly, AfterSeed, Held
    <3>2. \E pc \in {"link", "preflight", "fetch"} :
             /\ Set(c, [cmd[c] EXCEPT !.source = there, !.pc = pc])
             /\ there # Absent
             /\ pc = "fetch" => /\ ~Unchanged(there, mine)
                                /\ ~Refused(there, mine, Older(mine.head, there.head))
      BY <1>2, <2>2 DEF Inspect, Conflict
    <3> PICK pc \in {"link", "preflight", "fetch"} :
             /\ Set(c, [cmd[c] EXCEPT !.source = there, !.pc = pc])
             /\ there # Absent
             /\ pc = "fetch" => /\ ~Unchanged(there, mine)
                                /\ ~Refused(there, mine, Older(mine.head, there.head))
      BY <3>2
    <3> DEFINE safe == Older(mine.head, there.head)
    <3>3. there \in Tree /\ there # Absent /\ safe \in BOOLEAN
      BY <3>1 DEF Held, Older
    <3>4. pc = "fetch" => ~Unchanged(there, mine) /\ ~Refused(there, mine, safe)
      OBVIOUS
    <3> DEFINE k == [cmd[c] EXCEPT !.source = there, !.pc = pc]
    <3>5. Set(c, k) /\ pc \in {"link", "preflight", "fetch"}
      OBVIOUS
    <3>6. safe => Older(mine.head, there.head)
      OBVIOUS
    <3>7. /\ k \in Commanded /\ k.pc = pc /\ k.op = "pull" /\ k.seed = Absent
          /\ k.source = there /\ k.path = cmd[c].path /\ k.destination = mine
      BY <3>1 DEF Commanded, Labels
    <3> HIDE DEF there, mine, safe, k
    <3>8. pc = "fetch" => Replaceable(there, mine, {})
      BY <3>1, <3>3, <3>4, <3>6, Accepted DEF Replaceable
    <3>9. Sound(c, k, held, cloned)
      BY <3>1, <3>3, <3>5, <3>7, <3>8 DEF Sound, PushOnly
    <3> QED BY <3>5, <3>7, <3>9 DEF Fine
  <2> QED BY <2>1, <2>2
<1>3. PreflightPull(c) => Fine(c)
  BY Ends DEF PreflightPull, Conflict
<1>4. ASSUME NEW from, NEW to, <<from, to>> \in {<<"fetch", "read">>, <<"read", "apply">>},
             cmd[c].pc = from, cmd[c].op = "pull", Go(c, to)
      PROVE  Fine(c)
  <2> DEFINE k == [cmd[c] EXCEPT !.pc = to]
  <2>1. /\ cmd[c] \in Commanded /\ Sound(c, cmd[c], held, cloned) /\ from \in {"fetch", "read"}
        /\ to \in {"read", "apply"} /\ Set(c, k)
    BY <1>4, Known DEF Go
  <2>2. /\ k \in Commanded /\ k.pc = to /\ k.op = "pull" /\ k.seed = cmd[c].seed
        /\ k.source = cmd[c].source /\ k.path = cmd[c].path /\ k.destination = cmd[c].destination
    BY <1>4, <2>1 DEF Commanded, Labels
  <2> HIDE DEF k
  <2>3. cmd[c].seed = Absent
    BY <1>4, <2>1 DEF Sound
  <2>4. Sound(c, k, held, cloned)
    BY <1>4, <2>1, <2>2, <2>3 DEF Sound, PushOnly
  <2> QED BY <2>1, <2>2, <2>4 DEF Fine
<1>5. ASSUME Fetch(c) \/ Download(c) PROVE Fine(c)
  <2>1. /\ cmd[c].pc \in {"fetch", "read"} /\ Sound(c, cmd[c], held, cloned)
        /\ cmd[c].op = "pull"
    BY <1>5, Known DEF Fetch, Download, At, Sound, PullOnly
  <2>2. \/ cmd[c].pc = "fetch" /\ Go(c, "read")
        \/ cmd[c].pc = "read" /\ Go(c, "apply")
        \/ \E o : End(c, o)
    BY <1>5 DEF Fetch, Download, At, Conflict
  <2> QED BY <1>4, <2>1, <2>2, Ends
<1> QED BY <1>1, <1>2, <1>3, <1>5

-----------------------------------------------------------------------------
(* The steps that change no checkout and send nothing.                       *)
Looking(c) ==
  \/ Start(c) \/ Revalidate(c) \/ SaveLink(c) \/ Unsupported(c) \/ Collision(c)
  \/ Exact(c) \/ Discover(c) \/ SeedSeen(c) \/ Capture(c) \/ Read(c) \/ Compare(c)
  \/ RoutePull(c) \/ Observe(c) \/ Inspect(c) \/ PreflightPull(c) \/ Fetch(c) \/ Download(c)

LEMMA Stutters == UNCHANGED trees => Grows
BY DEF trees, Grows

LEMMA StillCarried ==
    ASSUME World, Requests, Grows, machine' = machine, net' \subseteq net
    PROVE  Requests'
BY StaysCarried DEF World, Requests, Carried

LEMMA LookStep ==
    ASSUME TransferConstants, IInv, NEW c \in Clients, Looking(c)
    PROVE  IInv' /\ UNCHANGED <<trees, acts>>
<1>1. Fine(c)
  BY RoutesFine, PushFine, PullFine DEF IInv, Looking
<1>2. UNCHANGED <<trees, machine, inventory, net, acts, faults>>
  BY DEF Looking, Start, Begin, Revalidate, SaveLink, Unsupported, Collision, Exact, Discover,
     SeedSeen, Capture, Read, Compare, RoutePull, Observe, Inspect, PreflightPull, Fetch,
     Download, Looks, Quiet, bounds
<1>3. link' \in [Clients -> Links \cup {NoLink}] /\ starts' \in 0 .. MaxStarts
  <2>1. CASE SaveLink(c)
    <3> DEFINE far == IF cmd[c].op = "push" THEN cmd[c].destination ELSE cmd[c].source
    <3> DEFINE o == IF far.origin = cmd[c].mine THEN cmd[c].mine ELSE "none"
    <3> DEFINE new == [box |-> cmd[c].box, identity |-> cmd[c].identity, path |-> cmd[c].path,
                       origin |-> o]
    <3>1. link' = [link EXCEPT ![c] = new] /\ starts' = starts
      BY <2>1 DEF SaveLink, bounds
    <3>2. cmd[c] \in Commanded
      BY Known DEF IInv
    <3>3. o \in Origins
      BY <3>2 DEF Commanded, Origins
    <3> HIDE DEF o
    <3>4. new \in Links
      BY <3>2, <3>3 DEF Commanded, Links
    <3> HIDE DEF new
    <3> QED BY <3>1, <3>4 DEF IInv, World, Counters
  <2>2. CASE Start(c)
    BY <2>2 DEF Start, Begin, IInv, World, Counters, TransferConstants
  <2>3. CASE ~SaveLink(c) /\ ~Start(c)
    <3>1. UNCHANGED <<link, starts>>
      BY <2>3 DEF Looking, Revalidate, Unsupported, Collision, Exact, Discover,
         SeedSeen, Capture, Read, Compare, RoutePull, Observe, Inspect, PreflightPull, Fetch,
         Download, Looks, Quiet, bounds
    <3> QED BY <3>1 DEF IInv, World, Counters
  <2> QED BY <2>1, <2>2, <2>3
<1>4. Grows
  BY <1>2, Stutters
<1>5. Commands' /\ cmd'[c].pc # "wait" /\ \A d \in Clients \ {c} : cmd'[d] = cmd[d]
  BY <1>1, <1>4, Moves DEF IInv
<1>6. World' /\ Counters'
  BY <1>2, <1>3 DEF IInv, World, Counters, trees
<1>7. Requests'
  BY <1>2, <1>4, StillCarried DEF IInv
<1>8. Waits'
  BY <1>2, <1>5, Awaits DEF IInv
<1> QED BY <1>2, <1>5, <1>6, <1>7, <1>8 DEF IInv

(* A push sends what it captured towards what it found replaceable.          *)
LEMMA SendStep ==
    ASSUME TransferConstants, IInv, NEW c \in Clients, Preflight(c)
    PROVE  IInv' /\ UNCHANGED <<trees, acts>>
<1>1. UNCHANGED <<trees, machine, inventory, link, bounds>> /\ cmd[c].op = "push"
      /\ cmd[c].pc = "preflight"
  BY DEF Preflight, At
<1>2. cmd[c] \in Commanded /\ Sound(c, cmd[c], held, cloned)
  BY Known DEF IInv
<1>3. Grows
  BY <1>1, Stutters
<1>4. CASE cmd[c].dry
  <2>1. net' = net /\ Fine(c)
    BY <1>4, Ends DEF Preflight
  <2>2. Commands' /\ cmd'[c].pc # "wait" /\ \A d \in Clients \ {c} : cmd'[d] = cmd[d]
    BY <2>1, <1>3, Moves DEF IInv
  <2>3. World' /\ Counters' /\ Requests'
    BY <1>1, <1>3, <2>1, <2>2, StillCarried DEF IInv, World, Counters, trees, bounds
  <2>4. Waits'
    BY <2>1, <2>2, Awaits DEF IInv
  <2> QED BY <1>1, <2>2, <2>3, <2>4 DEF IInv, bounds
<1>5. CASE ~cmd[c].dry
  <2> DEFINE r == ApplyRequest(c)
  <2> DEFINE k == [cmd[c] EXCEPT !.pc = "wait"]
  <2>1. net' = net \cup {r} /\ cmd' = [cmd EXCEPT ![c] = k]
    BY <1>5 DEF Preflight, Go, Set
  <2>2. cmd[c].source \in held[c] \ {Absent} /\ cmd[c].source \in Tree
    BY <1>1, <1>2 DEF Sound, Commanded, Held
  <2>3. /\ r.by = c /\ r.live /\ r.pc = "sent" /\ r.payload = cmd[c].source
        /\ r.expected = cmd[c].destination /\ r.path = cmd[c].path /\ r \in Request
    BY <1>2, <2>2 DEF ApplyRequest, Request, Commanded
  <2>4. Carried(r)
    BY <1>1, <1>2, <2>2, <2>3 DEF Carried, Sound
  <2>5. /\ k \in Commanded /\ k.pc = "wait" /\ k.op = "push" /\ k.seed = cmd[c].seed
        /\ k.path = cmd[c].path
    BY <1>1, <1>2 DEF Commanded, Labels
  <2> HIDE DEF r, k
  <2>6. Sound(c, k, held, cloned)
    BY <1>1, <1>2, <2>5 DEF Sound, AfterSeed, PullOnly
  <2>7. cmd' \in [Clients -> Commanded] /\ cmd'[c] = k
        /\ \A d \in Clients \ {c} : cmd'[d] = cmd[d]
    BY <2>1, <2>5 DEF IInv, Commands
  <2>8. Commands'
    BY <1>1, <2>6, <2>7 DEF IInv, Commands, trees
  <2>9. Requests'
    <3>1. \A q \in net : Carried(q)'
      BY <1>1, <1>3, StaysCarried DEF IInv, World, Requests, Carried
    <3>2. /\ r.payload \in held'[r.by] /\ r.pc # "lock"
          /\ r.expected # Absent => Replaceable(r.payload, r.expected, cloned'[r.path])
      BY <1>1, <2>3, <2>4 DEF Carried, trees
    <3> QED BY <2>1, <3>1, <3>2 DEF Requests, Carried
  <2>10. Waits'
    BY <2>1, <2>3, <2>7 DEF IInv, Waits, At
  <2>11. World' /\ Counters'
    BY <1>1, <2>1, <2>3 DEF IInv, World, Counters, trees, bounds
  <2> QED BY <1>1, <2>8, <2>9, <2>10, <2>11 DEF IInv, bounds
<1> QED BY <1>4, <1>5

-----------------------------------------------------------------------------
(* What a step does to one place is what DirectionalTransfer lets it do.     *)
LEMMA RemoteStep ==
    ASSUME TransferConstants, World, NEW p \in Paths, NEW t \in Held, RemoteBecomes(p, t),
           UNCHANGED local
    PROVE  /\ Promise!Become(p, t) /\ p \in Places
           /\ remote' \in [Paths -> Held] /\ held' \in [Places -> SUBSET Held]
           /\ \A x \in Places : held[x] \subseteq held'[x]
           /\ \A c \in Clients : local'[c] \in held'[c]
           /\ \A q \in Paths : remote'[q] \in held'[q]
<1>1. p \in Places /\ p \notin Clients
  BY DEF Places, TransferConstants
<1>2. /\ remote' = [remote EXCEPT ![p] = t] /\ held' = [held EXCEPT ![p] = @ \cup {t}]
      /\ remote \in [Paths -> Held] /\ held \in [Places -> SUBSET Held]
  BY DEF RemoteBecomes, World
<1>3. \A q \in Paths : q \in Places
  BY DEF Places
<1>4. \A c \in Clients : c \in Places
  BY DEF Places
<1>5. Promise!Become(p, t)
  BY <1>1, <1>2, <1>3 DEF Promise!Become, Places
<1>6. /\ remote' \in [Paths -> Held] /\ held' \in [Places -> SUBSET Held]
      /\ \A x \in Places : held[x] \subseteq held'[x]
  BY <1>1, <1>2
<1>7. \A c \in Clients : local'[c] \in held'[c]
  BY <1>4, <1>6 DEF World
<1>8. \A q \in Paths : remote'[q] \in held'[q]
  BY <1>1, <1>2, <1>3, <1>6 DEF World
<1> QED BY <1>1, <1>5, <1>6, <1>7, <1>8

LEMMA LocalStep ==
    ASSUME TransferConstants, World, NEW c \in Clients, NEW t \in Tree, LocalBecomes(c, t),
           UNCHANGED remote
    PROVE  /\ Promise!Become(c, t) /\ c \in Places
           /\ local' \in [Clients -> Tree] /\ held' \in [Places -> SUBSET Held]
           /\ \A x \in Places : held[x] \subseteq held'[x]
           /\ \A d \in Clients : local'[d] \in held'[d]
           /\ \A q \in Paths : remote'[q] \in held'[q]
<1>1. c \in Places /\ t \in Held
  BY DEF Places, Held
<1>2. /\ local' = [local EXCEPT ![c] = t] /\ held' = [held EXCEPT ![c] = @ \cup {t}]
      /\ local \in [Clients -> Tree] /\ held \in [Places -> SUBSET Held]
  BY DEF LocalBecomes, World
<1>3. \A q \in Paths : q \in Places
  BY DEF Places
<1>4. \A d \in Clients : d \in Places
  BY DEF Places
<1>5. Promise!Become(c, t)
  BY <1>1, <1>2 DEF Promise!Become
<1>6. /\ local' \in [Clients -> Tree] /\ held' \in [Places -> SUBSET Held]
      /\ \A x \in Places : held[x] \subseteq held'[x]
  BY <1>1, <1>2
<1>7. \A d \in Clients : local'[d] \in held'[d]
  BY <1>1, <1>2, <1>4, <1>6 DEF World
<1>8. \A q \in Paths : remote'[q] \in held'[q]
  BY <1>3, <1>6 DEF World
<1> QED BY <1>1, <1>5, <1>6, <1>7, <1>8

(* Nothing happens at the places.                                            *)
LEMMA NothingSeen == UNCHANGED <<trees, acts>> => UNCHANGED Promise!vars
BY DEF trees, Promise!vars

(* A clone fills an empty place.                                             *)
LEMMA CloneStep ==
    ASSUME TransferConstants, IInv, NEW c \in Clients, CloneDestination(c)
    PROVE  IInv' /\ (Promise!Next \/ UNCHANGED Promise!vars)
<1>0. cmd[c].path \in Paths /\ CloneOf(c) \in Tree
  BY Known DEF IInv, CloneOf, Tree, Works, TransferConstants
<1> PICK p \in Paths : p = cmd[c].path
  BY <1>0
<1> PICK t \in Tree : t = CloneOf(c)
  BY <1>0
<1>1. /\ cmd[c].pc = "clone" /\ UNCHANGED <<local, machine, inventory, link, net, starts, acts, faults>>
      /\ p \in Places /\ cmd[c] \in Commanded /\ Sound(c, cmd[c], held, cloned)
  BY Known DEF CloneDestination, At, Quiet, bounds, IInv
<1>2. CASE \E o : End(c, o) /\ UNCHANGED <<remote, held, cloned>>
  <2>1. Fine(c) /\ Grows /\ UNCHANGED trees
    BY <1>1, <1>2, Ends, Stutters DEF trees
  <2>2. Commands' /\ cmd'[c].pc # "wait" /\ \A d \in Clients \ {c} : cmd'[d] = cmd[d]
    BY <2>1, Moves DEF IInv
  <2>3. World' /\ Counters' /\ Requests' /\ Waits'
    BY <1>1, <2>1, <2>2, StillCarried, Awaits DEF IInv, World, Counters, trees
  <2> QED BY <1>1, <2>1, <2>2, <2>3, NothingSeen DEF IInv
<1>3. CASE ~ \E o : End(c, o) /\ UNCHANGED <<remote, held, cloned>>
  <2>1. /\ remote[p] = Absent /\ RemoteBecomes(p, t)
        /\ cloned' = [cloned EXCEPT ![p] = @ \cup {t}] /\ Go(c, "seed")
    BY <1>3 DEF CloneDestination, Conflict
  <2>2. t \in Tree /\ t.work = "clean" /\ t = Fresh(cmd[c]) /\ t \in Held
    BY DEF CloneOf, Fresh, Held
  <2> DEFINE k == [cmd[c] EXCEPT !.pc = "seed"]
  <2>3. /\ k \in Commanded /\ k.pc = "seed" /\ k.op = "push" /\ k.seed = Absent /\ k.path = p
        /\ Fresh(k) = t /\ cmd' = [cmd EXCEPT ![c] = k]
    BY <1>1, <2>1, <2>2 DEF Commanded, Labels, Sound, PushOnly, AfterSeed, Fresh, Go, Set
  <2> HIDE DEF k
  <2>4. /\ Promise!Become(p, t)
        /\ remote' \in [Paths -> Held] /\ held' \in [Places -> SUBSET Held]
        /\ \A x \in Places : held[x] \subseteq held'[x]
        /\ \A d \in Clients : local'[d] \in held'[d]
        /\ \A q \in Paths : remote'[q] \in held'[q]
    BY <1>1, <2>1, <2>2, RemoteStep DEF IInv
  <2>5. /\ cloned' \in [Paths -> SUBSET Tree] /\ t \in cloned'[p]
        /\ \A q \in Paths : cloned[q] \subseteq cloned'[q]
    BY <1>1, <2>1, <2>2 DEF IInv, World
  <2>6. Grows
    BY <2>4, <2>5 DEF Grows
  <2>7. World' /\ Counters'
    BY <1>1, <2>4, <2>5 DEF IInv, World, Counters
  <2>8. cmd' \in [Clients -> Commanded] /\ cmd'[c] = k
        /\ \A d \in Clients \ {c} : cmd'[d] = cmd[d]
    BY <2>3 DEF IInv, Commands
  <2>9. Sound(c, k, held', cloned')
    BY <2>3, <2>5 DEF Sound, PullOnly
  <2>10. Commands'
    BY <2>6, <2>8, <2>9, StaysSound DEF IInv, Commands
  <2>11. Requests'
    BY <1>1, <2>6, StillCarried DEF IInv
  <2>12. Waits'
    BY <1>1, <2>3, <2>8, Awaits DEF IInv
  <2>13. Promise!Clone(p)
    <3> DEFINE tree == [x \in Places |-> IF x \in Clients THEN local[x] ELSE remote[x]]
    <3> DEFINE made == [x \in Places |-> IF x \in Paths THEN cloned[x] ELSE {}]
    <3>1. p \notin Clients
      BY <1>1 DEF TransferConstants
    <3>2. tree[p] = Absent
      BY <1>1, <2>1, <3>1
    <3>3. made' = [made EXCEPT ![p] = @ \cup {t}]
      BY <1>1, <2>1 DEF IInv, World
    <3> QED BY <1>1, <2>2, <2>4, <3>2, <3>3 DEF Promise!Clone
  <2>14. Promise!Next
    BY <1>1, <2>13 DEF Promise!Next
  <2> QED BY <2>7, <2>10, <2>11, <2>12, <2>14 DEF IInv
<1> QED BY <1>2, <1>3

(* What replaces a checkout has its own origin and is replaceable itself.    *)
LEMMA Reoriginated ==
    ASSUME NEW t \in Tree, NEW u \in Tree
    PROVE  [t EXCEPT !.origin = u.origin] \in Tree
BY DEF Tree

(* A pull replaces the checkout it observed by a state of the Worktree.      *)
LEMMA ReplaceStep ==
    ASSUME TransferConstants, IInv, NEW c \in Clients, Replace(c)
    PROVE  IInv' /\ (Promise!Next \/ UNCHANGED Promise!vars)
<1>1. /\ cmd[c].pc = "apply" /\ cmd[c].op = "pull"
      /\ UNCHANGED <<remote, cloned, machine, inventory, link, net, starts, acts, faults>>
      /\ cmd[c] \in Commanded /\ Sound(c, cmd[c], held, cloned)
      /\ c \in Places /\ local[c] \in Tree
  BY Known DEF Replace, At, Quiet, bounds, IInv, Sound, PullOnly
<1>2. CASE \E o : End(c, o) /\ UNCHANGED <<local, held>>
  <2>1. Fine(c) /\ Grows /\ UNCHANGED trees
    BY <1>1, <1>2, Ends, Stutters DEF trees
  <2>2. Commands' /\ cmd'[c].pc # "wait" /\ \A d \in Clients \ {c} : cmd'[d] = cmd[d]
    BY <2>1, Moves DEF IInv
  <2>3. World' /\ Counters' /\ Requests' /\ Waits'
    BY <1>1, <2>1, <2>2, StillCarried, Awaits DEF IInv, World, Counters, trees
  <2> QED BY <1>1, <2>1, <2>2, <2>3, NothingSeen DEF IInv
<1>3. CASE ~ \E o : End(c, o) /\ UNCHANGED <<local, held>>
  <2> DEFINE new == [cmd[c].source EXCEPT !.origin = local[c].origin]
  <2>1. /\ local[c] = cmd[c].destination /\ LocalBecomes(c, new)
        /\ Set(c, [cmd[c] EXCEPT !.pc = "link"])
    BY <1>3 DEF Replace, Conflict
  <2>2. /\ cmd[c].source \in held[cmd[c].path] \ {Absent} /\ cmd[c].source \in Tree
        /\ cmd[c].path \in Places /\ Replaceable(cmd[c].source, local[c], {})
    BY <1>1, <2>1 DEF Sound, Commanded, Held, Places
  <2>3. new \in Tree
    BY <1>1, <2>2, Reoriginated
  <2> PICK t \in Tree : t = new
    BY <2>3
  <2>4. /\ Promise!Become(c, t)
        /\ local' \in [Clients -> Tree] /\ held' \in [Places -> SUBSET Held]
        /\ \A x \in Places : held[x] \subseteq held'[x]
        /\ \A d \in Clients : local'[d] \in held'[d]
        /\ \A q \in Paths : remote'[q] \in held'[q]
    BY <1>1, <2>1, LocalStep DEF IInv
  <2>5. Grows
    BY <1>1, <2>4 DEF Grows
  <2>6. Fine(c)
    <3> DEFINE k == [cmd[c] EXCEPT !.pc = "link"]
    <3>1. k \in Commanded /\ k.pc = "link" /\ k.op = "pull" /\ k.seed = cmd[c].seed /\ Set(c, k)
      BY <1>1, <2>1 DEF Commanded, Labels
    <3>2. cmd[c].seed = Absent
      BY <1>1 DEF Sound
    <3> HIDE DEF k
    <3>3. Sound(c, k, held, cloned)
      BY <3>1, <3>2 DEF Sound, PushOnly
    <3> QED BY <3>1, <3>3 DEF Fine
  <2>7. Commands' /\ cmd'[c].pc # "wait" /\ \A d \in Clients \ {c} : cmd'[d] = cmd[d]
    BY <2>5, <2>6, Moves DEF IInv
  <2>8. World' /\ Counters'
    BY <1>1, <2>4 DEF IInv, World, Counters
  <2>9. Requests' /\ Waits'
    BY <1>1, <2>5, <2>7, StillCarried, Awaits DEF IInv
  <2>10. Promise!Replace(c, cmd[c].path)
    <3>1. UNCHANGED cloned /\ UNCHANGED acts /\ local[c].work = "clean"
          /\ Older(local[c].head, cmd[c].source.head)
          /\ Related(cmd[c].source.origin, local[c].origin)
      BY <1>1, <2>2 DEF Replaceable
    <3> DEFINE tree == [x \in Places |-> IF x \in Clients THEN local[x] ELSE remote[x]]
    <3> DEFINE made == [x \in Places |-> IF x \in Paths THEN cloned[x] ELSE {}]
    <3>3. tree[c] = local[c] /\ tree[c] \in Tree /\ UNCHANGED made
      BY <1>1, <3>1
    <3> PICK u \in Tree : u = cmd[c].source
      BY <2>2
    <3> DEFINE v == [u EXCEPT !.origin = tree[c].origin]
    <3>4. v = t
      BY <3>3
    <3>5. /\ tree' = [tree EXCEPT ![c] = v] /\ held' = [held EXCEPT ![c] = @ \cup {v}]
      BY <2>4, <3>4 DEF Promise!Become
    <3>6. /\ u \in held[cmd[c].path] \ {Absent}
          /\ Older(tree[c].head, u.head) /\ Related(tree[c].origin, u.origin)
          /\ tree[c].work = "clean"
      BY <2>2, <3>1, <3>3 DEF Related
    <3> QED
      BY <3>1, <3>3, <3>5, <3>6
      DEF Promise!Replace, Promise!Become, Promise!Older, Promise!Related, Older, Related
  <2>11. Promise!Next
    BY <1>1, <2>2, <2>10 DEF Promise!Next
  <2> QED BY <2>7, <2>8, <2>9, <2>11 DEF IInv
<1> QED BY <1>2, <1>3

-----------------------------------------------------------------------------
(* The Box answers.                                                          *)

LEMMA Sent ==
    ASSUME IInv, NEW r \in net
    PROVE  /\ r \in Request /\ Carried(r) /\ r.by \in Clients /\ r.path \in Paths
           /\ r.by \in Places /\ r.path \in Places
           /\ r.payload \in Tree /\ r.expected \in Held /\ r.live \in BOOLEAN
           /\ r.payload \in held[r.by]
BY DEF IInv, World, Requests, Carried, Request, Places

LEMMA RefuseStep ==
    ASSUME TransferConstants, IInv, NEW r \in net, RefuseApply(r),
           UNCHANGED <<machine, inventory, link>>
    PROVE  World' /\ Commands' /\ Requests' /\ Waits'
<1>1. net' = net \ {r} /\ UNCHANGED trees /\ r.by \in Clients
  BY Sent DEF RefuseApply
<1>2. Grows
  BY <1>1, Stutters
<1>3. Requests'
  BY <1>1, <1>2, StillCarried DEF IInv
<1>4. Commands' /\ Waits'
  <2>1. CASE r.live
    <3> PICK c \in Clients : c = r.by
      BY <1>1
    <3>1. Set(c, Idle)
      BY <2>1 DEF RefuseApply, Reply
    <3>2. Fine(c)
      BY <3>1, IdleSound DEF Fine
    <3>3. Commands' /\ cmd'[c].pc # "wait" /\ \A d \in Clients \ {c} : cmd'[d] = cmd[d]
      BY <1>2, <3>2, Moves DEF IInv
    <3> QED BY <1>1, <3>3, Awaits DEF IInv
  <2>2. CASE ~r.live
    <3>1. cmd' = cmd
      BY <2>2 DEF RefuseApply, Reply
    <3> QED BY <1>1, <2>2, <3>1 DEF IInv, Commands, Waits, At, trees
  <2> QED BY <2>1, <2>2
<1> QED BY <1>1, <1>3, <1>4 DEF IInv, World, trees

(* A request is received, or refused by another machine.                     *)
LEMMA ReceiveStep ==
    ASSUME TransferConstants, IInv, NEW r \in net, Receive(r)
    PROVE  IInv' /\ UNCHANGED <<trees, acts>>
<1>1. UNCHANGED <<trees, machine, inventory, link, starts, acts, faults>>
  BY DEF Receive, RefuseApply, bounds
<1>2. Counters'
  BY <1>1 DEF IInv, Counters
<1>3. CASE RefuseApply(r)
  BY <1>1, <1>2, <1>3, RefuseStep DEF IInv
<1>4. CASE ~RefuseApply(r)
  <2> DEFINE q == [r EXCEPT !.pc = "lock"]
  <2>1. /\ r.identity = machine /\ net' = (net \ {r}) \cup {q} /\ cmd' = cmd
    BY <1>4 DEF Receive
  <2>2. /\ q \in Request /\ q.by = r.by /\ q.live = r.live /\ q.identity = machine
        /\ q.payload = r.payload /\ q.expected = r.expected /\ q.path = r.path
    BY <2>1, Sent DEF Request
  <2>3. Carried(q)
    BY <2>2, Sent DEF Carried
  <2> HIDE DEF q
  <2>4. \A p \in net' : p \in Request /\ Carried(p)
    BY <2>1, <2>2, <2>3 DEF IInv, World, Requests
  <2>5. Requests'
    BY <1>1, <2>4 DEF Requests, Carried, trees
  <2>6. Waits'
    BY <2>1, <2>2 DEF IInv, Waits, At
  <2>7. World' /\ Commands'
    BY <1>1, <2>1, <2>4 DEF IInv, World, Commands, trees
  <2> QED BY <1>1, <1>2, <2>5, <2>6, <2>7 DEF IInv
<1> QED BY <1>1, <1>3, <1>4

(* What an application makes of its destination is a tree of its origin.     *)
LEMMA Results ==
    ASSUME IInv, NEW r \in net
    PROVE  /\ Result(r) \in Tree
           /\ r.expected # Absent => r.expected \in Tree
BY Sent, Reoriginated DEF Result, Held

(* An application replaces what the push observed, or fills what was empty.  *)
LEMMA ApplyStep ==
    ASSUME TransferConstants, IInv, NEW r \in net, Apply(r)
    PROVE  IInv' /\ (Promise!Next \/ UNCHANGED Promise!vars)
<1>1. UNCHANGED <<machine, inventory, link, starts, acts, faults>>
  BY DEF Apply, bounds
<1>2. Counters'
  BY <1>1 DEF IInv, Counters
<1>3. CASE RefuseApply(r)
  BY <1>1, <1>2, <1>3, RefuseStep, NothingSeen DEF IInv, RefuseApply
<1>4. CASE ~RefuseApply(r)
  <2> PICK p \in Paths : p = r.path
    BY Sent
  <2> PICK c \in Clients : c = r.by
    BY Sent
  <2> PICK t \in Tree : t = Result(r)
    BY Results
  <2>1. /\ remote[p] = r.expected /\ RemoteBecomes(p, t) /\ net' = net \ {r}
        /\ Reply(r, [cmd[c] EXCEPT !.pc = "link", !.destination = t])
        /\ UNCHANGED <<local, cloned>>
    BY <1>4 DEF Apply
  <2>2. t \in Held /\ p \in Places /\ c \in Places /\ p \notin Clients
    BY DEF Held, Places, TransferConstants
  <2>3. /\ Promise!Become(p, t)
        /\ remote' \in [Paths -> Held] /\ held' \in [Places -> SUBSET Held]
        /\ \A x \in Places : held[x] \subseteq held'[x]
        /\ \A d \in Clients : local'[d] \in held'[d]
        /\ \A q \in Paths : remote'[q] \in held'[q]
    BY <2>1, <2>2, RemoteStep DEF IInv
  <2>4. Grows
    BY <2>1, <2>3 DEF Grows
  <2>5. Requests'
    BY <1>1, <2>1, <2>4, StillCarried DEF IInv
  <2>6. Commands' /\ Waits'
    <3>1. CASE r.live
      <4> DEFINE k == [cmd[c] EXCEPT !.pc = "link", !.destination = t]
      <4>1. Set(c, k) /\ cmd[c] \in Commanded /\ Sound(c, cmd[c], held, cloned)
        BY <2>1, <3>1, Known DEF Reply, IInv
      <4>2. /\ k \in Commanded /\ k.pc = "link" /\ k.op = cmd[c].op /\ k.seed = cmd[c].seed
            /\ k.path = cmd[c].path
        BY <2>2, <4>1 DEF Commanded, Labels
      <4> HIDE DEF k
      <4>3. Sound(c, k, held, cloned)
        BY <4>1, <4>2 DEF Sound, PushOnly, PullOnly, AfterSeed
      <4>4. Fine(c)
        BY <4>1, <4>2, <4>3 DEF Fine
      <4>5. Commands' /\ cmd'[c].pc # "wait" /\ \A d \in Clients \ {c} : cmd'[d] = cmd[d]
        BY <2>4, <4>4, Moves DEF IInv
      <4> QED BY <2>1, <4>5, Awaits DEF IInv
    <3>2. CASE ~r.live
      <4>1. cmd' = cmd
        BY <2>1, <3>2 DEF Reply
      <4> QED BY <2>1, <2>4, <3>2, <4>1, StaysSound DEF IInv, Commands, Waits, At
    <3> QED BY <3>1, <3>2
  <2>7. World'
    BY <1>1, <2>1, <2>3 DEF IInv, World
  <2> DEFINE tree == [x \in Places |-> IF x \in Clients THEN local[x] ELSE remote[x]]
  <2> DEFINE made == [x \in Places |-> IF x \in Paths THEN cloned[x] ELSE {}]
  <2>8. /\ tree[p] = r.expected /\ made[p] = cloned[p] /\ UNCHANGED made
        /\ tree' = [tree EXCEPT ![p] = t] /\ held' = [held EXCEPT ![p] = @ \cup {t}]
        /\ r.payload \in held[c] \ {Absent} /\ r.payload \in Tree
    BY <2>1, <2>2, <2>3, Sent DEF Promise!Become, TransferConstants
  <2>9. CASE r.expected = Absent
    <3>1. t = r.payload
      BY <2>9 DEF Result
    <3>2. Promise!Create(p, c)
      BY <1>1, <2>8, <2>9, <3>1 DEF Promise!Create, Promise!Become
    <3> QED BY <1>2, <2>2, <2>5, <2>6, <2>7, <3>2 DEF Promise!Next, IInv
  <2>10. CASE r.expected # Absent
    <3>1. tree[p] \in Tree /\ Replaceable(r.payload, tree[p], cloned[p])
      BY <2>8, <2>10, Sent, Results DEF Carried
    <3>2. t = [r.payload EXCEPT !.origin = tree[p].origin]
      BY <2>8, <2>10 DEF Result
    <3>3. /\ tree[p].work = "clean" /\ Related(tree[p].origin, r.payload.origin)
          /\ Older(tree[p].head, r.payload.head) \/ tree[p] \in made[p]
      BY <2>8, <3>1 DEF Replaceable, Related
    <3>4. Promise!Replace(p, c)
      BY <1>1, <2>8, <3>1, <3>2, <3>3
      DEF Promise!Replace, Promise!Become, Promise!Older, Promise!Related, Older, Related
    <3> QED BY <1>2, <2>2, <2>5, <2>6, <2>7, <3>4 DEF Promise!Next, IInv
  <2> QED BY <2>9, <2>10
<1> QED BY <1>3, <1>4

(* A request is lost.                                                        *)
LEMMA LoseStep ==
    ASSUME TransferConstants, IInv, NEW r \in net, Lose(r)
    PROVE  IInv' /\ UNCHANGED <<trees, acts>>
<1>1. RefuseApply(r) /\ UNCHANGED <<trees, machine, inventory, link, starts, acts>>
  BY DEF Lose, RefuseApply
<1>2. Counters'
  BY <1>1 DEF Lose, IInv, Counters, TransferConstants
<1> QED BY <1>1, <1>2, RefuseStep DEF IInv

(* A command breaks off, and nobody waits for its request any more.          *)
LEMMA BreakStep ==
    ASSUME TransferConstants, IInv, NEW c \in Clients, Break(c)
    PROVE  IInv' /\ UNCHANGED <<trees, acts>>
<1> DEFINE Cut(r) == [r EXCEPT !.live = IF @ /\ r.by = c THEN FALSE ELSE @]
<1>1. /\ UNCHANGED <<trees, machine, inventory, link, starts, acts>>
      /\ net' = {Cut(r) : r \in net} /\ End(c, "failed")
  BY DEF Break
<1>2. Counters'
  BY <1>1 DEF Break, IInv, Counters, TransferConstants
<1>3. Fine(c) /\ Grows
  BY <1>1, Ends, Stutters
<1>4. Commands' /\ cmd'[c].pc # "wait" /\ \A d \in Clients \ {c} : cmd'[d] = cmd[d]
  BY <1>3, Moves DEF IInv
<1>5. ASSUME NEW r \in net
      PROVE  /\ Cut(r) \in Request /\ Cut(r).by = r.by /\ Cut(r).pc = r.pc
             /\ Cut(r).identity = r.identity /\ Cut(r).payload = r.payload
             /\ Cut(r).expected = r.expected /\ Cut(r).path = r.path
             /\ r.by # c => Cut(r).live = r.live
  <2> DEFINE b == IF r.live /\ r.by = c THEN FALSE ELSE r.live
  <2>1. b \in BOOLEAN /\ (r.by # c => b = r.live) /\ r \in Request
    BY Sent
  <2>2. Cut(r) = [r EXCEPT !.live = b]
    OBVIOUS
  <2> HIDE DEF b, Cut
  <2> QED BY <2>1, <2>2 DEF Request
<1> HIDE DEF Cut
<1>6. \A q \in net' : q \in Request /\ Carried(q)
  BY <1>1, <1>5, Sent DEF Carried
<1>7. Requests'
  BY <1>1, <1>6 DEF Requests, Carried, trees
<1>8. \A r \in net : r.by # c => \E q \in net' : q.by = r.by /\ (r.live => q.live)
  BY <1>1, <1>5
<1>9. Waits'
  BY <1>4, <1>8, Awaits DEF IInv
<1> QED BY <1>1, <1>2, <1>4, <1>6, <1>7, <1>9 DEF IInv, World, trees

-----------------------------------------------------------------------------
(* People.                                                                   *)
LEMMA PeopleStep ==
    ASSUME TransferConstants, IInv, People
    PROVE  IInv' /\ Promise!People
<1> DEFINE tree == [x \in Places |-> IF x \in Clients THEN local[x] ELSE remote[x]]
<1> DEFINE made == [x \in Places |-> IF x \in Paths THEN cloned[x] ELSE {}]
<1>1. UNCHANGED <<cmd, link, cloned, net, starts, faults>> /\ acts < MaxActs /\ acts' = acts + 1
  BY DEF People, WorkLocally, WorkRemotely, Rebuild, Reregister, Act
<1>2. /\ local' \in [Clients -> Tree] /\ remote' \in [Paths -> Held]
      /\ held' = [x \in Places |-> held[x] \cup {tree'[x]}]
  <2>1. /\ \A x \in Clients : x \in Places /\ x \notin Paths
        /\ \A x \in Paths : x \in Places /\ x \notin Clients
        /\ held \in [Places -> SUBSET Held]
        /\ local \in [Clients -> Tree] /\ remote \in [Paths -> Held]
        /\ \A c \in Clients : local[c] \in held[c]
        /\ \A p \in Paths : remote[p] \in held[p]
    BY DEF Places, TransferConstants, IInv, World
  <2>2. \A x \in Places : tree[x] \in held[x]
    BY <2>1 DEF Places
  <2>3. ASSUME NEW c \in Clients, WorkLocally(c)
        PROVE  /\ local' \in [Clients -> Tree] /\ remote' \in [Paths -> Held]
               /\ held' = [x \in Places |-> held[x] \cup {tree'[x]}]
    <3> PICK t \in Reworked(local[c]) : LocalBecomes(c, t)
      BY <2>3 DEF WorkLocally
    <3>1. t \in Tree /\ UNCHANGED remote
      BY <2>3 DEF WorkLocally, Reworked
    <3>2. local' = [local EXCEPT ![c] = t] /\ held' = [held EXCEPT ![c] = @ \cup {t}]
      BY DEF LocalBecomes
    <3>3. tree' = [tree EXCEPT ![c] = t]
      BY <2>1, <3>1, <3>2
    <3>4. local' \in [Clients -> Tree] /\ remote' \in [Paths -> Held]
      BY <2>1, <3>1, <3>2
    <3>5. tree = [x \in Places |-> tree[x]] /\ c \in Places
      BY <2>1
    <3> HIDE DEF tree
    <3>6. \A x \in Places : tree'[x] = IF x = c THEN t ELSE tree[x]
      BY <3>3, <3>5
    <3>7. \A x \in Places : held'[x] = held[x] \cup {tree'[x]}
      BY <2>1, <2>2, <3>2, <3>6
    <3>8. held' = [x \in Places |-> held'[x]]
      BY <2>1, <3>2
    <3> QED BY <3>4, <3>7, <3>8
  <2>4. ASSUME NEW p \in Paths, WorkRemotely(p)
        PROVE  /\ local' \in [Clients -> Tree] /\ remote' \in [Paths -> Held]
               /\ held' = [x \in Places |-> held[x] \cup {tree'[x]}]
    <3> PICK t \in Reworked(remote[p]) \cup ({Absent} \ {remote[p]}) : RemoteBecomes(p, t)
      BY <2>4 DEF WorkRemotely
    <3>1. t \in Held /\ UNCHANGED local
      BY <2>4 DEF WorkRemotely, Reworked, Held
    <3>2. remote' = [remote EXCEPT ![p] = t] /\ held' = [held EXCEPT ![p] = @ \cup {t}]
      BY DEF RemoteBecomes
    <3>3. tree' = [tree EXCEPT ![p] = t]
      BY <2>1, <3>1, <3>2 DEF Places
    <3>4. local' \in [Clients -> Tree] /\ remote' \in [Paths -> Held]
      BY <2>1, <3>1, <3>2
    <3>5. tree = [x \in Places |-> tree[x]] /\ p \in Places
      BY <2>1
    <3> HIDE DEF tree
    <3>6. \A x \in Places : tree'[x] = IF x = p THEN t ELSE tree[x]
      BY <3>3, <3>5
    <3>7. \A x \in Places : held'[x] = held[x] \cup {tree'[x]}
      BY <2>1, <2>2, <3>2, <3>6
    <3>8. held' = [x \in Places |-> held'[x]]
      BY <2>1, <3>2
    <3> QED BY <3>4, <3>7, <3>8
  <2>5. ASSUME Rebuild
        PROVE  /\ local' \in [Clients -> Tree] /\ remote' \in [Paths -> Held]
               /\ held' = [x \in Places |-> held[x] \cup {tree'[x]}]
    <3>1. /\ remote' \in [Paths -> Held] /\ UNCHANGED local
          /\ held' = [x \in Places |-> IF x \in Paths THEN held[x] \cup {remote'[x]} ELSE held[x]]
      BY <2>5 DEF Rebuild, Reworked, Held
    <3>2. \A x \in Places : (IF x \in Paths THEN held[x] \cup {remote'[x]} ELSE held[x])
                              = held[x] \cup {tree'[x]}
      BY <2>1, <3>1 DEF Places
    <3> HIDE DEF tree
    <3> QED BY <2>1, <3>1, <3>2
  <2>6. ASSUME Reregister
        PROVE  /\ local' \in [Clients -> Tree] /\ remote' \in [Paths -> Held]
               /\ held' = [x \in Places |-> held[x] \cup {tree'[x]}]
    <3>1. UNCHANGED <<local, remote, held>>
      BY <2>6 DEF Reregister
    <3>2. tree' = tree
      BY <3>1
    <3> HIDE DEF tree
    <3>3. \A x \in Places : held[x] \cup {tree'[x]} = held[x]
      BY <2>2, <3>2
    <3> QED BY <2>1, <3>1, <3>3
  <2> QED BY <2>3, <2>4, <2>5, <2>6 DEF People
<1>3. tree' \in [Places -> Held]
  BY <1>2 DEF Places, Held
<1>4. /\ held' \in [Places -> SUBSET Held] /\ \A x \in Places : held[x] \subseteq held'[x]
      /\ \A c \in Clients : local'[c] \in held'[c]
      /\ \A p \in Paths : remote'[p] \in held'[p]
  <2>1. \A x \in Places : tree'[x] \in Held /\ held'[x] = held[x] \cup {tree'[x]}
    BY <1>2, <1>3
  <2>2. /\ \A c \in Clients : c \in Places /\ tree'[c] = local'[c]
        /\ \A p \in Paths : p \in Places /\ tree'[p] = remote'[p]
    BY DEF Places, TransferConstants
  <2> HIDE DEF tree
  <2> QED BY <1>2, <2>1, <2>2 DEF IInv, World
<1>5. Grows
  BY <1>1, <1>4 DEF Grows
<1>6. Commands' /\ Waits'
  BY <1>1, <1>5, StaysSound DEF IInv, Commands, Waits, At
<1>7. Requests' /\ inventory' \in [box : Nat, identity : Nat] /\ machine' \in 1 .. acts' + 1
  <2>1. CASE Rebuild
    <3>1. /\ machine' = machine + 1 /\ UNCHANGED inventory
          /\ \A r \in net : r.pc = "sent"
      BY <2>1 DEF Rebuild
    <3>2. \A r \in net : r.by \in Places /\ r.path \in Paths /\ Carried(r)
      BY Sent
    <3>3. Requests'
      BY <1>1, <1>5, <3>1, <3>2 DEF Requests, Carried, Grows, Replaceable
    <3> QED BY <1>1, <3>1, <3>3 DEF IInv, World, Counters
  <2>2. CASE ~Rebuild
    <3>1. /\ machine' = machine
          /\ inventory' = inventory \/ inventory' = [box |-> inventory.box + 1, identity |-> machine]
      BY <2>2 DEF People, WorkLocally, WorkRemotely, Reregister
    <3> QED BY <1>1, <1>5, <3>1, StillCarried DEF IInv, World, Counters
  <2> QED BY <2>1, <2>2
<1>8. World' /\ Counters'
  BY <1>1, <1>2, <1>4, <1>7 DEF IInv, World, Counters, TransferConstants
<1>9. Promise!People
  BY <1>1, <1>2, <1>3 DEF Promise!People, Held
<1> QED BY <1>6, <1>7, <1>8, <1>9 DEF IInv

-----------------------------------------------------------------------------
LEMMA InitIInv == ASSUME TransferConstants PROVE Init => IInv /\ Promise!Init
<1> SUFFICES ASSUME Init PROVE IInv /\ Promise!Init
  OBVIOUS
<1>1. /\ local \in [Clients -> Tree] /\ remote \in [Paths -> Held]
      /\ held = [x \in Places |-> {IF x \in Clients THEN local[x] ELSE remote[x]}]
      /\ cloned = [p \in Paths |-> {}] /\ acts = 0
  BY DEF Init
<1>2. /\ \A c \in Clients : c \in Places
      /\ \A p \in Paths : p \in Places /\ p \notin Clients
  BY DEF Places, TransferConstants
<1>3. \A x \in Places : (IF x \in Clients THEN local[x] ELSE remote[x]) \in Held
  BY <1>1 DEF Places, Held
<1>4. held \in [Places -> SUBSET Held] /\ cloned \in [Paths -> SUBSET Tree]
  BY <1>1, <1>3
<1>5. World /\ Counters
  BY <1>1, <1>2, <1>4 DEF Init, World, Counters, TransferConstants
<1>6. Commands /\ Waits
  BY IdleSound DEF Init, Commands, Waits, At
<1>7. Requests
  BY DEF Init, Requests
<1>8. Promise!Init
  BY <1>1, <1>3 DEF Promise!Init, Held
<1> QED BY <1>5, <1>6, <1>7, <1>8 DEF IInv

(* Every step keeps the invariant, and is a step of DirectionalTransfer or   *)
(* nothing to it.                                                            *)
LEMMA StepIInv ==
    ASSUME TransferConstants, IInv, [Next]_vars
    PROVE  IInv' /\ (Promise!Next \/ UNCHANGED Promise!vars)
<1>1. ASSUME NEW c \in Clients, Command(c) \/ Break(c)
      PROVE  IInv' /\ (Promise!Next \/ UNCHANGED Promise!vars)
  <2>1. Looking(c) \/ Preflight(c) \/ CloneDestination(c) \/ Replace(c) \/ Break(c)
    BY <1>1 DEF Command, Pushing, Pulling, Looking
  <2> QED BY <2>1, LookStep, SendStep, CloneStep, ReplaceStep, BreakStep, NothingSeen
<1>2. ASSUME NEW r \in net, Receive(r) \/ Apply(r) \/ Lose(r)
      PROVE  IInv' /\ (Promise!Next \/ UNCHANGED Promise!vars)
  BY <1>2, ReceiveStep, ApplyStep, LoseStep, NothingSeen
<1>3. CASE People
  BY <1>3, PeopleStep DEF Promise!Next
<1>4. CASE UNCHANGED vars
  <2>1. UNCHANGED <<trees, acts>>
    BY <1>4 DEF vars, trees
  <2>2. IInv'
    BY <1>4 DEF vars, IInv, World, Counters, Commands, Requests, Carried, Waits, At
  <2> QED BY <2>1, <2>2, NothingSeen
<1> QED BY <1>1, <1>2, <1>3, <1>4 DEF Next, Serving

(* Commands, requests, links and checkouts stay what the code makes of them, *)
(* and a command that waits has a request that will be answered              *)
(* (cli/push.go, cli/pull.go, workspacetransfer/push.go).                    *)
THEOREM TypeCorrect == Spec => []TypeOK
<1>1. IInv => TypeOK
  <2> SUFFICES ASSUME IInv PROVE TypeOK
    OBVIOUS
  <2>1. ASSUME NEW c \in Clients
        PROVE  /\ DOMAIN cmd[c] = DOMAIN Idle /\ cmd[c].path \in Paths
               /\ cmd[c].source \in Held /\ cmd[c].destination \in Held /\ cmd[c].seed \in Held
    BY <2>1 DEF IInv, Commands, Commanded, Idle
  <2>2. \A c \in Clients : link[c] = NoLink \/ link[c] \in Links
    BY DEF IInv, World
  <2>3. machine \in 1 .. MaxActs + 1
    BY TransferConstants DEF IInv, World, Counters
  <2> QED BY <2>1, <2>2, <2>3 DEF IInv, World, Counters, Waits, TypeOK
<1> QED BY <1>1, InitIInv, StepIInv, TransferConstants, PTL DEF Spec

(* For any number of workstations and Worktrees, with faults and people at   *)
(* work, push and pull implement DirectionalTransfer: a checkout with work   *)
(* of its own is never replaced (workspacetransfer/push.go, pull.go, ADR     *)
(* 0012).                                                                    *)
THEOREM Implements == Spec => Directional
<1>1. Init => IInv /\ Promise!Init
  BY InitIInv, TransferConstants
<1>2. IInv /\ [Next]_vars => IInv' /\ [Promise!Next]_(Promise!vars)
  BY StepIInv, TransferConstants
<1> QED BY <1>1, <1>2, PTL DEF Spec, Directional, Promise!Spec

(* A request that reaches another machine than the one the push observed     *)
(* changes nothing there, whatever machines take the address                 *)
(* (host.go:501-560).                                                        *)
THEOREM OnItsMachine == Spec => SameMachine
<1> DEFINE Step == \A r \in net : r \notin net' /\ remote' # remote /\ acts' = acts => r.identity = machine
<1>1. ASSUME IInv, Next PROVE Step
  <2> SUFFICES ASSUME NEW r \in net, r \notin net', remote' # remote, acts' = acts
               PROVE  r.identity = machine
    OBVIOUS
  <2>1. ASSUME NEW q \in net, Apply(q) PROVE r.identity = machine
    <3>1. q.pc = "lock" /\ net' = net \ {q}
      BY <2>1 DEF Apply, RefuseApply
    <3> QED BY <1>1, <3>1, Sent DEF Carried
  <2>2. ASSUME NEW q \in net, Receive(q) \/ Lose(q) PROVE FALSE
    BY <2>2 DEF Receive, Lose, RefuseApply, trees
  <2>3. ASSUME NEW c \in Clients, Looking(c) \/ Preflight(c) \/ Break(c) PROVE FALSE
    BY <1>1, <2>3, LookStep, SendStep, BreakStep, TransferConstants DEF trees
  <2>4. ASSUME NEW c \in Clients, CloneDestination(c) \/ Replace(c) PROVE FALSE
    BY <2>4 DEF CloneDestination, Replace, Quiet
  <2>5. ~People
    BY <1>1 DEF People, WorkLocally, WorkRemotely, Rebuild, Reregister, Act, IInv, Counters
  <2> QED BY <1>1, <2>1, <2>2, <2>3, <2>4, <2>5
       DEF Next, Serving, Command, Pushing, Pulling, Looking
<1>2. IInv /\ [Next]_vars => [Step]_vars
  BY <1>1
<1>3. IInv /\ [Next]_vars => IInv'
  BY StepIInv, TransferConstants
<1> HIDE DEF Step
<1>4. [][Step]_vars => SameMachine
  BY DEF Step, SameMachine
<1> QED BY <1>2, <1>3, <1>4, InitIInv, TransferConstants, PTL DEF Spec
=============================================================================
