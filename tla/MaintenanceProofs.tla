-------------------------- MODULE MaintenanceProofs --------------------------
(* What holds of the maintenance of a Box for any number of workstations,    *)
(* machines, versions, commands, faults and acts of people.                  *)
EXTENDS BoxMaintenance, TLAPS

Labels    == {"idle", "inspect", "create", "write", "read", "assess", "fingerprint", "reassess",
              "upload", "try", "promote", "confirm", "tools", "root", "offer", "configure",
              "hello", "report", "path", "save"}
Unchecked == {"idle", "inspect", "create", "write", "read"}
Ops       == {"add", "setup", "update", "status"}
Runtimes  == Artifact \cup {Missing, Damaged}
Command   == [pc : Labels, op : Ops, expect : Nat, on : Machines \cup {NoBox},
              baseline : Runtimes, staged : Machines \cup {NoBox}, lacks : BOOLEAN,
              tries : Nat, seen : Versions]

(* What the machines keep, and what the inventories record. *)
World ==
  /\ at \in Machines
  /\ identity \in [Machines -> Nat] /\ runtime \in [Machines -> Runtimes]
  /\ config \subseteq Machines /\ root \subseteq Machines /\ tools \subseteq Machines
  /\ cli \in [Stations -> Versions]
  /\ box \in [Stations -> Record \cup {NoBox}]
  /\ \A s \in Stations : box[s] # NoBox => box[s].identity >= FirstIdentity
  /\ ids \in Nat /\ ids >= FirstIdentity /\ acts \in Nat

(* A command that has an identity to hold a machine to keeps it; one that    *)
(* writes an identity writes it into the file it made, which is blank; and   *)
(* the machine on which a staged runtime was tried has the identity.         *)
Sound(c, id) ==
  /\ c \in Command
  /\ c.pc \notin Unchecked \/ (c.pc = "inspect" /\ c.op # "add") => c.expect >= FirstIdentity
  /\ c.pc \in {"write", "read"} => c.on \in Machines
  /\ c.pc = "write" => id[c.on] = Blank
  /\ c.pc = "promote" => c.staged \in Machines /\ id[c.staged] = c.expect

Commands == cmd \in [Stations -> Command] /\ \A s \in Stations : Sound(cmd[s], identity)

(* No two commands write the identity of one machine. *)
OneWriter ==
  \A s, t \in Stations :
    s # t /\ cmd[s].pc = "write" /\ cmd[t].pc = "write" => cmd[s].on # cmd[t].on

IInv == World /\ Commands /\ OneWriter

-----------------------------------------------------------------------------
(* Lemmas on how a command moves on. *)

LEMMA IdleSound == ASSUME MaintenanceConstants PROVE Sound(Idle, identity)
BY DEF MaintenanceConstants, Idle, Sound, Command, Labels, Unchecked, Ops, Runtimes, Dev,
       NoIdentity

(* The label of a sound command may become any later one at which nothing    *)
(* more is asked of it.                                                      *)
LEMMA Later ==
    ASSUME NEW c, Sound(c, identity), c.expect >= FirstIdentity,
           NEW pc \in Labels \ {"write", "read", "promote"}
    PROVE  Sound([c EXCEPT !.pc = pc], identity)
BY DEF Sound, Command, Unchecked

(* A step that moves one command to a sound one that writes no identity, and *)
(* changes no identity, keeps all commands sound.                            *)
LEMMA Moves ==
    ASSUME Commands, OneWriter, NEW s \in Stations, NEW c, Sound(c, identity), c.pc # "write",
           UNCHANGED identity, Set(s, c)
    PROVE  (Commands /\ OneWriter)'
<1>1. cmd' \in [Stations -> Command] /\ cmd'[s] = c
  BY DEF Set, Commands, Sound
<1>2. \A t \in Stations \ {s} : cmd'[t] = cmd[t]
  BY DEF Set, Commands
<1>3. \A t \in Stations : Sound(cmd'[t], identity')
  BY <1>1, <1>2 DEF Commands, Sound
<1>4. OneWriter'
  BY <1>1, <1>2 DEF OneWriter
<1> QED BY <1>1, <1>3, <1>4 DEF Commands

(* A command ends. *)
LEMMA Ends ==
    ASSUME MaintenanceConstants, Commands, OneWriter, NEW s \in Stations, UNCHANGED identity, End(s)
    PROVE  (Commands /\ OneWriter)'
<1>1. Idle.pc # "write"
  BY DEF Idle
<1> QED BY <1>1, IdleSound, Moves DEF End

(* A command goes on to a label at which nothing more is asked of it. *)
LEMMA Goes ==
    ASSUME Commands, OneWriter, NEW s \in Stations, UNCHANGED identity,
           NEW pc \in Labels \ {"write", "read", "promote"}, Go(s, pc),
           cmd[s].expect >= FirstIdentity
    PROVE  (Commands /\ OneWriter)'
<1> DEFINE c == [cmd[s] EXCEPT !.pc = pc]
<1>1. Sound(cmd[s], identity)
  BY DEF Commands
<1>2. Sound(c, identity) /\ c.pc # "write"
  BY <1>1, Later DEF Sound, Command
<1>3. Set(s, c)
  BY DEF Go
<1> HIDE DEF c
<1> QED BY <1>2, <1>3, Moves

(* What is known of a command. *)
LEMMA Due ==
    ASSUME Commands, NEW s \in Stations
    PROVE  /\ cmd[s] \in Command /\ Sound(cmd[s], identity)
           /\ cmd[s].pc \notin Unchecked => cmd[s].expect >= FirstIdentity
BY DEF Commands, Sound

(* A machine without an identity gets a blank one: no other command writes   *)
(* there or has tried a runtime there.                                       *)
LEMMA Blanks ==
    ASSUME World, Commands, OneWriter, NEW s \in Stations, cmd[s].pc = "create",
           identity[at] = NoIdentity, identity' = [identity EXCEPT ![at] = Blank],
           Set(s, [cmd[s] EXCEPT !.on = at, !.pc = "write"])
    PROVE  (Commands /\ OneWriter)'
<1> DEFINE c == [cmd[s] EXCEPT !.on = at, !.pc = "write"]
<1>1. cmd[s] \in Command /\ at \in Machines /\ identity \in [Machines -> Nat]
  BY DEF Commands, World
<1>2. c \in Command /\ c.pc = "write" /\ c.on = at
  BY <1>1 DEF Command, Labels
<1>3. cmd' \in [Stations -> Command] /\ cmd'[s] = c
      /\ \A t \in Stations \ {s} : cmd'[t] = cmd[t]
  BY <1>1, <1>2 DEF Set, Commands
<1>4. identity'[at] = Blank /\ \A m \in Machines \ {at} : identity'[m] = identity[m]
  BY <1>1
<1> HIDE DEF c
<1>5. Sound(c, identity')
  BY <1>1, <1>2, <1>4 DEF Sound, Unchecked
<1>6. ASSUME NEW t \in Stations \ {s}
      PROVE  Sound(cmd'[t], identity') /\ (cmd[t].pc = "write" => cmd[t].on # at)
  <2>1. cmd[t] \in Command /\ Sound(cmd[t], identity) /\ cmd'[t] = cmd[t]
    BY <1>3 DEF Commands
  <2>2. cmd[t].pc = "write" => cmd[t].on \in Machines \ {at}
    BY <2>1 DEF Sound, NoIdentity, Blank
  <2>3. cmd[t].pc = "promote" => cmd[t].staged \in Machines \ {at}
    BY <2>1 DEF Sound, Unchecked, NoIdentity, FirstIdentity
  <2> QED BY <2>1, <2>2, <2>3, <1>4 DEF Sound
<1>7. \A t \in Stations : Sound(cmd'[t], identity')
  BY <1>3, <1>5, <1>6 DEF Sound
<1>8. OneWriter'
  BY <1>2, <1>3, <1>6 DEF OneWriter
<1> QED BY <1>3, <1>7, <1>8 DEF Commands

(* The blank identity a command has made becomes a new one: no other command *)
(* writes there or has tried a runtime there.                                *)
LEMMA Writes ==
    ASSUME World, Commands, OneWriter, NEW s \in Stations, WriteIdentity(s)
    PROVE  (Commands /\ OneWriter)'
<1> DEFINE c == [cmd[s] EXCEPT !.pc = "read"]
<1> DEFINE m == cmd[s].on
<1>1. /\ cmd[s] \in Command /\ Sound(cmd[s], identity) /\ cmd[s].pc = "write"
      /\ identity \in [Machines -> Nat] /\ ids \in Nat
      /\ identity' = [identity EXCEPT ![m] = ids] /\ cmd' = [cmd EXCEPT ![s] = c]
  BY DEF Commands, World, WriteIdentity, At, Go, Set
<1>2. m \in Machines /\ identity[m] = Blank
  BY <1>1 DEF Sound
<1>3. c \in Command /\ c.pc = "read" /\ c.on = m
  BY <1>1 DEF Command, Labels
<1>4. cmd' \in [Stations -> Command] /\ cmd'[s] = c
      /\ \A t \in Stations \ {s} : cmd'[t] = cmd[t]
  BY <1>1, <1>3 DEF Commands
<1>5. \A n \in Machines \ {m} : identity'[n] = identity[n]
  BY <1>1
<1>6. \A t \in Stations \ {s} : cmd[t].pc = "write" => cmd[t].on # m
  BY <1>1 DEF OneWriter
<1> HIDE DEF c, m
<1>7. Sound(c, identity')
  BY <1>2, <1>3 DEF Sound, Unchecked
<1>8. ASSUME NEW t \in Stations \ {s} PROVE Sound(cmd'[t], identity')
  <2>1. cmd[t] \in Command /\ Sound(cmd[t], identity) /\ cmd'[t] = cmd[t]
    BY <1>4 DEF Commands
  <2>2. cmd[t].pc = "write" => cmd[t].on \in Machines \ {m}
    BY <2>1, <1>6 DEF Sound
  <2>3. cmd[t].pc = "promote" => cmd[t].staged \in Machines \ {m}
    BY <2>1, <1>2 DEF Sound, Unchecked, Blank, FirstIdentity
  <2> QED BY <2>1, <2>2, <2>3, <1>5 DEF Sound
<1>9. \A t \in Stations : Sound(cmd'[t], identity')
  BY <1>4, <1>7, <1>8 DEF Sound
<1>10. OneWriter'
  BY <1>3, <1>4 DEF OneWriter
<1> QED BY <1>4, <1>9, <1>10 DEF Commands

(* What a command sets out with is sound: it has the identity of its record. *)
LEMMA Begins ==
    ASSUME MaintenanceConstants, World, NEW s \in Stations
    PROVE  /\ Sound([Idle EXCEPT !.op = "add", !.pc = "inspect"], identity)
           /\ box[s] # NoBox => \A op \in Ops : \A pc \in {"inspect", "hello"} :
                                    Sound(Recorded(s, op, pc), identity)
<1>1. Idle \in Command /\ Sound([Idle EXCEPT !.op = "add", !.pc = "inspect"], identity)
  BY DEF MaintenanceConstants, Idle, Sound, Command, Labels, Unchecked, Ops, Runtimes, Dev,
         NoIdentity
<1>2. ASSUME box[s] # NoBox, NEW op \in Ops, NEW pc \in {"inspect", "hello"}
      PROVE  Sound(Recorded(s, op, pc), identity)
  <2>1. box[s].identity \in Nat /\ box[s].identity >= FirstIdentity
    BY <1>2 DEF World, Record
  <2> DEFINE e == box[s].identity
  <2>2. Recorded(s, op, pc) = [Idle EXCEPT !.op = op, !.pc = pc, !.expect = e]
    BY DEF Recorded
  <2> HIDE DEF e
  <2>3. [Idle EXCEPT !.op = op, !.pc = pc, !.expect = e] \in Command
    BY <2>1, <1>1 DEF e, Command, Labels
  <2>4. /\ [Idle EXCEPT !.op = op, !.pc = pc, !.expect = e].pc = pc
        /\ [Idle EXCEPT !.op = op, !.pc = pc, !.expect = e].expect = e
    BY DEF Idle
  <2> QED BY <2>1, <2>2, <2>3, <2>4 DEF e, Sound
<1> QED BY <1>1, <1>2

(* What is noted on the way does not matter to the identity a command has.   *)
LEMMA Notes ==
    ASSUME NEW c, Sound(c, identity), c.expect >= FirstIdentity
    PROVE  /\ \A r \in Runtimes :
                Sound([c EXCEPT !.baseline = r, !.pc = "reassess"], identity)
           /\ \A m \in Machines : Sound([c EXCEPT !.staged = m, !.pc = "try"], identity)
           /\ \A v \in Versions : Sound([c EXCEPT !.seen = v, !.pc = "report"], identity)
           /\ Sound([c EXCEPT !.pc = "assess", !.tries = @ + 1, !.staged = NoBox,
                              !.baseline = Missing], identity)
           /\ Sound([c EXCEPT !.pc = "root", !.baseline = Missing, !.staged = NoBox,
                              !.tries = 0], identity)
<1>1. c \in Command /\ Missing \in Runtimes /\ NoBox \in Machines \cup {NoBox}
  BY DEF Sound, Runtimes
<1>2. \A r \in Runtimes : Sound([c EXCEPT !.baseline = r, !.pc = "reassess"], identity)
  BY <1>1 DEF Sound, Command, Labels
<1>3. \A m \in Machines : Sound([c EXCEPT !.staged = m, !.pc = "try"], identity)
  BY <1>1 DEF Sound, Command, Labels
<1>4. \A v \in Versions : Sound([c EXCEPT !.seen = v, !.pc = "report"], identity)
  BY <1>1 DEF Sound, Command, Labels
<1>5. Sound([c EXCEPT !.pc = "assess", !.tries = @ + 1, !.staged = NoBox,
                      !.baseline = Missing], identity)
  <2> DEFINE n == c.tries + 1
  <2>1. n \in Nat
    BY <1>1 DEF Command
  <2> HIDE DEF n
  <2>2. Sound([c EXCEPT !.pc = "assess", !.tries = n, !.staged = NoBox,
                        !.baseline = Missing], identity)
    BY <1>1, <2>1 DEF Sound, Command, Labels
  <2> QED BY <2>2 DEF n
<1>6. Sound([c EXCEPT !.pc = "root", !.baseline = Missing, !.staged = NoBox,
                      !.tries = 0], identity)
  BY <1>1 DEF Sound, Command, Labels
<1> QED BY <1>2, <1>3, <1>4, <1>5, <1>6

(* What a command notes before it has an identity.                           *)
LEMMA Seeks ==
    ASSUME World, NEW c, Sound(c, identity)
    PROVE  /\ \A b \in BOOLEAN :
                /\ Sound([c EXCEPT !.lacks = b, !.pc = "create"], identity)
                /\ c.expect >= FirstIdentity =>
                     Sound([c EXCEPT !.lacks = b, !.pc = "assess"], identity)
           /\ \A m \in Machines :
                /\ Sound([c EXCEPT !.on = m, !.pc = "read"], identity)
                /\ identity[m] >= FirstIdentity =>
                     Sound([c EXCEPT !.expect = identity[m], !.on = NoBox, !.pc = "assess"],
                           identity)
<1>1. c \in Command /\ identity \in [Machines -> Nat] /\ NoBox \in Machines \cup {NoBox}
  BY DEF Sound, World
<1>2. \A b \in BOOLEAN : Sound([c EXCEPT !.lacks = b, !.pc = "create"], identity)
  BY <1>1 DEF Sound, Command, Labels, Unchecked
<1>3. \A b \in BOOLEAN : c.expect >= FirstIdentity =>
                            Sound([c EXCEPT !.lacks = b, !.pc = "assess"], identity)
  BY <1>1 DEF Sound, Command, Labels
<1>4. \A m \in Machines : Sound([c EXCEPT !.on = m, !.pc = "read"], identity)
  BY <1>1 DEF Sound, Command, Labels, Unchecked
<1>5. ASSUME NEW m \in Machines, identity[m] >= FirstIdentity
      PROVE  Sound([c EXCEPT !.expect = identity[m], !.on = NoBox, !.pc = "assess"], identity)
  BY <1>1, <1>5 DEF Sound, Command, Labels
<1> QED BY <1>2, <1>3, <1>4, <1>5

-----------------------------------------------------------------------------
(* Every step keeps every command sound. *)
LEMMA CommandsStep ==
    ASSUME MaintenanceConstants, World, Commands, OneWriter, Next
    PROVE  (Commands /\ OneWriter)'
<1> DEFINE Good == (Commands /\ OneWriter)'
<1>1. ASSUME NEW s \in Stations, Add(s) PROVE Good
  BY <1>1, Begins, Moves DEF Add, Begin, Unmoved, Idle
<1>2. ASSUME NEW s \in Stations, Status(s) PROVE Good
  <2>1. Sound(Recorded(s, "status", "hello"), identity) /\ Recorded(s, "status", "hello").pc = "hello"
    BY <1>2, Begins DEF Status, Ops, Recorded, Idle
  <2> QED BY <1>2, <2>1, Moves DEF Status, Begin, Unmoved
<1>3. ASSUME NEW s \in Stations, NEW op \in {"setup", "update"}, Maintain(s, op) PROVE Good
  <2>1. Sound(Recorded(s, op, "inspect"), identity) /\ Recorded(s, op, "inspect").pc = "inspect"
    BY <1>3, Begins DEF Maintain, Ops, Recorded, Idle
  <2> QED BY <1>3, <2>1, Moves DEF Maintain, Begin, Unmoved
<1>4. ASSUME NEW s \in Stations, Inspect(s) PROVE Good
  <2>1. cmd[s] \in Command /\ Sound(cmd[s], identity) /\ UNCHANGED identity /\ cmd[s].pc = "inspect"
    BY <1>4 DEF Inspect, At, Looks, Unmoved, Commands
  <2>2. CASE End(s)
    BY <2>1, <2>2, Ends
  <2>3. CASE ~End(s)
    <3> DEFINE b == at \notin tools
    <3>1. CASE cmd[s].op = "add"
      <4>1. Set(s, [cmd[s] EXCEPT !.lacks = b, !.pc = "create"])
        BY <1>4, <2>3, <3>1 DEF Inspect
      <4>2. Sound([cmd[s] EXCEPT !.lacks = b, !.pc = "create"], identity)
        BY <2>1, Seeks
      <4>3. [cmd[s] EXCEPT !.lacks = b, !.pc = "create"].pc # "write"
        BY <2>1 DEF Command
      <4> HIDE DEF b
      <4> QED BY <2>1, <4>1, <4>2, <4>3, Moves
    <3>2. CASE cmd[s].op # "add"
      <4>1. Set(s, [cmd[s] EXCEPT !.lacks = b, !.pc = "assess"])
        BY <1>4, <2>3, <3>2 DEF Inspect
      <4> HIDE DEF b
      <4>2. cmd[s].expect >= FirstIdentity /\ b \in BOOLEAN
        BY <2>1, <3>2 DEF Sound, b
      <4>3. Sound([cmd[s] EXCEPT !.lacks = b, !.pc = "assess"], identity)
        BY <2>1, <4>2, Seeks
      <4>4. [cmd[s] EXCEPT !.lacks = b, !.pc = "assess"].pc # "write"
        BY <2>1 DEF Command
      <4> QED BY <2>1, <4>1, <4>3, <4>4, Moves
    <3> QED BY <3>1, <3>2
  <2> QED BY <2>2, <2>3
<1>5. ASSUME NEW s \in Stations, CreateIdentity(s) PROVE Good
  <2>1. CASE identity[at] = NoIdentity
    BY <1>5, <2>1, Blanks DEF CreateIdentity, At
  <2>2. CASE identity[at] # NoIdentity
    <3>1. /\ Sound(cmd[s], identity) /\ cmd[s] \in Command /\ at \in Machines /\ UNCHANGED identity
          /\ Set(s, [cmd[s] EXCEPT !.on = at, !.pc = "read"])
      BY <1>5, <2>2 DEF CreateIdentity, Commands, World
    <3>2. /\ Sound([cmd[s] EXCEPT !.on = at, !.pc = "read"], identity)
          /\ [cmd[s] EXCEPT !.on = at, !.pc = "read"].pc # "write"
      BY <3>1, Seeks DEF Command
    <3> QED BY <3>1, <3>2, Moves
  <2> QED BY <2>1, <2>2
<1>6. ASSUME NEW s \in Stations, WriteIdentity(s) PROVE Good
  BY <1>6, Writes
<1>7. ASSUME NEW s \in Stations, ReadIdentity(s) PROVE Good
  <2>1. /\ cmd[s] \in Command /\ Sound(cmd[s], identity) /\ UNCHANGED identity /\ cmd[s].pc = "read"
        /\ identity \in [Machines -> Nat]
    BY <1>7 DEF ReadIdentity, At, Looks, Unmoved, Commands, World
  <2>2. cmd[s].on \in Machines
    BY <2>1 DEF Sound
  <2>3. CASE End(s)
    BY <2>1, <2>3, Ends
  <2>4. CASE ~End(s)
    <3> DEFINE c == [cmd[s] EXCEPT !.expect = identity[cmd[s].on], !.on = NoBox, !.pc = "assess"]
    <3>1. identity[cmd[s].on] >= FirstIdentity /\ Set(s, c)
      BY <1>7, <2>1, <2>2, <2>4 DEF ReadIdentity, FirstIdentity
    <3>2. Sound(c, identity) /\ c.pc # "write"
      BY <2>1, <2>2, <3>1, Seeks DEF Command
    <3> HIDE DEF c
    <3> QED BY <2>1, <3>1, <3>2, Moves
  <2> QED BY <2>3, <2>4
<1>8. ASSUME NEW s \in Stations, Assess(s) PROVE Good
  BY <1>8, Due, Ends, Goes DEF Assess, At, Looks, Unmoved, Unchecked, Labels, Assessed
<1>9. ASSUME NEW s \in Stations, Fingerprint(s) PROVE Good
  <2> DEFINE c == [cmd[s] EXCEPT !.baseline = runtime[at], !.pc = "reassess"]
  <2>1. /\ cmd[s] \in Command /\ Sound(cmd[s], identity) /\ UNCHANGED identity
        /\ runtime[at] \in Runtimes /\ cmd[s].expect >= FirstIdentity /\ Set(s, c)
    BY <1>9, Due DEF Fingerprint, At, Looks, Unmoved, Unchecked, World
  <2>2. Sound(c, identity) /\ c.pc # "write"
    BY <2>1, Notes DEF Command
  <2> HIDE DEF c
  <2> QED BY <2>1, <2>2, Moves
<1>10. ASSUME NEW s \in Stations, Reassess(s) PROVE Good
  BY <1>10, Due, Ends, Goes DEF Reassess, At, Looks, Unmoved, Unchecked, Labels, Assessed
<1>11. ASSUME NEW s \in Stations, Upload(s) PROVE Good
  <2> DEFINE c == [cmd[s] EXCEPT !.staged = at, !.pc = "try"]
  <2>1. /\ cmd[s] \in Command /\ Sound(cmd[s], identity) /\ UNCHANGED identity
        /\ at \in Machines /\ cmd[s].expect >= FirstIdentity /\ Set(s, c)
    BY <1>11, Due DEF Upload, At, Looks, Unmoved, Unchecked, World
  <2>2. Sound(c, identity) /\ c.pc # "write"
    BY <2>1, Notes DEF Command
  <2> HIDE DEF c
  <2> QED BY <2>1, <2>2, Moves
<1>12. ASSUME NEW s \in Stations, TryStaged(s) PROVE Good
  <2> DEFINE c == [cmd[s] EXCEPT !.pc = "promote"]
  <2>1. /\ cmd[s] \in Command /\ Sound(cmd[s], identity) /\ UNCHANGED identity
        /\ at \in Machines /\ cmd[s].expect >= FirstIdentity
    BY <1>12, Due DEF TryStaged, At, Looks, Unmoved, Unchecked, World
  <2>2. CASE cmd[s].staged = at /\ identity[at] = cmd[s].expect
    <3>1. Set(s, c) /\ c.pc # "write"
      BY <1>12, <2>1, <2>2 DEF TryStaged, Go, Command
    <3>2. Sound(c, identity)
      BY <2>1, <2>2 DEF Sound, Command, Labels
    <3> HIDE DEF c
    <3> QED BY <2>1, <3>1, <3>2, Moves
  <2>3. CASE ~(cmd[s].staged = at /\ identity[at] = cmd[s].expect)
    BY <1>12, <2>1, <2>3, Ends DEF TryStaged
  <2> QED BY <2>2, <2>3
<1>13. ASSUME NEW s \in Stations, Promote(s) PROVE Good
  <2> DEFINE c == [cmd[s] EXCEPT !.pc = "assess", !.tries = @ + 1, !.staged = NoBox,
                                 !.baseline = Missing]
  <2>1. /\ cmd[s] \in Command /\ Sound(cmd[s], identity) /\ UNCHANGED identity
        /\ cmd[s].expect >= FirstIdentity
    BY <1>13, Due DEF Promote, At, Unchecked
  <2>2. Sound(c, identity) /\ c.pc # "write"
    BY <2>1, Notes DEF Command
  <2>3. End(s) \/ Go(s, "confirm") \/ Set(s, c)
    BY <1>13 DEF Promote
  <2> HIDE DEF c
  <2> QED BY <2>1, <2>2, <2>3, Ends, Goes, Moves DEF Labels
<1>14. ASSUME NEW s \in Stations, Confirm(s) PROVE Good
  BY <1>14, Due, Ends, Goes DEF Confirm, At, Looks, Unmoved, Unchecked, Labels
<1>15. ASSUME NEW s \in Stations, InstallTools(s) PROVE Good
  <2> DEFINE c == [cmd[s] EXCEPT !.pc = "root", !.baseline = Missing, !.staged = NoBox, !.tries = 0]
  <2>1. /\ cmd[s] \in Command /\ Sound(cmd[s], identity) /\ UNCHANGED identity
        /\ cmd[s].expect >= FirstIdentity
    BY <1>15, Due DEF InstallTools, At, Unchecked
  <2>2. Sound(c, identity) /\ c.pc # "write"
    BY <2>1, Notes DEF Command
  <2>3. End(s) \/ Set(s, c)
    BY <1>15 DEF InstallTools
  <2> HIDE DEF c
  <2> QED BY <2>1, <2>2, <2>3, Ends, Moves
<1>16. ASSUME NEW s \in Stations, EnsureWorktreeRoot(s) PROVE Good
  BY <1>16, Due, Ends, Goes DEF EnsureWorktreeRoot, At, Looks, Unmoved, Unchecked, Labels
<1>17. ASSUME NEW s \in Stations, OfferConfiguration(s) PROVE Good
  BY <1>17, Due, Ends, Goes DEF OfferConfiguration, At, Looks, Unmoved, Unchecked, Labels
<1>18. ASSUME NEW s \in Stations, Configure(s) PROVE Good
  BY <1>18, Due, Ends, Goes DEF Configure, At, Looks, Unmoved, Unchecked, Labels
<1>19. ASSUME NEW s \in Stations, HelloAgain(s) PROVE Good
  <2> DEFINE c == [cmd[s] EXCEPT !.seen = runtime[at].version, !.pc = "report"]
  <2>1. /\ cmd[s] \in Command /\ Sound(cmd[s], identity) /\ UNCHANGED identity
        /\ cmd[s].expect >= FirstIdentity /\ runtime[at] \in Runtimes
    BY <1>19, Due DEF HelloAgain, At, Looks, Unmoved, Unchecked, World
  <2>2. CASE Answers(s) /\ Capable(runtime[at])
    <3>1. Set(s, c)
      BY <1>19, <2>2 DEF HelloAgain
    <3>2. runtime[at].version \in Versions
      BY <2>1, <2>2 DEF Answers, Runs, Runtimes, Artifact
    <3>3. Sound(c, identity) /\ c.pc # "write"
      BY <2>1, <3>2, Notes DEF Command
    <3> HIDE DEF c
    <3> QED BY <2>1, <3>1, <3>3, Moves
  <2>3. CASE ~(Answers(s) /\ Capable(runtime[at]))
    BY <1>19, <2>1, <2>3, Ends DEF HelloAgain
  <2> QED BY <2>2, <2>3
<1>20. ASSUME NEW s \in Stations, Report(s) \/ UpdateRuntimePath(s) PROVE Good
  <2>1. UNCHANGED identity /\ (End(s) \/ Go(s, "path") \/ Go(s, "save")) /\ cmd[s].expect >= FirstIdentity
    BY <1>20, Due DEF Report, UpdateRuntimePath, At, Looks, Unmoved, Unchecked
  <2> QED BY <2>1, Ends, Goes DEF Labels
<1>21. ASSUME NEW s \in Stations, Save(s) PROVE Good
  BY <1>21, Ends DEF Save, Unmoved
<1>22. ASSUME NEW s \in Stations, Break(s) PROVE Good
  BY <1>22, Ends DEF Break, Unmoved
<1>23. ASSUME NEW s \in Stations, Forget(s) PROVE Good
  BY <1>23 DEF Forget, Unmoved, Commands, OneWriter, Sound
<1>24. ASSUME NEW m \in Machines, Reinstall(m) PROVE Good
  BY <1>24 DEF Reinstall, Unmoved, Commands, OneWriter, Sound
<1>25. CASE Swap
  BY <1>25 DEF Swap, Commands, OneWriter, Sound
<1> QED BY <1>1, <1>2, <1>3, <1>4, <1>5, <1>6, <1>7, <1>8, <1>9, <1>10, <1>11, <1>12, <1>13, <1>14, <1>15, <1>16, <1>17, <1>18, <1>19, <1>20, <1>21, <1>22, <1>23, <1>24, <1>25
   DEF Next, Identify, EnsureHost, Prepare, Verify

(* Every step keeps the types of what the machines and inventories hold. *)
LEMMA WorldStep ==
    ASSUME MaintenanceConstants, World, Commands, Next
    PROVE  World'
<1>1. ASSUME NEW s \in Stations, Looks PROVE World'
  BY <1>1 DEF Looks, Unmoved, Steps, bounds, World
<1>2. ASSUME NEW s \in Stations, EnsureHost(s) PROVE World'
  <2>1. CASE Promote(s)
    <3>1. Build(s) \in Runtimes
      BY DEF Build, Runtimes, Artifact, World
    <3>2. runtime' \in [Machines -> Runtimes]
      BY <2>1, <3>1 DEF Promote, World
    <3> QED BY <2>1, <3>2 DEF Promote, Steps, bounds, World
  <2> QED BY <1>1, <1>2, <2>1 DEF EnsureHost, Assess, Fingerprint, Reassess, Upload, TryStaged,
             Confirm
<1>3. ASSUME NEW s \in Stations, Identify(s) PROVE World'
  <2>1. CASE CreateIdentity(s)
    BY <2>1 DEF CreateIdentity, Steps, bounds, World, Blank
  <2>2. CASE WriteIdentity(s)
    <3>1. ids' = ids + 1 /\ identity' \in [Machines -> Nat]
      BY <2>2 DEF WriteIdentity, World
    <3> QED BY <2>2, <3>1 DEF WriteIdentity, bounds, World, FirstIdentity
  <2>3. CASE ReadIdentity(s)
    BY <1>1, <2>3 DEF ReadIdentity
  <2> QED BY <1>3, <2>1, <2>2, <2>3 DEF Identify
<1>4. ASSUME NEW s \in Stations, Prepare(s) PROVE World'
  <2>1. CASE InstallTools(s)
    BY <2>1 DEF InstallTools, Steps, bounds, World
  <2>2. CASE EnsureWorktreeRoot(s)
    BY <2>2 DEF EnsureWorktreeRoot, Steps, bounds, World
  <2>3. CASE OfferConfiguration(s)
    BY <1>1, <2>3 DEF OfferConfiguration
  <2>4. CASE Configure(s)
    BY <2>4 DEF Configure, WriteConfig, Steps, bounds, World
  <2> QED BY <1>4, <2>1, <2>2, <2>3, <2>4 DEF Prepare
<1>5. ASSUME NEW s \in Stations, Save(s) PROVE World'
  <2>1. /\ cmd[s].expect \in Nat /\ cmd[s].expect >= FirstIdentity /\ cmd[s].seen \in Versions
    BY <1>5, Due DEF Save, At, Unchecked, Command
  <2>2. CASE CompleteAdd(s)
    <3> DEFINE r == [identity |-> cmd[s].expect, path |-> TRUE, seen |-> cmd[s].seen]
    <3>1. r \in Record /\ r.identity >= FirstIdentity /\ box' = [box EXCEPT ![s] = r]
      BY <2>1, <2>2 DEF Record, CompleteAdd
    <3> HIDE DEF r
    <3>2. /\ box' \in [Stations -> Record \cup {NoBox}]
          /\ \A t \in Stations : box'[t] # NoBox => box'[t].identity >= FirstIdentity
      BY <3>1 DEF World
    <3> QED BY <1>5, <3>2 DEF Save, Unmoved, Steps, bounds, World
  <2>3. CASE SaveObservation(s) /\ box[s] # NoBox
    <3> DEFINE r == [box[s] EXCEPT !.seen = cmd[s].seen]
    <3>1. box[s] \in Record /\ box[s].identity >= FirstIdentity /\ box' = [box EXCEPT ![s] = r]
      BY <2>3 DEF SaveObservation, World
    <3>2. r \in Record /\ r.identity >= FirstIdentity
      BY <2>1, <3>1 DEF Record
    <3> HIDE DEF r
    <3>3. /\ box' \in [Stations -> Record \cup {NoBox}]
          /\ \A t \in Stations : box'[t] # NoBox => box'[t].identity >= FirstIdentity
      BY <3>1, <3>2 DEF World
    <3> QED BY <1>5, <3>3 DEF Save, Unmoved, Steps, bounds, World
  <2>4. CASE box' = box
    BY <1>5, <2>4 DEF Save, Unmoved, Steps, bounds, World
  <2> QED BY <1>5, <2>2, <2>3, <2>4 DEF Save, SaveObservation
<1>12. ASSUME NEW s \in Stations, UpdateRuntimePath(s) PROVE World'
  <2>1. CASE box' = box
    BY <1>12, <2>1 DEF UpdateRuntimePath, Unmoved, Steps, bounds, World
  <2>2. CASE box' # box
    <3> DEFINE r == [box[s] EXCEPT !.path = TRUE]
    <3>1. box[s] \in Record /\ box[s].identity >= FirstIdentity /\ box' = [box EXCEPT ![s] = r]
      BY <1>12, <2>2 DEF UpdateRuntimePath, World
    <3>2. r \in Record /\ r.identity >= FirstIdentity
      BY <3>1 DEF Record
    <3> HIDE DEF r
    <3>3. /\ box' \in [Stations -> Record \cup {NoBox}]
          /\ \A t \in Stations : box'[t] # NoBox => box'[t].identity >= FirstIdentity
      BY <3>1, <3>2 DEF World
    <3> QED BY <1>12, <3>3 DEF UpdateRuntimePath, Unmoved, Steps, bounds, World
  <2> QED BY <2>1, <2>2
<1>6. ASSUME NEW s \in Stations, HelloAgain(s) \/ Report(s) \/ Inspect(s) PROVE World'
  BY <1>1, <1>6 DEF HelloAgain, Report, Inspect
<1>7. ASSUME NEW s \in Stations, Add(s) \/ Status(s) \/ \E op \in {"setup", "update"} : Maintain(s, op)
      PROVE  World'
  BY <1>7 DEF Add, Status, Maintain, Begin, Unmoved, World
<1>8. ASSUME NEW s \in Stations, Break(s) PROVE World'
  BY <1>8 DEF Break, Unmoved, World
<1>9. ASSUME NEW s \in Stations, Forget(s) PROVE World'
  BY <1>9 DEF Forget, Unmoved, World
<1>10. CASE Swap
  BY <1>10 DEF Swap, World
<1>11. ASSUME NEW m \in Machines, Reinstall(m) PROVE World'
  BY <1>11 DEF Reinstall, Runtimes, Artifact, World
<1> QED BY <1>2, <1>3, <1>4, <1>5, <1>6, <1>7, <1>8, <1>9, <1>10, <1>11, <1>12 DEF Next, Verify

LEMMA InitIInv == ASSUME MaintenanceConstants PROVE Init => IInv
<1> SUFFICES ASSUME Init PROVE IInv
  OBVIOUS
<1>1. Idle \in Command /\ Sound(Idle, identity) /\ Idle.pc = "idle"
  BY IdleSound DEF Sound, Idle
<1>2. Commands /\ OneWriter
  BY <1>1 DEF Init, Commands, OneWriter
<1>3. identity \in [Machines -> Nat]
  BY DEF Init, NoIdentity, FirstIdentity
<1>4. runtime \in [Machines -> Runtimes]
  BY DEF Init, Runtimes, Artifact
<1>5. /\ box \in [Stations -> Record \cup {NoBox}]
      /\ \A s \in Stations : box[s] # NoBox => box[s].identity >= FirstIdentity
  <2> DEFINE r == [identity |-> FirstIdentity, path |-> FALSE, seen |-> NoBox]
  <2>1. r \in Record /\ r.identity >= FirstIdentity
    BY DEF Record, MaintenanceConstants, FirstIdentity, Dev
  <2>2. box \in [Stations -> {NoBox, r}]
    BY DEF Init
  <2> HIDE DEF r
  <2> QED BY <2>1, <2>2
<1> QED BY <1>2, <1>3, <1>4, <1>5 DEF IInv, World, Init, FirstIdentity

LEMMA StepIInv == ASSUME MaintenanceConstants, IInv, [Next]_vars PROVE IInv'
<1>1. CASE Next
  BY <1>1, WorldStep, CommandsStep DEF IInv
<1>2. CASE UNCHANGED vars
  BY <1>2 DEF vars, machineVars, bounds, IInv, World, Commands, OneWriter, Sound
<1> QED BY <1>1, <1>2

(* For any number of workstations, machines and acts of people, a command    *)
(* that prepares or verifies a machine has an identity to hold it to, and    *)
(* every variable a value of its kind (service.go, host_runtime.go).         *)
THEOREM TypeCorrect == Spec => []TypeOK
<1>1. IInv => TypeOK
  BY Due DEF IInv, World, Runtimes, TypeOK, Commands, Command, Unchecked
<1> QED BY <1>1, InitIInv, StepIInv, MaintenanceConstants, PTL DEF Spec

(* For any number of workstations and machines, however often the address    *)
(* changes hands, only a command that holds a machine's identity changes its *)
(* runtime or its configuration (host_runtime.go:84-260, host.go:95-142).    *)
THEOREM OnlyTheRightOne == Spec => RightMachine
<1> DEFINE Step == \A m \in Machines :
          acts' = acts /\ (runtime'[m] # runtime[m] \/ (m \in config' /\ m \notin config))
          => \E s \in Stations : cmd'[s] # cmd[s] /\ cmd[s].expect = identity[m]
<1>1. ASSUME IInv, Next PROVE Step
  <2> SUFFICES ASSUME NEW m \in Machines, acts' = acts,
                      runtime'[m] # runtime[m] \/ (m \in config' /\ m \notin config)
               PROVE  \E s \in Stations : cmd'[s] # cmd[s] /\ cmd[s].expect = identity[m]
    OBVIOUS
  <2>1. ASSUME NEW s \in Stations, EnsureHost(s) PROVE Promote(s)
    BY <2>1 DEF EnsureHost, Assess, Fingerprint, Reassess, Upload, TryStaged, Confirm, Looks, Unmoved
  <2>2. ASSUME NEW s \in Stations, Promote(s)
        PROVE  \E t \in Stations : cmd'[t] # cmd[t] /\ cmd[t].expect = identity[m]
    <3>1. cmd[s] \in Command /\ Sound(cmd[s], identity) /\ cmd[s].pc = "promote"
      BY <1>1, <2>2, Due DEF IInv, Promote, At
    <3>2. /\ cmd[s].staged = at /\ runtime' = [runtime EXCEPT ![at] = Build(s)] /\ Go(s, "confirm")
          /\ config' = config
      BY <2>2 DEF Promote, Steps
    <3>3. m = at
      BY <1>1, <3>2 DEF IInv, World
    <3>4. cmd'[s].pc = "confirm"
      BY <1>1, <3>1, <3>2 DEF IInv, Commands, Command, Go, Set
    <3> QED BY <3>1, <3>2, <3>3, <3>4 DEF Sound
  <2>3. ASSUME NEW s \in Stations, Configure(s)
        PROVE  \E t \in Stations : cmd'[t] # cmd[t] /\ cmd[t].expect = identity[m]
    <3>1. cmd[s] \in Command /\ cmd[s].pc = "configure"
      BY <1>1, <2>3, Due DEF IInv, Configure, At
    <3>2. Answers(s) /\ m = at /\ Go(s, "hello")
      BY <2>3 DEF Configure, WriteConfig
    <3>3. cmd'[s].pc = "hello"
      BY <1>1, <3>1, <3>2 DEF IInv, Commands, Command, Go, Set
    <3> QED BY <3>1, <3>2, <3>3 DEF Answers
  <2>4. ASSUME NEW s \in Stations,
               \/ Add(s) \/ Status(s) \/ (\E op \in {"setup", "update"} : Maintain(s, op))
               \/ Inspect(s) \/ Identify(s) \/ Verify(s) \/ Break(s) \/ Forget(s)
               \/ InstallTools(s) \/ EnsureWorktreeRoot(s) \/ OfferConfiguration(s)
        PROVE  FALSE
    BY <2>4 DEF Add, Status, Maintain, Begin, Inspect, Identify, CreateIdentity, WriteIdentity,
         ReadIdentity, Verify, HelloAgain, Report, UpdateRuntimePath, Save, Break, Forget, InstallTools,
         EnsureWorktreeRoot, OfferConfiguration, Looks, Unmoved
  <2>5. ~Swap
    BY DEF Swap
  <2>6. ASSUME NEW n \in Machines, Reinstall(n) PROVE FALSE
    BY <1>1, <2>6 DEF Reinstall, IInv, World
  <2> QED BY <1>1, <2>1, <2>2, <2>3, <2>4, <2>5, <2>6 DEF Next, Prepare
<1>2. IInv /\ [Next]_vars => [Step]_vars
  BY <1>1
<1> HIDE DEF Step
<1>3. [][Step]_vars => RightMachine
  BY DEF Step, RightMachine
<1> QED BY <1>2, <1>3, InitIInv, StepIInv, MaintenanceConstants, PTL DEF Spec

-----------------------------------------------------------------------------
(* What the inventories and the commands know of the machine they mean. *)

(* Identities are given once. *)
Unique ==
  /\ \A m, n \in Machines : identity[m] = identity[n] /\ identity[m] >= FirstIdentity => m = n
  /\ \A m \in Machines : identity[m] < ids

Named(i, id) == \E m \in Machines : id[m] = i
All(i, id, M) == \A m \in Machines : id[m] = i => m \in M

(* A record and a command at the same workstation, which mean the same       *)
(* machine: a command about to verify the machine has configured it, one     *)
(* about to save has seen its Worktree Root, and one that began with a       *)
(* record that names a runtime relies on that record for both.               *)
Tied(c, b, id, cf, rt) ==
  /\ c.expect >= FirstIdentity => Named(c.expect, id)
  /\ c.pc \in {"create", "write", "read"} => c.op = "add"
  /\ c.pc \in {"hello", "report", "path", "save"} => c.expect >= FirstIdentity
  /\ c.pc = "path" => c.op # "add"
  /\ c.op = "status" => c.pc \in {"hello", "report", "save"}
  /\ c.pc \in {"hello", "report", "path", "save"} => All(c.expect, id, cf)
  /\ c.pc \in {"path", "save"} \/ (c.op = "status" /\ c.pc \in {"hello", "report"}) => All(c.expect, id, rt)
  /\ c.pc # "idle" /\ c.op # "add" /\ b # NoBox => b.identity = c.expect
  /\ b # NoBox => b.identity >= FirstIdentity /\ Named(b.identity, id)
  /\ b # NoBox /\ b.path => All(b.identity, id, cf) /\ All(b.identity, id, rt)

Ties == Unique /\ \A s \in Stations : Tied(cmd[s], box[s], identity, config, root)

(* What machines keep, they keep: an identity is never replaced, and a new   *)
(* one is nobody's.                                                          *)
Marks ==
  /\ config \subseteq config' /\ root \subseteq root'
  /\ \A m \in Machines : identity[m] >= FirstIdentity => identity'[m] = identity[m]
  /\ \A m \in Machines : identity'[m] # identity[m] => identity'[m] = Blank \/ identity'[m] = ids

LEMMA IdleTied ==
    ASSUME NEW c, NEW b, NEW id, NEW cf, NEW rt, Tied(c, b, id, cf, rt)
    PROVE  Tied(Idle, b, id, cf, rt)
BY DEF Tied, Idle, FirstIdentity, NoIdentity

LEMMA StaysTied ==
    ASSUME World, Unique, Marks, NEW c, NEW b, Tied(c, b, identity, config, root)
    PROVE  Tied(c, b, identity', config', root')
<1>1. ASSUME NEW i, i >= FirstIdentity, Named(i, identity)
      PROVE  /\ Named(i, identity')
             /\ All(i, identity, config) => All(i, identity', config')
             /\ All(i, identity, root) => All(i, identity', root')
  <2>1. PICK m \in Machines : identity[m] = i
    BY <1>1 DEF Named
  <2>2. identity'[m] = i
    BY <1>1, <2>1 DEF Marks
  <2>3. i # ids /\ i # Blank
    BY <1>1, <2>1 DEF World, Unique, Blank, FirstIdentity
  <2>4. \A n \in Machines : identity'[n] = i => identity[n] = i
    BY <2>3 DEF Marks
  <2> QED BY <2>2, <2>4 DEF Named, All, Marks
<1> QED BY <1>1 DEF Tied

LEMMA MarksStep ==
    ASSUME World, Commands, Next
    PROVE  Marks
<1> DEFINE Spared == UNCHANGED <<identity, config, root>>
<1>0. Spared => Marks
  BY DEF Marks
<1>1. ASSUME NEW s \in Stations,
             \/ Add(s) \/ Status(s) \/ \E op \in {"setup", "update"} : Maintain(s, op)
             \/ Inspect(s) \/ ReadIdentity(s) \/ EnsureHost(s) \/ InstallTools(s) \/ OfferConfiguration(s)
             \/ Verify(s) \/ Break(s) \/ Forget(s)
      PROVE  Spared
  BY <1>1 DEF Add, Status, Maintain, Begin, Inspect, ReadIdentity, EnsureHost, Assess, Fingerprint, Reassess,
     Upload, TryStaged, Promote, Confirm, InstallTools, OfferConfiguration, Verify, HelloAgain, Report,
     UpdateRuntimePath, Save, Break, Forget, Looks, Unmoved
<1>2. ASSUME NEW s \in Stations, CreateIdentity(s) PROVE Marks
  BY <1>2 DEF CreateIdentity, Marks, World, NoIdentity, FirstIdentity
<1>3. ASSUME NEW s \in Stations, WriteIdentity(s) PROVE Marks
  <2>1. cmd[s].on \in Machines /\ identity[cmd[s].on] = Blank
    BY <1>3, Due DEF WriteIdentity, At, Sound
  <2> QED BY <1>3, <2>1 DEF WriteIdentity, Marks, World, Blank, FirstIdentity
<1>4. ASSUME NEW s \in Stations, EnsureWorktreeRoot(s) PROVE Marks
  BY <1>4 DEF EnsureWorktreeRoot, Marks
<1>5. ASSUME NEW s \in Stations, Configure(s) PROVE Marks
  BY <1>5 DEF Configure, WriteConfig, Marks
<1>6. Swap \/ (\E m \in Machines : Reinstall(m)) => Spared
  BY DEF Swap, Reinstall
<1> QED BY <1>0, <1>1, <1>2, <1>3, <1>4, <1>5, <1>6 DEF Next, Identify, Prepare

(* Only a command that writes an identity gives one, and numbers it anew. *)
LEMMA UniqueStep ==
    ASSUME World, Commands, Unique, Next
    PROVE  Unique'
<1>1. \/ UNCHANGED <<identity, ids>>
      \/ \E s \in Stations : CreateIdentity(s) \/ WriteIdentity(s)
  <2>1. ASSUME NEW s \in Stations,
               \/ Add(s) \/ Status(s) \/ \E op \in {"setup", "update"} : Maintain(s, op)
               \/ Inspect(s) \/ ReadIdentity(s) \/ EnsureHost(s) \/ Prepare(s)
               \/ Verify(s) \/ Break(s) \/ Forget(s)
        PROVE  UNCHANGED <<identity, ids>>
    BY <2>1 DEF Add, Status, Maintain, Begin, Inspect, ReadIdentity, EnsureHost, Assess, Fingerprint, Reassess,
       Upload, TryStaged, Promote, Confirm, Prepare, InstallTools, OfferConfiguration, Verify, HelloAgain, Report,
       UpdateRuntimePath, Save, Break, Forget, EnsureWorktreeRoot, Configure, Looks, Unmoved, Steps
  <2>2. Swap \/ (\E m \in Machines : Reinstall(m)) => UNCHANGED <<identity, ids>>
    BY DEF Swap, Reinstall
  <2> QED BY <2>1, <2>2 DEF Next, Identify
<1>2. CASE UNCHANGED <<identity, ids>>
  BY <1>2 DEF Unique
<1>3. ASSUME NEW s \in Stations, CreateIdentity(s) PROVE Unique'
  <2>1. ids' = ids /\ (identity' = identity \/ identity' = [identity EXCEPT ![at] = Blank])
    BY <1>3 DEF CreateIdentity, Steps
  <2> QED BY <2>1 DEF Unique, World, Blank, FirstIdentity
<1>4. ASSUME NEW s \in Stations, WriteIdentity(s) PROVE Unique'
  <2>1. cmd[s].on \in Machines
    BY <1>4, Due DEF WriteIdentity, At, Sound
  <2>2. identity' = [identity EXCEPT ![cmd[s].on] = ids] /\ ids' = ids + 1
    BY <1>4 DEF WriteIdentity
  <2> QED BY <2>1, <2>2 DEF Unique, World
<1> QED BY <1>1, <1>2, <1>3, <1>4

(* A command moves, its record and the machines being what they were. *)
LEMMA Ties1 ==
    ASSUME World, Commands, Ties, Marks, Unique', NEW s \in Stations, NEW c, NEW b,
           Set(s, c), box' = [box EXCEPT ![s] = b], Tied(c, b, identity', config', root')
    PROVE  Ties'
<1>1. cmd'[s] = c /\ box'[s] = b
  BY DEF Set, Commands, World
<1>2. \A t \in Stations \ {s} : cmd'[t] = cmd[t] /\ box'[t] = box[t]
  BY DEF Set, Commands, World
<1>3. ASSUME NEW t \in Stations PROVE Tied(cmd'[t], box'[t], identity', config', root')
  <2>1. CASE t = s
    BY <1>1, <2>1
  <2>2. CASE t # s
    BY <1>2, <2>2, StaysTied DEF Ties
  <2> QED BY <2>1, <2>2
<1> QED BY <1>3 DEF Ties

LEMMA TiesMove ==
    ASSUME World, Commands, Ties, Marks, Unique', NEW s \in Stations, NEW c,
           Set(s, c), UNCHANGED box, Tied(c, box[s], identity', config', root')
    PROVE  Ties'
<1>1. box' = [box EXCEPT ![s] = box[s]]
  BY DEF World
<1> QED BY <1>1, Ties1

LEMMA TiesEnd ==
    ASSUME World, Commands, Ties, Marks, Unique', NEW s \in Stations, End(s), UNCHANGED box
    PROVE  Ties'
<1>1. Tied(Idle, box[s], identity, config, root)
  BY IdleTied DEF Ties
<1> QED BY <1>1, StaysTied, TiesMove DEF End, Ties

(* On the way nothing more is asked, and nothing else is meant. *)
Midway == {"assess", "fingerprint", "reassess", "upload", "try", "promote", "confirm", "tools", "root",
           "offer", "configure"}

LEMMA TiesGo ==
    ASSUME World, Commands, Ties, Marks, Unique', NEW s \in Stations, NEW c,
           Set(s, c), UNCHANGED box, c.expect = cmd[s].expect, c.op = cmd[s].op,
           \/ c.pc \in Midway /\ cmd[s].pc \in Midway \cup {"inspect"}
           \/ c.pc \in {"create", "write", "read"} /\ c.op = "add" /\ cmd[s].pc # "idle"
    PROVE  Ties'
<1>1. Tied(cmd[s], box[s], identity, config, root)
  BY DEF Ties
<1>2. Tied(c, box[s], identity, config, root)
  BY <1>1 DEF Tied, Midway
<1> QED BY <1>2, StaysTied, TiesMove DEF Ties

LEMMA TiesStep ==
    ASSUME MaintenanceConstants, World, Commands, Ties, Next
    PROVE  Ties'
<1>0. Marks /\ Unique'
  BY MarksStep, UniqueStep DEF Ties
<1> DEFINE T(s) == Tied(cmd[s], box[s], identity, config, root)
<1>a. \A s \in Stations : cmd[s] \in Command /\ T(s)
  BY Due DEF Ties
<1>1. ASSUME NEW s \in Stations, Add(s) PROVE Ties'
  <2> DEFINE c == [Idle EXCEPT !.op = "add", !.pc = "inspect"]
  <2>1. Set(s, c) /\ UNCHANGED box /\ box[s] = NoBox
    BY <1>1 DEF Add, Begin
  <2>2. Tied(c, box[s], identity, config, root)
    BY <2>1 DEF Tied, Idle, NoIdentity, FirstIdentity
  <2> HIDE DEF c
  <2> QED BY <1>0, <2>1, <2>2, StaysTied, TiesMove DEF Ties
<1>2. ASSUME NEW s \in Stations, NEW op \in {"setup", "update", "status"},
             NEW pc \in {"inspect", "hello"}, box[s] # NoBox,
             (op = "status" <=> pc = "hello") /\ (pc = "hello" => box[s].path),
             Set(s, Recorded(s, op, pc)), UNCHANGED box
      PROVE  Ties'
  <2> DEFINE c == Recorded(s, op, pc)
  <2>1. c.op = op /\ c.pc = pc /\ c.expect = box[s].identity
    BY DEF Recorded, Idle
  <2> HIDE DEF c
  <2>2. Tied(c, box[s], identity, config, root)
    BY <1>2, <1>a, <2>1 DEF Tied
  <2> QED BY <1>0, <1>2, <2>2, StaysTied, TiesMove DEF Ties, c
<1>3. ASSUME NEW s \in Stations, NEW op \in {"setup", "update"}, Maintain(s, op) PROVE Ties'
  BY <1>2, <1>3 DEF Maintain, Begin
<1>4. ASSUME NEW s \in Stations, Status(s) PROVE Ties'
  BY <1>2, <1>4 DEF Status, Begin
<1>5. ASSUME NEW s \in Stations, Inspect(s) PROVE Ties'
  <2> DEFINE c == [cmd[s] EXCEPT !.lacks = at \notin tools,
                                 !.pc = IF cmd[s].op = "add" THEN "create" ELSE "assess"]
  <2>1. UNCHANGED box /\ (End(s) \/ Set(s, c)) /\ cmd[s].pc = "inspect"
    BY <1>5 DEF Inspect, Looks, At
  <2>2. c.expect = cmd[s].expect /\ c.op = cmd[s].op /\ c.pc = IF cmd[s].op = "add" THEN "create" ELSE "assess"
    BY <1>a DEF Command
  <2> HIDE DEF c
  <2> QED BY <1>0, <2>1, <2>2, TiesEnd, TiesGo DEF Midway
<1>6. ASSUME NEW s \in Stations, CreateIdentity(s) PROVE Ties'
  <2>1. cmd[s].op = "add" /\ cmd[s].pc = "create" /\ UNCHANGED box
    BY <1>6, <1>a DEF CreateIdentity, At, Tied
  <2>2. PICK pc \in {"write", "read"} : Set(s, [cmd[s] EXCEPT !.on = at, !.pc = pc])
    BY <1>6 DEF CreateIdentity
  <2> DEFINE c == [cmd[s] EXCEPT !.on = at, !.pc = pc]
  <2>3. c.expect = cmd[s].expect /\ c.op = cmd[s].op /\ c.pc = pc
    BY <1>a DEF Command
  <2>4. Set(s, c)
    BY <2>2
  <2> HIDE DEF c
  <2> QED BY <1>0, <2>1, <2>3, <2>4, TiesGo
<1>7. ASSUME NEW s \in Stations, WriteIdentity(s) PROVE Ties'
  <2> DEFINE c == [cmd[s] EXCEPT !.pc = "read"]
  <2>1. cmd[s].op = "add" /\ cmd[s].pc = "write" /\ UNCHANGED box /\ Set(s, c)
    BY <1>7, <1>a DEF WriteIdentity, At, Tied, Go
  <2>2. c.expect = cmd[s].expect /\ c.op = cmd[s].op /\ c.pc = "read"
    BY <1>a DEF Command
  <2> HIDE DEF c
  <2> QED BY <1>0, <2>1, <2>2, TiesGo
<1>8. ASSUME NEW s \in Stations, ReadIdentity(s) PROVE Ties'
  <2> DEFINE i == identity[cmd[s].on]
             c == [cmd[s] EXCEPT !.expect = i, !.on = NoBox, !.pc = "assess"]
  <2>1. cmd[s].op = "add" /\ cmd[s].pc = "read" /\ UNCHANGED box /\ cmd[s].on \in Machines
    BY <1>8, <1>a, Due DEF ReadIdentity, At, Tied, Looks, Sound
  <2>2. c.expect = i /\ c.op = "add" /\ c.pc = "assess"
    BY <1>a, <2>1 DEF Command
  <2>3. End(s) \/ Set(s, c)
    BY <1>8 DEF ReadIdentity
  <2>4. Named(i, identity)
    BY <2>1 DEF Named
  <2> HIDE DEF c, i
  <2>5. Tied(c, box[s], identity, config, root)
    BY <1>a, <2>1, <2>2, <2>4 DEF Tied
  <2> QED BY <1>0, <2>1, <2>3, <2>5, StaysTied, TiesMove, TiesEnd DEF Ties
<1>9. ASSUME NEW s \in Stations, NEW pc \in Midway, Go(s, pc), cmd[s].pc \in Midway, UNCHANGED box
      PROVE  Ties'
  <2> DEFINE c == [cmd[s] EXCEPT !.pc = pc]
  <2>1. Set(s, c) /\ c.expect = cmd[s].expect /\ c.op = cmd[s].op /\ c.pc = pc
    BY <1>9, <1>a DEF Go, Command
  <2> HIDE DEF c
  <2> QED BY <1>0, <1>9, <2>1, TiesGo
<1>10. ASSUME NEW s \in Stations,
              \/ Assess(s) \/ Reassess(s) \/ TryStaged(s) \/ Confirm(s) \/ EnsureWorktreeRoot(s)
              \/ OfferConfiguration(s)
       PROVE  Ties'
  <2>1. /\ cmd[s].pc \in Midway /\ UNCHANGED box
        /\ \/ End(s)
           \/ \E pc \in Midway : Go(s, pc)
    BY <1>10 DEF Assess, Reassess, TryStaged, Confirm, EnsureWorktreeRoot, OfferConfiguration, Assessed, At, Looks,
                 Midway
  <2> QED BY <1>0, <1>9, <2>1, TiesEnd
<1>11. ASSUME NEW s \in Stations, Fingerprint(s) PROVE Ties'
  <2> DEFINE c == [cmd[s] EXCEPT !.baseline = runtime[at], !.pc = "reassess"]
  <2>1. Set(s, c) /\ c.expect = cmd[s].expect /\ c.op = cmd[s].op /\ c.pc = "reassess"
    BY <1>11, <1>a DEF Fingerprint, Command
  <2> HIDE DEF c
  <2> QED BY <1>0, <1>11, <2>1, TiesGo DEF Midway, Fingerprint, Looks, At
<1>12. ASSUME NEW s \in Stations, Upload(s) PROVE Ties'
  <2> DEFINE c == [cmd[s] EXCEPT !.staged = at, !.pc = "try"]
  <2>1. Set(s, c) /\ c.expect = cmd[s].expect /\ c.op = cmd[s].op /\ c.pc = "try"
    BY <1>12, <1>a DEF Upload, Command
  <2> HIDE DEF c
  <2> QED BY <1>0, <1>12, <2>1, TiesGo DEF Midway, Upload, Looks, At
<1>13. ASSUME NEW s \in Stations, Promote(s) PROVE Ties'
  <2> DEFINE c == [cmd[s] EXCEPT !.pc = "assess", !.tries = @ + 1, !.staged = NoBox, !.baseline = Missing]
  <2>1. /\ c.expect = cmd[s].expect /\ c.op = cmd[s].op /\ c.pc = "assess"
        /\ cmd[s].pc = "promote" /\ UNCHANGED box
    BY <1>13, <1>a DEF Promote, Command, At
  <2>2. End(s) \/ Go(s, "confirm") \/ Set(s, c)
    BY <1>13 DEF Promote
  <2> HIDE DEF c
  <2> QED BY <1>0, <1>9, <2>1, <2>2, TiesGo, TiesEnd DEF Midway
<1>14. ASSUME NEW s \in Stations, InstallTools(s) PROVE Ties'
  <2> DEFINE c == [cmd[s] EXCEPT !.pc = "root", !.baseline = Missing, !.staged = NoBox, !.tries = 0]
  <2>1. /\ c.expect = cmd[s].expect /\ c.op = cmd[s].op /\ c.pc = "root"
        /\ cmd[s].pc = "tools" /\ UNCHANGED box
    BY <1>14, <1>a DEF InstallTools, Command, At
  <2>2. End(s) \/ Set(s, c)
    BY <1>14 DEF InstallTools
  <2> HIDE DEF c
  <2> QED BY <1>0, <2>1, <2>2, TiesGo, TiesEnd DEF Midway
<1>15. ASSUME NEW s \in Stations, Configure(s) PROVE Ties'
  <2>1. cmd[s].pc = "configure" /\ UNCHANGED <<box, identity, root>>
    BY <1>15 DEF Configure, At
  <2>2. CASE End(s)
    BY <1>0, <2>1, <2>2, TiesEnd
  <2>3. CASE ~End(s)
    <3> DEFINE c == [cmd[s] EXCEPT !.pc = "hello"]
    <3>1. /\ Set(s, c) /\ c.expect = cmd[s].expect /\ c.op = cmd[s].op /\ c.pc = "hello"
          /\ config' = config \cup {at} /\ Answers(s)
      BY <1>15, <2>3, <1>a DEF Configure, Command, Go, WriteConfig
    <3> HIDE DEF c
    <3>2. All(c.expect, identity', config')
      BY <2>1, <3>1 DEF All, Answers, Ties, Unique, World
    <3>3. Tied(cmd[s], box[s], identity', config', root')
      BY <1>0, StaysTied DEF Ties
    <3>4. c.expect >= FirstIdentity /\ c.op # "status" /\ cmd[s].pc # "idle"
      BY <3>1, <1>a, <2>1 DEF Answers, Tied
    <3>5. Tied(c, box[s], identity', config', root')
      BY <2>1, <3>1, <3>2, <3>3, <3>4 DEF Tied
    <3> QED BY <1>0, <2>1, <3>1, <3>5, TiesMove
  <2> QED BY <2>2, <2>3
<1>16. ASSUME NEW s \in Stations, HelloAgain(s) PROVE Ties'
  <2> DEFINE c == [cmd[s] EXCEPT !.seen = runtime[at].version, !.pc = "report"]
  <2>1. /\ c.expect = cmd[s].expect /\ c.op = cmd[s].op /\ c.pc = "report"
        /\ cmd[s].pc = "hello" /\ UNCHANGED box
    BY <1>16, <1>a DEF HelloAgain, Command, At, Looks
  <2>2. End(s) \/ Set(s, c)
    BY <1>16 DEF HelloAgain
  <2> HIDE DEF c
  <2>3. Tied(c, box[s], identity, config, root)
    BY <1>a, <2>1 DEF Tied
  <2> QED BY <1>0, <2>1, <2>2, <2>3, StaysTied, TiesMove, TiesEnd DEF Ties
<1>17. ASSUME NEW s \in Stations, Report(s) PROVE Ties'
  <2>1. cmd[s].pc = "report" /\ UNCHANGED <<box, identity, root>>
    BY <1>17 DEF Report, At, Looks, Unmoved
  <2>2. CASE End(s)
    BY <1>0, <2>1, <2>2, TiesEnd
  <2>3. CASE ~End(s)
    <3> DEFINE c == [cmd[s] EXCEPT !.pc = IF Outdated(s) THEN "path" ELSE "save"]
    <3>1. /\ Set(s, c) /\ c.expect = cmd[s].expect /\ c.op = cmd[s].op
          /\ c.pc = "save" \/ (c.pc = "path" /\ c.op \notin {"add", "status"})
          /\ Answers(s) /\ Reported(s)
      BY <1>17, <2>3, <1>a DEF Report, Command, Go, Outdated
    <3> HIDE DEF c
    <3>2. All(c.expect, identity, root)
      BY <2>1, <3>1, <1>a DEF All, Answers, Reported, Ties, Unique, World, Tied
    <3>3. Tied(c, box[s], identity, config, root)
      BY <2>1, <3>1, <3>2, <1>a DEF Tied
    <3> QED BY <1>0, <2>1, <3>1, <3>3, StaysTied, TiesMove DEF Ties
  <2> QED BY <2>2, <2>3
<1>18. ASSUME NEW s \in Stations, Save(s) PROVE Ties'
  <2>1. cmd[s].pc = "save" /\ End(s) /\ UNCHANGED <<identity, config, root>>
    BY <1>18 DEF Save, At, Unmoved
  <2>2. /\ cmd[s].expect >= FirstIdentity /\ Named(cmd[s].expect, identity)
        /\ All(cmd[s].expect, identity, config) /\ All(cmd[s].expect, identity, root)
    BY <1>a, <2>1 DEF Tied
  <2>3. CASE cmd[s].op = "add"
    <3> DEFINE b == [identity |-> cmd[s].expect, path |-> TRUE, seen |-> cmd[s].seen]
    <3>1. box' = [box EXCEPT ![s] = b] /\ b.identity = cmd[s].expect
      BY <1>18, <2>3 DEF Save, CompleteAdd
    <3> HIDE DEF b
    <3>2. Tied(Idle, b, identity, config, root)
      BY <2>2, <3>1 DEF Tied, Idle, NoIdentity, FirstIdentity
    <3> QED BY <1>0, <2>1, <3>1, <3>2, Ties1 DEF End
  <2>4. CASE cmd[s].op # "add" /\ box[s] # NoBox
    <3> DEFINE b == [box[s] EXCEPT !.seen = cmd[s].seen]
    <3>1. box[s] \in Record /\ box' = [box EXCEPT ![s] = b]
      BY <1>18, <2>4 DEF Save, SaveObservation, World
    <3>2. b.identity = cmd[s].expect
      BY <1>a, <2>1, <2>4, <3>1 DEF Tied, Record
    <3> HIDE DEF b
    <3>3. Tied(Idle, b, identity, config, root)
      BY <2>2, <3>2 DEF Tied, Idle, NoIdentity, FirstIdentity
    <3> QED BY <1>0, <2>1, <3>1, <3>3, Ties1 DEF End
  <2>5. CASE cmd[s].op # "add" /\ box[s] = NoBox
    BY <1>0, <1>18, <2>1, <2>5, TiesEnd DEF Save, SaveObservation
  <2> QED BY <2>3, <2>4, <2>5
<1>23. ASSUME NEW s \in Stations, UpdateRuntimePath(s) PROVE Ties'
  <2>1. cmd[s].pc = "path" /\ UNCHANGED <<identity, config, root>>
    BY <1>23 DEF UpdateRuntimePath, At, Unmoved
  <2>2. CASE End(s) /\ UNCHANGED box
    BY <1>0, <2>2, TiesEnd
  <2>3. CASE box[s] # NoBox
    <3> DEFINE b == [box[s] EXCEPT !.path = TRUE]
               c == [cmd[s] EXCEPT !.pc = "save"]
    <3>1. box[s] \in Record /\ box' = [box EXCEPT ![s] = b] /\ Set(s, c)
      BY <1>23, <2>3 DEF UpdateRuntimePath, World, Go
    <3>2. b.identity = box[s].identity /\ c.expect = cmd[s].expect /\ c.op = cmd[s].op /\ c.pc = "save"
      BY <1>a, <3>1 DEF Record, Command
    <3> HIDE DEF b, c
    <3>3. Tied(c, b, identity, config, root)
      BY <1>a, <2>1, <2>3, <3>2 DEF Tied
    <3> QED BY <1>0, <2>1, <3>1, <3>3, Ties1
  <2> QED BY <1>23, <2>2, <2>3 DEF UpdateRuntimePath
<1>19. ASSUME NEW s \in Stations, Break(s) PROVE Ties'
  BY <1>0, <1>19, TiesEnd DEF Break
<1>20. ASSUME NEW s \in Stations, Forget(s) PROVE Ties'
  <2>1. box' = [box EXCEPT ![s] = NoBox] /\ cmd' = [cmd EXCEPT ![s] = cmd[s]]
    BY <1>20 DEF Forget, Commands
  <2>2. Tied(cmd[s], NoBox, identity, config, root)
    BY <1>a DEF Tied
  <2> QED BY <1>0, <2>1, <2>2, StaysTied, Ties1 DEF Set, Ties
<1>21. ASSUME UNCHANGED <<cmd, box>> PROVE Ties'
  BY <1>0, <1>21, StaysTied DEF Ties
<1>22. Swap \/ (\E m \in Machines : Reinstall(m)) => UNCHANGED <<cmd, box>>
  BY DEF Swap, Reinstall
<1> QED BY <1>1, <1>3, <1>4, <1>5, <1>6, <1>7, <1>8, <1>10, <1>11, <1>12, <1>13, <1>14, <1>15, <1>16, <1>17,
           <1>18, <1>19, <1>20, <1>21, <1>22, <1>23 DEF Next, Identify, EnsureHost, Prepare, Verify

-----------------------------------------------------------------------------
(* Versions, as long as the address names one machine.  Between fingerprint  *)
(* and promotion the runtime may then only have become newer, so one that    *)
(* still has the fingerprint is the one that was assessed.  With several     *)
(* machines it may be another's.                                             *)

OneMachine == \A m, n \in Machines : m = n

Unusable == {Missing, Damaged}
AtLeast(w, v) == w = v \/ (w > v /\ v # Dev)
NotOlder(r, v) == r \notin Unusable /\ AtLeast(r.version, v)

(* A record, a command and the version of its workstation, and the runtime   *)
(* of a machine where nobody reinstalled by hand.                            *)
Current(c, b, w, r) ==
  /\ c.pc \in {"report", "path", "save"} => NotOlder(r, c.seen)
  /\ b # NoBox => (b.path => r \notin Unusable) /\ (b.seen # NoBox => NotOlder(r, b.seen))
  /\ c.pc \in {"reassess", "upload", "try", "promote"} /\ c.baseline \notin Unusable =>
        NotOlder(r, c.baseline.version)
  /\ c.pc \in {"upload", "try", "promote"} /\ c.baseline \notin Unusable => AtLeast(w, c.baseline.version)

Aging == at \notin touched => \A s \in Stations : Current(cmd[s], box[s], cli[s], runtime[at])

(* A promotion by a sound command makes the runtime no older.                *)
LEMMA Ages1 ==
    ASSUME MaintenanceConstants, NEW r \in Artifact \cup Unusable, NEW n \in Artifact,
           r \notin Unusable => AtLeast(n.version, r.version),
           NEW v \in Versions, NotOlder(r, v)
    PROVE  NotOlder(n, v)
<1>1. n.version \in Nat /\ v \in Nat /\ n \notin Unusable
  BY DEF MaintenanceConstants, Artifact, Unusable
<1>2. r \notin Unusable /\ AtLeast(r.version, v) /\ AtLeast(n.version, r.version)
  BY DEF NotOlder
<1>3. r.version \in Nat
  BY <1>2 DEF MaintenanceConstants, Artifact
<1> QED BY <1>1, <1>2, <1>3 DEF NotOlder, AtLeast, Dev

LEMMA AgesAll ==
    ASSUME MaintenanceConstants, World, Commands, NEW r \in Artifact \cup Unusable, NEW n \in Artifact,
           r \notin Unusable => AtLeast(n.version, r.version),
           NEW s \in Stations, Current(cmd[s], box[s], cli[s], r)
    PROVE  Current(cmd[s], box[s], cli[s], n)
<1>1. /\ cmd[s].seen \in Versions
      /\ cmd[s].baseline \notin Unusable => cmd[s].baseline.version \in Versions
      /\ box[s] # NoBox => box[s].seen \in Versions \cup {NoBox}
  BY Due DEF Command, Runtimes, Artifact, World, Record, Unusable
<1>2. ASSUME NEW v \in Versions, NotOlder(r, v) PROVE NotOlder(n, v)
  BY <1>2, Ages1
<1>3. n \notin Unusable
  BY DEF MaintenanceConstants, Unusable
<1> QED BY ONLY <1>1, <1>2, <1>3, Current(cmd[s], box[s], cli[s], r) DEF Current

(* A command moves. *)
LEMMA Aging1 ==
    ASSUME World, Commands, NEW s \in Stations, NEW c, NEW b, Set(s, c), box' = [box EXCEPT ![s] = b],
           UNCHANGED <<at, runtime, cli, touched>>, Aging,
           at \notin touched => Current(c, b, cli[s], runtime[at])
    PROVE  Aging'
<1>1. cmd'[s] = c /\ box'[s] = b
  BY DEF Set, Commands, World
<1>2. \A t \in Stations \ {s} : cmd'[t] = cmd[t] /\ box'[t] = box[t]
  BY DEF Set, Commands, World
<1> QED BY <1>1, <1>2 DEF Aging

LEMMA AgingMove ==
    ASSUME World, Commands, NEW s \in Stations, NEW c, Set(s, c), UNCHANGED box,
           UNCHANGED <<at, runtime, cli, touched>>, Aging,
           at \notin touched /\ Current(cmd[s], box[s], cli[s], runtime[at]) =>
             Current(c, box[s], cli[s], runtime[at])
    PROVE  Aging'
<1>1. box' = [box EXCEPT ![s] = box[s]]
  BY DEF World
<1> QED BY <1>1, Aging1 DEF Aging

LEMMA AgingEnd ==
    ASSUME World, Commands, NEW s \in Stations, End(s), UNCHANGED box,
           UNCHANGED <<at, runtime, cli, touched>>, Aging
    PROVE  Aging'
<1>1. Idle.pc = "idle"
  BY DEF Idle
<1>2. ASSUME NEW b, NEW w, NEW r, Current(cmd[s], b, w, r) PROVE Current(Idle, b, w, r)
  BY <1>1, <1>2 DEF Current
<1> QED BY <1>2, AgingMove DEF End

(* Labels at which a command has no fingerprint and has seen no version.     *)
Unaware == {"inspect", "create", "write", "read", "assess", "fingerprint", "confirm", "tools", "root", "offer",
            "configure", "hello"}

LEMMA AgingGo ==
    ASSUME World, Commands, NEW s \in Stations, NEW c, Set(s, c), c.pc \in Unaware, UNCHANGED box,
           UNCHANGED <<at, runtime, cli, touched>>, Aging
    PROVE  Aging'
<1>1. ASSUME NEW b, NEW w, NEW r, Current(cmd[s], b, w, r) PROVE Current(c, b, w, r)
  BY <1>1 DEF Current, Unaware
<1> QED BY <1>1, AgingMove

LEMMA AgingStep ==
    ASSUME OneMachine, MaintenanceConstants, World, Commands, Aging, Next
    PROVE  Aging'
<1> DEFINE Still == UNCHANGED <<at, runtime, cli, touched>>
<1>a. \A s \in Stations : cmd[s] \in Command
  BY Due
<1>1. ASSUME NEW s \in Stations, Add(s) \/ Status(s) \/ \E op \in {"setup", "update"} : Maintain(s, op)
      PROVE  Aging'
  <2> DEFINE a == [Idle EXCEPT !.op = "add", !.pc = "inspect"]
             r(op, pc) == Recorded(s, op, pc)
  <2>0. a.pc = "inspect" /\ \A op, pc : r(op, pc).pc = pc
    BY DEF Idle, Recorded
  <2>1. Set(s, a) \/ \E op : Set(s, r(op, "inspect")) \/ Set(s, r(op, "hello"))
    BY <1>1 DEF Add, Status, Maintain, Begin
  <2>2. UNCHANGED box /\ Still
    BY <1>1 DEF Add, Status, Maintain, Begin, Unmoved
  <2> HIDE DEF a, r
  <2> QED BY <2>0, <2>1, <2>2, AgingGo DEF Unaware
<1>2. ASSUME NEW s \in Stations,
             \/ Inspect(s) \/ ReadIdentity(s) \/ CreateIdentity(s) \/ WriteIdentity(s) \/ Assess(s)
             \/ Confirm(s) \/ InstallTools(s) \/ EnsureWorktreeRoot(s) \/ OfferConfiguration(s) \/ Configure(s)
      PROVE  Aging'
  <2>1. UNCHANGED box /\ Still
    BY <1>2 DEF Inspect, ReadIdentity, CreateIdentity, WriteIdentity, Assess, Confirm, InstallTools,
       EnsureWorktreeRoot, OfferConfiguration, Configure, Looks, Unmoved, Steps, bounds
  <2>2. End(s) \/ \E c : Set(s, c) /\ c.pc \in Unaware
    <3> DEFINE i == [cmd[s] EXCEPT !.lacks = at \notin tools,
                                   !.pc = IF cmd[s].op = "add" THEN "create" ELSE "assess"]
               r == [cmd[s] EXCEPT !.expect = identity[cmd[s].on], !.on = NoBox, !.pc = "assess"]
               w(pc) == [cmd[s] EXCEPT !.on = at, !.pc = pc]
               t == [cmd[s] EXCEPT !.pc = "root", !.baseline = Missing, !.staged = NoBox, !.tries = 0]
               g(pc) == [cmd[s] EXCEPT !.pc = pc]
    <3>0. /\ {i.pc, r.pc, t.pc} \subseteq Unaware
          /\ \A pc : w(pc).pc = pc /\ g(pc).pc = pc
      BY <1>a DEF Command, Unaware
    <3>1. CASE Inspect(s)
      <4>1. End(s) \/ Set(s, i)
        BY <3>1 DEF Inspect
      <4> QED BY <3>0, <4>1
    <3>2. CASE ReadIdentity(s)
      <4>1. End(s) \/ Set(s, r)
        BY <3>2 DEF ReadIdentity
      <4> QED BY <3>0, <4>1
    <3>3. CASE CreateIdentity(s)
      <4>1. Set(s, w("write")) \/ Set(s, w("read"))
        BY <3>3 DEF CreateIdentity
      <4> QED BY <3>0, <4>1 DEF Unaware
    <3>4. CASE InstallTools(s)
      <4>1. End(s) \/ Set(s, t)
        BY <3>4 DEF InstallTools
      <4> QED BY <3>0, <4>1
    <3>5. CASE WriteIdentity(s) \/ Assess(s) \/ Confirm(s) \/ EnsureWorktreeRoot(s) \/ OfferConfiguration(s)
               \/ Configure(s)
      <4>1. End(s) \/ \E pc \in Unaware : Set(s, g(pc))
        BY <3>5 DEF WriteIdentity, Assess, Confirm, EnsureWorktreeRoot, OfferConfiguration, Configure, Assessed,
           Go, Unaware
      <4>2. \A pc \in Unaware : g(pc).pc \in Unaware
        BY <3>0
      <4> HIDE DEF g
      <4> QED BY <4>1, <4>2
    <3> QED BY <1>2, <3>1, <3>2, <3>3, <3>4, <3>5
  <2> QED BY <2>1, <2>2, AgingEnd, AgingGo
<1>3. ASSUME NEW s \in Stations, Fingerprint(s) PROVE Aging'
  <2> DEFINE c == [cmd[s] EXCEPT !.baseline = runtime[at], !.pc = "reassess"]
  <2>1. UNCHANGED box /\ Still /\ Set(s, c) /\ c.baseline = runtime[at] /\ c.pc = "reassess"
    BY <1>3, <1>a DEF Fingerprint, Looks, Unmoved, Steps, Command
  <2> HIDE DEF c
  <2>2. ASSUME Current(cmd[s], box[s], cli[s], runtime[at]) PROVE Current(c, box[s], cli[s], runtime[at])
    BY <2>1, <2>2 DEF Current, NotOlder, AtLeast
  <2> QED BY <2>1, <2>2, AgingMove
<1>4. ASSUME NEW s \in Stations, Reassess(s) PROVE Aging'
  <2>1. UNCHANGED box /\ Still /\ cmd[s].pc = "reassess"
    BY <1>4 DEF Reassess, Looks, Unmoved, Steps, At
  <2>2. CASE End(s)
    BY <2>1, <2>2, AgingEnd
  <2>3. CASE Go(s, "tools")
    <3>1. \E c : Set(s, c) /\ c.pc \in Unaware
      BY <1>a, <2>3 DEF Go, Command, Unaware
    <3> QED BY <2>1, <3>1, AgingGo
  <2>4. CASE Go(s, "upload") /\ Allowed(s)
    <3> DEFINE c == [cmd[s] EXCEPT !.pc = "upload"]
    <3>1. Set(s, c) /\ c.baseline = cmd[s].baseline /\ c.pc = "upload"
      BY <1>a, <2>4 DEF Go, Command
    <3> HIDE DEF c
    <3>2. ASSUME Current(cmd[s], box[s], cli[s], runtime[at]), cmd[s].baseline \notin Unusable
          PROVE  AtLeast(cli[s], cmd[s].baseline.version)
      <4>1. NotOlder(runtime[at], cmd[s].baseline.version)
        BY <2>1, <3>2 DEF Current
      <4>2. cli[s] \in Nat /\ cmd[s].baseline.version \in Nat /\ runtime[at] \in Artifact
        BY <1>a, <3>2, <4>1 DEF Command, Runtimes, Artifact, World, MaintenanceConstants, NotOlder, Unusable
      <4>3. runtime[at].version \in Nat
        BY <4>2 DEF Artifact, MaintenanceConstants
      <4> QED BY <2>4, <4>1, <4>2, <4>3 DEF Allowed, Unnamed, Runs, Comparable, NotOlder, AtLeast, Unusable, Dev
    <3>3. ASSUME Current(cmd[s], box[s], cli[s], runtime[at]) PROVE Current(c, box[s], cli[s], runtime[at])
      BY <2>1, <3>1, <3>2, <3>3 DEF Current
    <3> QED BY <2>1, <3>1, <3>3, AgingMove
  <2> QED BY <1>4, <2>2, <2>3, <2>4 DEF Reassess, Assessed, Refuses
<1>5. ASSUME NEW s \in Stations, Upload(s) \/ TryStaged(s) PROVE Aging'
  <2>1. UNCHANGED box /\ Still /\ cmd[s].pc \in {"upload", "try"}
    BY <1>5 DEF Upload, TryStaged, Looks, Unmoved, Steps, At
  <2> DEFINE u == [cmd[s] EXCEPT !.staged = at, !.pc = "try"]
             g == [cmd[s] EXCEPT !.pc = "promote"]
  <2>a. u.pc = "try" /\ g.pc = "promote" /\ u.baseline = cmd[s].baseline /\ g.baseline = cmd[s].baseline
    BY <1>a DEF Command
  <2>2. End(s) \/ Set(s, u) \/ Set(s, g)
    BY <1>5 DEF Upload, TryStaged, Go
  <2> HIDE DEF u, g
  <2>3. ASSUME NEW c, c.baseline = cmd[s].baseline, c.pc \in {"try", "promote"},
               Current(cmd[s], box[s], cli[s], runtime[at])
        PROVE  Current(c, box[s], cli[s], runtime[at])
    BY <2>1, <2>3 DEF Current
  <2> QED BY <2>a, <2>1, <2>2, <2>3, AgingEnd, AgingMove
<1>6. ASSUME NEW s \in Stations, Promote(s) PROVE Aging'
  <2>1. UNCHANGED <<box, at, cli, touched>> /\ cmd[s].pc = "promote"
    BY <1>6 DEF Promote, Steps, At
  <2>2. CASE End(s) /\ UNCHANGED runtime
    BY <2>1, <2>2, AgingEnd
  <2>3. CASE Set(s, [cmd[s] EXCEPT !.pc = "assess", !.tries = @ + 1, !.staged = NoBox, !.baseline = Missing])
             /\ UNCHANGED runtime
    <3> DEFINE c == [cmd[s] EXCEPT !.pc = "assess", !.tries = @ + 1, !.staged = NoBox, !.baseline = Missing]
    <3>1. Set(s, c) /\ c.pc = "assess"
      BY <1>a, <2>3 DEF Command
    <3> HIDE DEF c
    <3> QED BY <2>1, <2>3, <3>1, AgingGo DEF Unaware
  <2>4. CASE runtime[at] = cmd[s].baseline /\ runtime' = [runtime EXCEPT ![at] = Build(s)] /\ Go(s, "confirm")
    <3> SUFFICES ASSUME at \notin touched
                 PROVE  \A t \in Stations : Current(cmd'[t], box[t], cli[t], runtime'[at])
      BY <2>1 DEF Aging
    <3>1. runtime'[at] = Build(s) /\ Build(s).version = cli[s] /\ Build(s) \in Artifact
      BY <2>4 DEF World, Build, Artifact
    <3>2. runtime[at] \notin Unusable => AtLeast(cli[s], runtime[at].version)
      BY <2>1, <2>4 DEF Aging, Current
    <3>3. \A t \in Stations : Current(cmd[t], box[t], cli[t], Build(s))
      BY <3>1, <3>2, AgesAll DEF Aging, World, Runtimes, Unusable
    <3>4. cmd'[s].pc = "confirm" /\ \A t \in Stations \ {s} : cmd'[t] = cmd[t]
      BY <1>a, <2>4 DEF Go, Set, Commands, Command
    <3>5. Current(cmd'[s], box[s], cli[s], Build(s))
      BY <3>3, <3>4 DEF Current
    <3> QED BY <3>1, <3>3, <3>4, <3>5
  <2> QED BY <1>6, <2>2, <2>3, <2>4 DEF Promote
<1>7. ASSUME NEW s \in Stations, HelloAgain(s) PROVE Aging'
  <2>1. UNCHANGED box /\ Still
    BY <1>7 DEF HelloAgain, Looks, Unmoved, Steps
  <2> DEFINE c == [cmd[s] EXCEPT !.seen = runtime[at].version, !.pc = "report"]
  <2>2. End(s) \/ (Set(s, c) /\ Runs(at))
    BY <1>7 DEF HelloAgain, Answers
  <2>3. c.seen = runtime[at].version /\ c.pc = "report"
    BY <1>a DEF Command
  <2> HIDE DEF c
  <2>4. ASSUME Runs(at), Current(cmd[s], box[s], cli[s], runtime[at]) PROVE Current(c, box[s], cli[s], runtime[at])
    BY <2>3, <2>4 DEF Current, NotOlder, AtLeast, Runs, Unusable
  <2> QED BY <2>1, <2>2, <2>4, AgingEnd, AgingMove
<1>8. ASSUME NEW s \in Stations, Report(s) PROVE Aging'
  <2>1. UNCHANGED box /\ Still /\ cmd[s].pc = "report"
    BY <1>8 DEF Report, Looks, Unmoved, Steps, At
  <2>2. End(s) \/ \E c : Set(s, c) /\ c.seen = cmd[s].seen /\ c.pc \in {"path", "save"}
    BY <1>a, <1>8 DEF Report, Go, Command
  <2>3. ASSUME NEW c, c.seen = cmd[s].seen, c.pc \in {"path", "save"}, Current(cmd[s], box[s], cli[s], runtime[at])
        PROVE  Current(c, box[s], cli[s], runtime[at])
    BY <2>1, <2>3 DEF Current
  <2> QED BY <2>1, <2>2, <2>3, AgingEnd, AgingMove
<1>9. ASSUME NEW s \in Stations, Save(s) PROVE Aging'
  <2>1. Still /\ End(s) /\ cmd[s].pc = "save" /\ Idle.pc = "idle"
    BY <1>9 DEF Save, Unmoved, Steps, At, Idle
  <2>2. box' = box \/ \E b : box' = [box EXCEPT ![s] = b] /\ b.seen = cmd[s].seen
    <3>1. CASE cmd[s].op = "add"
      BY <1>9, <3>1 DEF Save, CompleteAdd
    <3>2. CASE cmd[s].op # "add"
      BY <1>9, <3>2 DEF Save, SaveObservation, World, Record
    <3> QED BY <3>1, <3>2
  <2>3. ASSUME NEW b, b.seen = cmd[s].seen, at \notin touched
        PROVE  Current(Idle, b, cli[s], runtime[at])
    BY <2>1, <2>3 DEF Aging, Current, NotOlder
  <2> QED BY <2>1, <2>2, <2>3, AgingEnd, Aging1 DEF End
<1>14. ASSUME NEW s \in Stations, UpdateRuntimePath(s) PROVE Aging'
  <2>1. Still /\ cmd[s].pc = "path"
    BY <1>14 DEF UpdateRuntimePath, Unmoved, Steps, At
  <2>2. CASE End(s) /\ UNCHANGED box
    BY <2>1, <2>2, AgingEnd
  <2>3. CASE box[s] # NoBox
    <3> DEFINE b == [box[s] EXCEPT !.path = TRUE]
               c == [cmd[s] EXCEPT !.pc = "save"]
    <3>1. box[s] \in Record /\ box' = [box EXCEPT ![s] = b] /\ Set(s, c)
      BY <1>14, <2>3 DEF UpdateRuntimePath, World, Go
    <3>2. b.seen = box[s].seen /\ c.seen = cmd[s].seen /\ c.pc = "save"
      BY <1>a, <3>1 DEF Record, Command
    <3> HIDE DEF b, c
    <3>3. at \notin touched => Current(c, b, cli[s], runtime[at])
      BY <2>1, <2>3, <3>2 DEF Aging, Current, NotOlder
    <3> QED BY <2>1, <3>1, <3>3, Aging1
  <2> QED BY <1>14, <2>2, <2>3 DEF UpdateRuntimePath
<1>10. ASSUME NEW s \in Stations, Break(s) PROVE Aging'
  BY <1>10, AgingEnd DEF Break, Unmoved
<1>11. ASSUME NEW s \in Stations, Forget(s) PROVE Aging'
  <2>1. box' = [box EXCEPT ![s] = NoBox] /\ cmd' = [cmd EXCEPT ![s] = cmd[s]] /\ Still
    BY <1>11 DEF Forget, Commands, Unmoved
  <2>2. at \notin touched => Current(cmd[s], NoBox, cli[s], runtime[at])
    BY DEF Aging, Current
  <2> QED BY <2>1, <2>2, Aging1 DEF Set
<1>12. ASSUME NEW m \in Machines, Reinstall(m) PROVE Aging'
  BY <1>12 DEF Reinstall, Aging, OneMachine, World
<1>13. ~Swap
  BY DEF Swap, OneMachine, World
<1> QED BY <1>1, <1>2, <1>3, <1>4, <1>5, <1>6, <1>7, <1>8, <1>9, <1>10, <1>11, <1>12, <1>13, <1>14
        DEF Next, Identify, EnsureHost, Prepare, Verify

-----------------------------------------------------------------------------
LEMMA InitTies == ASSUME MaintenanceConstants, Init PROVE Ties /\ Aging
<1>1. /\ Idle.pc = "idle" /\ Idle.expect = NoIdentity /\ Idle.op = "setup"
  BY DEF Idle
<1>2. Unique
  BY DEF Init, Unique, NoIdentity, FirstIdentity
<1>3. ASSUME NEW s \in Stations
      PROVE  Tied(cmd[s], box[s], identity, config, root) /\ Current(cmd[s], box[s], cli[s], runtime[at])
  <2>1. box[s] # NoBox => /\ box[s].identity = FirstIdentity /\ Named(FirstIdentity, identity)
                          /\ box[s].path = FALSE /\ box[s].seen = NoBox
    BY DEF Init, Named
  <2> QED BY <1>1, <2>1 DEF Init, Tied, Current, NoIdentity, FirstIdentity
<1> QED BY <1>2, <1>3 DEF Ties, Aging

(* A record means one machine, which has its identity for good, and if the   *)
(* record names a runtime, that machine has been configured and has the      *)
(* Worktree Root.                                                            *)
MeansOne ==
  \A s \in Stations : box[s] # NoBox =>
    \E m \in Machines :
      /\ identity[m] = box[s].identity /\ \A n \in Machines : identity[n] = box[s].identity => n = m
      /\ box[s].path => m \in config \cap root

LEMMA TiesStay == ASSUME MaintenanceConstants, IInv, Ties, [Next]_vars PROVE Ties'
<1>1. CASE Next
  BY <1>1, TiesStep DEF IInv
<1>2. CASE UNCHANGED vars
  <2>1. UNCHANGED <<cmd, box, identity, config, root, ids>>
    BY <1>2 DEF vars, machineVars
  <2> QED BY <2>1 DEF Ties, Unique
<1> QED BY <1>1, <1>2

LEMMA AgingStays == ASSUME OneMachine, MaintenanceConstants, IInv, Aging, [Next]_vars PROVE Aging'
<1>1. CASE Next
  BY <1>1, AgingStep DEF IInv
<1>2. CASE UNCHANGED vars
  <2>1. UNCHANGED <<at, cmd, box, cli, runtime, touched>>
    BY <1>2 DEF vars, machineVars
  <2> QED BY <2>1 DEF Aging
<1> QED BY <1>1, <1>2

(* For any number of workstations and machines, however often the address    *)
(* changes hands: the identity in a record stays that of one machine, which  *)
(* was configured and given the Worktree Root before the record said so.     *)
THEOREM OneIdentity == Spec => []MeansOne
<1>1. IInv /\ Ties => MeansOne
  BY DEF IInv, World, Ties, Unique, Tied, Named, All, MeansOne
<1>2. Init => IInv /\ Ties
  BY InitIInv, InitTies, MaintenanceConstants
<1>3. IInv /\ Ties /\ [Next]_vars => (IInv /\ Ties)'
  BY StepIInv, TiesStay, MaintenanceConstants
<1> QED BY <1>1, <1>2, <1>3, PTL DEF Spec

(* While the address names one machine, a record with a runtime also is not  *)
(* ahead of the machine: the runtime there is the one last seen or newer,    *)
(* however many workstations install and however often people reinstall on   *)
(* the way (then only the identity, configuration and Worktree Root remain). *)
THEOREM StaysPrepared == ASSUME OneMachine PROVE Spec => []Prepared
<1>1. IInv /\ Ties /\ Aging => Prepared
  <2> SUFFICES ASSUME IInv, Ties, Aging, NEW s \in Stations, box[s] # NoBox
               PROVE  \E m \in Machines :
                        /\ identity[m] = box[s].identity
                        /\ box[s].path => m \in config \cap root
                        /\ box[s].path /\ m \notin touched =>
                              /\ Runs(m)
                              /\ box[s].seen \notin {NoBox, runtime[m].version}
                                 => runtime[m].version > box[s].seen /\ box[s].seen # Dev
    BY DEF Prepared
  <2>1. PICK m \in Machines : identity[m] = box[s].identity
    BY DEF Ties, Tied, Named
  <2>2. m = at
    BY DEF OneMachine, IInv, World
  <2>3. box[s].path => m \in config \cap root
    BY <2>1 DEF Ties, Tied, All
  <2>4. box[s].path /\ m \notin touched =>
          runtime[m] \notin Unusable /\ (box[s].seen # NoBox => NotOlder(runtime[m], box[s].seen))
    BY <2>2 DEF Aging, Current
  <2>5. box[s].path /\ m \notin touched =>
          Runs(m) /\ (box[s].seen # NoBox => AtLeast(runtime[m].version, box[s].seen))
    BY <2>4 DEF NotOlder, Runs, Unusable
  <2> QED BY <2>1, <2>3, <2>5 DEF AtLeast
<1>2. Init => IInv /\ Ties /\ Aging
  BY InitIInv, InitTies, MaintenanceConstants
<1>3. IInv /\ Ties /\ Aging /\ [Next]_vars => (IInv /\ Ties /\ Aging)'
  BY StepIInv, TiesStay, AgingStays, MaintenanceConstants
<1> QED BY <1>1, <1>2, <1>3, PTL DEF Spec
=============================================================================
