--------------------------- MODULE ProcessControl ---------------------------
(* How a command is run, attached to a terminal, suspended, resumed and      *)
(* cancelled with what it has started (internal/process).  A command is      *)
(* captured, attached without a terminal, attached to a terminal with job    *)
(* control, or shares Schooner's own process group.  Its cancellation runs   *)
(* beside the loop that waits for it.                                        *)
(*                                                                           *)
(* Process 1 is the command; the others are started by it and by each other, *)
(* in its process group or in one of their own, and belong to process 0 once *)
(* their parent is gone.                                                     *)
EXTENDS Naturals

CONSTANTS MaxProcesses,  \* bound: processes the command consists of
          Rounds,        \* scans of a cancellation for descendants
          MaxStops,      \* bound: stops of the command by its user or its terminal
          MaxFaults      \* bound: failed system calls

\* what is assumed of the constants
ProcessConstants ==
  /\ MaxProcesses \in Nat \ {0} /\ Rounds \in Nat \ {0}
  /\ MaxStops \in Nat /\ MaxFaults \in Nat

Processes == 1..MaxProcesses
Kinds     == {"captured", "attached", "terminal", "shared"}

VARIABLES kind,      \* how the command is run
          job,       \* where the loop that waits for the command is
          proc,      \* state, group and parent of every process
          fg,        \* the process group that owns the terminal
          heard,     \* whether changes of the command are listened for
          chld,      \* whether one is waiting to be noticed
          cancel,    \* where the cancellation is, and whom it has stopped
          budget     \* what has been used of the bounds

procVars == <<kind, job, proc, fg, heard, chld, cancel, budget>>

Absent == [state |-> "absent", group |-> "own", parent |-> 0]
Calm   == [pc |-> "none", round |-> 0, known |-> {}, new |-> {}, resumed |-> FALSE]

Init ==
  /\ kind \in Kinds
  /\ job = "start"
  /\ proc = [p \in Processes |-> Absent]
  /\ fg = "parent" /\ heard = FALSE /\ chld = FALSE
  /\ cancel = Calm
  /\ budget = [stops |-> 0, faults |-> 0]

Alive(p)   == proc[p].state \in {"runs", "paused", "frozen"}
InGroup(p) == proc[p].group = "command"
Fault      == budget.faults < MaxFaults /\ budget' = [budget EXCEPT !.faults = @ + 1]

\* A change of the command's state is noticed only while it is listened for.
Notified == chld' = (chld \/ (heard /\ proc'[1].state # proc[1].state))

\* Processes of S are stopped, continued or killed; the children of the killed are orphans.
Freeze(S) == proc' = [p \in Processes |->
               IF p \in S /\ proc[p].state = "runs" THEN [proc[p] EXCEPT !.state = "frozen"] ELSE proc[p]]
Wake(S)   == proc' = [p \in Processes |->
               IF p \in S /\ Alive(p) THEN [proc[p] EXCEPT !.state = "runs"] ELSE proc[p]]
End(S)    == proc' = [p \in Processes |->
               IF p \in S /\ Alive(p) THEN [proc[p] EXCEPT !.state = "dead"]
               ELSE IF proc[p].parent \in S THEN [proc[p] EXCEPT !.parent = 0]
               ELSE proc[p]]
Group     == {p \in Processes : InGroup(p)}

\* The descendants ps shows: everything whose chain of parents leads to the command.
Descendants ==
  LET below[n \in 0..MaxProcesses] ==
        IF n = 0 THEN {1}
        ELSE below[n - 1] \cup {p \in Processes : Alive(p) /\ proc[p].parent \in below[n - 1]}
  IN below[MaxProcesses] \ {1}

(***************************************************************************)
(* The command and its user.                                               *)
(***************************************************************************)
Fork(p, group) ==
  /\ proc[p].state = "runs"
  /\ \E q \in Processes :
       /\ q > 1 /\ proc[q].state = "absent" /\ \A o \in 2..(q - 1) : proc[o].state # "absent"
       /\ proc' = [proc EXCEPT ![q] = [state |-> "runs", parent |-> p,
                     group |-> IF group = "own" THEN "own" ELSE proc[p].group]]
  /\ UNCHANGED <<kind, job, fg, heard, chld, cancel, budget>>

Exit(p) ==
  /\ proc[p].state = "runs"
  /\ End({p}) /\ Notified
  /\ UNCHANGED <<kind, job, fg, heard, cancel, budget>>

\* Ctrl-Z, or a read of a terminal that belongs to another group, stops the group.
Pause ==
  /\ kind = "terminal" /\ budget.stops < MaxStops
  /\ \E p \in Group : proc[p].state = "runs"
  /\ proc' = [p \in Processes |-> IF InGroup(p) /\ proc[p].state = "runs"
                                  THEN [proc[p] EXCEPT !.state = "paused"] ELSE proc[p]]
  /\ budget' = [budget EXCEPT !.stops = @ + 1]
  /\ Notified
  /\ UNCHANGED <<kind, job, fg, heard, cancel>>

(***************************************************************************)
(* Cancellation.                                                           *)
(***************************************************************************)
\* Schooner itself, with all its threads, is suspended.
Suspended == job = "suspended"

\* Cancellation is published before anything is stopped.
Cancel ==
  /\ cancel.pc = "none" /\ job \notin {"start", "cleanup", "done"} /\ ~Suspended
  /\ cancel' = [cancel EXCEPT !.pc = "stop"]
  /\ UNCHANGED <<kind, job, proc, fg, heard, chld, budget>>

\* A command in the process group of Schooner is stopped alone.
Target == IF kind = "shared" THEN {1} ELSE Group

StopTarget ==
  /\ cancel.pc = "stop" /\ ~Suspended
  /\ Freeze(Target) /\ Notified
  /\ cancel' = [cancel EXCEPT !.pc = "scan"]
  /\ UNCHANGED <<kind, job, fg, heard, budget>>

\* Descendants are scanned for until a scan shows no new one; a failed scan ends it.
Scan ==
  /\ cancel.pc = "scan" /\ ~Suspended
  /\ LET new == Descendants \ cancel.known
     IN \/ /\ cancel' = [cancel EXCEPT !.new = new, !.round = @ + 1,
                           !.pc = IF new = {} THEN "kill" ELSE "freeze"]
           /\ UNCHANGED budget
        \/ /\ Fault
           /\ cancel' = [cancel EXCEPT !.pc = "killTarget"]
  /\ UNCHANGED <<kind, job, proc, fg, heard, chld>>

FreezeNew ==
  /\ cancel.pc = "freeze" /\ ~Suspended
  /\ Freeze(cancel.new)
  /\ cancel' = [cancel EXCEPT !.known = @ \cup cancel.new,
                              !.pc = IF cancel.round < Rounds THEN "scan" ELSE "kill"]
  /\ UNCHANGED <<kind, job, fg, heard, chld, budget>>

KillKnown ==
  /\ cancel.pc = "kill" /\ ~Suspended
  /\ End(cancel.known)
  /\ cancel' = [cancel EXCEPT !.pc = "killTarget"]
  /\ UNCHANGED <<kind, job, fg, heard, chld, budget>>

KillTarget ==
  /\ cancel.pc = "killTarget" /\ ~Suspended
  /\ End(Target) /\ Notified
  /\ cancel' = [cancel EXCEPT !.pc = "over"]
  /\ UNCHANGED <<kind, job, fg, heard, budget>>

(***************************************************************************)
(* The loop that waits for the command.                                    *)
(***************************************************************************)
Goes(pc) == job' = pc

Start ==
  /\ job = "start"
  /\ proc' = [proc EXCEPT ![1] = [state |-> "runs", parent |-> 0,
                group |-> IF kind = "shared" THEN "schooner" ELSE "command"]]
  /\ Goes(IF kind = "terminal" THEN "notify" ELSE "wait")
  /\ UNCHANGED <<kind, fg, heard, chld, cancel, budget>>

Notify ==
  /\ job = "notify"
  /\ heard' = TRUE /\ Goes("handoff")
  /\ UNCHANGED <<kind, proc, fg, chld, cancel, budget>>

\* A failed call cancels the command, and the loop ends with it.
GiveUp ==
  /\ Fault /\ Goes("reap")
  /\ cancel' = IF cancel.pc = "none" THEN [cancel EXCEPT !.pc = "stop"] ELSE cancel

GiveTerminal ==
  /\ job \in {"handoff", "return"}
  /\ \/ fg' = "command" /\ Goes("continue") /\ UNCHANGED <<cancel, budget>>
     \/ GiveUp /\ UNCHANGED fg
  /\ UNCHANGED <<kind, proc, heard, chld>>

\* A command that stopped on its terminal before it owned it is resumed, with its group.
Continue ==
  /\ job = "continue"
  /\ \/ /\ Wake(Group) /\ Notified /\ Goes("wait")
        /\ cancel' = [cancel EXCEPT !.resumed = @ \/ cancel.pc # "none"]
        /\ UNCHANGED budget
     \/ GiveUp /\ UNCHANGED <<proc, chld>>
  /\ UNCHANGED <<kind, fg, heard>>

\* Mutant: the loop does not know of a cancellation.
Unpublished == FALSE

Published == cancel.pc # "none"

\* Nothing is listened for while ps is asked whether the command is stopped.
Notice ==
  /\ job = "wait" /\ chld
  /\ chld' = FALSE
  /\ IF Published THEN UNCHANGED <<job, heard>> ELSE heard' = FALSE /\ Goes("probe")
  /\ UNCHANGED <<kind, proc, fg, cancel, budget>>

Stopped(p) == proc[p].state \in {"paused", "frozen"}

Probe ==
  /\ job = "probe"
  /\ \/ Goes(IF Stopped(1) THEN "listen" ELSE "ignore") /\ UNCHANGED budget
     \/ Fault /\ Goes("ignore")
  /\ UNCHANGED <<kind, proc, fg, heard, chld, cancel>>

Listen ==
  /\ job \in {"listen", "ignore"}
  /\ heard' = TRUE
  /\ Goes(IF job = "listen" /\ ~Published THEN "yield" ELSE "wait")
  /\ UNCHANGED <<kind, proc, fg, chld, cancel, budget>>

Yield ==
  /\ job = "yield"
  /\ \/ fg' = "parent" /\ Goes("suspend") /\ UNCHANGED <<cancel, budget>>
     \/ GiveUp /\ UNCHANGED fg
  /\ UNCHANGED <<kind, proc, heard, chld>>

\* Schooner stops itself, and the shell takes the terminal back.
Suspend ==
  /\ job = "suspend" \/ (job = "recheck" /\ fg # "parent")
  /\ \/ fg' = "shell" /\ Goes("suspended") /\ UNCHANGED <<cancel, budget>>
     \/ GiveUp /\ UNCHANGED fg
  /\ UNCHANGED <<kind, proc, heard, chld>>

\* fg returns the terminal with the job, bg does not.
Resume ==
  /\ job = "suspended"
  /\ fg' \in {"parent", "shell"} /\ Goes("recheck")
  /\ UNCHANGED <<kind, proc, heard, chld, cancel, budget>>

Recheck ==
  /\ job = "recheck" /\ fg = "parent"
  /\ \/ Goes("return") /\ UNCHANGED <<cancel, budget>>
     \/ GiveUp
  /\ UNCHANGED <<kind, proc, fg, heard, chld>>

\* The command is reaped once a cancellation that has begun is over; the deferred
\* handoff gives the terminal back.
Reaped ==
  /\ job \in {"wait", "reap"} /\ proc[1].state = "dead" /\ cancel.pc \in {"none", "over"}
  /\ \/ fg' = (IF kind = "terminal" THEN "parent" ELSE fg) /\ UNCHANGED budget
     \/ kind = "terminal" /\ Fault /\ UNCHANGED fg
  /\ heard' = FALSE
  /\ Goes(IF kind \in {"attached", "terminal"} THEN "cleanup" ELSE "done")
  /\ UNCHANGED <<kind, proc, chld, cancel>>

\* The group the command may have left behind is killed.
Cleanup ==
  /\ job = "cleanup"
  /\ End(Group) /\ Goes("done")
  /\ UNCHANGED <<kind, fg, heard, chld, cancel, budget>>

Next ==
  \/ \E p \in Processes : Exit(p) \/ \E group \in {"same", "own"} : Fork(p, group)
  \/ Pause \/ Cancel \/ StopTarget \/ Scan \/ FreezeNew \/ KillKnown \/ KillTarget
  \/ Start \/ Notify \/ GiveTerminal \/ Continue \/ Notice \/ Probe \/ Listen
  \/ Yield \/ Suspend \/ Resume \/ Recheck \/ Reaped \/ Cleanup

Spec == Init /\ [][Next]_procVars

-----------------------------------------------------------------------------
(* Schooner suspends itself only for a command its user or its terminal      *)
(* stopped, never for the stop of a cancellation; whenever it is suspended   *)
(* or done the terminal does not belong to the command, unless the call that *)
(* gives it back at the end fails; an interactive command leaves no process  *)
(* in its group.  A cancellation kills every descendant it could see, unless *)
(* the loop resumed the command meanwhile or something new appeared in each  *)
(* of its scans                                                              *)
(* (process_group_unix.go:64-176, 201-231).                                  *)
JobControl ==
  [][/\ job = "listen" /\ job' = "yield" => proc[1].state # "frozen"
     /\ job' = "suspended" => fg' # "command"
     /\ job \in {"wait", "reap"} /\ job' \in {"cleanup", "done"} =>
          fg' # "command" \/ budget'.faults > budget.faults
     /\ job' = "done" /\ kind \in {"attached", "terminal"} =>
          \A p \in Processes : proc'[p].state = "dead" \/ proc'[p].group # "command"
                                 \/ proc'[p].state = "absent"
     /\ cancel.pc = "kill" /\ cancel'.pc # "kill" /\ cancel.round < Rounds /\ ~cancel.resumed =>
          Descendants \subseteq cancel.known \cup Group]_procVars
=============================================================================
