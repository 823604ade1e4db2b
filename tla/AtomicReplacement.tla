-------------------------- MODULE AtomicReplacement --------------------------
(***************************************************************************)
(* What a workspace transfer promises about the files of its destination:  *)
(* it reports that it applied the incoming files only when all of them are *)
(* there at once, it reports a refusal only when every file that nobody    *)
(* touched is what it was, and it stops changing files when it reports.    *)
(* One path is excepted: that of the file it could not install.            *)
(***************************************************************************)
CONSTANT Names  \* paths

VARIABLES
    shown,    \* what each path that the transfer replaces shows
    touched,  \* the paths people did something to
    abandoned, \* the path the transfer gave up
    outcome

vars == <<shown, touched, abandoned, outcome>>

Views == {"previous", "incoming", "missing", "theirs"}

Init ==
    /\ \E replaced \in SUBSET Names : shown = [n \in replaced |-> "previous"]
    /\ touched = {} /\ abandoned = {}
    /\ outcome = "pending"

(* The transfer moves files about. *)
Work ==
    /\ outcome = "pending"
    /\ shown' \in [DOMAIN shown -> Views]
    /\ UNCHANGED <<touched, abandoned, outcome>>

(* An installation fails, and with it the transfer: there is no second one. *)
Abandon ==
    /\ outcome = "pending" /\ abandoned = {}
    /\ \E n \in DOMAIN shown : abandoned' = {n}
    /\ UNCHANGED <<shown, touched, outcome>>

People ==
    \E n \in Names :
        /\ touched' = touched \cup {n}
        /\ \E v \in Views : shown' = [m \in DOMAIN shown |-> IF m = n THEN v ELSE shown[m]]
        /\ UNCHANGED <<abandoned, outcome>>

Report(o) == outcome = "pending" /\ outcome' = o /\ UNCHANGED <<shown, touched, abandoned>>

Apply  == abandoned = {} /\ (\A n \in DOMAIN shown : shown[n] = "incoming") /\ Report("applied")
Refuse == (\A n \in DOMAIN shown \ (touched \cup abandoned) : shown[n] = "previous") /\ Report("refused")

Unknown ==
    /\ outcome = "pending" /\ outcome' = "unknown"
    /\ shown' \in [DOMAIN shown -> Views]
    /\ UNCHANGED <<touched, abandoned>>

Next == Work \/ Abandon \/ People \/ Apply \/ Refuse \/ Unknown

Spec == Init /\ [][Next]_vars
=============================================================================
