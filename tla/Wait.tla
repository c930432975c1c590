-------------------------------- MODULE Wait --------------------------------
(***************************************************************************)
(* What a caller of waitForStatus (fsas.go) may rely on, without polls or  *)
(* clocks: nil is decided at a moment when the machine is in the expected  *)
(* status; an error may come at any moment.  This is how Driver models its *)
(* six waits; StatusWait shows that the loop implements it.                *)
(***************************************************************************)
VARIABLES
    status,    \* the machine's: "expected", "ERROR" or "other"
    outcome    \* what the call returns

Status  == {"expected", "ERROR", "other"}
Outcome == {"pending", "ok", "error", "timeout"}

Init == status \in Status /\ outcome = "pending"

\* The machine goes its way; a broken one (ERROR) may still be unbuilt.
Move == status' \in Status /\ UNCHANGED outcome

Succeed == /\ outcome = "pending" /\ status = "expected"
           /\ outcome' = "ok"
           /\ UNCHANGED status

Fail == /\ outcome = "pending"
        /\ outcome' \in {"error", "timeout"}
        /\ UNCHANGED status

Next == Move \/ Succeed \/ Fail

Spec == Init /\ [][Next]_<<status, outcome>>

=============================================================================
