------------------------------ MODULE SshSteps ------------------------------
(***************************************************************************)
(* What the driver relies on when it calls its SSH manager, and what the   *)
(* steps over SSH of module Driver say of it: an operation does some part  *)
(* of its work and ends; it returns nil only when the work that its nil    *)
(* vouches for is done.                                                    *)
(***************************************************************************)

VARIABLES
  step,      (* the operation in progress, or "idle"                       *)
  res,       (* what the last one returned; "none" before and during one   *)
  facts      (* what has been done to the machine's operating system       *)

stepVars == <<step, res, facts>>

\* What each operation is to do; DeregisterOS is to undo the registration.
Adds == [exchange |-> {"keyed"},
         register |-> {"registered"}, unlicensed |-> {},
         script |-> {"provider"}, cloud |-> {"metadata", "seeded"}, pwoff |-> {"pwoff"},
         deregister |-> {}]
Undoes(o) == IF o = "deregister" THEN {"registered"} ELSE {}

\* What nil says of it: that cloud-init was restarted, "seeded", it does not.
Complete(o, F) == Adds[o] \ {"seeded"} \subseteq F /\ Undoes(o) \cap F = {}

Init == step = "idle" /\ res = "none" /\ facts = {}

Begin == step = "idle" /\ step' \in DOMAIN Adds /\ res' = "none" /\ UNCHANGED facts

\* Some of the work of the operation, which may end with it.
Work ==
  /\ step # "idle"
  /\ facts \ Undoes(step) \subseteq facts' /\ facts' \subseteq facts \cup Adds[step]
  /\ "seeded" \in facts' => "metadata" \in facts'
  /\ \/ UNCHANGED <<step, res>>
     \/ step' = "idle" /\ res' = "err"
     \/ step' = "idle" /\ res' = "ok" /\ Complete(step, facts')

\* The process dies.
Die == step' = "idle" /\ res' = "none" /\ UNCHANGED facts

Spec == Init /\ [][Begin \/ Work \/ Die]_stepVars

===========================================================================
