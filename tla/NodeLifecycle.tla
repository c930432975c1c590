--------------------------- MODULE NodeLifecycle ---------------------------
(***************************************************************************)
(* What Rancher relies on when it owns a node through this driver: which   *)
(* machines of the fabric are built and unbuilt in its name, and what it   *)
(* is told.  Each configuration asks for one machine at most; a node that  *)
(* is reported ready stands and nobody has ordered it away; only the       *)
(* node's own machine is ever ordered away, and only by a removal; and a   *)
(* configuration is given up only when its machine is gone or a stray.     *)
(***************************************************************************)

CONSTANTS Machine, NoMachine

VARIABLES
  busy,     (* is the node being created ("creating" until its machine is  *)
            (* asked for, "building" after), "removing", or neither: "no"? *)
  used,     (* has the configuration been used for a Create?               *)
  machine,  (* the machine the node's configuration names                  *)
  live,     (* the machines that stand                                     *)
  leaving,  (* those ordered away, and those already gone                  *)
  stray     (* those no configuration names                                *)

vars == <<busy, used, machine, live, leaving, stray>>

Init ==
  /\ busy = "no" /\ used = FALSE /\ machine = NoMachine
  /\ live = {} /\ leaving = {} /\ stray = {}

Create ==
  /\ busy = "no" /\ ~used
  /\ busy' = "creating" /\ used' = TRUE
  /\ UNCHANGED <<machine, live, leaving, stray>>

\* One machine is asked for; when the answer gets lost it is a stray, and the
\* creation fails.
Build(m) ==
  /\ busy = "creating" /\ m \notin live \cup leaving
  /\ live' = live \cup {m}
  /\ \/ busy' = "building" /\ machine' = m /\ UNCHANGED stray
     \/ busy' = "removing" /\ stray' = stray \cup {m} /\ UNCHANGED machine
  /\ UNCHANGED <<used, leaving>>

Ready ==
  /\ busy = "building" /\ machine \in live \ leaving
  /\ busy' = "no"
  /\ UNCHANGED <<used, machine, live, leaving, stray>>

\* A failed Create removes; so does Remove.
Remove ==
  /\ busy # "removing" /\ busy' = "removing"
  /\ UNCHANGED <<used, machine, live, leaving, stray>>

\* The order to remove the node's machine, whose answer may get lost.
Order ==
  /\ busy = "removing" /\ machine \in live
  /\ leaving' = leaving \cup {machine}
  /\ busy' \in {"removing", "no"}
  /\ UNCHANGED <<used, machine, live, stray>>

\* The end of a removal, with or without success.
EndRemove ==
  /\ busy = "removing" /\ busy' = "no"
  /\ UNCHANGED <<used, machine, live, leaving, stray>>

\* The driver dies; what it had not saved yet is lost.
Crash ==
  /\ busy' = "no"
  /\ \/ UNCHANGED <<machine, stray>>
     \/ /\ machine # NoMachine
        /\ machine' = NoMachine /\ stray' = stray \cup {machine}
  /\ UNCHANGED <<used, live, leaving>>

Vanish(m) ==
  /\ m \in live \cap leaving
  /\ live' = live \ {m}
  /\ UNCHANGED <<busy, used, machine, leaving, stray>>

\* Another node, from a new configuration.
Renew ==
  /\ busy = "no" /\ machine \notin live
  /\ used' = FALSE /\ machine' = NoMachine
  /\ UNCHANGED <<busy, live, leaving, stray>>

Next ==
  \/ Create \/ Ready \/ Remove \/ Order \/ EndRemove \/ Crash \/ Renew
  \/ \E m \in Machine : Build(m) \/ Vanish(m)

Spec == Init /\ [][Next]_vars

===========================================================================
