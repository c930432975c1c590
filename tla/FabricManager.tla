--------------------------- MODULE FabricManager ---------------------------
(***************************************************************************)
(* The Fabric Manager service as the driver's client (src/fm/fm.go) sees   *)
(* it.  The service is asynchronous: a request it accepts becomes an order *)
(* it begins and finishes later, and until then the machine keeps showing  *)
(* its old status.  The service itself is outside the repository; what it  *)
(* may do is read off the requests of fm.go, the statuses of state.go and  *)
(* the order in which fsas.go waits for them.                              *)
(***************************************************************************)

CONSTANTS
  Machine,       (* the machines the fabric can build                      *)
  NoMachine,     (* the empty machine UUID, and the empty address          *)
  RepeatDelete   (* does the service accept DELETE of a machine that is    *)
                 (* already being unbuilt, or is unbuilt?                  *)

ASSUME MachineAssumption == NoMachine \notin Machine
ASSUME RepeatDeleteAssumption == RepeatDelete \in BOOLEAN

VARIABLES
  status,   (* status[m]: the machine status GET /machines/<m> returns     *)
  order,    (* order[m]: the accepted request not yet begun                *)
  image     (* image[m]: the OS image is completely installed on m         *)

fmVars == <<status, order, image>>

\* BUILDING stands for BUILDING_BEFORE_QUEUE and BUILDING, UNBUILDING for
\* ERASING and UNBUILDING_WAIT too: no code tells them apart.  ADDING_RESOURCE
\* and DELETING_RESOURCE are left out: the driver sends no request of that
\* kind, and a poll that found one would be one that finds another status than
\* the one it waits for.  "ABSENT": a machine no POST has asked for yet.
Status == {"ABSENT", "BUILDING", "ACTIVE_POFF", "OS_INSTALLING", "BOOTING",
           "ACTIVE_PON", "POWERING_OFF", "UNBUILDING", "UNBUILDED", "ERROR"}

Order == {"none", "install", "pon", "poff", "remove"}

\* What the caller of a request can see: it was done and the caller knows
\* ("ok"); it was not done, because it never arrived or was refused; it was
\* done and the answer was lost, cut short or could not be decoded.
Outcome == {"ok", "refused", "lost"}

FmInit ==
  /\ status = [m \in Machine |-> "ABSENT"]
  /\ order  = [m \in Machine |-> "none"]
  /\ image  = [m \in Machine |-> FALSE]

FmTypeOK ==
  /\ status \in [Machine -> Status]
  /\ order  \in [Machine -> Order]
  /\ image  \in [Machine -> BOOLEAN]

Live(m) == status[m] \notin {"ABSENT", "UNBUILDED"}

Settled(m, s) == status[m] = s /\ order[m] = "none"

---------------------------------------------------------------------------
(***************************************************************************)
(* What the service does when a request reaches it.                        *)
(***************************************************************************)

TakeOrder(m, o) ==
  /\ order' = [order EXCEPT ![m] = o]
  /\ UNCHANGED <<status, image>>

AcceptCreate(m) ==
  /\ status[m] = "ABSENT"
  /\ status' = [status EXCEPT ![m] = "BUILDING"]
  /\ UNCHANGED <<order, image>>

AcceptInstall(m) == Settled(m, "ACTIVE_POFF") /\ TakeOrder(m, "install")

\* Powering on a machine that is on, or off one that is off, changes nothing.
AcceptPowerOn(m) ==
  \/ Settled(m, "ACTIVE_POFF") /\ TakeOrder(m, "pon")
  \/ Settled(m, "ACTIVE_PON") /\ UNCHANGED fmVars

AcceptPowerOff(m) ==
  \/ Settled(m, "ACTIVE_PON") /\ TakeOrder(m, "poff")
  \/ Settled(m, "ACTIVE_POFF") /\ UNCHANGED fmVars

AcceptDelete(m) ==
  \/ Live(m) /\ status[m] # "UNBUILDING" /\ TakeOrder(m, "remove")
  \/ RepeatDelete /\ status[m] \in {"UNBUILDING", "UNBUILDED"} /\ UNCHANGED fmVars

\* A request with outcome o, whose acceptance by the service is "effect".
Served(o, effect) ==
  \/ o = "refused" /\ UNCHANGED fmVars
  \/ o \in {"ok", "lost"} /\ effect

---------------------------------------------------------------------------
(***************************************************************************)
(* What the service does on its own.                                       *)
(***************************************************************************)

Move(m, from, to) ==
  /\ status[m] = from
  /\ status' = [status EXCEPT ![m] = to]

\* The service begins the order it accepted.
Begin(m) ==
  /\ \/ order[m] = "install" /\ Move(m, "ACTIVE_POFF", "OS_INSTALLING")
     \/ order[m] = "pon" /\ Move(m, "ACTIVE_POFF", "BOOTING")
     \/ order[m] = "poff" /\ Move(m, "ACTIVE_PON", "POWERING_OFF")
     \/ order[m] = "remove" /\ Move(m, status[m], "UNBUILDING")
  /\ order' = [order EXCEPT ![m] = "none"]
  /\ UNCHANGED image

\* The machine completes what the service began.
Finish(m) ==
  /\ \/ Move(m, "OS_INSTALLING", "ACTIVE_POFF") /\ image' = [image EXCEPT ![m] = TRUE]
     \/ Move(m, "BUILDING", "ACTIVE_POFF") /\ UNCHANGED image
     \/ Move(m, "BOOTING", "ACTIVE_PON") /\ UNCHANGED image
     \/ Move(m, "POWERING_OFF", "ACTIVE_POFF") /\ UNCHANGED image
     \/ Move(m, "UNBUILDING", "UNBUILDED") /\ UNCHANGED image
  /\ UNCHANGED order

\* The hardware, the build or the installation fails.
Break(m) ==
  /\ Live(m) /\ status[m] # "UNBUILDING"
  /\ status' = [status EXCEPT ![m] = "ERROR"]
  /\ UNCHANGED <<order, image>>

FmStep == \E m \in Machine : Begin(m) \/ Finish(m) \/ Break(m)

===========================================================================
