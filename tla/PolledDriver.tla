---------------------------- MODULE PolledDriver ----------------------------
(***************************************************************************)
(* The driver with the polls of waitForStatus (fsas.go) taken apart: the   *)
(* service reads the machine's status for its answer at one moment, the    *)
(* loop looks at the answer at a later one, and in between the machine     *)
(* moves on or the process dies.  Driver takes the two for one step; this  *)
(* module shows that it may.                                               *)
(***************************************************************************)
EXTENDS Driver

VARIABLE
  read   (* the poll on its way: the status the service read, "nothing"    *)
         (* when the poll comes to nothing, "none" when there is no poll   *)

polledVars == <<vars, read>>

PolledTypeOK == read \in Status \cup {"nothing", "none"}

PolledInit == Init /\ read = "none"

---------------------------------------------------------------------------

\* getCdiState up to the service's part of it: without a MachineUUID no
\* question is asked, and one that fails has no answer.
PollRead ==
  /\ pc \in DOMAIN Want /\ HaveClients /\ read = "none"
  /\ \/ drv.uuid # NoMachine /\ GetToken("ok") /\ read' = status[drv.uuid]
     \/ GetToken("refused") /\ read' = "nothing"
  /\ UNCHANGED <<pc, call, ret, cfg, drv, saved, fmc, ssh, host, lost, warned, fmVars>>

\* Mutant: running out of time is not an error.
PollAnswerLenient ==
  /\ read # "none" /\ read' = "none"
  /\ \/ read \in {"nothing", "ERROR"} /\ Fail
     \/ read \notin {"nothing", "ERROR"} /\ (AfterWait \/ UNCHANGED <<pc, call, ret>>)
  /\ UNCHANGED <<cfg, drv, saved, kc, fmc, ssh, host, lost, warned, fmVars>>

\* The loop looks at the answer: an error, ERROR, the status it waits for, or
\* another one, upon which it gives up if the time is over and else sleeps.
PollAnswer ==
  /\ read # "none" /\ read' = "none"
  /\ \/ read \in {"nothing", "ERROR"} /\ Fail
     \/ read = Want[pc] /\ AfterWait
     \/ read \notin {"nothing", "ERROR", Want[pc]} /\ (Fail \/ UNCHANGED <<pc, call, ret>>)
  /\ UNCHANGED <<cfg, drv, saved, kc, fmc, ssh, host, lost, warned, fmVars>>

\* The steps that are not polls, as in Driver.
OtherStep ==
  /\ \/ DriverStep /\ (pc \in DOMAIN Want => ~HaveClients)
     \/ \E op \in Calls : Call(op)
     \/ Save \/ NewHost
  /\ read = "none" /\ UNCHANGED read

\* An answer on its way to a process that dies is lost.
Death == ProcessExit /\ read' = "none"

\* The service moves while an answer is on its way.
Meanwhile == ServiceStep /\ UNCHANGED read

PolledNext == PollRead \/ PollAnswer \/ OtherStep \/ Death \/ Meanwhile

PolledSpec == PolledInit /\ [][PolledNext]_polledVars

---------------------------------------------------------------------------
(***************************************************************************)
(* The driver that polls is a Driver that has left the wait as soon as the *)
(* service has read the status waited for.                                 *)
(***************************************************************************)

\* AfterWait, by its outcome: where the wait leads and what is returned there.
AfterPoll ==
  [w_built |-> "c_disk", w_installing |-> "w_installed", w_installed |-> "s_init",
   w_on   |-> IF call = "create" THEN "c_ip" ELSE "idle",
   w_off  |-> IF call = "restart" THEN "s_init" ELSE "idle",
   w_gone |-> "idle"]

Seen == pc \in DOMAIN Want /\ read = Want[pc]

AbstractPc == IF Seen THEN AfterPoll[pc] ELSE pc

AbstractRet == IF ~Seen \/ AfterPoll[pc] # "idle" THEN ret
               ELSE IF pc = "w_gone" /\ call = "create" THEN "err" ELSE "ok"

\* Driver with its theorems, so that they can be cited of the mapped variables.
Unpolled == INSTANCE DriverProofs WITH pc <- AbstractPc, ret <- AbstractRet

(* A status that has changed again while its answer was on its way, or a
   process that dies before it looks at the answer, leads nowhere Driver does
   not: what waitForStatus learns may be acted on late, and every promise of
   Driver holds of the driver that polls. *)
ImplementsDriver == Unpolled!Spec

(* What Driver promises, of the driver that polls. *)
Promises ==
  /\ ImageBeforePowerOn /\ NoForgottenMachine /\ CleanReport /\ LicenseReleased
  /\ NoLockout /\ CreateOkReady /\ RestartGoesThroughOff /\ NoReinstall /\ OneMachine
  /\ PanicOnlyInStop

===========================================================================
