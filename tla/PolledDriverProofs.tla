------------------------- MODULE PolledDriverProofs -------------------------
(***************************************************************************)
(* The driver that polls implements Driver, for every set of machines, and *)
(* keeps Driver's invariant, its promises and its refinement.              *)
(***************************************************************************)
EXTENDS PolledDriver, DriverProofs

\* A poll is on its way only during a wait.
PolledControl == PolledTypeOK /\ (read # "none" => pc \in DOMAIN Want)

AbstractStep == Unpolled!Next \/ UNCHANGED Unpolled!vars

---------------------------------------------------------------------------
(***************************************************************************)
(* Between two polls the two drivers are at the same place, and take the   *)
(* same steps.                                                             *)
(***************************************************************************)

LEMMA BetweenPolls ==
  /\ ~Seen => AbstractPc = pc /\ AbstractRet = ret
  /\ ~Seen' => AbstractPc' = pc' /\ AbstractRet' = ret'
  /\ read = "none" => ~Seen
  /\ read' = "none" => ~Seen'
BY DEF Seen, AbstractPc, AbstractRet, Want

(* What the steps of the driver are built from. *)
LEMMA PartsMap ==
  ASSUME AbstractPc = pc, AbstractRet = ret, AbstractPc' = pc', AbstractRet' = ret'
  PROVE  /\ Unpolled!Fail <=> Fail
         /\ Unpolled!Removed <=> Removed
         /\ \A p : Unpolled!Goto(p) <=> Goto(p)
         /\ \A r : Unpolled!Return(r) <=> Return(r)
         /\ \A o : Unpolled!GetToken(o) <=> GetToken(o)
         /\ Unpolled!HaveClients <=> HaveClients
         /\ \A m \in {ssh, ssh'} : Unpolled!CanLogin(m) <=> CanLogin(m)
         /\ \A ok : Unpolled!InitSshManager(ok) <=> InitSshManager(ok)
BY DEF Goto, Unpolled!Goto, Return, Unpolled!Return, Fail, Unpolled!Fail, RemovePcs,
   Unpolled!RemovePcs, Removed, Unpolled!Removed, GetToken, Unpolled!GetToken, HaveClients,
   Unpolled!HaveClients, CanLogin, Unpolled!CanLogin, InitSshManager, Unpolled!InitSshManager

LEMMA CreateStepMaps ==
  ASSUME AbstractPc = pc, AbstractRet = ret, AbstractPc' = pc', AbstractRet' = ret', CreateStep
  PROVE  Unpolled!CreateStep
<1> USE PartsMap DEF fmVars, Unpolled!fmVars, Unpolled!CreateStep
<1>1. ASSUME NEW from, NEW facts, NEW all, NEW to, Configure(from, facts, all, to)
      PROVE  Unpolled!Configure(from, facts, all, to)
  BY <1>1 DEF Configure, Unpolled!Configure
<1>2. CASE ExchangeKeys \/ RegisterOS \/ ExecuteScript \/ ApplyCloudInit
  BY <1>1, <1>2 DEF ExchangeKeys, RegisterOS, ExecuteScript, ApplyCloudInit, Registration,
     Unpolled!ExchangeKeys, Unpolled!RegisterOS, Unpolled!ExecuteScript, Unpolled!ApplyCloudInit,
     Unpolled!Registration
<1>3. CASE DisablePasswordSSHLogin
  BY <1>3 DEF DisablePasswordSSHLogin, Unpolled!DisablePasswordSSHLogin
<1>4. CASE CreateMachine
  BY <1>4 DEF CreateMachine, Unpolled!CreateMachine, AcceptCreate, Unpolled!AcceptCreate
<1>5. CASE FindBootDisk
  BY <1>5 DEF FindBootDisk, Unpolled!FindBootDisk, Request, Unpolled!Request, Served, Unpolled!Served
<1>6. CASE ImageInstall
  BY <1>6 DEF ImageInstall, Unpolled!ImageInstall, Request, Unpolled!Request, Served,
     Unpolled!Served, AcceptInstall, Unpolled!AcceptInstall, Settled, Unpolled!Settled, TakeOrder,
     Unpolled!TakeOrder, Outcome, Unpolled!Outcome
<1>7. CASE AssignIpAddresses
  BY <1>7 DEF AssignIpAddresses, Unpolled!AssignIpAddresses
<1>8. CASE ConnectSsh
  BY <1>8 DEF ConnectSsh, Unpolled!ConnectSsh
<1> QED  BY <1>2, <1>3, <1>4, <1>5, <1>6, <1>7, <1>8 DEF CreateStep

LEMMA DriverStepMaps ==
  ASSUME AbstractPc = pc, AbstractRet = ret, AbstractPc' = pc', AbstractRet' = ret',
         DriverStep, ~WaitForStatus
  PROVE  Unpolled!DriverStep
<1> USE PartsMap DEF fmVars, Unpolled!fmVars, Unpolled!DriverStep
<1>1. CASE CreateStep
  BY <1>1, CreateStepMaps
<1>2. CASE RemoveUuid \/ DeregisterOS
  BY <1>2 DEF RemoveUuid, Unpolled!RemoveUuid, DeregisterOS, Unpolled!DeregisterOS
<1>3. CASE RemoveMachine \/ PowerOn \/ PowerOff \/ GracefulShutdown
  <2> USE DEF Request, Unpolled!Request, Served, Unpolled!Served, Live, Unpolled!Live, Settled,
              Unpolled!Settled, TakeOrder, Unpolled!TakeOrder, Outcome, Unpolled!Outcome
  <2>1. CASE RemoveMachine
    BY <2>1 DEF RemoveMachine, Unpolled!RemoveMachine, AcceptDelete, Unpolled!AcceptDelete
  <2>2. CASE PowerOn
    BY <2>2 DEF PowerOn, Unpolled!PowerOn, AcceptPowerOn, Unpolled!AcceptPowerOn
  <2>3. CASE PowerOff
    BY <2>3 DEF PowerOff, Unpolled!PowerOff, AcceptPowerOff, Unpolled!AcceptPowerOff
  <2>4. CASE GracefulShutdown
    BY <2>4 DEF GracefulShutdown, Unpolled!GracefulShutdown, AcceptPowerOff, Unpolled!AcceptPowerOff
  <2> QED  BY <1>3, <2>1, <2>2, <2>3, <2>4
<1>4. CASE InitClientsStep
  BY <1>4 DEF InitClientsStep, Unpolled!InitClientsStep, AfterInit, Unpolled!AfterInit, InitClients,
     Unpolled!InitClients, InitKeycloak, Unpolled!InitKeycloak, InitFabricManager,
     Unpolled!InitFabricManager
<1>5. CASE NilClient
  BY <1>5 DEF NilClient, Unpolled!NilClient, RequestPcs, Unpolled!RequestPcs, Want, Unpolled!Want
<1>6. CASE StopInit
  BY <1>6 DEF StopInit, Unpolled!StopInit, InitFabricManager, Unpolled!InitFabricManager
<1>7. CASE GetState \/ GetMachineStatus \/ CheckConfig
  BY <1>7 DEF GetState, Unpolled!GetState, GetMachineStatus, Unpolled!GetMachineStatus, CheckConfig,
     Unpolled!CheckConfig
<1> QED  BY <1>1, <1>2, <1>3, <1>4, <1>5, <1>6, <1>7 DEF DriverStep

(* The caller's steps. *)
LEMMA CallerMaps ==
  ASSUME AbstractPc = pc, AbstractRet = ret, AbstractPc' = pc', AbstractRet' = ret',
         (\E op \in Calls : Call(op)) \/ Save \/ NewHost
  PROVE  Unpolled!Next
<1> USE DEF fmVars, Unpolled!fmVars, Unpolled!Next
<1>1. CASE \E op \in Calls : Call(op)
  BY <1>1 DEF Call, Unpolled!Call, MayCall, Unpolled!MayCall, Entry, Unpolled!Entry, Calls, Unpolled!Calls
<1>2. CASE Save
  BY <1>2 DEF Save, Unpolled!Save
<1>3. CASE NewHost
  BY <1>3 DEF NewHost, Unpolled!NewHost, Empty, Unpolled!Empty
<1> QED  BY <1>1, <1>2, <1>3

---------------------------------------------------------------------------
(***************************************************************************)
(* The polls.                                                              *)
(***************************************************************************)

(* Where the abstract driver goes on when the status waited for is read. *)
LEMMA WaitEnds ==
  ASSUME pc \in DOMAIN Want, AbstractPc = pc, AbstractRet = ret, Seen',
         UNCHANGED <<pc, call, ret>>
  PROVE  Unpolled!AfterWait
<1>1. AbstractPc' = AfterPoll[pc]
  BY DEF Seen, AbstractPc, AfterPoll, Want
<1>2. AbstractRet' = IF AfterPoll[pc] # "idle" THEN ret ELSE IF pc = "w_gone" /\ call = "create" THEN "err" ELSE "ok"
  BY DEF Seen, AbstractRet, AfterPoll, Want
<1> USE <1>1, <1>2 DEF AfterPoll, Unpolled!AfterWait, Unpolled!Goto, Unpolled!Return,
                      Unpolled!Removed
<1>3. CASE pc = "w_built"  BY <1>3
<1>4. CASE pc = "w_installing"  BY <1>4
<1>5. CASE pc = "w_installed"  BY <1>5
<1>6. CASE pc = "w_on"  BY <1>6
<1>7. CASE pc = "w_off"  BY <1>7
<1>8. CASE pc = "w_gone"  BY <1>8
<1> QED  BY <1>3, <1>4, <1>5, <1>6, <1>7, <1>8 DEF Want

(* The service's half of a poll is the whole wait when it reads the status
   waited for, and nothing otherwise. *)
LEMMA PollReadMaps ==
  ASSUME PolledControl, Unpolled!IInv, PollRead
  PROVE  AbstractStep
<1>1. pc \in DOMAIN Want /\ HaveClients /\ read = "none" /\ UNCHANGED <<pc, call, ret>>
  BY DEF PollRead
<1>2. AbstractPc = pc /\ AbstractRet = ret
  BY <1>1, BetweenPolls
<1>3. UNCHANGED <<cfg, drv, saved, fmc, ssh, host, lost, warned, fmVars>>
  BY DEF PollRead
<1>4. CASE Seen'
  <2>1. drv.uuid # NoMachine /\ GetToken("ok") /\ status[drv.uuid] = Want[pc]
    BY <1>1, <1>4 DEF PollRead, Seen, Want
  <2>2. Unpolled!AfterWait
    BY <1>1, <1>2, <1>4, WaitEnds
  <2>3. Unpolled!WaitForStatus
    BY <1>1, <1>2, <1>3, <2>1, <2>2 DEF Unpolled!WaitForStatus, Want, Unpolled!Want, HaveClients,
       Unpolled!HaveClients, GetToken, Unpolled!GetToken, fmVars, Unpolled!fmVars
  <2> QED  BY <2>3 DEF AbstractStep, Unpolled!Next, Unpolled!DriverStep
<1>5. CASE ~Seen'
  <2>1. AbstractPc' = AbstractPc /\ AbstractRet' = AbstractRet
    BY <1>1, <1>2, <1>5, BetweenPolls
  <2>2. UNCHANGED kc
    BY <1>1, <1>2 DEF PollRead, GetToken, Unpolled!IInv, Unpolled!Clients, Want, Unpolled!Want
  <2> QED
    BY <1>1, <1>3, <2>1, <2>2 DEF AbstractStep, Unpolled!vars, Unpolled!driverVars, fmVars,
       Unpolled!fmVars
<1> QED  BY <1>4, <1>5

(* The loop's half is a failed wait, or nothing. *)
LEMMA PollAnswerMaps ==
  ASSUME PolledControl, Unpolled!IInv, PollAnswer
  PROVE  AbstractStep
<1>1. pc \in DOMAIN Want /\ read # "none" /\ read' = "none"
  BY DEF PollAnswer, PolledControl
<1>2. UNCHANGED <<cfg, drv, saved, kc, fmc, ssh, host, lost, warned, fmVars>>
  BY DEF PollAnswer
<1>3. AbstractPc' = pc' /\ AbstractRet' = ret'
  BY <1>1, BetweenPolls
<1>4. CASE Seen
  <2>1. AfterWait
    BY <1>4 DEF PollAnswer, Seen, Want
  <2>2. AbstractPc' = AbstractPc /\ AbstractRet' = AbstractRet /\ UNCHANGED call
    <3>1. AbstractPc = AfterPoll[pc]
          /\ AbstractRet = IF AfterPoll[pc] # "idle" THEN ret ELSE IF pc = "w_gone" /\ call = "create" THEN "err" ELSE "ok"
      BY <1>4 DEF AbstractPc, AbstractRet
    <3> USE <1>3, <2>1, <3>1 DEF AfterWait, AfterPoll, Goto, Return, Removed
    <3>2. CASE pc = "w_built"  BY <3>2
    <3>3. CASE pc = "w_installing"  BY <3>3
    <3>4. CASE pc = "w_installed"  BY <3>4
    <3>5. CASE pc = "w_on"  BY <3>5
    <3>6. CASE pc = "w_off"  BY <3>6
    <3>7. CASE pc = "w_gone"  BY <3>7
    <3> QED  BY <1>1, <3>2, <3>3, <3>4, <3>5, <3>6, <3>7 DEF Want
  <2> QED
    BY <1>2, <2>2 DEF AbstractStep, Unpolled!vars, Unpolled!driverVars, fmVars, Unpolled!fmVars
<1>5. CASE ~Seen
  <2>1. AbstractPc = pc /\ AbstractRet = ret
    BY <1>5, BetweenPolls
  <2>2. CASE Fail
    <3>1. Unpolled!HaveClients
      BY <1>1, <2>1 DEF Unpolled!IInv, Unpolled!Clients, Unpolled!RequestPcs, Want, Unpolled!Want
    <3>2. Unpolled!Fail
      BY <1>3, <2>1, <2>2, PartsMap
    <3>3. Unpolled!WaitForStatus
      BY <1>1, <1>2, <2>1, <3>1, <3>2 DEF Unpolled!WaitForStatus, Unpolled!GetToken, Want,
         Unpolled!Want, fmVars, Unpolled!fmVars
    <3> QED  BY <3>3 DEF AbstractStep, Unpolled!Next, Unpolled!DriverStep
  <2>3. CASE UNCHANGED <<pc, call, ret>>
    BY <1>2, <1>3, <2>1, <2>3 DEF AbstractStep, Unpolled!vars, Unpolled!driverVars, fmVars,
       Unpolled!fmVars
  <2> QED  BY <1>1, <1>5, <2>2, <2>3 DEF PollAnswer, Seen
<1> QED  BY <1>4, <1>5

(* A process may die, and the service move, while an answer is on its way. *)
LEMMA MeanwhileMaps ==
  ASSUME Death \/ Meanwhile
  PROVE  AbstractStep
<1>1. CASE Death
  <2>1. AbstractPc' = pc' /\ AbstractRet' = ret'
    BY <1>1, BetweenPolls DEF Death
  <2> QED
    BY <1>1, <2>1 DEF Death, ProcessExit, Unpolled!ProcessExit, fmVars, Unpolled!fmVars,
       AbstractStep, Unpolled!Next
<1>2. CASE Meanwhile
  <2>1. AbstractPc' = AbstractPc /\ AbstractRet' = AbstractRet
    BY <1>2 DEF Meanwhile, ServiceStep, driverVars, AbstractPc, AbstractRet, Seen, AfterPoll
  <2>2. Unpolled!FmStep
    BY <1>2 DEF Meanwhile, ServiceStep, FmStep, Unpolled!FmStep, Begin, Unpolled!Begin, Finish,
       Unpolled!Finish, Break, Unpolled!Break, Move, Unpolled!Move, Live, Unpolled!Live
  <2> QED
    BY <1>2, <2>1, <2>2 DEF Meanwhile, ServiceStep, Unpolled!ServiceStep, driverVars,
       Unpolled!driverVars, AbstractStep, Unpolled!Next
<1> QED  BY <1>1, <1>2

---------------------------------------------------------------------------
(***************************************************************************)
(* The theorems.                                                           *)
(***************************************************************************)

LEMMA StepMaps ==
  ASSUME PolledControl, Unpolled!IInv, [PolledNext]_polledVars
  PROVE  PolledControl' /\ AbstractStep
<1>1. CASE PollRead
  <2>1. read' \in Status \cup {"nothing"}
    BY <1>1 DEF PollRead, Unpolled!IInv, Unpolled!TypeOK, Unpolled!FmTypeOK, Unpolled!Fields, Status,
       Unpolled!Status
  <2> QED  BY <1>1, <2>1, PollReadMaps DEF PollRead, PolledControl, PolledTypeOK
<1>2. CASE PollAnswer
  BY <1>2, PollAnswerMaps DEF PollAnswer, PolledControl, PolledTypeOK
<1>3. CASE OtherStep
  <2>1. read = "none" /\ read' = "none"
    BY <1>3 DEF OtherStep
  <2>2. AbstractPc = pc /\ AbstractRet = ret /\ AbstractPc' = pc' /\ AbstractRet' = ret'
    BY <2>1, BetweenPolls
  <2>3. CASE DriverStep /\ (pc \in DOMAIN Want => ~HaveClients)
    <3>1. ~WaitForStatus
      BY <2>3 DEF WaitForStatus
    <3> QED  BY <2>2, <2>3, <3>1, DriverStepMaps, <2>1 DEF AbstractStep, Unpolled!Next,
                PolledControl, PolledTypeOK
  <2>4. CASE (\E op \in Calls : Call(op)) \/ Save \/ NewHost
    BY <2>1, <2>2, <2>4, CallerMaps DEF AbstractStep, PolledControl, PolledTypeOK
  <2> QED  BY <1>3, <2>3, <2>4 DEF OtherStep
<1>4. CASE Death \/ Meanwhile
  BY <1>4, MeanwhileMaps DEF Death, Meanwhile, ServiceStep, driverVars, PolledControl, PolledTypeOK
<1>5. CASE UNCHANGED polledVars
  <2>1. AbstractPc' = AbstractPc /\ AbstractRet' = AbstractRet
    BY <1>5 DEF polledVars, vars, driverVars, AbstractPc, AbstractRet, Seen, AfterPoll
  <2> QED
    BY <1>5, <2>1 DEF polledVars, vars, driverVars, fmVars, PolledControl, PolledTypeOK, AbstractStep,
       Unpolled!vars, Unpolled!driverVars, Unpolled!fmVars
<1> QED  BY <1>1, <1>2, <1>3, <1>4, <1>5 DEF PolledNext

LEMMA StartMaps == PolledInit => PolledControl /\ Unpolled!Init
<1> SUFFICES ASSUME PolledInit  PROVE PolledControl /\ Unpolled!Init
  OBVIOUS
<1>1. AbstractPc = pc /\ AbstractRet = ret
  BY BetweenPolls DEF PolledInit
<1> QED
  BY <1>1 DEF PolledInit, Init, Unpolled!Init, FmInit, Unpolled!FmInit, Empty, Unpolled!Empty,
     PolledControl, PolledTypeOK

(* The abstract driver keeps its inductive invariant. *)
LEMMA AbstractInvariance == PolledSpec => [](PolledControl /\ Unpolled!IInv)
<1>1. PolledInit => PolledControl /\ Unpolled!IInv
  BY StartMaps, Unpolled!InitIInv, MachineAssumption, RepeatDeleteAssumption, LicensedAssumption
  DEF Unpolled!InitIInv
<1>2. PolledControl /\ Unpolled!IInv /\ [PolledNext]_polledVars => PolledControl' /\ Unpolled!IInv'
  BY StepMaps, Unpolled!IInvStep, MachineAssumption, RepeatDeleteAssumption, LicensedAssumption
  DEF Unpolled!IInvStep, AbstractStep
<1> QED  BY <1>1, <1>2, PTL DEF PolledSpec

(* waitForStatus may act late on what a poll has read: with polls taken apart
   the driver does nothing that Driver does not do. *)
THEOREM PollingRefines == PolledSpec => ImplementsDriver
<1>1. PolledControl /\ Unpolled!IInv /\ [PolledNext]_polledVars => [Unpolled!Next]_Unpolled!vars
  BY StepMaps DEF AbstractStep
<1> QED
  BY <1>1, StartMaps, AbstractInvariance, PTL DEF PolledSpec, ImplementsDriver, Unpolled!Spec

---------------------------------------------------------------------------
(***************************************************************************)
(* What Driver promises, and what Rancher sees, of the driver that polls.  *)
(***************************************************************************)

(* Where the two drivers are at the same place they keep the same invariant. *)
SamePlace == AbstractPc = pc /\ AbstractRet = ret

LEMMA SameInv == SamePlace /\ Unpolled!IInv => IInv
<1> SUFFICES ASSUME AbstractPc = pc, AbstractRet = ret, Unpolled!IInv  PROVE IInv
  BY DEF SamePlace
<1>1. /\ FlagsPcs = Unpolled!FlagsPcs /\ CreatePcs = Unpolled!CreatePcs
      /\ RemovePcs = Unpolled!RemovePcs /\ StartPcs = Unpolled!StartPcs
      /\ StatePcs = Unpolled!StatePcs /\ RequestPcs = Unpolled!RequestPcs /\ Want = Unpolled!Want
  BY DEF FlagsPcs, Unpolled!FlagsPcs, CreatePcs, Unpolled!CreatePcs, RemovePcs,
     Unpolled!RemovePcs, StartPcs, Unpolled!StartPcs, StatePcs, Unpolled!StatePcs, RequestPcs,
     Unpolled!RequestPcs, Want, Unpolled!Want
<1> USE <1>1 DEF Unpolled!IInv
<1>2. TypeOK
  BY DEF TypeOK, Unpolled!TypeOK, FmTypeOK, Unpolled!FmTypeOK, Fields, Unpolled!Fields, Status,
     Unpolled!Status, Order, Unpolled!Order, Pcs, Unpolled!Pcs, StopPcs, Unpolled!StopPcs,
     KillPcs, Unpolled!KillPcs, Calls, Unpolled!Calls, Facts, Unpolled!Facts
<1>3. Control /\ Clients
  BY DEF Control, Unpolled!Control, Clients, Unpolled!Clients, HaveClients,
     Unpolled!HaveClients, PanicOnlyInStop, Unpolled!PanicOnlyInStop
<1>4. Identity
  BY DEF Identity, Unpolled!Identity, UuidPcs, Unpolled!UuidPcs
<1>5. NoOrderWhenGone /\ NoForgottenMachine /\ CleanReport
  BY DEF NoOrderWhenGone, Unpolled!NoOrderWhenGone, NoForgottenMachine,
     Unpolled!NoForgottenMachine, Live, Unpolled!Live, CleanReport, Unpolled!CleanReport
<1>6. Installation
  BY DEF Installation, Unpolled!Installation, Creating, Unpolled!Creating
<1>7. Untouched /\ NoReinstall /\ NoLockout
  BY DEF Untouched, Unpolled!Untouched, NoReinstall, Unpolled!NoReinstall, NoLockout,
     Unpolled!NoLockout
<1>8. Configured /\ CreateOkReady
  BY DEF Configured, Unpolled!Configured, CreateOkReady, Unpolled!CreateOkReady
<1>9. Departure /\ LicenseReleased /\ PoweringOff
  BY DEF Departure, Unpolled!Departure, Deregistered, Unpolled!Deregistered, LicenseReleased,
     Unpolled!LicenseReleased, PoweringOff, Unpolled!PoweringOff
<1> QED  BY <1>2, <1>3, <1>4, <1>5, <1>6, <1>7, <1>8, <1>9 DEF IInv

(* A poll's answer is kept between two moments at which the two drivers are at
   the same place; before and after, the same invariant holds of both. *)
LEMMA PolledIInvStep ==
  ASSUME IInv, PolledControl, [PolledNext]_polledVars, Unpolled!IInv'
  PROVE  IInv'
<1>1. CASE PollRead
  <2>1. UNCHANGED kc
    BY <1>1 DEF PollRead, GetToken, IInv, Clients
  <2>2. UNCHANGED vars
    BY <1>1, <2>1 DEF PollRead, vars, driverVars
  <2> QED  BY <2>2, IInvStep
<1>2. CASE PollAnswer
  <2>1. SamePlace'
    BY <1>2, BetweenPolls DEF PollAnswer, SamePlace
  <2> QED  BY <2>1, SameInv, PTL
<1>3. CASE OtherStep \/ Death \/ Meanwhile
  BY <1>3, IInvStep DEF OtherStep, Death, Meanwhile, Next
<1>4. CASE UNCHANGED polledVars
  BY <1>4, IInvStep DEF polledVars
<1> QED  BY <1>1, <1>2, <1>3, <1>4 DEF PolledNext

(* The invariant of Driver holds of the driver that polls as it stands, not
   only through the mapping. *)
THEOREM PolledInvariance == PolledSpec => []IInv
<1>1. PolledInit => IInv
  BY InitIInv DEF PolledInit
<1>2. IInv /\ PolledControl /\ [PolledNext]_polledVars /\ Unpolled!IInv' => IInv'
  BY PolledIInvStep
<1> QED  BY <1>1, <1>2, AbstractInvariance, PTL DEF PolledSpec

(* Each promise of Driver holds although the machine may have moved on when
   the driver acts on what a poll has read. *)
THEOREM PromisesKept == PolledSpec => []Promises
<1>1. IInv => Promises
  BY PromisesFollow DEF Promises
<1> QED  BY <1>1, PolledInvariance, PTL

(* A look at an answer is nothing Rancher sees, or the end of a removal, or
   the failure of a Create, which removes. *)
LEMMA PollAnswerLifecycle ==
  ASSUME IInv, PolledControl, PollAnswer
  PROVE  AbstractNext \/ AbstractStutter
<1>1. UNCHANGED <<cfg, drv, lost, fmVars>>
  BY DEF PollAnswer
<1>2. Leaving' = Leaving
  BY <1>1 DEF fmVars, Leaving
<1>3. pc \in DOMAIN Want
  BY DEF PollAnswer, PolledControl
<1>4. \/ Busy' = Busy
      \/ Busy # "removing" /\ Busy' = "removing"
      \/ Busy = "removing" /\ Busy' = "no"
  <2> USE <1>3 DEF Control, IInv, Goto, Return, Busy, CreatePcs, RemovePcs, StartPcs, Want
  <2>1. CASE Fail
    BY <2>1 DEF Fail
  <2>2. CASE AfterWait
    BY <2>2 DEF AfterWait, Removed
  <2>3. CASE UNCHANGED <<pc, call, ret>>
    BY <2>3
  <2> QED  BY <2>1, <2>2, <2>3 DEF PollAnswer
<1> QED  BY <1>1, <1>2, <1>4, QuietMaps DEF fmVars

(* Rancher is promised of the driver that polls what it is promised of Driver:
   a removal and a creation end when the driver looks at the answer, and what
   NodeLifecycle allows then does not depend on what the machine has done
   since. *)
THEOREM PolledRefinement == PolledSpec => ImplementsLifecycle
<1>1. IInv /\ PolledControl /\ [PolledNext]_polledVars => [Lifecycle!Next]_Lifecycle!vars
  <2> SUFFICES ASSUME IInv, PolledControl, [PolledNext]_polledVars
               PROVE  AbstractNext \/ AbstractStutter
    BY DEF AbstractNext, AbstractStutter, Lifecycle!vars
  <2>1. CASE PollRead
    <3>1. UNCHANGED <<pc, call, cfg, drv, lost, fmVars>>
      BY <2>1 DEF PollRead
    <3> QED  BY <3>1 DEF AbstractStutter, Busy, Standing, Leaving, Live, fmVars
  <2>2. CASE PollAnswer
    BY <2>2, PollAnswerLifecycle
  <2>3. CASE OtherStep \/ Death \/ Meanwhile
    BY <2>3, LifecycleStep DEF OtherStep, Death, Meanwhile, Next
  <2>4. CASE UNCHANGED polledVars
    BY <2>4, LifecycleStep DEF polledVars
  <2> QED  BY <2>1, <2>2, <2>3, <2>4 DEF PolledNext
<1>2. PolledInit => Lifecycle!Init
  BY LifecycleInit DEF PolledInit
<1> QED
  BY <1>1, <1>2, PolledInvariance, AbstractInvariance, PTL
  DEF PolledSpec, ImplementsLifecycle, Lifecycle!Spec

===========================================================================
