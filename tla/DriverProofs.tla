---------------------------- MODULE DriverProofs ----------------------------
(***************************************************************************)
(* What Driver promises, for every set of machines, proved.                *)
(***************************************************************************)
EXTENDS Driver, TLAPS

---------------------------------------------------------------------------
(***************************************************************************)
(* The ranges of the variables.                                            *)
(***************************************************************************)

(* A step over SSH keeps the ranges. *)
LEMMA ConfigureType ==
  ASSUME TypeOK, NEW from, NEW facts, NEW all \in SUBSET Facts, NEW to \in Pcs,
         Configure(from, facts, all, to)
  PROVE  TypeOK'
BY DEF TypeOK, FmTypeOK, Configure, fmVars, Goto, Fail, Return, Pcs, RemovePcs

LEMMA EmptyType == Empty \in Fields
BY DEF Empty, Fields

(* Every step keeps the ranges. *)
LEMMA TypeOKStep ==
  ASSUME TypeOK, Identity, [Next]_vars
  PROVE  TypeOK'
<1> USE DEF TypeOK, FmTypeOK, fmVars, Goto, Return
<1>1. CASE CreateMachine
  BY <1>1 DEF CreateMachine, AcceptCreate, GetToken, Fail, Status, Fields, Pcs, CreatePcs, RemovePcs
<1>2. CASE FindBootDisk \/ ImageInstall
  BY <1>2 DEF FindBootDisk, ImageInstall, Request, Served, AcceptInstall, TakeOrder, Order,
              GetToken, Fail, Pcs, CreatePcs, RemovePcs
<1>3. CASE AssignIpAddresses \/ ConnectSsh
  BY <1>3 DEF AssignIpAddresses, ConnectSsh, InitSshManager, GetToken, Fail, Fields, Pcs,
              CreatePcs, RemovePcs
<1>4. CASE ExchangeKeys \/ RegisterOS \/ ExecuteScript \/ ApplyCloudInit
  BY <1>4, ConfigureType
  DEF ExchangeKeys, RegisterOS, Registration, ExecuteScript, ApplyCloudInit, Facts, Pcs, CreatePcs
<1>5. CASE DisablePasswordSSHLogin
  BY <1>5 DEF DisablePasswordSSHLogin, Fail, Facts, Pcs, RemovePcs
<1>6. CASE RemoveUuid
  BY <1>6 DEF RemoveUuid, Removed, Pcs, RemovePcs
<1>15. CASE DeregisterOS
  <2>1. host' \in [Machine -> SUBSET Facts]
    BY <1>15 DEF DeregisterOS
  <2>2. ssh' \in Machine \cup {NoMachine}
    BY <1>15 DEF DeregisterOS, InitSshManager, Fields
  <2>3. warned' \subseteq Machine
    <3>1. drv.uuid \in Machine
      BY <1>15 DEF DeregisterOS, Identity, UuidPcs, RemovePcs, Fields
    <3> QED  BY <1>15, <3>1 DEF DeregisterOS
  <2> QED
    BY <1>15, <2>1, <2>2, <2>3 DEF DeregisterOS, Pcs, RemovePcs
<1>7. CASE RemoveMachine \/ PowerOn \/ PowerOff \/ GracefulShutdown
  BY <1>7 DEF RemoveMachine, PowerOn, PowerOff, GracefulShutdown, Request, Served, AcceptDelete,
              AcceptPowerOn, AcceptPowerOff, TakeOrder, Order, GetToken, Fail, Pcs, RemovePcs,
              StartPcs, StopPcs
<1>8. CASE InitClientsStep
  <2>1. pc' \in Pcs /\ ret' \in {"none", "ok", "err", "err2"} /\ UNCHANGED call
    BY <1>8 DEF InitClientsStep, AfterInit, Fail, Pcs, FlagsPcs, CreatePcs, RemovePcs, StartPcs,
                KillPcs, StatePcs
  <2>2. kc' \in {"zero", "built", "tokens", "ready"} /\ fmc' \in BOOLEAN
    BY <1>8 DEF InitClientsStep, InitClients, InitKeycloak, InitFabricManager
  <2> QED
    BY <1>8, <2>1, <2>2 DEF InitClientsStep
<1>16. CASE StopInit
  BY <1>16 DEF StopInit, InitFabricManager, Fail, Pcs, StopPcs, RemovePcs
<1>9. CASE WaitForStatus
  BY <1>9 DEF WaitForStatus, Want, AfterWait, Removed, GetToken, Fail, Pcs, CreatePcs, RemovePcs, StartPcs
<1>10. CASE NilClient \/ GetState \/ GetMachineStatus \/ CheckConfig
  BY <1>10 DEF NilClient, GetState, GetMachineStatus, CheckConfig, GetToken, Fail, Pcs, RemovePcs, StatePcs
<1>11. CASE ServiceStep
  <2>1. FmTypeOK'
    <3>1. PICK m \in Machine : Begin(m) \/ Finish(m) \/ Break(m)
      BY <1>11 DEF ServiceStep, FmStep
    <3>2. CASE Begin(m)
      BY <3>2 DEF Begin, Move, Status, Order
    <3>3. CASE Finish(m)
      BY <3>3 DEF Finish, Move, Status
    <3>4. CASE Break(m)
      BY <3>4 DEF Break, Status
    <3> QED  BY <3>1, <3>2, <3>3, <3>4
  <2> QED
    BY <1>11, <2>1 DEF ServiceStep, driverVars
<1>12. ASSUME NEW op \in Calls, Call(op)  PROVE TypeOK'
  BY <1>12 DEF Call, Calls, Entry, Pcs, FlagsPcs, CreatePcs, RemovePcs, StartPcs, StopPcs, KillPcs, StatePcs
<1>13. CASE Save \/ NewHost
  BY <1>13, EmptyType DEF Save, NewHost, Pcs
<1>17. CASE ProcessExit
  <2>1. lost' \subseteq Machine
    BY <1>17 DEF ProcessExit, Fields
  <2> QED
    BY <1>17, <2>1 DEF ProcessExit, Pcs
<1>14. CASE UNCHANGED vars
  BY <1>14 DEF vars, driverVars
<1> QED
  BY <1>1, <1>2, <1>3, <1>4, <1>5, <1>6, <1>7, <1>8, <1>9, <1>10, <1>11, <1>12, <1>13, <1>14,
     <1>15, <1>16, <1>17
  DEF Next, DriverStep, CreateStep

---------------------------------------------------------------------------
(***************************************************************************)
(* Which call is at which step, with which clients, for which machine.     *)
(***************************************************************************)

LEMMA ControlStep ==
  ASSUME TypeOK, Control, [Next]_vars
  PROVE  Control'
<1> USE DEF TypeOK, Control, Goto, Return, FlagsPcs, CreatePcs, RemovePcs, StartPcs, StatePcs
<1>1. CASE CreateStep
  BY <1>1 DEF CreateStep, CreateMachine, FindBootDisk, ImageInstall, AssignIpAddresses,
              ConnectSsh, ExchangeKeys, RegisterOS, ExecuteScript, ApplyCloudInit,
              DisablePasswordSSHLogin, Configure, Request, Fail
<1>2. CASE RemoveUuid \/ DeregisterOS \/ RemoveMachine
  BY <1>2 DEF RemoveUuid, DeregisterOS, RemoveMachine, Request, Removed, Fail
<1>3. CASE InitClientsStep
  BY <1>3 DEF InitClientsStep, AfterInit, Fail
<1>4. CASE WaitForStatus
  BY <1>4 DEF WaitForStatus, Want, AfterWait, Removed, Fail
<1>5. CASE NilClient \/ PowerOn \/ PowerOff \/ StopInit \/ GracefulShutdown
  BY <1>5 DEF NilClient, PowerOn, PowerOff, StopInit, GracefulShutdown, Request, Fail
<1>6. CASE GetState \/ GetMachineStatus \/ CheckConfig
  BY <1>6 DEF GetState, GetMachineStatus, CheckConfig, Fail
<1>7. ASSUME NEW op \in Calls, Call(op)  PROVE Control'
  BY <1>7 DEF Call, MayCall, Calls, Entry
<1>8. CASE Save \/ ProcessExit \/ NewHost
  BY <1>8 DEF Save, ProcessExit, NewHost
<1>9. CASE ServiceStep \/ UNCHANGED vars
  BY <1>9 DEF ServiceStep, vars, driverVars
<1> QED
  BY <1>1, <1>2, <1>3, <1>4, <1>5, <1>6, <1>7, <1>8, <1>9 DEF Next, DriverStep

LEMMA ClientsStep ==
  ASSUME TypeOK, Control, Clients, [Next]_vars
  PROVE  Clients'
<1> USE DEF TypeOK, Control, Clients, PanicOnlyInStop, RequestPcs, Want, HaveClients, Goto, Return
<1>1. CASE CreateStep
  BY <1>1 DEF CreateStep, CreateMachine, FindBootDisk, ImageInstall, AssignIpAddresses,
              ConnectSsh, ExchangeKeys, RegisterOS, ExecuteScript, ApplyCloudInit,
              DisablePasswordSSHLogin, Configure, Request, GetToken, Fail, RemovePcs
<1>2. CASE RemoveUuid \/ DeregisterOS \/ RemoveMachine
  BY <1>2 DEF RemoveUuid, DeregisterOS, RemoveMachine, Request, GetToken, Removed, Fail, RemovePcs
<1>3. CASE InitClientsStep
  BY <1>3 DEF InitClientsStep, InitClients, InitKeycloak, InitFabricManager, AfterInit, Fail, RemovePcs
<1>4. CASE WaitForStatus
  BY <1>4 DEF WaitForStatus, AfterWait, GetToken, Removed, Fail, RemovePcs
<1>5. CASE NilClient \/ PowerOn \/ PowerOff \/ StopInit \/ GracefulShutdown
  BY <1>5 DEF NilClient, PowerOn, PowerOff, StopInit, GracefulShutdown, Request, GetToken, Fail, RemovePcs
<1>6. CASE GetState \/ GetMachineStatus \/ CheckConfig
  BY <1>6 DEF GetState, GetMachineStatus, CheckConfig, Fail, RemovePcs
<1>7. ASSUME NEW op \in Calls, Call(op)  PROVE Clients'
  BY <1>7 DEF Call, Calls, Entry
<1>8. CASE Save \/ ProcessExit \/ NewHost
  BY <1>8 DEF Save, ProcessExit, NewHost
<1>9. CASE ServiceStep \/ UNCHANGED vars
  BY <1>9 DEF ServiceStep, vars, driverVars
<1> QED
  BY <1>1, <1>2, <1>3, <1>4, <1>5, <1>6, <1>7, <1>8, <1>9 DEF Next, DriverStep

LEMMA IdentityStep ==
  ASSUME TypeOK, Control, Identity, [Next]_vars
  PROVE  Identity'
<1> USE DEF TypeOK, Control, Identity, UuidPcs, Fields, Goto, Return, FlagsPcs, CreatePcs,
            RemovePcs, StartPcs
<1>1. CASE CreateMachine
  BY <1>1, MachineAssumption DEF CreateMachine, Fail
<1>2. CASE FindBootDisk \/ ImageInstall
  BY <1>2 DEF FindBootDisk, ImageInstall, Request, Fail
<1>3. CASE AssignIpAddresses
  BY <1>3 DEF AssignIpAddresses, Fail
<1>4. CASE ConnectSsh
  BY <1>4 DEF ConnectSsh, InitSshManager, Fail
<1>5. CASE ExchangeKeys \/ RegisterOS \/ ExecuteScript \/ ApplyCloudInit \/ DisablePasswordSSHLogin
  BY <1>5 DEF ExchangeKeys, RegisterOS, ExecuteScript, ApplyCloudInit,
              DisablePasswordSSHLogin, Configure, Fail
<1>6. CASE RemoveUuid \/ RemoveMachine
  BY <1>6 DEF RemoveUuid, RemoveMachine, Request, Removed, Fail
<1>7. CASE DeregisterOS
  BY <1>7 DEF DeregisterOS, InitSshManager
<1>8. CASE InitClientsStep
  BY <1>8 DEF InitClientsStep, AfterInit, Fail
<1>9. CASE WaitForStatus
  BY <1>9 DEF WaitForStatus, Want, AfterWait, Removed, Fail
<1>10. CASE NilClient \/ PowerOn \/ PowerOff \/ StopInit \/ GracefulShutdown
  BY <1>10 DEF NilClient, PowerOn, PowerOff, StopInit, GracefulShutdown, Request, Fail
<1>11. CASE GetState \/ GetMachineStatus \/ CheckConfig
  BY <1>11 DEF GetState, GetMachineStatus, CheckConfig, Fail
<1>12. ASSUME NEW op \in Calls, Call(op)  PROVE Identity'
  BY <1>12 DEF Call, MayCall, Calls, Entry
<1>13. CASE Save
  BY <1>13 DEF Save
<1>14. CASE ProcessExit
  BY <1>14 DEF ProcessExit
<1>15. CASE NewHost
  BY <1>15 DEF NewHost, Empty
<1>16. CASE ServiceStep \/ UNCHANGED vars
  BY <1>16 DEF ServiceStep, vars, driverVars
<1> QED
  BY <1>1, <1>2, <1>3, <1>4, <1>5, <1>6, <1>7, <1>8, <1>9, <1>10, <1>11, <1>12, <1>13, <1>14,
     <1>15, <1>16
  DEF Next, DriverStep, CreateStep

---------------------------------------------------------------------------
(***************************************************************************)
(* What a step of the driver does to the service and to the identifiers.   *)
(***************************************************************************)

LEMMA ServiceEffect ==
  ASSUME TypeOK, Identity, DriverStep
  PROVE  \/ UNCHANGED fmVars
         \/ pc = "c_post" /\ \E m \in Machine : AcceptCreate(m) /\ (drv'.uuid = m \/ m \in lost')
         \/ pc = "c_install" /\ AcceptInstall(drv.uuid) /\ drv.uuid \in Machine
         \/ pc = "s_pon" /\ AcceptPowerOn(drv.uuid) /\ drv.uuid \in Machine
         \/ pc \in {"k_poff", "t_down"} /\ AcceptPowerOff(drv.uuid) /\ drv.uuid \in Machine
         \/ pc = "r_delete" /\ AcceptDelete(drv.uuid) /\ drv.uuid \in Machine
<1>1. pc \in {"c_install", "s_pon", "k_poff", "r_delete"} \/ drv.uuid # NoMachine => drv.uuid \in Machine
  BY DEF TypeOK, Identity, UuidPcs, CreatePcs, RemovePcs, Fields
<1>2. CASE CreateMachine
  BY <1>2 DEF CreateMachine, TypeOK, Fields
<1>3. CASE ImageInstall \/ PowerOn \/ PowerOff \/ GracefulShutdown \/ RemoveMachine
  BY <1>1, <1>3 DEF ImageInstall, PowerOn, PowerOff, GracefulShutdown, RemoveMachine, Request,
                    Served, Outcome
<1>4. CASE FindBootDisk
  BY <1>4 DEF FindBootDisk, Request, Served
<1>5. CASE ~(CreateMachine \/ ImageInstall \/ PowerOn \/ PowerOff \/ GracefulShutdown
             \/ RemoveMachine \/ FindBootDisk)
  BY <1>5 DEF DriverStep, CreateStep, AssignIpAddresses, ConnectSsh, ExchangeKeys, RegisterOS,
              ExecuteScript, ApplyCloudInit, DisablePasswordSSHLogin, Configure, RemoveUuid,
              DeregisterOS, InitClientsStep, WaitForStatus, NilClient, StopInit, GetState,
              GetMachineStatus, CheckConfig
<1> QED  BY <1>2, <1>3, <1>4, <1>5

LEMMA IdentifiersKept ==
  ASSUME TypeOK, Identity, DriverStep
  PROVE  /\ saved' = saved /\ lost \subseteq lost'
         /\ drv.uuid # NoMachine => drv'.uuid = drv.uuid
         /\ pc # "c_post" => drv'.uuid = drv.uuid
<1>1. CASE CreateMachine
  BY <1>1 DEF CreateMachine, Identity, TypeOK, Fields
<1>2. CASE AssignIpAddresses
  BY <1>2 DEF AssignIpAddresses, TypeOK, Fields
<1>3. CASE ~(CreateMachine \/ AssignIpAddresses)
  <2>1. UNCHANGED <<drv, saved, lost>>
    BY <1>3 DEF DriverStep, CreateStep, FindBootDisk, ImageInstall, ConnectSsh, ExchangeKeys,
                RegisterOS, ExecuteScript, ApplyCloudInit, DisablePasswordSSHLogin, Configure,
                RemoveUuid, DeregisterOS, RemoveMachine, InitClientsStep, WaitForStatus,
                NilClient, PowerOn, PowerOff, StopInit, GracefulShutdown, GetState,
                GetMachineStatus, CheckConfig
  <2> QED  BY <2>1
<1> QED  BY <1>1, <1>2, <1>3

(* A machine on its way out stays so, and takes no orders. *)
LEMMA NoOrderWhenGoneStep ==
  ASSUME TypeOK, Identity, NoOrderWhenGone, [Next]_vars
  PROVE  /\ NoOrderWhenGone'
         /\ \A m \in Machine : /\ status[m] = "UNBUILDED" => status'[m] = "UNBUILDED"
                               /\ Live(m)' => Live(m) \/ AcceptCreate(m)
<1> USE DEF NoOrderWhenGone, Live
<1>1. CASE UNCHANGED fmVars
  BY <1>1 DEF fmVars
<1>2. CASE DriverStep
  <2>1. ASSUME NEW n \in Machine, AcceptCreate(n)
        PROVE  /\ NoOrderWhenGone'
               /\ \A m \in Machine : /\ status[m] = "UNBUILDED" => status'[m] = "UNBUILDED"
                                     /\ Live(m)' => Live(m) \/ AcceptCreate(m)
    BY <2>1 DEF AcceptCreate, TypeOK, FmTypeOK
  <2>2. ASSUME drv.uuid \in Machine,
               AcceptInstall(drv.uuid) \/ AcceptPowerOn(drv.uuid) \/ AcceptPowerOff(drv.uuid)
                 \/ AcceptDelete(drv.uuid)
        PROVE  /\ NoOrderWhenGone'
               /\ \A m \in Machine : /\ status[m] = "UNBUILDED" => status'[m] = "UNBUILDED"
                                     /\ Live(m)' => Live(m) \/ AcceptCreate(m)
    BY <2>2 DEF AcceptInstall, AcceptPowerOn, AcceptPowerOff, AcceptDelete, Settled, TakeOrder,
                fmVars, TypeOK, FmTypeOK
  <2> QED  BY <1>1, <1>2, <2>1, <2>2, ServiceEffect
<1>3. CASE ServiceStep
  <2>1. PICK n \in Machine : Begin(n) \/ Finish(n) \/ Break(n)
    BY <1>3 DEF ServiceStep, FmStep
  <2>2. CASE Begin(n)
    BY <2>2 DEF Begin, Move, TypeOK, FmTypeOK
  <2>3. CASE Finish(n)
    BY <2>3 DEF Finish, Move, TypeOK, FmTypeOK
  <2>4. CASE Break(n)
    BY <2>4 DEF Break, TypeOK, FmTypeOK
  <2> QED  BY <2>1, <2>2, <2>3, <2>4
<1>4. CASE Save \/ ProcessExit \/ NewHost \/ UNCHANGED vars \/ \E op \in Calls : Call(op)
  BY <1>1, <1>4 DEF Save, ProcessExit, NewHost, Call, vars
<1> QED  BY <1>2, <1>3, <1>4 DEF Next

---------------------------------------------------------------------------
(***************************************************************************)
(* Removal.                                                                *)
(***************************************************************************)

(* A success of Remove is reported only for a machine that is unbuilt. *)
LEMMA CleanReportStep ==
  ASSUME TypeOK, Control, Identity, NoOrderWhenGone, CleanReport, [Next]_vars
  PROVE  CleanReport'
<1>1. \A m \in Machine : status[m] = "UNBUILDED" => status'[m] = "UNBUILDED"
  BY NoOrderWhenGoneStep
<1>2. drv.uuid = NoMachine \/ drv.uuid \in Machine
  BY DEF TypeOK, Fields
<1> USE DEF CleanReport, Goto, Return
<1>3. CASE CreateStep
  BY <1>3 DEF CreateStep, CreateMachine, FindBootDisk, ImageInstall, AssignIpAddresses,
              ConnectSsh, ExchangeKeys, RegisterOS, ExecuteScript, ApplyCloudInit,
              DisablePasswordSSHLogin, Configure, Request, Fail, RemovePcs, Control, CreatePcs
<1>4. CASE RemoveUuid \/ DeregisterOS \/ RemoveMachine
  BY <1>4 DEF RemoveUuid, DeregisterOS, RemoveMachine, Request, Removed, Fail, RemovePcs
<1>5. CASE InitClientsStep
  BY <1>5 DEF InitClientsStep, AfterInit, Fail, RemovePcs
<1>6. CASE WaitForStatus
  <2>1. CASE Fail
    BY <1>6, <2>1 DEF Fail, RemovePcs, WaitForStatus, Want
  <2>2. CASE status[drv.uuid] = Want[pc] /\ AfterWait /\ pc = "w_gone"
    BY <1>6, <2>2 DEF WaitForStatus, Want, AfterWait, Removed, fmVars
  <2>3. CASE AfterWait /\ pc # "w_gone"
    BY <1>6, <2>3 DEF WaitForStatus, Want, AfterWait, Control, StartPcs
  <2> QED  BY <1>6, <2>1, <2>2, <2>3 DEF WaitForStatus
<1>7. CASE NilClient \/ PowerOn \/ PowerOff \/ StopInit \/ GracefulShutdown
  BY <1>7 DEF NilClient, PowerOn, PowerOff, StopInit, GracefulShutdown, Request, Fail, RemovePcs
<1>8. CASE GetState \/ GetMachineStatus \/ CheckConfig
  BY <1>8 DEF GetState, GetMachineStatus, CheckConfig, Fail, RemovePcs, Control, StatePcs, FlagsPcs
<1>9. CASE ProcessExit \/ NewHost \/ \E op \in Calls : Call(op)
  BY <1>9 DEF Call, ProcessExit, NewHost
<1>10. CASE Save \/ ServiceStep \/ UNCHANGED vars
  BY <1>1, <1>2, <1>10 DEF Save, ServiceStep, vars, driverVars, fmVars
<1> QED
  BY <1>3, <1>4, <1>5, <1>6, <1>7, <1>8, <1>9, <1>10 DEF Next, DriverStep

(* No step loses the UUID of a machine the fabric has built. *)
LEMMA NoForgottenMachineStep ==
  ASSUME TypeOK, Control, Identity, NoOrderWhenGone, CleanReport, NoForgottenMachine, [Next]_vars
  PROVE  NoForgottenMachine'
<1>1. \A m \in Machine : Live(m)' => Live(m) \/ AcceptCreate(m)
  BY NoOrderWhenGoneStep
<1> USE DEF NoForgottenMachine
<1>2. CASE DriverStep
  <2>1. ASSUME NEW m \in Machine, AcceptCreate(m), ~Live(m), Live(m)'
        PROVE  m = drv'.uuid \/ m \in lost'
    BY <1>2, <2>1, ServiceEffect DEF AcceptCreate, AcceptInstall, AcceptPowerOn, AcceptPowerOff,
       AcceptDelete, TakeOrder, Live, fmVars, TypeOK, FmTypeOK
  <2> QED  BY <1>1, <1>2, <2>1, IdentifiersKept, MachineAssumption
<1>3. CASE NewHost
  BY <1>1, <1>3, MachineAssumption DEF NewHost, CleanReport, Identity, Live, AcceptCreate, fmVars, Empty
<1>4. CASE ProcessExit
  BY <1>1, <1>4, MachineAssumption DEF ProcessExit, Live, fmVars
<1>5. CASE Save \/ \E op \in Calls : Call(op)
  BY <1>1, <1>5, MachineAssumption DEF Save, Call, Identity, Live, fmVars
<1>6. CASE ServiceStep
  BY <1>1, <1>6 DEF ServiceStep, driverVars, FmStep, Begin, Finish, Break, Move, AcceptCreate,
     Live, TypeOK, FmTypeOK
<1>7. CASE UNCHANGED vars
  BY <1>7 DEF vars, driverVars, fmVars, Live
<1> QED  BY <1>2, <1>3, <1>4, <1>5, <1>6, <1>7 DEF Next

---------------------------------------------------------------------------
(***************************************************************************)
(* Creation.                                                               *)
(***************************************************************************)

(* Create follows its machine from the POST to the installed system. *)
LEMMA InstallationStep ==
  ASSUME TypeOK, Control, Identity, NoOrderWhenGone, Installation, [Next]_vars
  PROVE  Installation'
<1> USE DEF Installation, Creating, Goto, Return, CreatePcs, StartPcs
<1>1. CASE CreateMachine
  BY <1>1 DEF CreateMachine, AcceptCreate, Fail, RemovePcs, NoOrderWhenGone, TypeOK, FmTypeOK, Fields
<1>2. CASE ImageInstall
  <2>1. drv.uuid \in Machine
    BY <1>2 DEF ImageInstall, Request, Identity, UuidPcs, TypeOK, Fields
  <2>2. CASE pc' = "w_installing"
    BY <1>2, <2>1, <2>2 DEF ImageInstall, Request, Served, AcceptInstall, Settled, TakeOrder, Fail,
       RemovePcs, Control, TypeOK, FmTypeOK
  <2>3. CASE pc' # "w_installing"
    BY <1>2, <2>3 DEF ImageInstall, Request, Fail, RemovePcs, Control
  <2> QED  BY <2>2, <2>3
<1>3. CASE FindBootDisk \/ AssignIpAddresses \/ ConnectSsh \/ ExchangeKeys \/ RegisterOS
           \/ ExecuteScript \/ ApplyCloudInit \/ DisablePasswordSSHLogin
  BY <1>3 DEF FindBootDisk, AssignIpAddresses, ConnectSsh, ExchangeKeys, RegisterOS, ExecuteScript,
              ApplyCloudInit, DisablePasswordSSHLogin, Configure, Request, Served, Fail, RemovePcs,
              Control, fmVars, TypeOK, Fields
<1>4. CASE RemoveUuid \/ DeregisterOS \/ RemoveMachine
  BY <1>4 DEF RemoveUuid, DeregisterOS, RemoveMachine, Request, Removed, Fail, RemovePcs
<1>5. CASE InitClientsStep
  BY <1>5 DEF InitClientsStep, AfterInit, Fail, RemovePcs, Identity, Control, fmVars
<1>6. CASE WaitForStatus
  <2>1. CASE Fail
    BY <1>6, <2>1 DEF Fail, RemovePcs, WaitForStatus, Want, Control
  <2>2. CASE status[drv.uuid] = Want[pc] /\ AfterWait
    <3>1. CASE pc \in {"w_off", "w_gone"}
      BY <1>6, <2>2, <3>1 DEF WaitForStatus, AfterWait, Removed, Control
    <3>2. CASE pc = "w_on"
      BY <1>6, <2>2, <3>2 DEF WaitForStatus, Want, AfterWait, fmVars
    <3>3. CASE pc = "w_built"
      BY <1>6, <2>2, <3>3 DEF WaitForStatus, AfterWait, Control, fmVars
    <3>4. CASE pc = "w_installing"
      BY <1>6, <2>2, <3>4 DEF WaitForStatus, Want, AfterWait, Control, fmVars
    <3>5. CASE pc = "w_installed"
      BY <1>6, <2>2, <3>5 DEF WaitForStatus, Want, AfterWait, Control, fmVars
    <3> QED  BY <1>6, <3>1, <3>2, <3>3, <3>4, <3>5 DEF WaitForStatus, Want
  <2> QED  BY <1>6, <2>1, <2>2 DEF WaitForStatus
<1>7. CASE PowerOn
  <2>1. drv.uuid \in Machine
    BY <1>7 DEF PowerOn, Request, Identity, UuidPcs, TypeOK, Fields
  <2> QED
    BY <1>7, <2>1 DEF PowerOn, Request, Served, AcceptPowerOn, Settled, TakeOrder, Fail, RemovePcs,
       fmVars, TypeOK, FmTypeOK
<1>8. CASE NilClient \/ PowerOff \/ StopInit \/ GracefulShutdown
  BY <1>8 DEF NilClient, PowerOff, StopInit, GracefulShutdown, Request, Fail, RemovePcs
<1>9. CASE GetState \/ GetMachineStatus \/ CheckConfig
  BY <1>9 DEF GetState, GetMachineStatus, CheckConfig, Fail, RemovePcs
<1>10. ASSUME NEW op \in Calls, Call(op)  PROVE Installation'
  BY <1>10 DEF Call, MayCall, Calls, Entry, Identity
<1>11. CASE Save \/ ProcessExit \/ NewHost \/ UNCHANGED vars
  BY <1>11 DEF Save, ProcessExit, NewHost, vars, driverVars, fmVars
<1>12. CASE ServiceStep
  <2>1. PICK n \in Machine : Begin(n) \/ Finish(n) \/ Break(n)
    BY <1>12 DEF ServiceStep, FmStep
  <2> USE <1>12 DEF ServiceStep, driverVars, TypeOK, FmTypeOK, Fields
  <2>2. CASE Begin(n)
    BY <2>2 DEF Begin, Move
  <2>3. CASE Finish(n)
    BY <2>3 DEF Finish, Move
  <2>4. CASE Break(n)
    BY <2>4 DEF Break
  <2> QED  BY <2>1, <2>2, <2>3, <2>4
<1> QED
  BY <1>1, <1>2, <1>3, <1>4, <1>5, <1>6, <1>7, <1>8, <1>9, <1>10, <1>11, <1>12
  DEF Next, DriverStep, CreateStep

(* Something is done to a machine's system only while it runs. *)
LEMMA WorkedOnWhileOn ==
  ASSUME TypeOK, [Next]_vars, NEW m \in Machine
  PROVE  host'[m] \subseteq host[m] \/ (status[m] = "ACTIVE_PON" /\ UNCHANGED fmVars)
<1> USE DEF TypeOK
<1>1. CASE ExchangeKeys \/ RegisterOS \/ ExecuteScript \/ ApplyCloudInit
  BY <1>1 DEF ExchangeKeys, RegisterOS, ExecuteScript, ApplyCloudInit, Configure, CanLogin
<1>2. CASE DisablePasswordSSHLogin
  BY <1>2 DEF DisablePasswordSSHLogin, CanLogin
<1>3. CASE DeregisterOS
  BY <1>3 DEF DeregisterOS
<1>4. CASE UNCHANGED host
  BY <1>4
<1> QED
  BY <1>1, <1>2, <1>3, <1>4 DEF Next, DriverStep, CreateStep, CreateMachine, FindBootDisk,
     ImageInstall, AssignIpAddresses, ConnectSsh, RemoveUuid, RemoveMachine, InitClientsStep,
     WaitForStatus, NilClient, PowerOn, PowerOff, StopInit, GracefulShutdown, GetState,
     GetMachineStatus, CheckConfig, ServiceStep, driverVars, Call, Save, ProcessExit, NewHost, vars

(* Where Create is at the steps before the installation, it has just come from
   the one before. *)
LEMMA BeforeInstall ==
  ASSUME TypeOK, [Next]_vars, pc' \in {"w_built", "c_disk", "c_install"}
  PROVE  \/ pc' = "w_built" /\ \E m \in Machine : AcceptCreate(m) /\ drv'.uuid = m /\ UNCHANGED host
         \/ pc \in {"w_built", "c_disk", "c_install"} /\ UNCHANGED <<drv, host>>
<1> USE DEF Goto, Return, Fail
<1>1. CASE CreateMachine
  BY <1>1 DEF CreateMachine, TypeOK, Fields
<1>2. CASE FindBootDisk \/ ImageInstall \/ AssignIpAddresses \/ ConnectSsh \/ ExchangeKeys
           \/ RegisterOS \/ ExecuteScript \/ ApplyCloudInit \/ DisablePasswordSSHLogin
  BY <1>2 DEF FindBootDisk, ImageInstall, AssignIpAddresses, ConnectSsh, ExchangeKeys, RegisterOS,
     ExecuteScript, ApplyCloudInit, DisablePasswordSSHLogin, Configure, Request
<1>3. CASE RemoveUuid \/ DeregisterOS \/ RemoveMachine \/ NilClient \/ PowerOn \/ PowerOff
           \/ StopInit \/ GracefulShutdown \/ GetState \/ GetMachineStatus \/ CheckConfig
  BY <1>3 DEF RemoveUuid, Removed, DeregisterOS, RemoveMachine, NilClient, PowerOn, PowerOff,
     StopInit, GracefulShutdown, GetState, GetMachineStatus, CheckConfig, Request
<1>4. CASE InitClientsStep
  BY <1>4 DEF InitClientsStep, AfterInit
<1>5. CASE WaitForStatus
  BY <1>5 DEF WaitForStatus, Want, AfterWait, Removed
<1>6. ASSUME NEW op \in Calls, Call(op)  PROVE FALSE
  BY <1>6 DEF Call, Calls, Entry
<1>7. CASE Save \/ ProcessExit \/ NewHost
  BY <1>7 DEF Save, ProcessExit, NewHost
<1>8. CASE ServiceStep \/ UNCHANGED vars
  BY <1>8 DEF ServiceStep, vars, driverVars
<1> QED
  BY <1>1, <1>2, <1>3, <1>4, <1>5, <1>6, <1>7, <1>8 DEF Next, DriverStep, CreateStep

(* No order to install, and no installation, on a machine already worked on. *)
LEMMA UntouchedStep ==
  ASSUME TypeOK, Identity, NoOrderWhenGone, Untouched, NoReinstall, [Next]_vars
  PROVE  Untouched' /\ NoReinstall'
<1> USE DEF TypeOK, FmTypeOK
<1>1. \A m \in Machine : host'[m] \subseteq host[m] \/ (status[m] = "ACTIVE_PON" /\ UNCHANGED fmVars)
  BY WorkedOnWhileOn
<1>2. pc' \in {"w_built", "c_disk", "c_install"} => host'[drv'.uuid] = {}
  BY BeforeInstall DEF Untouched, AcceptCreate
<1>3. CASE UNCHANGED fmVars
  BY <1>1, <1>2, <1>3 DEF Untouched, NoReinstall, fmVars
<1>4. CASE DriverStep /\ ~UNCHANGED fmVars
  <2>1. \A m \in Machine : host'[m] \subseteq host[m]
    BY <1>1, <1>4
  <2>2. ASSUME NEW n \in Machine, AcceptCreate(n)  PROVE Untouched' /\ NoReinstall'
    BY <1>2, <2>1, <2>2 DEF AcceptCreate, Untouched, NoReinstall
  <2>3. CASE pc = "c_install" /\ AcceptInstall(drv.uuid) /\ drv.uuid \in Machine
    BY <1>2, <2>1, <2>3 DEF AcceptInstall, Settled, TakeOrder, Untouched, NoReinstall
  <2>4. CASE drv.uuid \in Machine
             /\ (AcceptPowerOn(drv.uuid) \/ AcceptPowerOff(drv.uuid) \/ AcceptDelete(drv.uuid))
    BY <1>2, <1>4, <2>1, <2>4 DEF AcceptPowerOn, AcceptPowerOff, AcceptDelete, TakeOrder, Untouched,
       NoReinstall
  <2> QED  BY <1>4, <2>2, <2>3, <2>4, ServiceEffect
<1>5. CASE ServiceStep
  <2>1. UNCHANGED host
    BY <1>5 DEF ServiceStep, driverVars
  <2>2. PICK n \in Machine : Begin(n) \/ Finish(n) \/ Break(n)
    BY <1>5 DEF ServiceStep, FmStep
  <2>3. CASE Begin(n)
    BY <1>2, <2>1, <2>3 DEF Begin, Move, Untouched, NoReinstall, NoOrderWhenGone
  <2>4. CASE Finish(n)
    BY <1>2, <2>1, <2>4 DEF Finish, Move, Untouched, NoReinstall
  <2>5. CASE Break(n)
    BY <1>2, <2>1, <2>5 DEF Break, Live, Untouched, NoReinstall
  <2> QED  BY <2>2, <2>3, <2>4, <2>5
<1>6. CASE Save \/ ProcessExit \/ NewHost \/ UNCHANGED vars \/ \E op \in Calls : Call(op)
  BY <1>3, <1>6 DEF Save, ProcessExit, NewHost, Call, vars
<1> QED  BY <1>3, <1>4, <1>5, <1>6 DEF Next

(* What is done to a machine's system is lost only by the deregistration, and
   an image never is. *)
LEMMA MarksKept ==
  ASSUME TypeOK, Identity, [Next]_vars, NEW m \in Machine
  PROVE  /\ image[m] => image'[m]
         /\ host[m] \ {"registered"} \subseteq host'[m]
         /\ pc # "r_ssh" => host[m] \subseteq host'[m]
<1> USE DEF TypeOK, FmTypeOK
<1>1. CASE DriverStep
  <2>1. image[m] => image'[m]
    BY <1>1, ServiceEffect DEF AcceptCreate, AcceptInstall, AcceptPowerOn, AcceptPowerOff,
       AcceptDelete, TakeOrder, fmVars
  <2>2. CASE ExchangeKeys \/ RegisterOS \/ ExecuteScript \/ ApplyCloudInit \/ DisablePasswordSSHLogin
    BY <2>1, <2>2 DEF ExchangeKeys, RegisterOS, ExecuteScript, ApplyCloudInit,
       DisablePasswordSSHLogin, Configure
  <2>3. CASE DeregisterOS
    BY <2>1, <2>3 DEF DeregisterOS
  <2>4. CASE UNCHANGED host
    BY <2>1, <2>4
  <2> QED
    BY <1>1, <2>2, <2>3, <2>4 DEF DriverStep, CreateStep, CreateMachine, FindBootDisk,
       ImageInstall, AssignIpAddresses, ConnectSsh, RemoveUuid, RemoveMachine, InitClientsStep,
       WaitForStatus, NilClient, PowerOn, PowerOff, StopInit, GracefulShutdown, GetState,
       GetMachineStatus, CheckConfig
<1>2. CASE ServiceStep
  BY <1>2 DEF ServiceStep, FmStep, Begin, Finish, Break, Move, driverVars
<1>3. CASE Save \/ ProcessExit \/ NewHost \/ UNCHANGED vars \/ \E op \in Calls : Call(op)
  BY <1>3 DEF Save, ProcessExit, NewHost, vars, driverVars, Call, fmVars
<1> QED  BY <1>1, <1>2, <1>3 DEF Next

(* A step over SSH that succeeded has left its mark. *)
LEMMA ConfigureMarks ==
  ASSUME TypeOK, ssh \in Machine, NEW from, NEW facts, NEW all \in SUBSET Facts, NEW to,
         Configure(from, facts, all, to)
  PROVE  /\ (pc' = to /\ facts \subseteq host'[ssh]) \/ pc' \in {"r_uuid", "idle"}
         /\ \A m \in Machine : host[m] \subseteq host'[m] /\ host'[m] \subseteq host[m] \cup all
         /\ UNCHANGED <<drv, ssh, fmVars, warned>>
         /\ pc' = "idle" => ret' \in {"err", "err2"} \/ to = "idle"
BY DEF Configure, Goto, Fail, Return, TypeOK

(* Each step of Create over SSH, with its facts and its successor. *)
LEMMA ConfigureSteps ==
  ASSUME ExchangeKeys \/ RegisterOS \/ ExecuteScript \/ ApplyCloudInit
  PROVE  \E from \in CreatePcs, to \in CreatePcs, facts \in SUBSET Facts, all \in SUBSET Facts :
           /\ Configure(from, facts, all, to)
           /\ <<from, to>> \in {<<"c_keys", "c_reg">>, <<"c_reg", "c_script">>,
                                <<"c_script", "c_cloud">>, <<"c_cloud", "c_pwoff">>}
           /\ from = "c_keys" <=> "keyed" \in facts
           /\ from = "c_reg" /\ Licensed => "registered" \in facts
           /\ from = "c_script" => "provider" \in facts
           /\ from = "c_cloud" => "metadata" \in facts
           /\ "registered" \in all => from = "c_reg"
           /\ "pwoff" \notin all
<1> USE DEF CreatePcs, Facts
<1>1. CASE ExchangeKeys
  BY <1>1 DEF ExchangeKeys
<1>2. CASE RegisterOS
  BY <1>2 DEF RegisterOS, Registration
<1>3. CASE ExecuteScript
  BY <1>3 DEF ExecuteScript
<1>4. CASE ApplyCloudInit
  BY <1>4 DEF ApplyCloudInit
<1> QED  BY <1>1, <1>2, <1>3, <1>4

(* The marks of the steps done so far stay, and the password goes last. *)
LEMMA ConfiguredStep ==
  ASSUME TypeOK, Control, Identity, Configured, NoLockout, [Next]_vars
  PROVE  Configured' /\ NoLockout'
<1> USE DEF Configured, NoLockout
<1>1. pc \in {"c_keys", "c_reg", "c_script", "c_cloud", "c_pwoff"} => ssh = drv.uuid /\ ssh \in Machine
  BY DEF Identity, UuidPcs, CreatePcs, TypeOK, Fields
<1>2. CASE ExchangeKeys \/ RegisterOS \/ ExecuteScript \/ ApplyCloudInit
  <2>1. PICK from \in CreatePcs, to \in CreatePcs, facts \in SUBSET Facts, all \in SUBSET Facts :
           /\ Configure(from, facts, all, to)
           /\ <<from, to>> \in {<<"c_keys", "c_reg">>, <<"c_reg", "c_script">>,
                                <<"c_script", "c_cloud">>, <<"c_cloud", "c_pwoff">>}
           /\ from = "c_keys" <=> "keyed" \in facts
           /\ from = "c_reg" /\ Licensed => "registered" \in facts
           /\ from = "c_script" => "provider" \in facts
           /\ from = "c_cloud" => "metadata" \in facts
           /\ "pwoff" \notin all
    BY <1>2, ConfigureSteps
  <2>2. pc = from
    BY <2>1 DEF Configure
  <2>3. /\ (pc' = to /\ facts \subseteq host'[ssh]) \/ pc' \in {"r_uuid", "idle"}
        /\ \A m \in Machine : host[m] \subseteq host'[m] /\ host'[m] \subseteq host[m] \cup all
        /\ UNCHANGED <<drv, ssh>>
    BY <1>1, <2>1, <2>2, ConfigureMarks
  <2>4. NoLockout'
    BY <2>1, <2>3
  <2> QED  BY <1>1, <2>1, <2>2, <2>3, <2>4
<1>3. CASE DisablePasswordSSHLogin
  BY <1>1, <1>3 DEF DisablePasswordSSHLogin, Goto, Return, Fail, TypeOK
<1>4. CASE DeregisterOS
  BY <1>4 DEF DeregisterOS, Goto, TypeOK
<1>5. CASE UNCHANGED host /\ pc' \notin {"c_reg", "c_script", "c_cloud", "c_pwoff"}
  BY <1>5
<1>6. CASE CreateMachine \/ FindBootDisk \/ ImageInstall \/ AssignIpAddresses \/ ConnectSsh
           \/ RemoveUuid \/ RemoveMachine
  BY <1>5, <1>6 DEF CreateMachine, FindBootDisk, ImageInstall, AssignIpAddresses, ConnectSsh,
     Request, Fail, RemoveUuid, Removed, RemoveMachine, Goto, Return
<1>7. CASE InitClientsStep
  BY <1>5, <1>7 DEF InitClientsStep, AfterInit, Fail, Goto, Return
<1>8. CASE WaitForStatus
  BY <1>5, <1>8 DEF WaitForStatus, Want, AfterWait, Removed, Fail, Goto, Return
<1>9. CASE NilClient \/ PowerOn \/ PowerOff \/ StopInit \/ GracefulShutdown \/ GetState
           \/ GetMachineStatus \/ CheckConfig
  BY <1>5, <1>9 DEF NilClient, PowerOn, PowerOff, StopInit, GracefulShutdown, GetState,
     GetMachineStatus, CheckConfig, Request, Fail, Goto, Return
<1>10. CASE ServiceStep \/ UNCHANGED vars
  BY <1>10 DEF ServiceStep, driverVars, vars
<1>11. ASSUME NEW op \in Calls, Call(op)  PROVE Configured' /\ NoLockout'
  BY <1>5, <1>11 DEF Call, Calls, Entry
<1>12. CASE Save \/ ProcessExit \/ NewHost
  BY <1>5, <1>12 DEF Save, ProcessExit, NewHost
<1> QED
  BY <1>2, <1>3, <1>4, <1>6, <1>7, <1>8, <1>9, <1>10, <1>11, <1>12 DEF Next, DriverStep, CreateStep

(* Create returns nil only when every one of its steps succeeded. *)
LEMMA CreateOkReadyStep ==
  ASSUME TypeOK, Control, Identity, Installation, Configured, CreateOkReady, [Next]_vars
  PROVE  CreateOkReady'
<1> USE DEF CreateOkReady
<1>1. CASE pc' # "idle" \/ call' # "create" \/ ret' # "ok"
  BY <1>1
<1>2. CASE DisablePasswordSSHLogin
  <2>1. /\ pc = "c_pwoff" /\ call = "create"
        /\ drv.uuid \in Machine /\ ssh = drv.uuid /\ drv.ip = drv.uuid
        /\ image[drv.uuid]
    BY <1>2 DEF DisablePasswordSSHLogin, Control, Identity, Installation, Creating, UuidPcs,
       CreatePcs, TypeOK, Fields
  <2>2. PICK done \in SUBSET {"pwoff"} :
           /\ host' = [host EXCEPT ![ssh] = @ \cup done]
           /\ (done # {} /\ Return("ok")) \/ Fail
    BY <1>2 DEF DisablePasswordSSHLogin
  <2>3. CASE Fail
    BY <2>1, <2>3, <1>1 DEF Fail, Goto, Return, RemovePcs
  <2>4. CASE done = {"pwoff"}
    <3>1. host'[drv.uuid] = host[drv.uuid] \cup {"pwoff"}
      BY <2>1, <2>2, <2>4 DEF TypeOK
    <3>2. UNCHANGED <<drv, image>>
      BY <1>2 DEF DisablePasswordSSHLogin, fmVars
    <3> QED  BY <2>1, <3>1, <3>2, MachineAssumption DEF Configured
  <2> QED  BY <2>2, <2>3, <2>4
<1>3. CASE ExchangeKeys \/ RegisterOS \/ ExecuteScript \/ ApplyCloudInit
  BY <1>1, <1>3 DEF ExchangeKeys, RegisterOS, ExecuteScript, ApplyCloudInit, Configure, Goto, Return, Fail
<1>4. CASE CreateMachine \/ FindBootDisk \/ ImageInstall \/ AssignIpAddresses \/ ConnectSsh
           \/ RemoveUuid \/ RemoveMachine \/ DeregisterOS
  BY <1>1, <1>4 DEF CreateMachine, FindBootDisk, ImageInstall, AssignIpAddresses, ConnectSsh,
     Request, Fail, RemoveUuid, Removed, RemoveMachine, DeregisterOS, Goto, Return
<1>5. CASE InitClientsStep
  BY <1>1, <1>5 DEF InitClientsStep, AfterInit, Fail, Goto, Return
<1>6. CASE WaitForStatus
  BY <1>1, <1>6 DEF WaitForStatus, Want, AfterWait, Removed, Fail, Goto, Return, Control
<1>7. CASE NilClient \/ PowerOn \/ PowerOff \/ StopInit \/ GracefulShutdown \/ GetState
           \/ GetMachineStatus \/ CheckConfig
  BY <1>1, <1>7 DEF NilClient, PowerOn, PowerOff, StopInit, GracefulShutdown, GetState,
     GetMachineStatus, CheckConfig, Request, Fail, Goto, Return, Control, FlagsPcs, StatePcs
<1>8. ASSUME NEW op \in Calls, Call(op)  PROVE CreateOkReady'
  BY <1>1, <1>8 DEF Call
<1>9. CASE ProcessExit \/ NewHost
  BY <1>1, <1>9 DEF ProcessExit, NewHost
<1>10. CASE Save \/ ServiceStep \/ UNCHANGED vars
  <2>1. UNCHANGED <<pc, call, ret, drv>>
    BY <1>10 DEF Save, ServiceStep, driverVars, vars
  <2>2. drv.uuid # NoMachine => drv.uuid \in Machine
    BY DEF TypeOK, Fields
  <2>3. \A m \in Machine : (image[m] => image'[m]) /\ (pc # "r_ssh" => host[m] \subseteq host'[m])
    BY MarksKept
  <2> QED  BY <2>1, <2>2, <2>3
<1> QED
  BY <1>2, <1>3, <1>4, <1>5, <1>6, <1>7, <1>8, <1>9, <1>10 DEF Next, DriverStep, CreateStep

---------------------------------------------------------------------------
(***************************************************************************)
(* Departure and power.                                                    *)
(***************************************************************************)

(* A machine is ordered unbuilt only by the DELETE of Remove, and unbuilt only
   when it was ordered to be. *)
LEMMA OrderedAway ==
  ASSUME TypeOK, Identity, [Next]_vars, NEW m \in Machine,
         order'[m] = "remove" \/ status'[m] \in {"UNBUILDING", "UNBUILDED"}
  PROVE  \/ order[m] = "remove" \/ status[m] \in {"UNBUILDING", "UNBUILDED"}
         \/ m = drv.uuid /\ pc = "r_delete"
<1> USE DEF TypeOK, FmTypeOK
<1>1. CASE DriverStep
  BY <1>1, ServiceEffect DEF AcceptCreate, AcceptInstall, AcceptPowerOn, AcceptPowerOff,
     AcceptDelete, TakeOrder, fmVars
<1>2. CASE ServiceStep
  BY <1>2 DEF ServiceStep, FmStep, Begin, Finish, Break, Move
<1>3. CASE Save \/ ProcessExit \/ NewHost \/ UNCHANGED vars \/ \E op \in Calls : Call(op)
  BY <1>3 DEF Save, ProcessExit, NewHost, vars, Call, fmVars
<1> QED  BY <1>1, <1>2, <1>3 DEF Next

(* Only the registration step of Create registers a machine, and the log's
   warnings are not taken back. *)
LEMMA DeregisteredKept ==
  ASSUME TypeOK, Identity, [Next]_vars, NEW m \in Machine, Deregistered(m),
         ~(m = drv.uuid /\ pc = "c_reg")
  PROVE  Deregistered(m)'
<1> USE DEF TypeOK, Deregistered
<1>1. CASE RegisterOS
  BY <1>1 DEF RegisterOS, Configure, Identity
<1>2. CASE ExchangeKeys \/ ExecuteScript \/ ApplyCloudInit \/ DisablePasswordSSHLogin
  BY <1>2 DEF ExchangeKeys, ExecuteScript, ApplyCloudInit, Configure, DisablePasswordSSHLogin
<1>3. CASE DeregisterOS
  BY <1>3 DEF DeregisterOS
<1>4. CASE UNCHANGED <<host, warned>>
  BY <1>4
<1> QED
  BY <1>1, <1>2, <1>3, <1>4 DEF Next, DriverStep, CreateStep, CreateMachine, FindBootDisk,
     ImageInstall, AssignIpAddresses, ConnectSsh, RemoveUuid, RemoveMachine, InitClientsStep,
     WaitForStatus, NilClient, PowerOn, PowerOff, StopInit, GracefulShutdown, GetState,
     GetMachineStatus, CheckConfig, ServiceStep, driverVars, vars, Save, ProcessExit, NewHost, Call

(* Remove deregisters before it deletes. *)
LEMMA DeregisterOSDoes ==
  ASSUME TypeOK, Identity, DeregisterOS
  PROVE  Deregistered(drv.uuid)'
BY MachineAssumption DEF DeregisterOS, InitSshManager, Deregistered, Identity, UuidPcs, RemovePcs, TypeOK, Fields

(* A machine leaves deregistered, or with a warning in the log. *)
LEMMA DepartureStep ==
  ASSUME TypeOK, Control, Identity, Installation, Departure, LicenseReleased, [Next]_vars
  PROVE  Departure' /\ LicenseReleased'
<1> DEFINE Goes(m) == order[m] = "remove" \/ status[m] \in {"UNBUILDING", "UNBUILDED"}
<1>1. \A m \in Machine : Goes(m) => Deregistered(m)
  BY DEF Departure, LicenseReleased, Deregistered
<1>2. pc = "c_reg" => drv.uuid \in Machine /\ ~Goes(drv.uuid)
  BY DEF Control, Installation, Creating, Identity, UuidPcs, CreatePcs, TypeOK, Fields
<1>3. pc \in {"r_ssh", "r_delete", "w_gone"} => drv.uuid \in Machine
  BY DEF Identity, UuidPcs, RemovePcs, TypeOK, Fields
<1>4. \A m \in Machine : Goes(m)' => Deregistered(m)'
  <2> SUFFICES ASSUME NEW m \in Machine, Goes(m)'  PROVE Deregistered(m)'
    OBVIOUS
  <2>1. Goes(m) \/ (m = drv.uuid /\ pc = "r_delete")
    BY OrderedAway
  <2>2. Deregistered(m) /\ ~(m = drv.uuid /\ pc = "c_reg")
    BY <1>1, <1>2, <2>1 DEF Departure
  <2> QED  BY <2>2, DeregisteredKept
<1>5. pc' \in {"r_delete", "w_gone"} => Deregistered(drv.uuid)'
  <2>1. CASE DeregisterOS
    BY <2>1, DeregisterOSDoes
  <2>2. CASE pc \in {"r_delete", "w_gone"} /\ UNCHANGED drv
    BY <1>3, <2>2, DeregisteredKept DEF Departure, Deregistered
  <2>3. CASE pc' \notin {"r_delete", "w_gone"}
    BY <2>3
  <2>4. CASE CreateStep
    BY <2>3, <2>4 DEF CreateStep, CreateMachine, FindBootDisk, ImageInstall, AssignIpAddresses,
       ConnectSsh, ExchangeKeys, RegisterOS, ExecuteScript, ApplyCloudInit,
       DisablePasswordSSHLogin, Configure, Request, Fail, Goto, Return
  <2>5. CASE RemoveUuid \/ RemoveMachine
    BY <2>2, <2>3, <2>5 DEF RemoveUuid, RemoveMachine, Request, Removed, Fail, Goto, Return
  <2>6. CASE InitClientsStep
    BY <2>3, <2>6 DEF InitClientsStep, AfterInit, Fail, Goto, Return
  <2>7. CASE WaitForStatus
    BY <2>3, <2>7 DEF WaitForStatus, Want, AfterWait, Removed, Fail, Goto, Return
  <2>8. CASE NilClient \/ PowerOn \/ PowerOff \/ StopInit \/ GracefulShutdown \/ GetState
           \/ GetMachineStatus \/ CheckConfig
    BY <2>3, <2>8 DEF NilClient, PowerOn, PowerOff, StopInit, GracefulShutdown, GetState,
       GetMachineStatus, CheckConfig, Request, Fail, Goto, Return
  <2>9. CASE ServiceStep \/ UNCHANGED vars
    BY <2>2, <2>3, <2>9 DEF ServiceStep, driverVars, vars
  <2>10. ASSUME NEW op \in Calls, Call(op)  PROVE pc' \notin {"r_delete", "w_gone"}
    BY <2>10 DEF Call, Calls, Entry
  <2>11. CASE Save \/ ProcessExit \/ NewHost
    BY <2>3, <2>11 DEF Save, ProcessExit, NewHost
  <2> QED
    BY <2>1, <2>3, <2>4, <2>5, <2>6, <2>7, <2>8, <2>9, <2>10, <2>11 DEF Next, DriverStep
<1> QED
  BY <1>4, <1>5 DEF Departure, LicenseReleased, Deregistered

(* A wait for ACTIVE_POFF after a power-off ends with the machine off and no
   order outstanding, and Restart powers it on from there. *)
LEMMA PoweringOffStep ==
  ASSUME TypeOK, Control, Identity, PoweringOff, [Next]_vars
  PROVE  PoweringOff'
<1> USE DEF PoweringOff, Goto, Return
<1>1. CASE PowerOff \/ GracefulShutdown
  BY <1>1, MachineAssumption DEF PowerOff, GracefulShutdown, Request, Served, AcceptPowerOff, Settled,
     TakeOrder, Outcome, Fail, fmVars, TypeOK, FmTypeOK, Fields
<1>2. CASE InitClientsStep
  BY <1>2 DEF InitClientsStep, AfterInit, Fail, fmVars
<1>3. CASE WaitForStatus
  <2>1. CASE pc' \notin {"w_off", "s_init", "s_pon"} \/ (call' # "restart" /\ pc' # "w_off")
    BY <2>1
  <2>2. CASE Fail
    BY <2>1, <2>2 DEF Fail
  <2>3. CASE pc = "w_off" /\ AfterWait
    BY <1>3, <2>1, <2>2, <2>3 DEF WaitForStatus, Want, AfterWait, fmVars
  <2>4. CASE pc # "w_off" /\ AfterWait
    BY <1>3, <2>1, <2>4 DEF WaitForStatus, Want, AfterWait, Removed, Control, CreatePcs
  <2> QED  BY <1>3, <2>2, <2>3, <2>4 DEF WaitForStatus
<1>4. CASE CreateStep
  BY <1>4 DEF CreateStep, CreateMachine, FindBootDisk, ImageInstall, AssignIpAddresses,
     ConnectSsh, ExchangeKeys, RegisterOS, ExecuteScript, ApplyCloudInit,
     DisablePasswordSSHLogin, Configure, Request, Fail
<1>5. CASE RemoveUuid \/ DeregisterOS \/ RemoveMachine
  BY <1>5 DEF RemoveUuid, DeregisterOS, RemoveMachine, Request, Removed, Fail
<1>6. CASE NilClient \/ PowerOn \/ StopInit \/ GetState \/ GetMachineStatus \/ CheckConfig
  BY <1>6 DEF NilClient, PowerOn, StopInit, GetState, GetMachineStatus, CheckConfig, Request, Fail
<1>7. ASSUME NEW op \in Calls, Call(op)  PROVE PoweringOff'
  BY <1>7 DEF Call, Calls, Entry
<1>8. CASE Save \/ ProcessExit \/ NewHost \/ UNCHANGED vars
  BY <1>8 DEF Save, ProcessExit, NewHost, vars, driverVars, fmVars
<1>9. CASE ServiceStep
  <2>1. PICK n \in Machine : Begin(n) \/ Finish(n) \/ Break(n)
    BY <1>9 DEF ServiceStep, FmStep
  <2>2. drv.uuid # NoMachine => drv.uuid \in Machine
    BY DEF TypeOK, Fields
  <2>3. call = "restart" /\ pc \in {"s_init", "s_pon"} => drv.uuid \in Machine
    BY <2>2 DEF Identity, UuidPcs
  <2> USE <1>9, <2>2, <2>3 DEF ServiceStep, driverVars, TypeOK, FmTypeOK
  <2>4. CASE Begin(n)
    BY <2>4 DEF Begin, Move
  <2>5. CASE Finish(n)
    BY <2>5 DEF Finish, Move
  <2>6. CASE Break(n)
    BY <2>6 DEF Break
  <2> QED  BY <2>1, <2>4, <2>5, <2>6
<1> QED
  BY <1>1, <1>2, <1>3, <1>4, <1>5, <1>6, <1>7, <1>8, <1>9 DEF Next, DriverStep

---------------------------------------------------------------------------
(***************************************************************************)
(* The theorems.                                                           *)
(***************************************************************************)

LEMMA InitIInv == Init => IInv
<1> SUFFICES ASSUME Init  PROVE IInv
  OBVIOUS
<1> USE DEF Init, FmInit
<1>1. TypeOK
  BY EmptyType DEF TypeOK, FmTypeOK, Status, Order, Pcs
<1>2. Control /\ Clients /\ Configured /\ PoweringOff /\ CreateOkReady /\ CleanReport
  BY DEF Control, Clients, PanicOnlyInStop, Configured, PoweringOff, CreateOkReady, CleanReport,
     FlagsPcs, CreatePcs, RemovePcs, StartPcs, StatePcs, RequestPcs, Want
<1>3. Identity
  BY DEF Identity, UuidPcs, CreatePcs, RemovePcs, Empty
<1>4. Installation /\ Untouched /\ NoReinstall
  BY DEF Installation, Creating, Untouched, NoReinstall
<1>5. NoOrderWhenGone /\ NoForgottenMachine /\ NoLockout /\ Departure /\ LicenseReleased
  BY DEF NoOrderWhenGone, NoForgottenMachine, Live, NoLockout, Departure, Deregistered, LicenseReleased
<1> QED  BY <1>1, <1>2, <1>3, <1>4, <1>5 DEF IInv

(* IInv is inductive. *)
LEMMA IInvStep == IInv /\ [Next]_vars => IInv'
<1> SUFFICES ASSUME IInv, [Next]_vars  PROVE IInv'
  OBVIOUS
<1> USE DEF IInv
<1>1. TypeOK' /\ Control' /\ Clients' /\ Identity'
  BY TypeOKStep, ControlStep, ClientsStep, IdentityStep
<1>2. NoOrderWhenGone' /\ NoForgottenMachine' /\ CleanReport'
  BY NoOrderWhenGoneStep, NoForgottenMachineStep, CleanReportStep
<1>3. Installation' /\ Untouched' /\ NoReinstall' /\ Configured' /\ CreateOkReady' /\ NoLockout'
  BY InstallationStep, UntouchedStep, ConfiguredStep, CreateOkReadyStep
<1>4. Departure' /\ LicenseReleased' /\ PoweringOff'
  BY DepartureStep, PoweringOffStep
<1> QED  BY <1>1, <1>2, <1>3, <1>4

THEOREM Invariance == Spec => []IInv
BY InitIInv, IInvStep, PTL DEF Spec

(* Every variable of the driver and of the service stays in its range. *)
THEOREM TypeCorrect == Spec => []TypeOK
<1>1. IInv => TypeOK
  BY DEF IInv
<1> QED  BY <1>1, Invariance, PTL

(* What IInv says of each promise. *)
LEMMA PromisesFollow ==
  ASSUME IInv
  PROVE  /\ ImageBeforePowerOn /\ NoForgottenMachine /\ CleanReport /\ LicenseReleased
         /\ NoLockout /\ CreateOkReady /\ RestartGoesThroughOff /\ NoReinstall /\ OneMachine
         /\ PanicOnlyInStop
<1> USE DEF IInv
<1>1. ImageBeforePowerOn
  BY DEF Installation, Creating, ImageBeforePowerOn, Identity, UuidPcs, CreatePcs, StartPcs
<1>2. RestartGoesThroughOff
  BY DEF PoweringOff, RestartGoesThroughOff
<1>3. OneMachine
  <2> SUFFICES ASSUME NEW m \in Machine, NEW n \in Machine, Live(m), Live(n),
                      {m, n} \cap lost = {}
               PROVE  m = n
    BY DEF OneMachine
  <2>1. {m, n} \subseteq {drv.uuid, saved.uuid}
    BY DEF NoForgottenMachine
  <2> QED  BY <2>1, MachineAssumption DEF Identity
<1> QED  BY <1>1, <1>2, <1>3 DEF Clients

(* Create powers on only a machine whose system is installed. *)
THEOREM InstalledBeforePowerOn == Spec => []ImageBeforePowerOn
BY PromisesFollow, Invariance, PTL

(* A machine that stands is one the driver or its saved configuration names,
   except those whose UUID was lost: the answer to the POST did not arrive, or
   the process died before the save. *)
THEOREM NothingForgotten == Spec => []NoForgottenMachine
BY PromisesFollow, Invariance, PTL

(* A reported removal is a removal. *)
THEOREM RemovalIsReal == Spec => []CleanReport
BY PromisesFollow, Invariance, PTL

(* Nothing is unbuilt while still registered without a warning. *)
THEOREM NoSilentLicenseLoss == Spec => []LicenseReleased
BY PromisesFollow, Invariance, PTL

(* A machine without a password has the key. *)
THEOREM NeverLockedOut == Spec => []NoLockout
BY PromisesFollow, Invariance, PTL

(* A machine Create reports is complete, as far as the nil of its steps can
   vouch: the restart of cloud-init, whose nil cannot, is not part of it. *)
THEOREM CreatedIsComplete == Spec => []CreateOkReady
BY PromisesFollow, Invariance, PTL

(* A restarted machine was off. *)
THEOREM RestartIsReal == Spec => []RestartGoesThroughOff
BY PromisesFollow, Invariance, PTL

(* No installation is ordered, or begun late, on a machine worked on. *)
THEOREM NeverReinstalled == Spec => []NoReinstall
BY PromisesFollow, Invariance, PTL

(* Two machines stand only when one of them was lost. *)
THEOREM AtMostOneMachine == Spec => []OneMachine
BY PromisesFollow, Invariance, PTL

(* No call but Stop and Restart uses a client that was not made. *)
THEOREM ClientsMadeElsewhere == Spec => []PanicOnlyInStop
BY PromisesFollow, Invariance, PTL

---------------------------------------------------------------------------
(***************************************************************************)
(* Every call gets on.                                                     *)
(***************************************************************************)

(* Each step leads to one with fewer left. *)
LEMMA FewerStepsLeft ==
  ASSUME IInv, DriverStep
  PROVE  StepsLeft[pc'] < StepsLeft[pc]
<1> USE DEF Goto, Return, Fail
<1>2. CASE ExchangeKeys \/ RegisterOS \/ ExecuteScript \/ ApplyCloudInit
  BY <1>2 DEF ExchangeKeys, RegisterOS, ExecuteScript, ApplyCloudInit, Configure, StepsLeft
<1>3. CASE DisablePasswordSSHLogin \/ CreateMachine \/ AssignIpAddresses \/ ConnectSsh
  BY <1>3 DEF DisablePasswordSSHLogin, CreateMachine, AssignIpAddresses, ConnectSsh, StepsLeft,
     RemovePcs
<1>4. CASE FindBootDisk \/ ImageInstall \/ RemoveMachine \/ PowerOn \/ PowerOff \/ GracefulShutdown
  BY <1>4 DEF FindBootDisk, ImageInstall, RemoveMachine, PowerOn, PowerOff, GracefulShutdown,
     Request, StepsLeft, RemovePcs
<1>5. CASE RemoveUuid
  <2>1. pc = "r_uuid" /\ pc' \in {"idle", "r_init"}
    BY <1>5 DEF RemoveUuid, Removed
  <2> QED  BY <2>1 DEF StepsLeft
<1>11. CASE DeregisterOS
  BY <1>11 DEF DeregisterOS, StepsLeft
<1>6. CASE StopInit
  BY <1>6 DEF StopInit, StepsLeft, RemovePcs
<1>7. CASE GetState \/ GetMachineStatus \/ CheckConfig
  <2>1. pc = "g_uuid" => call = "state"
    BY DEF IInv, Control, StatePcs
  <2> QED  BY <1>7, <2>1 DEF GetState, GetMachineStatus, CheckConfig, StepsLeft
<1>8. CASE InitClientsStep
  <2>1. pc \in {"f_init", "g_init"} => call # "create"
    BY DEF IInv, Control, FlagsPcs, StatePcs
  <2> QED  BY <1>8, <2>1 DEF InitClientsStep, AfterInit, StepsLeft, RemovePcs
<1>9. CASE WaitForStatus
  <2>1. CASE Fail
    BY <1>9, <2>1 DEF WaitForStatus, Want, StepsLeft, RemovePcs
  <2>2. CASE AfterWait
    <3>1. pc \in {"w_built", "w_installing", "w_installed", "w_on", "w_off", "w_gone"}
      BY <1>9 DEF WaitForStatus, Want
    <3> USE <2>2, <3>1 DEF AfterWait, Removed
    <3>2. /\ pc = "w_built" => pc' = "c_disk"
          /\ pc = "w_installing" => pc' = "w_installed"
          /\ pc = "w_installed" => pc' = "s_init"
      OBVIOUS
    <3>3. /\ pc = "w_on" => pc' \in {"c_ip", "idle"}
          /\ pc = "w_off" => pc' \in {"s_init", "idle"}
          /\ pc = "w_gone" => pc' = "idle"
      OBVIOUS
    <3> QED  BY <3>1, <3>2, <3>3 DEF StepsLeft
  <2> QED  BY <1>9, <2>1, <2>2 DEF WaitForStatus
<1>10. CASE NilClient
  BY <1>10 DEF NilClient, RequestPcs, Want, StepsLeft
<1> QED
  BY <1>2, <1>3, <1>4, <1>5, <1>6, <1>7, <1>8, <1>9, <1>10, <1>11 DEF DriverStep, CreateStep

(* No call comes back to a step: it is over after a number of steps known
   when it begins. *)
THEOREM CallsGetOn == Spec => NoStepTwice
<1>1. IInv /\ [Next]_vars => [DriverStep => StepsLeft[pc'] < StepsLeft[pc]]_vars
  BY FewerStepsLeft
<1> QED  BY <1>1, Invariance, PTL DEF Spec, NoStepTwice

---------------------------------------------------------------------------
(***************************************************************************)
(* The driver as Rancher sees it implements NodeLifecycle.                 *)
(***************************************************************************)

AbstractNext == Lifecycle!Next
AbstractStutter == UNCHANGED <<Busy, cfg = "used", drv.uuid, Standing, Leaving, lost>>

(* A step that leaves the machines alone changes at most what the node is
   busy with. *)
LEMMA QuietMaps ==
  ASSUME (cfg = "used")' = (cfg = "used"), UNCHANGED <<drv.uuid, lost, status>>,
         Leaving' = Leaving,
         \/ Busy' = Busy
         \/ Busy # "removing" /\ Busy' = "removing"
         \/ Busy = "removing" /\ Busy' = "no"
  PROVE  AbstractNext \/ AbstractStutter
<1>1. Standing' = Standing  BY DEF Standing, Live
<1> QED
  BY <1>1 DEF AbstractNext, AbstractStutter, Lifecycle!Next, Lifecycle!Remove, Lifecycle!EndRemove

(* The order to remove the node's machine is taken, or nothing changes. *)
LEMMA OrderMaps ==
  ASSUME IInv, RemoveMachine
  PROVE  AbstractNext \/ AbstractStutter
<1> USE DEF IInv
<1>1. drv.uuid \in Machine
  BY DEF RemoveMachine, Request, TypeOK, Fields, Identity, UuidPcs, RemovePcs
<1>2. Busy = "removing" /\ Busy' \in {"removing", "no"}
  BY DEF RemoveMachine, Request, Fail, Goto, Return, Busy, RemovePcs, CreatePcs, StartPcs
<1>3. UNCHANGED <<cfg, drv, lost, status>>
  BY DEF RemoveMachine, Request, Served, AcceptDelete, TakeOrder, fmVars
<1>4. CASE UNCHANGED order
  <2>1. Leaving' = Leaving  BY <1>3, <1>4 DEF Leaving
  <2> QED  BY <1>2, <1>3, <2>1, QuietMaps
<1>5. CASE Live(drv.uuid) /\ order' = [order EXCEPT ![drv.uuid] = "remove"]
  <2>1. Leaving' = Leaving \cup {drv.uuid}
    BY <1>1, <1>3, <1>5 DEF Leaving, TypeOK, FmTypeOK
  <2>2. Standing' = Standing /\ drv.uuid \in Standing
    BY <1>1, <1>3, <1>5 DEF Standing, Live
  <2> QED
    BY <1>2, <1>3, <2>1, <2>2 DEF AbstractNext, Lifecycle!Next, Lifecycle!Order
<1> QED
  BY <1>4, <1>5 DEF RemoveMachine, Request, Served, AcceptDelete, TakeOrder, fmVars

(* The one request that builds. *)
LEMMA BuildMaps ==
  ASSUME IInv, CreateMachine
  PROVE  AbstractNext \/ AbstractStutter
<1> USE DEF IInv
<1>a. pc = "c_post" /\ call = "create" /\ UNCHANGED cfg
  BY DEF CreateMachine, Control, CreatePcs
<1>1. Busy = "creating" /\ UNCHANGED cfg
  BY <1>a DEF Busy, RemovePcs, CreatePcs
<1>b. ASSUME Fail  PROVE Busy' = "removing"
  <2>1. pc' = "r_uuid"  BY <1>a, <1>b DEF Fail, Goto, RemovePcs
  <2> QED  BY <2>1 DEF Busy, RemovePcs
<1>2. CASE Fail /\ UNCHANGED <<drv, lost, fmVars>>
  <2>1. Busy' = "removing"
    BY <1>b, <1>2
  <2>2. Leaving' = Leaving  BY <1>2 DEF Leaving, fmVars
  <2> QED  BY <1>1, <1>2, <2>1, <2>2, QuietMaps DEF fmVars
<1>3. ASSUME NEW m \in Machine, AcceptCreate(m),
             \/ Goto("w_built") /\ drv' = [drv EXCEPT !.uuid = m] /\ UNCHANGED lost
             \/ Fail /\ lost' = lost \cup {m} /\ UNCHANGED drv
      PROVE  AbstractNext
  <2>1. m \notin Standing \cup Leaving
    BY <1>3 DEF AcceptCreate, Standing, Leaving, Live, NoOrderWhenGone
  <2>2. Standing' = Standing \cup {m} /\ Leaving' = Leaving
    BY <1>3 DEF AcceptCreate, Standing, Leaving, Live, TypeOK, FmTypeOK
  <2>3. CASE Goto("w_built") /\ drv' = [drv EXCEPT !.uuid = m] /\ UNCHANGED lost
    <3>1. Busy' = "building"
      BY <1>a, <2>3 DEF Goto, Busy, RemovePcs, CreatePcs
    <3>2. drv'.uuid = m  BY <2>3 DEF TypeOK, Fields
    <3> QED
      BY <1>1, <2>1, <2>2, <2>3, <3>1, <3>2 DEF AbstractNext, Lifecycle!Next, Lifecycle!Build
  <2>4. CASE Fail /\ lost' = lost \cup {m} /\ UNCHANGED drv
    <3>1. Busy' = "removing"
      BY <1>b, <2>4
    <3> QED
      BY <1>1, <2>1, <2>2, <2>4, <3>1 DEF AbstractNext, Lifecycle!Next, Lifecycle!Build
  <2> QED  BY <1>3, <2>3, <2>4
<1> QED  BY <1>2, <1>3 DEF CreateMachine

(* What the service does on its own. *)
LEMMA ServiceMaps ==
  ASSUME IInv, ServiceStep
  PROVE  AbstractNext \/ AbstractStutter
<1> USE DEF IInv, TypeOK, FmTypeOK
<1>1. UNCHANGED <<pc, call, cfg, drv, lost>>  BY DEF ServiceStep, driverVars
<1>2. Busy' = Busy  BY <1>1 DEF Busy
<1>3. PICK m \in Machine : Begin(m) \/ Finish(m) \/ Break(m)
  BY DEF ServiceStep, FmStep
<1>4. CASE Begin(m) \/ Break(m)
  <2>1. Standing' = Standing
    BY <1>4 DEF Begin, Break, Move, Standing, Live, NoOrderWhenGone
  <2>2. Leaving' = Leaving
    BY <1>4 DEF Begin, Break, Move, Leaving, Live
  <2> QED  BY <1>1, <1>2, <2>1, <2>2 DEF AbstractStutter
<1>5. CASE Finish(m) /\ status[m] # "UNBUILDING"
  <2>1. Standing' = Standing /\ Leaving' = Leaving
    BY <1>5 DEF Finish, Move, Standing, Leaving, Live
  <2> QED  BY <1>1, <1>2, <2>1 DEF AbstractStutter
<1>6. CASE Finish(m) /\ status[m] = "UNBUILDING"
  <2>1. Standing' = Standing \ {m} /\ Leaving' = Leaving /\ m \in Standing \cap Leaving
    BY <1>6 DEF Finish, Move, Standing, Leaving, Live
  <2> QED
    BY <1>1, <1>2, <2>1 DEF AbstractNext, Lifecycle!Next, Lifecycle!Vanish
<1> QED  BY <1>3, <1>4, <1>5, <1>6

(* The process dies, and a new node begins. *)
LEMMA ExitMaps ==
  ASSUME IInv, ProcessExit \/ NewHost
  PROVE  AbstractNext \/ AbstractStutter
<1> USE DEF IInv
<1>1. Busy' = "no"
  BY DEF ProcessExit, NewHost, Busy, RemovePcs
<1>2. Standing' = Standing /\ Leaving' = Leaving
  BY DEF ProcessExit, NewHost, fmVars, Standing, Leaving, Live
<1>3. CASE ProcessExit
  <2>1. CASE saved.uuid = drv.uuid
    BY <1>1, <1>2, <1>3, <2>1 DEF ProcessExit, AbstractNext, Lifecycle!Next, Lifecycle!Crash
  <2>2. CASE saved.uuid # drv.uuid
    <3>1. saved.uuid = NoMachine  BY <2>2 DEF Identity
    <3>2. lost' = lost \cup {drv.uuid}  BY <1>3, <2>2, <3>1 DEF ProcessExit
    <3> QED
      BY <1>1, <1>2, <1>3, <2>2, <3>1, <3>2 DEF ProcessExit, AbstractNext, Lifecycle!Next, Lifecycle!Crash
  <2> QED  BY <2>1, <2>2
<1>4. CASE NewHost
  <2>1. Busy = "no"  BY <1>4 DEF NewHost, Busy, RemovePcs
  <2>2. drv.uuid \notin Standing
    BY <1>4, MachineAssumption DEF NewHost, CleanReport, Standing, Live
  <2>3. drv'.uuid = NoMachine /\ UNCHANGED lost /\ cfg' = "new"
    BY <1>4 DEF NewHost, Empty
  <2> QED
    BY <1>1, <1>2, <2>1, <2>2, <2>3 DEF AbstractNext, Lifecycle!Next, Lifecycle!Renew
<1> QED  BY <1>3, <1>4

(* The orders the driver gives to a machine that is at rest. *)
LEMMA PowerStepsMap ==
  ASSUME IInv, ImageInstall \/ PowerOn \/ PowerOff \/ GracefulShutdown
  PROVE  AbstractNext \/ AbstractStutter
<1> USE DEF IInv
<1>1. UNCHANGED <<cfg, drv, lost, status>>
  BY DEF ImageInstall, PowerOn, PowerOff, GracefulShutdown, Request, Served, AcceptInstall,
         AcceptPowerOn, AcceptPowerOff, TakeOrder, fmVars
<1>2. Leaving' = Leaving
  <2>1. \/ UNCHANGED order
        \/ /\ order[drv.uuid] = "none"
           /\ \E o \in {"install", "pon", "poff"} : order' = [order EXCEPT ![drv.uuid] = o]
    BY DEF ImageInstall, PowerOn, PowerOff, GracefulShutdown, Request, Served, AcceptInstall,
           AcceptPowerOn, AcceptPowerOff, Settled, TakeOrder, fmVars
  <2>2. \A m \in Machine : order'[m] = "remove" <=> order[m] = "remove"
    BY <2>1 DEF TypeOK, FmTypeOK
  <2> QED  BY <1>1, <2>2 DEF Leaving
<1>3. \/ Busy' = Busy
      \/ Busy # "removing" /\ Busy' = "removing"
  BY DEF ImageInstall, PowerOn, PowerOff, GracefulShutdown, Request, Fail, Goto, Return, Control,
         Busy, CreatePcs, RemovePcs, StartPcs
<1> QED  BY <1>1, <1>2, <1>3, QuietMaps

(* The steps that leave the machines alone. *)
LEMMA OtherStepsMap ==
  ASSUME IInv,
         \/ FindBootDisk \/ AssignIpAddresses \/ ConnectSsh \/ ExchangeKeys \/ RegisterOS
         \/ ExecuteScript \/ ApplyCloudInit \/ RemoveUuid \/ DeregisterOS \/ InitClientsStep
         \/ WaitForStatus \/ NilClient \/ StopInit \/ GetState \/ GetMachineStatus \/ CheckConfig
  PROVE  AbstractNext \/ AbstractStutter
<1> USE DEF IInv
<1>1. UNCHANGED <<lost, fmVars>>
  BY DEF FindBootDisk, AssignIpAddresses, ConnectSsh, ExchangeKeys, RegisterOS, ExecuteScript,
         ApplyCloudInit, Configure, RemoveUuid, DeregisterOS, InitClientsStep, WaitForStatus,
         NilClient, StopInit, GetState, GetMachineStatus, CheckConfig, Request, Served, fmVars
<1>2. drv'.uuid = drv.uuid
  BY DEF FindBootDisk, AssignIpAddresses, ConnectSsh, ExchangeKeys, RegisterOS, ExecuteScript,
         ApplyCloudInit, Configure, RemoveUuid, DeregisterOS, InitClientsStep, WaitForStatus,
         NilClient, StopInit, GetState, GetMachineStatus, CheckConfig, TypeOK, Fields
<1>3. cfg' = "used" <=> cfg = "used"
  BY DEF FindBootDisk, AssignIpAddresses, ConnectSsh, ExchangeKeys, RegisterOS, ExecuteScript,
         ApplyCloudInit, Configure, RemoveUuid, DeregisterOS, InitClientsStep, WaitForStatus,
         NilClient, StopInit, GetState, GetMachineStatus, CheckConfig, Control, FlagsPcs
<1>4. Leaving' = Leaving  BY <1>1 DEF fmVars, Leaving
<1>5. \/ Busy' = Busy
      \/ Busy # "removing" /\ Busy' = "removing"
      \/ Busy = "removing" /\ Busy' = "no"
  <2> USE DEF Fail, Goto, Return, Control, Busy, CreatePcs, RemovePcs, StartPcs
  <2>1. CASE FindBootDisk \/ AssignIpAddresses \/ ConnectSsh
    BY <2>1 DEF FindBootDisk, AssignIpAddresses, ConnectSsh, Request
  <2>2. CASE ExchangeKeys \/ RegisterOS \/ ExecuteScript \/ ApplyCloudInit
    BY <2>2 DEF ExchangeKeys, RegisterOS, ExecuteScript, ApplyCloudInit, Configure
  <2>3. CASE RemoveUuid \/ DeregisterOS
    BY <2>3 DEF RemoveUuid, DeregisterOS, Removed
  <2>4. CASE InitClientsStep
    BY <2>4 DEF InitClientsStep, AfterInit, FlagsPcs, KillPcs, StatePcs
  <2>5. CASE WaitForStatus
    BY <2>5 DEF WaitForStatus, Want, AfterWait, Removed
  <2>6. CASE NilClient
    BY <2>6 DEF NilClient, RequestPcs, Want, Clients
  <2>7. CASE StopInit \/ GetState \/ GetMachineStatus \/ CheckConfig
    BY <2>7 DEF StopInit, GetState, GetMachineStatus, CheckConfig, FlagsPcs, StatePcs
  <2> QED  BY <2>1, <2>2, <2>3, <2>4, <2>5, <2>6, <2>7
<1> QED  BY <1>1, <1>2, <1>3, <1>4, <1>5, QuietMaps DEF fmVars

(* The last step of Create: "created" is said of a machine that stands. *)
LEMMA LastStepMaps ==
  ASSUME IInv, DisablePasswordSSHLogin
  PROVE  AbstractNext \/ AbstractStutter
<1> USE DEF IInv
<1>1. UNCHANGED <<cfg, drv, lost, fmVars>> /\ pc = "c_pwoff" /\ call = "create" /\ Busy = "building"
  BY DEF DisablePasswordSSHLogin, Control, Busy, CreatePcs, RemovePcs
<1>2. Standing' = Standing /\ Leaving' = Leaving
  BY <1>1 DEF fmVars, Standing, Leaving, Live
<1>3. CASE Return("ok")
  <2>1. Busy' = "no"  BY <1>3 DEF Return, Busy, CreatePcs, RemovePcs, StartPcs
  <2>2. drv.uuid \in Machine
    BY <1>1 DEF Identity, UuidPcs, CreatePcs, TypeOK, Fields
  <2>3. drv.uuid \in Standing \ Leaving
    BY <1>1, <2>2, MachineAssumption DEF Installation, Creating, CreatePcs, Standing, Leaving, Live
  <2> QED
    BY <1>1, <1>2, <2>1, <2>3 DEF AbstractNext, Lifecycle!Next, Lifecycle!Ready
<1>4. CASE Fail
  <2>1. Busy' = "removing"  BY <1>1, <1>4 DEF Fail, Goto, Busy, CreatePcs, RemovePcs
  <2> QED  BY <1>1, <1>2, <2>1, QuietMaps DEF fmVars
<1> QED  BY <1>3, <1>4 DEF DisablePasswordSSHLogin

(* A call begins a creation, a removal, or nothing Rancher sees. *)
LEMMA CallMaps ==
  ASSUME IInv, NEW op \in Calls, Call(op)
  PROVE  AbstractNext \/ AbstractStutter
<1> USE DEF IInv
<1>1. UNCHANGED <<drv, lost, fmVars>> /\ pc = "idle" /\ Busy = "no" /\ call' = op /\ pc' = Entry[op]
  BY DEF Call, Busy, CreatePcs, RemovePcs, StartPcs
<1>2. Standing' = Standing /\ Leaving' = Leaving
  BY <1>1 DEF fmVars, Standing, Leaving, Live
<1>3. CASE op = "create"
  <2>1. Busy' = "creating"
    BY <1>1, <1>3 DEF Entry, Busy, CreatePcs, RemovePcs
  <2>2. cfg # "used" /\ cfg' = "used"
    BY <1>3 DEF Call, MayCall
  <2> QED
    BY <1>1, <1>2, <2>1, <2>2 DEF AbstractNext, Lifecycle!Next, Lifecycle!Create
<1>4. CASE op # "create"
  <2>1. Busy' \in {"no", "removing"}
    BY <1>1, <1>4 DEF Busy, RemovePcs
  <2>2. UNCHANGED cfg  BY <1>4 DEF Call
  <2> QED  BY <1>1, <1>2, <2>1, <2>2, QuietMaps DEF fmVars
<1> QED  BY <1>3, <1>4

LEMMA LifecycleInit == Init => Lifecycle!Init
<1> SUFFICES ASSUME Init  PROVE Lifecycle!Init
  OBVIOUS
<1>1. Busy = "no" /\ drv.uuid = NoMachine /\ cfg # "used" /\ lost = {}
  BY DEF Init, Busy, Empty, CreatePcs, RemovePcs, StartPcs
<1>2. Standing = {} /\ Leaving = {}
  BY DEF Init, FmInit, Standing, Leaving, Live
<1> QED  BY <1>1, <1>2 DEF Lifecycle!Init

LEMMA LifecycleStep == IInv /\ [Next]_vars => AbstractNext \/ AbstractStutter
<1> SUFFICES ASSUME IInv, [Next]_vars  PROVE AbstractNext \/ AbstractStutter
  OBVIOUS
<1>1. CASE CreateStep
  BY <1>1, BuildMaps, PowerStepsMap, OtherStepsMap, LastStepMaps DEF CreateStep
<1>2. CASE DriverStep /\ ~CreateStep
  BY <1>2, OrderMaps, PowerStepsMap, OtherStepsMap DEF DriverStep
<1>3. CASE ServiceStep  BY <1>3, ServiceMaps
<1>4. CASE \E op \in Calls : Call(op)  BY <1>4, CallMaps
<1>5. CASE ProcessExit \/ NewHost  BY <1>5, ExitMaps
<1>6. CASE Save \/ UNCHANGED vars
  BY <1>6 DEF Save, vars, driverVars, fmVars, AbstractStutter, Busy, Standing, Leaving, Live
<1> QED  BY <1>1, <1>2, <1>3, <1>4, <1>5, <1>6 DEF Next

(* Every behaviour of the driver is one NodeLifecycle allows: at most one
   machine is asked for with each configuration, only the node's own machine
   is ordered away, "created" is said of a machine that stands, and a
   configuration is given up only when its machine does not stand. *)
THEOREM Refinement == Spec => ImplementsLifecycle
<1>1. IInv /\ [Next]_vars => [Lifecycle!Next]_Lifecycle!vars
  BY LifecycleStep DEF AbstractNext, AbstractStutter, Lifecycle!vars
<1> QED
  BY <1>1, LifecycleInit, Invariance, PTL DEF Spec, ImplementsLifecycle, Lifecycle!Spec

===========================================================================
