------------------------------- MODULE Driver -------------------------------
(***************************************************************************)
(* The docker-machine driver (src/pkg/drivers/fsas/fsas.go): every call    *)
(* libmachine makes on it, step by step, against an asynchronous Fabric    *)
(* Manager, a Keycloak that may refuse to answer, and a machine reached    *)
(* over SSH.  A step is the code between two points at which the Fabric    *)
(* Manager can move or the process can die.                                *)
(***************************************************************************)
EXTENDS FabricManager, Naturals

CONSTANT
  Licensed       (* is there a SLES registration code in the configuration? *)

ASSUME LicensedAssumption == Licensed \in BOOLEAN

VARIABLES
  pc,       (* where the driver is                                         *)
  call,     (* the driver call in progress, or the last one                *)
  ret,      (* what it returned; "err2": Create failed, and so did its     *)
            (* attempt to remove what it had built                         *)
  cfg,      (* is the configuration still to be checked, checked, or has   *)
            (* Create been called with it?                                 *)
  drv,      (* the Driver's MachineUUID and IPAddress; an address is       *)
            (* named by the machine that has it                            *)
  saved,    (* the same fields in the config.json libmachine keeps         *)
  kc,       (* how far the Keycloak client of this process has come        *)
  fmc,      (* does this process have a Fabric Manager client?             *)
  ssh,      (* the host of the SSH manager of this process                 *)
  host,     (* host[m]: what was done to the operating system of m         *)
  lost,     (* (history) machines whose UUID nobody holds: the answer that *)
            (* carried it was lost, or the process died before a save      *)
  warned    (* (history) machines the driver's log reports as possibly     *)
            (* still registered                                            *)

driverVars == <<pc, call, ret, cfg, drv, saved, kc, fmc, ssh, host, lost, warned>>
vars == <<driverVars, fmVars>>

\* "metadata": the whole meta-data is on the machine; "seeded": cloud-init has
\* been restarted from it.
Facts == {"keyed", "registered", "provider", "metadata", "seeded", "pwoff"}
Calls == {"flags", "create", "remove", "start", "stop", "restart", "kill", "state"}
Fields == [uuid : Machine \cup {NoMachine}, ip : Machine \cup {NoMachine}]
Empty == [uuid |-> NoMachine, ip |-> NoMachine]

FlagsPcs   == {"f_init", "f_check"}
CreatePcs  == {"c_init", "c_post", "w_built", "c_disk", "c_install", "w_installing",
               "w_installed", "c_ip", "c_ssh", "c_keys", "c_reg", "c_script",
               "c_cloud", "c_pwoff"}
RemovePcs  == {"r_uuid", "r_init", "r_ssh", "r_delete", "w_gone"}
StartPcs   == {"s_init", "s_pon", "w_on"}
StopPcs    == {"t_init", "t_down", "w_off"}
KillPcs    == {"k_init", "k_poff", "w_off"}
StatePcs   == {"g_uuid", "g_init", "g_read"}
Pcs == FlagsPcs \cup CreatePcs \cup RemovePcs \cup StartPcs \cup StopPcs
         \cup KillPcs \cup StatePcs \cup {"idle", "panic"}

Init ==
  /\ FmInit
  /\ pc = "idle" /\ call = "none" /\ ret = "none" /\ cfg = "new"
  /\ drv = Empty /\ saved = Empty
  /\ kc = "zero" /\ fmc = FALSE /\ ssh = NoMachine
  /\ host = [m \in Machine |-> {}]
  /\ lost = {} /\ warned = {}

---------------------------------------------------------------------------
(***************************************************************************)
(* Control.                                                                *)
(***************************************************************************)

Goto(p) == pc' = p /\ UNCHANGED <<call, ret>>
Return(r) == pc' = "idle" /\ ret' = r /\ UNCHANGED call

\* An error: Create removes what it has built and reports the first error,
\* joined with the second when the removal fails too.
Fail ==
  IF call = "create"
  THEN IF pc \in RemovePcs THEN Return("err2") ELSE Goto("r_uuid")
  ELSE Return("err")

\* A nil from Remove, which in Create is the end of a failed Create.
Removed == Return(IF call = "create" THEN "err" ELSE "ok")

\* The status each waitForStatus waits for.
Want == [w_built |-> "ACTIVE_POFF", w_installing |-> "OS_INSTALLING",
         w_installed |-> "ACTIVE_POFF", w_on |-> "ACTIVE_PON",
         w_off |-> "ACTIVE_POFF", w_gone |-> "UNBUILDED"]

\* Where the call goes on when the wait is over.
AfterWait ==
  CASE pc = "w_built"      -> Goto("c_disk")
    [] pc = "w_installing" -> Goto("w_installed")
    [] pc = "w_installed"  -> Goto("s_init")
    [] pc = "w_on"   -> IF call = "create" THEN Goto("c_ip") ELSE Return("ok")
    [] pc = "w_off"  -> IF call = "restart" THEN Goto("s_init") ELSE Return("ok")
    [] pc = "w_gone" -> Removed

\* Where initClients returns to.
AfterInit == [f_init |-> "f_check", c_init |-> "c_post", r_init |-> "r_ssh",
              s_init |-> "s_pon", k_init |-> "k_poff", g_init |-> "g_read"]

---------------------------------------------------------------------------
(***************************************************************************)
(* The clients of a process.  Each is made at most once: IsInit() is a     *)
(* package variable the constructor sets, and a second call does nothing.  *)
(***************************************************************************)

\* NewFabricManagerClient may refuse its arguments.
InitFabricManager(ok) ==
  \/ ok /\ fmc' = TRUE
  \/ ~ok /\ ~fmc /\ UNCHANGED fmc

\* NewKeycloak makes the client ("built"), InitConnection logs in ("tokens")
\* and reads the privileges, UserIsAllowedToCreateCluster accepts them
\* ("ready").  Whichever fails, what was done stays, and IsInit() with it.
InitKeycloak(ok) ==
  \/ kc # "zero" /\ ok /\ UNCHANGED kc
  \/ kc = "zero" /\ ok /\ kc' = "ready"
  \/ kc = "zero" /\ ~ok /\ kc' \in {"zero", "built", "tokens"}

InitClients(ok) ==
  \/ InitKeycloak(TRUE) /\ InitFabricManager(ok)
  \/ ~ok /\ InitKeycloak(FALSE) /\ UNCHANGED fmc

InitSshManager(ok) ==
  \/ ssh # NoMachine /\ ok /\ UNCHANGED ssh
  \/ ssh = NoMachine /\ ok /\ drv.ip # NoMachine /\ ssh' = drv.ip
  \/ ssh = NoMachine /\ ~ok /\ UNCHANGED ssh

HaveClients == kc # "zero" /\ fmc

\* GetToken logs in again when it has no token that works, and passes on an
\* empty token when it cannot: then the service turns the request away.
GetToken(o) ==
  /\ kc' \in IF kc = "built" THEN {"built", "tokens"} ELSE {kc}
  /\ kc' = "built" => o = "refused"

\* The driver's step at "from", a request to the Fabric Manager with outcome
\* o and effect "effect" when accepted; it goes on at "to".
Request(from, o, effect, to) ==
  /\ pc = from /\ HaveClients
  /\ GetToken(o) /\ Served(o, effect)
  /\ IF o = "ok" THEN Goto(to) ELSE Fail

---------------------------------------------------------------------------
(***************************************************************************)
(* Steps several calls share.                                              *)
(***************************************************************************)

\* initClients, then the check on MachineUUID where the call has one.  The
\* first step of GetState and of Remove checks it before.
InitClientsStep ==
  /\ pc \in DOMAIN AfterInit
  /\ \E ok \in BOOLEAN :
       /\ InitClients(ok)
       /\ IF ok /\ (pc \in {"s_init", "k_init"} => drv.uuid # NoMachine)
          THEN Goto(AfterInit[pc]) ELSE Fail
  /\ UNCHANGED <<cfg, drv, saved, ssh, host, lost, warned, fmVars>>

\* Mutant: running out of time is not an error.
WaitForStatusLenient ==
  /\ pc \in DOMAIN Want /\ HaveClients
  /\ \/ GetToken("ok") /\ AfterWait
     \/ GetToken("refused") /\ Fail
  /\ UNCHANGED <<cfg, drv, saved, fmc, ssh, host, lost, warned, fmVars>>

\* The poll on which waitForStatus returns.  A poll that finds another status
\* sleeps and changes nothing; the poll may fail, find ERROR or be the one at
\* which the time is up in any status but the wanted one, and a GET may fail
\* in that one too.
WaitForStatus ==
  /\ pc \in DOMAIN Want /\ HaveClients
  /\ \/ /\ drv.uuid # NoMachine
        /\ status[drv.uuid] = Want[pc]
        /\ GetToken("ok") /\ AfterWait
     \/ GetToken("refused") /\ Fail
  /\ UNCHANGED <<cfg, drv, saved, fmc, ssh, host, lost, warned, fmVars>>

\* Where a client is used.  The first use of one that was never made is a
\* call on a nil one.
RequestPcs == {"f_check", "c_post", "c_disk", "c_install", "c_ip", "r_delete",
               "s_pon", "t_down", "k_poff", "g_read"} \cup DOMAIN Want

NilClient ==
  /\ pc \in RequestPcs /\ ~HaveClients
  /\ Goto("panic")
  /\ UNCHANGED <<cfg, drv, saved, kc, fmc, ssh, host, lost, warned, fmVars>>

PowerOn ==
  /\ \E o \in Outcome : Request("s_pon", o, AcceptPowerOn(drv.uuid), "w_on")
  /\ UNCHANGED <<cfg, drv, saved, fmc, ssh, host, lost, warned>>

PowerOff ==
  /\ \E o \in Outcome : Request("k_poff", o, AcceptPowerOff(drv.uuid), "w_off")
  /\ UNCHANGED <<cfg, drv, saved, fmc, ssh, host, lost, warned>>

\* Stop makes the Fabric Manager client only, and does not look at MachineUUID.
StopInit ==
  /\ pc = "t_init"
  /\ \E ok \in BOOLEAN :
       InitFabricManager(ok) /\ IF ok THEN Goto("t_down") ELSE Fail
  /\ UNCHANGED <<cfg, drv, saved, kc, ssh, host, lost, warned, fmVars>>

\* Mutant: Restart does not wait for the machine to be off.
GracefulShutdownNoWait ==
  /\ \E o \in Outcome :
       Request("t_down", o,
               IF drv.uuid = NoMachine THEN UNCHANGED fmVars ELSE AcceptPowerOff(drv.uuid),
               IF call = "restart" THEN "s_init" ELSE "w_off")
  /\ UNCHANGED <<cfg, drv, saved, fmc, ssh, host, lost, warned>>

GracefulShutdown ==
  /\ \E o \in Outcome :
       Request("t_down", o,
               IF drv.uuid = NoMachine THEN UNCHANGED fmVars ELSE AcceptPowerOff(drv.uuid),
               "w_off")
  /\ UNCHANGED <<cfg, drv, saved, fmc, ssh, host, lost, warned>>

---------------------------------------------------------------------------
(***************************************************************************)
(* GetState, SetConfigFromFlags.                                           *)
(***************************************************************************)

\* Mutant: getCdiState does not initialise the clients.
GetStateUninitialised ==
  /\ pc = "g_uuid"
  /\ IF drv.uuid = NoMachine THEN Fail ELSE Goto("g_read")
  /\ UNCHANGED <<cfg, drv, saved, kc, fmc, ssh, host, lost, warned, fmVars>>

GetState ==
  /\ pc = "g_uuid"
  /\ IF drv.uuid = NoMachine THEN Fail ELSE Goto("g_init")
  /\ UNCHANGED <<cfg, drv, saved, kc, fmc, ssh, host, lost, warned, fmVars>>

GetMachineStatus ==
  /\ pc = "g_read" /\ HaveClients
  /\ \E o \in {"ok", "refused"} : GetToken(o) /\ Return(IF o = "ok" THEN "ok" ELSE "err")
  /\ UNCHANGED <<cfg, drv, saved, fmc, ssh, host, lost, warned, fmVars>>

\* checkConfig: any mandatory flag may be missing, and the tenant is asked for.
CheckConfig ==
  /\ pc = "f_check" /\ HaveClients
  /\ \/ GetToken("ok") /\ cfg' = "checked" /\ Return("ok")
     \/ GetToken("refused") /\ UNCHANGED cfg /\ Return("err")
  /\ UNCHANGED <<drv, saved, fmc, ssh, host, lost, warned, fmVars>>

---------------------------------------------------------------------------
(***************************************************************************)
(* Create.                                                                 *)
(***************************************************************************)

\* Mutant: MachineUUID is assigned only after the machine is built.
CreateMachineUnrecorded ==
  /\ pc = "c_post" /\ HaveClients
  /\ \E m \in Machine : AcceptCreate(m)
  /\ GetToken("ok") /\ Goto("w_built")
  /\ UNCHANGED <<cfg, drv, saved, fmc, ssh, host, lost, warned>>

\* Mutant: a POST whose answer was lost is repeated.
CreateMachineAgain ==
  /\ pc = "c_post" /\ HaveClients
  /\ \/ /\ GetToken("refused") /\ Fail
        /\ UNCHANGED <<drv, lost, fmVars>>
     \/ \E m \in Machine :
          /\ AcceptCreate(m)
          /\ \/ /\ GetToken("ok") /\ Goto("w_built")
                /\ drv' = [drv EXCEPT !.uuid = m]
                /\ UNCHANGED lost
             \/ /\ GetToken("lost") /\ Goto("c_post")
                /\ lost' = lost \cup {m}
                /\ UNCHANGED drv
  /\ UNCHANGED <<cfg, saved, fmc, ssh, host, warned>>

\* POST /machines.  When the answer is lost, or carries no UUID, a machine the
\* driver knows nothing of is built.
CreateMachine ==
  /\ pc = "c_post" /\ HaveClients
  /\ \/ /\ GetToken("refused") /\ Fail
        /\ UNCHANGED <<drv, lost, fmVars>>
     \/ \E m \in Machine :
          /\ AcceptCreate(m)
          /\ \/ /\ GetToken("ok") /\ Goto("w_built")
                /\ drv' = [drv EXCEPT !.uuid = m]
                /\ UNCHANGED lost
             \/ /\ GetToken("lost") /\ Fail
                /\ lost' = lost \cup {m}
                /\ UNCHANGED drv
  /\ UNCHANGED <<cfg, saved, fmc, ssh, host, warned>>

\* The boot disk is looked for among the machine's resources.  A resource the
\* service describes incompletely, here or in AssignIpAddresses, is a nil
\* dereference (module DeviceSpec): the process ends, as in ProcessExit.
FindBootDisk ==
  /\ \E o \in {"ok", "refused"} : Request("c_disk", o, UNCHANGED fmVars, "c_install")
  /\ UNCHANGED <<cfg, drv, saved, fmc, ssh, host, lost, warned>>

\* Mutant: the wait for OS_INSTALLING is left out.
ImageInstallNoWait ==
  /\ \E o \in Outcome : Request("c_install", o, AcceptInstall(drv.uuid), "w_installed")
  /\ UNCHANGED <<cfg, drv, saved, fmc, ssh, host, lost, warned>>

ImageInstall ==
  /\ \E o \in Outcome : Request("c_install", o, AcceptInstall(drv.uuid), "w_installing")
  /\ UNCHANGED <<cfg, drv, saved, fmc, ssh, host, lost, warned>>

\* An address that is set already is kept; no lanport on the subnet is an error.
AssignIpAddresses ==
  /\ pc = "c_ip" /\ HaveClients
  /\ \/ /\ GetToken("ok") /\ Goto("c_ssh")
        /\ drv' = [drv EXCEPT !.ip = IF @ = NoMachine THEN drv.uuid ELSE @]
     \/ GetToken("refused") /\ Fail /\ UNCHANGED drv
  /\ UNCHANGED <<cfg, saved, fmc, ssh, host, lost, warned, fmVars>>

ConnectSsh ==
  /\ pc = "c_ssh"
  /\ \E ok \in BOOLEAN :
       InitSshManager(ok) /\ IF ok THEN Goto("c_keys") ELSE Fail
  /\ UNCHANGED <<cfg, drv, saved, kc, fmc, host, lost, warned, fmVars>>

\* sshd answers when the machine runs, and takes the password until it is
\* switched off, the key once it is there.
CanLogin(m) ==
  /\ status[m] = "ACTIVE_PON"
  /\ "pwoff" \in host[m] => "keyed" \in host[m]

\* A step over SSH at "from" that brings about "facts", and the rest of "all"
\* after them.  When it fails it may have brought about some of it, and when it
\* goes on all of "facts", but for the rest its nil is no proof.
Configure(from, facts, all, to) ==
  /\ pc = from
  /\ \E done \in SUBSET all :
       /\ done # {} => CanLogin(ssh)
       /\ done \subseteq facts \/ facts \subseteq done
       /\ host' = [host EXCEPT ![ssh] = @ \cup done]
       /\ \/ facts \subseteq done /\ Goto(to)
          \/ all # {} /\ Fail
  /\ UNCHANGED <<cfg, drv, saved, kc, fmc, ssh, lost, warned, fmVars>>

\* Mutants: an error of the step is logged and Create goes on.
Lenient(from, facts, to) ==
  /\ pc = from /\ Goto(to)
  /\ \E done \in SUBSET facts :
       /\ done # {} => CanLogin(ssh)
       /\ host' = [host EXCEPT ![ssh] = @ \cup done]
  /\ UNCHANGED <<cfg, drv, saved, kc, fmc, ssh, lost, warned, fmVars>>

ExchangeKeysLenient   == Lenient("c_keys", {"keyed"}, "c_reg")
ApplyCloudInitLenient == Lenient("c_cloud", {"metadata", "seeded"}, "c_pwoff")

Registration == IF Licensed THEN {"registered"} ELSE {}

ExchangeKeys  == Configure("c_keys", {"keyed"}, {"keyed"}, "c_reg")
RegisterOS    == Configure("c_reg", Registration, Registration, "c_script")
ExecuteScript == Configure("c_script", {"provider"}, {"provider"}, "c_cloud")

\* The reboot command's nil may be that of a connection cut off before it had
\* done anything: Create goes on, and no later step looks.
ApplyCloudInit == Configure("c_cloud", {"metadata"}, {"metadata", "seeded"}, "c_pwoff")

\* The last step of Create.
DisablePasswordSSHLogin ==
  /\ pc = "c_pwoff"
  /\ \E done \in SUBSET {"pwoff"} :
       /\ done # {} => CanLogin(ssh)
       /\ host' = [host EXCEPT ![ssh] = @ \cup done]
       /\ \/ done # {} /\ Return("ok")
          \/ Fail
  /\ UNCHANGED <<cfg, drv, saved, kc, fmc, ssh, lost, warned, fmVars>>

---------------------------------------------------------------------------
(***************************************************************************)
(* Remove.                                                                 *)
(***************************************************************************)

\* Mutant: nothing to remove is an error.
RemoveUuidFails ==
  /\ pc = "r_uuid"
  /\ IF drv.uuid = NoMachine THEN Fail ELSE Goto("r_init")
  /\ UNCHANGED <<cfg, drv, saved, kc, fmc, ssh, host, lost, warned, fmVars>>

\* Nothing to remove is a success: Rancher would call Remove for ever.
RemoveUuid ==
  /\ pc = "r_uuid"
  /\ IF drv.uuid = NoMachine THEN Removed ELSE Goto("r_init")
  /\ UNCHANGED <<cfg, drv, saved, kc, fmc, ssh, host, lost, warned, fmVars>>

\* Mutant: a process without an SSH manager does not make one to deregister.
DeregisterOSIfConnected ==
  /\ pc = "r_ssh" /\ Goto("r_delete")
  /\ \/ ssh = NoMachine /\ UNCHANGED <<host, warned>>
     \/ /\ ssh # NoMachine
        /\ \/ CanLogin(ssh) /\ host' = [host EXCEPT ![ssh] = @ \ {"registered"}] /\ UNCHANGED warned
           \/ UNCHANGED host /\ warned' = warned \cup {drv.uuid}
  /\ UNCHANGED <<cfg, drv, saved, kc, fmc, ssh, lost, fmVars>>

\* Whatever happens to the deregistration the removal goes on; a failure of
\* it is reported in the log.
DeregisterOS ==
  /\ pc = "r_ssh" /\ Goto("r_delete")
  /\ \/ /\ InitSshManager(FALSE)
        /\ warned' = warned \cup {drv.uuid}
        /\ UNCHANGED host
     \/ /\ InitSshManager(TRUE)
        /\ \/ /\ CanLogin(ssh')
              /\ host' = [host EXCEPT ![ssh'] = @ \ {"registered"}]
              /\ warned' \in {warned, warned \cup {drv.uuid}}
           \/ UNCHANGED host /\ warned' = warned \cup {drv.uuid}
  /\ UNCHANGED <<cfg, drv, saved, kc, fmc, lost, fmVars>>

\* Mutant: Remove does not wait for UNBUILDED.
RemoveMachineNoWait ==
  /\ pc = "r_delete" /\ HaveClients
  /\ \E o \in Outcome :
       /\ GetToken(o) /\ Served(o, AcceptDelete(drv.uuid))
       /\ IF o = "ok" THEN Removed ELSE Fail
  /\ UNCHANGED <<cfg, drv, saved, fmc, ssh, host, lost, warned>>

RemoveMachine ==
  /\ \E o \in Outcome : Request("r_delete", o, AcceptDelete(drv.uuid), "w_gone")
  /\ UNCHANGED <<cfg, drv, saved, fmc, ssh, host, lost, warned>>

---------------------------------------------------------------------------
(***************************************************************************)
(* The caller: libmachine, one driver process per command or several       *)
(* commands in one, and Rancher behind it.                                 *)
(***************************************************************************)

Entry == [flags |-> "f_init", create |-> "c_init", remove |-> "r_uuid",
          start |-> "s_init", stop |-> "t_init", restart |-> "t_init",
          kill |-> "k_init", state |-> "g_uuid"]

\* A configuration is checked before it is used, and used for one Create.
MayCall(op) ==
  CASE op = "flags"  -> cfg = "new"
    [] op = "create" -> cfg = "checked"
    [] OTHER         -> cfg # "new"

Call(op) ==
  /\ pc = "idle" /\ MayCall(op)
  /\ pc' = Entry[op] /\ call' = op /\ ret' = "none"
  /\ cfg' = IF op = "create" THEN "used" ELSE cfg
  /\ UNCHANGED <<drv, saved, kc, fmc, ssh, host, lost, warned, fmVars>>

\* libmachine writes the driver's fields to config.json between calls.
Save ==
  /\ pc = "idle" /\ cfg # "new" /\ saved # drv
  /\ saved' = drv
  /\ UNCHANGED <<pc, call, ret, cfg, drv, kc, fmc, ssh, host, lost, warned, fmVars>>

\* The process ends, or is killed, and a new one starts from config.json:
\* UnmarshalJSON restores the exported fields, the clients are gone.
ProcessExit ==
  /\ pc' = "idle" /\ call' = "none" /\ ret' = "none"
  /\ drv' = saved /\ kc' = "zero" /\ fmc' = FALSE /\ ssh' = NoMachine
  /\ lost' = lost \cup ({drv.uuid} \ {saved.uuid, NoMachine})
  /\ UNCHANGED <<cfg, saved, host, warned, fmVars>>

\* After a successful Remove the configuration is deleted; a new node starts
\* from an empty one in a process of its own.
NewHost ==
  /\ pc = "idle" /\ call = "remove" /\ ret = "ok"
  /\ pc' = "idle" /\ call' = "none" /\ ret' = "none" /\ cfg' = "new"
  /\ drv' = Empty /\ saved' = Empty
  /\ kc' = "zero" /\ fmc' = FALSE /\ ssh' = NoMachine
  /\ UNCHANGED <<host, lost, warned, fmVars>>

---------------------------------------------------------------------------

CreateStep ==
  \/ CreateMachine \/ FindBootDisk \/ ImageInstall \/ AssignIpAddresses
  \/ ConnectSsh \/ ExchangeKeys \/ RegisterOS \/ ExecuteScript
  \/ ApplyCloudInit \/ DisablePasswordSSHLogin

DriverStep ==
  \/ CreateStep
  \/ RemoveUuid \/ DeregisterOS \/ RemoveMachine
  \/ InitClientsStep \/ WaitForStatus \/ NilClient
  \/ PowerOn \/ PowerOff \/ StopInit \/ GracefulShutdown
  \/ GetState \/ GetMachineStatus \/ CheckConfig

ServiceStep == FmStep /\ UNCHANGED driverVars

Next ==
  \/ DriverStep
  \/ ServiceStep
  \/ \E op \in Calls : Call(op)
  \/ Save \/ ProcessExit \/ NewHost

Spec == Init /\ [][Next]_vars

---------------------------------------------------------------------------
(***************************************************************************)
(* What the driver promises.                                               *)
(***************************************************************************)

(* Every variable stays in its range: the call's program counter, the fields
   of the Driver struct and the statuses state.go lists. *)
TypeOK ==
  /\ FmTypeOK
  /\ pc \in Pcs
  /\ call \in Calls \cup {"none"}
  /\ ret \in {"none", "ok", "err", "err2"}
  /\ cfg \in {"new", "checked", "used"}
  /\ drv \in Fields /\ saved \in Fields
  /\ kc \in {"zero", "built", "tokens", "ready"}
  /\ fmc \in BOOLEAN
  /\ ssh \in Machine \cup {NoMachine}
  /\ host \in [Machine -> SUBSET Facts]
  /\ lost \subseteq Machine
  /\ warned \subseteq Machine

(* Create never powers on a machine whose operating system is not completely
   installed: ACTIVE_POFF is the status before the installation as well as
   after it, and only the wait for OS_INSTALLING between the two waits of
   innerCreate keeps the driver from taking one for the other. *)
ImageBeforePowerOn ==
  call = "create" /\ pc \in {"s_init", "s_pon"} => image[drv.uuid] \/ status[drv.uuid] = "ERROR"

(* A machine the fabric has built is either one the driver or libmachine can
   still name, and so remove, or one whose UUID was lost outside the driver's
   control: no error path of Create or Remove forgets it. *)
NoForgottenMachine ==
  \A m \in Machine : Live(m) => m \in {drv.uuid, saved.uuid} \cup lost

(* Remove reports success, and Create a failure without "followed by error
   during Remove", only when the machine is unbuilt or there never was one. *)
CleanReport ==
  pc = "idle" /\ <<call, ret>> \in {<<"remove", "ok">>, <<"create", "err">>}
    => drv.uuid = NoMachine \/ status[drv.uuid] = "UNBUILDED"

(* No machine goes away with its SLES registration unless the log told the
   operator so, whichever steps of Create and Remove failed before. *)
LicenseReleased ==
  \A m \in Machine :
    status[m] \in {"UNBUILDING", "UNBUILDED"} /\ "registered" \in host[m] => m \in warned

(* The password is never switched off on a machine that does not have the
   driver's key, even when a step over SSH fails halfway. *)
NoLockout ==
  \A m \in Machine : "pwoff" \in host[m] => "keyed" \in host[m]

(* When Create returns nil the machine has its image, its address is known,
   and on it are the key, the registration, the provider's script carried out,
   the whole meta-data and sshd without the password: no error of a step of
   innerCreate is swallowed.  That cloud-init was restarted from the meta-data,
   "seeded", is not promised: the nil of the reboot command does not say it. *)
CreateOkReady ==
  pc = "idle" /\ call = "create" /\ ret = "ok" =>
    /\ drv.uuid # NoMachine /\ drv.ip = drv.uuid
    /\ image[drv.uuid]
    /\ {"keyed", "provider", "metadata", "pwoff"} \subseteq host[drv.uuid]
    /\ Licensed => "registered" \in host[drv.uuid]

(* Restart powers a machine on only after it was off: a machine that is still
   running when Start is called would be reported as restarted. *)
RestartGoesThroughOff ==
  call = "restart" /\ pc \in {"s_init", "s_pon"} /\ drv.uuid # NoMachine =>
    status[drv.uuid] \in {"ACTIVE_POFF", "ERROR"}

(* The image is never installed over a machine that has been worked on, not
   even late: Create orders the installation before it does anything else, and
   no order to install is still outstanding when the machine is powered on. *)
NoReinstall ==
  \A m \in Machine : host[m] # {} => order[m] # "install" /\ status[m] # "OS_INSTALLING"

(* The driver never runs two machines: of any two that stand at least one was
   lost, however Create and Remove failed and were repeated, over successive
   configurations too. *)
OneMachine ==
  \A m, n \in Machine : Live(m) /\ Live(n) /\ {m, n} \cap lost = {} => m = n

\* How many steps a call at each step may still take, the rollback of Create
\* included.
StepsLeft ==
  [idle |-> 0, panic |-> 0, f_init |-> 2, f_check |-> 1, g_uuid |-> 3, g_init |-> 2, g_read |-> 1,
   r_uuid |-> 5, r_init |-> 4, r_ssh |-> 3, r_delete |-> 2, w_gone |-> 1,
   c_pwoff |-> 6, c_cloud |-> 7, c_script |-> 8, c_reg |-> 9, c_keys |-> 10, c_ssh |-> 11,
   c_ip |-> 12, w_on |-> 13, s_pon |-> 14, s_init |-> 15, w_installed |-> 16,
   w_installing |-> 17, c_install |-> 18, c_disk |-> 19, w_built |-> 20, c_post |-> 21,
   c_init |-> 22, w_off |-> 16, t_down |-> 17, t_init |-> 18, k_poff |-> 17, k_init |-> 18]

(* A call never comes back to a step it has left: Create asks for one machine
   and rolls back once, Remove deletes once, and every call is over after as
   many steps as StepsLeft says, whatever fails. *)
NoStepTwice == [][DriverStep => StepsLeft[pc'] < StepsLeft[pc]]_vars

(* Only Stop, and Restart through it, can reach a client that was never made:
   every other call initialises both clients before it uses one. *)
PanicOnlyInStop == pc = "panic" => call \in {"stop", "restart"}

(* What the comment in Kill and Remove says a call must do: "Fabric Manager
   needs also keycloak client then init both".  Stop does not. *)
NoPanic == pc # "panic"

(* What the comment above initKeycloak says: initialised means authenticated
   and authorised, "if not return error".  In a call made after a failed one
   it is not so. *)
ClientsReady ==
  pc \in {"f_check", "c_post", "r_ssh", "s_pon", "k_poff", "g_read"} => kc \in {"ready"}

---------------------------------------------------------------------------
(***************************************************************************)
(* What these promises rest on: together an inductive invariant.           *)
(***************************************************************************)

\* Which calls pass through which steps, and what they assume of the
\* configuration.
Control ==
  /\ pc \in FlagsPcs  => call = "flags" /\ cfg = "new"
  /\ pc \in CreatePcs => call = "create"
  /\ call = "create" => cfg = "used"
  /\ pc \in RemovePcs => call \in {"create", "remove"}
  /\ pc \in StartPcs  => call \in {"create", "start", "restart"}
  /\ pc \in {"t_init", "t_down"} => call \in {"stop", "restart"}
  /\ pc \in {"k_init", "k_poff"} => call = "kill"
  /\ pc = "w_off" => call \in {"stop", "restart", "kill"}
  /\ pc \in StatePcs => call = "state"

\* A wait comes after a request that was answered, so with a token.
Clients ==
  /\ pc \in (RequestPcs \ {"t_down"}) \cup {"r_ssh"} => HaveClients
  /\ pc \in DOMAIN Want => kc # "built"
  /\ PanicOnlyInStop

\* The steps that only a driver with a MachineUUID reaches.
UuidPcs == (CreatePcs \ {"c_init", "c_post"}) \cup (RemovePcs \ {"r_uuid"})
             \cup {"s_pon", "w_on", "k_poff"}

\* One machine for each configuration: its UUID, the address and the SSH
\* manager are all of the same machine, and so is what was saved of them.
Identity ==
  /\ cfg # "used" \/ pc \in {"c_init", "c_post"} => drv.uuid = NoMachine
  /\ pc \in UuidPcs \/ (pc = "s_init" /\ call \in {"create", "restart"}) => drv.uuid # NoMachine
  /\ pc = "c_ssh" => drv.ip = drv.uuid
  /\ pc \in {"c_keys", "c_reg", "c_script", "c_cloud", "c_pwoff"} =>
       ssh = drv.uuid /\ drv.ip = drv.uuid
  /\ saved.uuid \in {NoMachine, drv.uuid}
  /\ saved.ip \in {NoMachine, saved.uuid}
  /\ {drv.ip, ssh} \subseteq {NoMachine, drv.uuid}

\* A machine on its way out takes no orders.
NoOrderWhenGone ==
  \A m \in Machine : status[m] \in {"ABSENT", "UNBUILDING", "UNBUILDED"} => order[m] = "none"

\* Until Create gives up, its machine is not being removed, and the
\* installation is pending, in progress or done as the step says.
Creating == pc \in CreatePcs \cup StartPcs /\ call = "create"

Installation ==
  Creating /\ drv.uuid # NoMachine =>
    /\ status[drv.uuid] \notin {"ABSENT", "UNBUILDING", "UNBUILDED"}
    /\ order[drv.uuid] # "remove"
    /\ pc = "w_installing" =>
         \/ image[drv.uuid] \/ status[drv.uuid] \in {"ERROR", "OS_INSTALLING"}
         \/ status[drv.uuid] = "ACTIVE_POFF" /\ order[drv.uuid] = "install"
    /\ pc = "w_installed" => image[drv.uuid] \/ status[drv.uuid] \in {"ERROR", "OS_INSTALLING"}
    /\ pc \in StartPcs => image[drv.uuid] \/ status[drv.uuid] = "ERROR"
    /\ pc \in {"c_ip", "c_ssh", "c_keys", "c_reg", "c_script", "c_cloud", "c_pwoff"}
         => image[drv.uuid]

\* A machine is as it was built until its system is installed.
Untouched ==
  /\ \A m \in Machine : status[m] = "ABSENT" => host[m] = {}
  /\ \A m \in Machine : order[m] = "install" => status[m] \in {"ACTIVE_POFF", "ERROR"}
  /\ pc \in {"w_built", "c_disk", "c_install"} => host[drv.uuid] = {}

\* The steps of Create done so far have left their mark.
Configured ==
  /\ pc \in {"c_reg", "c_script", "c_cloud", "c_pwoff"} => "keyed" \in host[drv.uuid]
  /\ pc \in {"c_script", "c_cloud", "c_pwoff"} /\ Licensed => "registered" \in host[drv.uuid]
  /\ pc \in {"c_cloud", "c_pwoff"} => "provider" \in host[drv.uuid]
  /\ pc = "c_pwoff" => "metadata" \in host[drv.uuid]

\* A machine about to be unbuilt is deregistered, or the log says it is not.
Deregistered(m) == "registered" \in host[m] => m \in warned

Departure ==
  /\ pc \in {"r_delete", "w_gone"} => Deregistered(drv.uuid)
  /\ \A m \in Machine : order[m] = "remove" => Deregistered(m)

\* What a power-off waits for, and what a restart finds after it.
PoweringOff ==
  /\ pc = "w_off" /\ drv.uuid # NoMachine =>
       \/ status[drv.uuid] \in {"ACTIVE_PON", "ERROR"} /\ order[drv.uuid] = "poff"
       \/ status[drv.uuid] \in {"POWERING_OFF", "ACTIVE_POFF", "ERROR"} /\ order[drv.uuid] = "none"
  /\ call = "restart" /\ pc \in {"s_init", "s_pon"} =>
       \/ status[drv.uuid] = "ERROR" /\ order[drv.uuid] = "poff"
       \/ status[drv.uuid] \in {"ACTIVE_POFF", "ERROR"} /\ order[drv.uuid] = "none"

IInv ==
  /\ TypeOK /\ Control /\ Clients /\ Identity
  /\ NoOrderWhenGone /\ NoForgottenMachine /\ CleanReport
  /\ Installation /\ Untouched /\ NoReinstall
  /\ Configured /\ CreateOkReady /\ NoLockout
  /\ Departure /\ LicenseReleased /\ PoweringOff

---------------------------------------------------------------------------
(***************************************************************************)
(* Removal under failures: Rancher calls Remove again and again, and every *)
(* step of it that is tried again and again succeeds at some time.         *)
(***************************************************************************)

StepOn(p) == pc = p /\ DriverStep /\ pc' \notin {p, "panic"} /\ ret' \notin {"err", "err2"}

RemoveFairness ==
  /\ \A m \in Machine : WF_vars((Begin(m) \/ Finish(m)) /\ UNCHANGED driverVars)
  /\ WF_vars(DriverStep)
  /\ WF_vars(pc = "panic" /\ ProcessExit)
  /\ SF_vars(Call("remove"))
  /\ \A p \in RemovePcs : SF_vars(StepOn(p))

FairSpec == Spec /\ RemoveFairness

(* Whatever a failed Create left behind is gone in the end: Remove, called
   until it succeeds, does succeed, across restarts of the process. *)
RemovalCompletes ==
  call = "create" /\ ret \in {"err", "err2"} ~> call = "remove" /\ ret = "ok"

---------------------------------------------------------------------------
(***************************************************************************)
(* The driver as Rancher sees it.                                          *)
(***************************************************************************)

Busy == IF pc \in RemovePcs THEN "removing"
        ELSE IF call # "create" \/ pc \notin CreatePcs \cup StartPcs THEN "no"
        ELSE IF pc \in {"c_init", "c_post"} THEN "creating" ELSE "building"

Standing == {m \in Machine : Live(m)}
Leaving == {m \in Machine : order[m] = "remove" \/ status[m] \in {"UNBUILDING", "UNBUILDED"}}

Lifecycle == INSTANCE NodeLifecycle WITH
  busy <- Busy, used <- (cfg = "used"), machine <- drv.uuid,
  live <- Standing, leaving <- Leaving, stray <- lost

(* Every step of the driver and of the service is one Rancher may expect of a
   node: one machine for each configuration whatever is retried, no order to
   remove a machine but the node's own and only in a removal, "created" only
   for a machine that stands and is not on its way out, and no configuration
   given up while its machine stands. *)
ImplementsLifecycle == Lifecycle!Spec

===========================================================================
