------------------------------- MODULE Config -------------------------------
(***************************************************************************)
(* The driver's configuration (src/pkg/drivers/fsas/fsas.go): what the     *)
(* flags leave in the Driver struct, what checkConfig accepts, what        *)
(* libmachine keeps of it, and what UnmarshalJSON makes of that in a later *)
(* process, whose environment may name some of the settings anew.  The     *)
(* clients are made from it, once in a process.                            *)
(***************************************************************************)

CONSTANTS
  Texts,         (* what settings may say, white space apart               *)
  Given,         (* the flags customers set                                *)
  Environments,  (* the reloadable settings processes find                 *)
  Tenants        (* the tenants the services know                          *)

\* One flag stands for those that are handled alike: "image" for the compute
\* conditions and the UUID and gateway of the provision network too.  The
\* settings nothing depends on (NTP, DNS, baremetal) are left out.
Untrimmed  == {"ssh-password", "password"}
Late       == {"key", "code", "email"}
Reloadable == {"tenant", "username", "password", "url", "code", "email"}
Flag == Untrimmed \cup Late \cup Reloadable \cup {"ssh-user", "image", "port", "devices"}

\* A value is what remains of it without the white space around it, if any.
Value == [text : Texts, pad : BOOLEAN]
Plain(t) == [text |-> t, pad |-> FALSE]
Trim(v) == Plain(v.text)
Unset == Plain("unset")

ASSUME TextsAssumption == {"", "unset", "rancher", "0", "-1"} \subseteq Texts
ASSUME GivenAssumption == Given \subseteq [Flag -> Value]
ASSUME EnvironmentsAssumption == Environments \subseteq [Reloadable -> Value]
ASSUME TenantsAssumption == \A t \in Tenants : t \in Value /\ t.pad = FALSE

VARIABLES
  given,    (* the customer's flags                                        *)
  env,      (* what the process found in its environment, until            *)
            (* SetConfigFromFlags writes over it                           *)
  d,        (* the fields of the Driver                                    *)
  parsed,   (* OsImageSshHostParsedKey; {} is nil                          *)
  saved,    (* the fields libmachine keeps                                 *)
  kc,       (* what the Keycloak client was made from, if there is one     *)
  fm,       (* what the Fabric Manager client was made from                *)
  ssh,      (* the host key of the SSH manager                             *)
  pc,       (* where the process is; "down": there is none                 *)
  ret,      (* what the last step returned                                 *)
  cfg,      (* is the configuration "new", "checked", "used" for a         *)
            (* machine, or "rejected"?                                     *)
  owner,    (* (history) the tenant the machine was created for            *)
  asked,    (* (history) the tenant the last request named                 *)
  moved     (* (history) has an environment named another tenant?          *)

clients == <<kc, fm, ssh>>
history == <<owner, asked, moved>>
vars == <<given, env, d, parsed, saved, clients, pc, ret, cfg, history>>

\* NewDriver.
Fresh == [f \in Flag |-> Plain(IF f = "port" THEN "-1" ELSE "")]

NothingSet == [f \in Reloadable |-> Unset]

Init ==
  /\ given \in Given /\ env = NothingSet
  /\ d = Fresh /\ parsed = {} /\ saved = Fresh
  /\ kc = {} /\ fm = {} /\ ssh = {}
  /\ pc = "down" /\ ret = "none" /\ cfg = "new"
  /\ owner = {} /\ asked = {} /\ moved = FALSE

---------------------------------------------------------------------------
(***************************************************************************)
(* A process.                                                              *)
(***************************************************************************)

\* Mutant: the environment is not looked at.
ReloadNothing(e) == saved

\* Mutant: the tenant is read from the flag of the user's name.
ReloadSwapped(e) ==
  LET Source(f) == IF f = "tenant" THEN "username" ELSE f
  IN  [f \in Flag |-> IF f \in Reloadable /\ e[Source(f)] # Unset THEN e[Source(f)] ELSE saved[f]]

\* UnmarshalJSON: what was saved, but for the settings the environment names.
Reload(e) == [f \in Flag |-> IF f \in Reloadable /\ e[f] # Unset THEN e[f] ELSE saved[f]]

ProcessStart ==
  /\ pc = "down" /\ cfg # "rejected"
  /\ env' \in Environments /\ d' = Reload(env')
  /\ moved' = (moved \/ (cfg = "used" /\ env'.tenant \notin {Unset} \cup owner))
  /\ pc' = "idle" /\ ret' = "none"
  /\ UNCHANGED <<given, parsed, saved, clients, cfg, owner, asked>>

\* The process ends or dies; a Create that was not begun is not resumed.
ProcessExit ==
  /\ pc # "down" /\ pc' = "down" /\ ret' = "none"
  /\ kc' = {} /\ fm' = {} /\ ssh' = {} /\ parsed' = {}
  /\ cfg' = IF cfg = "used" THEN cfg ELSE "rejected"
  /\ UNCHANGED <<given, env, d, saved, history>>

Save ==
  /\ pc = "idle" /\ cfg \in {"checked", "used"} /\ saved' = d
  /\ UNCHANGED <<given, env, d, parsed, clients, pc, ret, cfg, history>>

---------------------------------------------------------------------------
(***************************************************************************)
(* The clients.                                                            *)
(***************************************************************************)

Account == [realm |-> d.tenant, username |-> d.username, password |-> d.password, url |-> d.url]

\* NewKeycloak refuses empty arguments; the tenant is the realm to log in to.
InitKeycloak(ok) ==
  \/ kc # {} /\ ok /\ UNCHANGED kc
  \/ /\ kc = {} /\ \A f \in {"tenant", "username", "password", "url"} : d[f] # Plain("")
     /\ kc' = {Account}
     /\ ok => d.tenant \in Tenants
  \/ kc = {} /\ ~ok /\ UNCHANGED kc

HasBootStorage == d.devices.text = "boot"

InitFabricManager(ok) ==
  \/ fm # {} /\ ok /\ UNCHANGED fm
  \/ fm = {} /\ ok /\ d.url # Plain("") /\ HasBootStorage
       /\ fm' = {[url |-> d.url, devices |-> d.devices]}
  \/ fm = {} /\ ~ok /\ (d.url = Plain("") \/ ~HasBootStorage) /\ UNCHANGED fm

InitClients(ok) ==
  \/ InitKeycloak(TRUE) /\ InitFabricManager(ok)
  \/ ~ok /\ InitKeycloak(FALSE) /\ UNCHANGED fm

Keys == {"ecdsa", "rsa"}

\* Mutant: an unknown kind of key is taken for an option before the key.
ParseLeniently(v) == {v.text} \ {""}

ParseSSHPublicKey(v) == {v.text} \cap Keys

\* Mutant: the key is not parsed again in a process that found it in the JSON.
HostKeyOnce == parsed

\* initSshManager parses the key again when the process has not parsed it.
HostKey == IF parsed = {} /\ d.key # Plain("") THEN ParseSSHPublicKey(d.key) ELSE parsed

\* In Create, with a machine, and in Remove.
InitSshManager ==
  /\ pc = "idle" /\ cfg = "used" /\ ssh = {}
  /\ parsed' = HostKey
  /\ \/ /\ parsed' # {} /\ d["ssh-user"] # Plain("") /\ d["ssh-password"] # Plain("")
        /\ ssh' = parsed' /\ ret' = "ok"
     \/ parsed' = {} /\ ret' = "nokey" /\ UNCHANGED ssh
  /\ UNCHANGED <<given, env, d, saved, kc, fm, pc, cfg, history>>

---------------------------------------------------------------------------
(***************************************************************************)
(* SetConfigFromFlags.                                                     *)
(***************************************************************************)

\* GetCreateFlags: what a flag that is not set has.
Default(f) ==
  CASE f \in {"ssh-user", "ssh-password"} -> Plain("rancher")
    [] f = "port" -> Plain("0")
    [] OTHER      -> Plain("")

FromFlag(f) ==
  LET v == IF given[f] = Unset THEN Default(f) ELSE given[f]
  IN  IF f \in Untrimmed THEN v ELSE Trim(v)

Reject == pc' = "idle" /\ ret' = "err" /\ cfg' = "rejected"

\* Everything but the fields that come after initClients.
SetConfigFromFlags ==
  /\ pc = "idle" /\ cfg = "new"
  /\ d' = [f \in Flag |-> IF f \in Late THEN d[f] ELSE FromFlag(f)]
  /\ env' = NothingSet /\ pc' = "clients" /\ ret' = "none"
  /\ UNCHANGED <<given, parsed, saved, clients, cfg, history>>

\* checkConfig up to the question about the tenant.
Mandatory(c) ==
  /\ \A f \in {"ssh-user", "ssh-password", "image", "devices"} : c[f] # Plain("")
  /\ c.port # Plain("-1") /\ c.devices.text = "boot"

SetLateFields ==
  /\ pc = "clients"
  /\ \/ InitClients(FALSE) /\ Reject /\ UNCHANGED d
     \/ /\ InitClients(TRUE)
        /\ d' = [f \in Flag |-> IF f \in Late THEN FromFlag(f) ELSE d[f]]
        /\ \/ Mandatory(d') /\ pc' = "tenant" /\ UNCHANGED <<ret, cfg>>
           \/ ~Mandatory(d') /\ Reject
  /\ UNCHANGED <<given, env, parsed, saved, ssh, history>>

\* Mutant: the e-mail address is checked when there is one, whatever the code.
AddressedIfGiven(c) == c.email # Plain("") => c.email.text = "mail"

\* A registration code comes with a valid e-mail address.
Addressed(c) == c.code # Plain("") => c.email.text = "mail"

\* ValidateTenant, and the checks after it.
CheckTenant ==
  /\ pc = "tenant"
  /\ \/ Reject /\ UNCHANGED parsed
     \/ /\ d.tenant \in Tenants
        /\ \/ ParseSSHPublicKey(d.key) = {} /\ Reject /\ UNCHANGED parsed
           \/ /\ ParseSSHPublicKey(d.key) # {} /\ parsed' = ParseSSHPublicKey(d.key)
              /\ \/ ~Addressed(d) /\ Reject
                 \/ Addressed(d) /\ pc' = "idle" /\ ret' = "ok" /\ cfg' = "checked"
  /\ UNCHANGED <<given, env, d, saved, clients, history>>

---------------------------------------------------------------------------
(***************************************************************************)
(* The calls after it, as far as they depend on the configuration.         *)
(***************************************************************************)

\* libmachine saves the configuration before it calls Create.
Create ==
  /\ pc = "idle" /\ cfg = "checked" /\ saved = d
  /\ cfg' = "used"
  /\ \/ ret' = "err" /\ (InitClients(TRUE) \/ InitClients(FALSE)) /\ UNCHANGED owner
     \/ ret' = "ok" /\ InitClients(TRUE) /\ owner' = {d.tenant}
  /\ UNCHANGED <<given, env, d, parsed, saved, ssh, pc, asked, moved>>

\* Any call that asks the Fabric Manager about the machine.
Request ==
  /\ pc = "idle" /\ cfg = "used" /\ owner # {}
  /\ \/ InitClients(FALSE) /\ ret' = "err" /\ UNCHANGED asked
     \/ InitClients(TRUE) /\ ret' \in {"ok", "err"} /\ asked' = {d.tenant}
  /\ UNCHANGED <<given, env, d, parsed, saved, ssh, pc, cfg, owner, moved>>

Next ==
  \/ ProcessStart \/ ProcessExit \/ Save
  \/ SetConfigFromFlags \/ SetLateFields \/ CheckTenant
  \/ Create \/ Request \/ InitSshManager

Spec == Init /\ [][Next]_vars

---------------------------------------------------------------------------

(* Every variable stays in its range, and there is at most one of each
   client. *)
TypeOK ==
  /\ given \in [Flag -> Value] /\ env \in [Reloadable -> Value]
  /\ d \in [Flag -> Value] /\ saved \in [Flag -> Value]
  /\ parsed \subseteq Keys /\ ssh \subseteq parsed
  /\ \A a, b \in kc : a = b
  /\ \A a, b \in fm : a = b
  /\ pc \in {"down", "idle", "clients", "tenant"}
  /\ ret \in {"none", "ok", "err", "nokey"}
  /\ cfg \in {"new", "checked", "used", "rejected"}
  /\ moved \in BOOLEAN

(* What SetConfigFromFlags accepts is complete, and so is what every later
   process makes of it: no setting that is mandatory is empty, the clients find
   a boot disk, and, until a process reloads it, the tenant is one the services
   know and a registration code has an address.  The port of the provision
   network is not among them: its check compares with -1, whereas a port nobody
   gave is 0 by then, so it may be missing, whatever the comment of checkConfig
   says (fsas.go:487, "Verify if mandatory flags are set"). *)
AcceptedIsComplete ==
  pc = "idle" /\ cfg \in {"checked", "used"} =>
    /\ \A f \in {"ssh-user", "ssh-password", "image"} : d[f] # Plain("")
    /\ d.devices = Plain("boot") /\ d.key.text \in Keys
    /\ cfg = "checked" => d.tenant \in Tenants /\ (d.code.text = "" \/ d.email.text = "mail")

(* Every process that has a machine can make an SSH manager, although the
   parsed key is not among what libmachine saves, and the manager accepts the
   key the customer gave and no other. *)
HostKeySurvives == ret # "nokey" /\ ssh \subseteq {given.key.text}

(* A request about the machine names the tenant the machine was created for,
   in whatever process, unless the environment of one has named another. *)
TenantIsKept == asked # {} /\ ~moved => asked = owner

(* Credentials that were changed are used: the clients of a process are made
   from the driver's fields as they are, and these from the environment where
   it names them. *)
CredentialsAreCurrent ==
  /\ \A f \in Reloadable : env[f] # Unset => d[f] = env[f]
  /\ kc \subseteq {Account}
  /\ fm \subseteq {[url |-> d.url, devices |-> d.devices]}

---------------------------------------------------------------------------
(***************************************************************************)
(* What these promises rest on: together an inductive invariant.           *)
(***************************************************************************)

\* Where a process is with which configuration.
Control ==
  /\ pc \in {"clients", "tenant"} => cfg = "new" /\ env = NothingSet
  /\ cfg = "checked" => pc = "idle"

\* Nothing is made before it is needed, nor kept when the process ends.
Lazy ==
  /\ pc = "down" \/ (cfg = "new" /\ pc # "tenant") => kc = {} /\ fm = {}
  /\ pc = "down" \/ cfg = "new" => parsed = {} /\ ssh = {}

\* The settings no environment reloads are what the customer gave.
Kept(c) ==
  /\ \A f \in {"ssh-user", "ssh-password", "image"} : c[f] # Plain("")
  /\ c.devices = Plain("boot")
  /\ c.key.text = given.key.text /\ c.key.text \in Keys

Complete ==
  /\ pc = "idle" /\ cfg \in {"checked", "used"} => Kept(d)
  /\ cfg = "used" => Kept(saved)
  /\ pc \in {"clients", "tenant"} => d.devices.pad = FALSE
  /\ pc = "tenant" => Mandatory(d) /\ d.key = FromFlag("key") /\ d.code.pad = FALSE
  /\ cfg = "checked" => d.tenant \in Tenants /\ (d.code.text = "" \/ d.email.text = "mail")
  /\ parsed \subseteq {given.key.text}

OwnTenant ==
  /\ owner # {} => cfg = "used"
  /\ owner # {} /\ ~moved =>
       /\ owner = {saved.tenant}
       /\ pc = "idle" => owner = {d.tenant}
  /\ asked # {} => owner # {}

IInv ==
  /\ TypeOK /\ Control /\ Lazy /\ Complete /\ OwnTenant
  /\ AcceptedIsComplete /\ HostKeySurvives /\ TenantIsKept /\ CredentialsAreCurrent

===========================================================================
