---------------------------- MODULE ConfigProofs ----------------------------
(***************************************************************************)
(* What becomes of a configuration, for every set of flags, environments   *)
(* and tenants.                                                            *)
(***************************************************************************)
EXTENDS Config, TLAPS

LEMMA Values ==
  /\ \A t : Plain(t).text = t /\ Plain(t).pad = FALSE
  /\ \A t \in Texts : Plain(t) \in Value
  /\ \A v \in Value : v.text \in Texts /\ Trim(v) \in Value /\ Trim(v).text = v.text
  /\ \A v : Trim(v).pad = FALSE
  /\ \A v \in Value : v.pad = FALSE => v = Plain(v.text)
  /\ Unset \in Value /\ Plain("") \in Value /\ Unset # Plain("")
<1>1. \A t : Plain(t).text = t /\ Plain(t).pad = FALSE
  BY DEF Plain
<1>2. \A t \in Texts : Plain(t) \in Value
  BY DEF Plain, Value
<1>3. \A v \in Value : v.text \in Texts
  BY DEF Value
<1>4. \A v : Trim(v) = Plain(v.text)
  BY DEF Trim
<1>5. \A v \in Value : v.pad = FALSE => v = Plain(v.text)
  BY DEF Value, Plain
<1>6. "unset" \in Texts /\ "" \in Texts
  BY TextsAssumption
<1>7. Unset = Plain("unset")
  BY DEF Unset
<1>8. Unset # Plain("")
  <2>1. Unset.text = "unset" /\ Plain("").text = ""  BY <1>1, <1>7
  <2> QED  BY <2>1
<1> QED  BY <1>1, <1>2, <1>3, <1>4, <1>5, <1>6, <1>7, <1>8

\* The names of the flags the proofs speak of.
LEMMA Names ==
  /\ Reloadable \subseteq Flag /\ Late \subseteq Flag
  /\ {"ssh-user", "ssh-password", "image", "devices", "port", "key", "code", "email",
      "tenant", "username", "password", "url"} \subseteq Flag
  /\ {"ssh-user", "ssh-password", "image", "devices", "key"} \cap Reloadable = {}
  /\ {"key", "code", "email"} \subseteq Late
  /\ {"ssh-user", "ssh-password", "image", "devices", "port", "tenant", "username", "password", "url"}
       \cap Late = {}
  /\ {"devices", "key", "code", "tenant"} \cap Untrimmed = {}
  /\ {"tenant", "username", "password", "url"} \subseteq Reloadable
BY DEF Reloadable, Late, Untrimmed, Flag

(* FromFlag, the value a flag leaves in its field, is a value; all but the
   passwords are trimmed, and a key that parses is the one that was given. *)
LEMMA FlagValue ==
  ASSUME given \in [Flag -> Value]
  PROVE  /\ \A f \in Flag : FromFlag(f) \in Value
         /\ \A f \in Flag \ Untrimmed : FromFlag(f).pad = FALSE
         /\ FromFlag("key").text \in Keys => FromFlag("key").text = given.key.text
<1>1. \A f \in Flag : Default(f) \in Value
  <2>1. "rancher" \in Texts /\ "0" \in Texts /\ "" \in Texts  BY TextsAssumption
  <2>2. \A f \in Flag : Default(f) = Plain("rancher") \/ Default(f) = Plain("0") \/ Default(f) = Plain("")
    BY DEF Default
  <2>3. Plain("rancher") \in Value /\ Plain("0") \in Value /\ Plain("") \in Value
    BY <2>1, Values
  <2> QED  BY <2>2, <2>3
<1>2. \A f \in Flag : (IF given[f] = Unset THEN Default(f) ELSE given[f]) \in Value
  BY <1>1
<1>3. \A f \in Flag : FromFlag(f) \in Value
  BY <1>2, Values DEF FromFlag
<1>4. \A f \in Flag \ Untrimmed : FromFlag(f).pad = FALSE
  BY Values DEF FromFlag
<1>5. ASSUME FromFlag("key").text \in Keys PROVE FromFlag("key").text = given.key.text
  <2>1. "key" \in Flag /\ "key" \notin Untrimmed  BY Names
  <2>2. CASE given["key"] = Unset
    <3>1. FromFlag("key") = Trim(Default("key"))  BY <2>1, <2>2 DEF FromFlag
    <3>2. Default("key") = Plain("")  BY DEF Default
    <3>3. Trim(Plain("")).text = Plain("").text  BY Values
    <3>4. FromFlag("key").text = ""  BY <3>1, <3>2, <3>3, Values
    <3> QED  BY <3>4, <1>5 DEF Keys
  <2>3. CASE given["key"] # Unset
    <3>1. FromFlag("key") = Trim(given["key"])  BY <2>1, <2>3 DEF FromFlag
    <3> QED  BY <2>1, <3>1, Values
  <2> QED  BY <2>2, <2>3
<1> QED  BY <1>3, <1>4, <1>5

(* Reload changes the settings the environment names, and no other. *)
LEMMA Reloaded ==
  ASSUME saved \in [Flag -> Value], NEW e \in Environments
  PROVE  /\ e \in [Reloadable -> Value]
         /\ Reload(e) \in [Flag -> Value]
         /\ \A f \in Flag \ Reloadable : Reload(e)[f] = saved[f]
         /\ \A f \in Reloadable : Reload(e)[f] = IF e[f] # Unset THEN e[f] ELSE saved[f]
<1>1. e \in [Reloadable -> Value]  BY EnvironmentsAssumption
<1> QED  BY <1>1, Names DEF Reload

LEMMA Start == Init => IInv
<1> SUFFICES ASSUME Init PROVE IInv
  OBVIOUS
<1>1. given \in [Flag -> Value]  BY GivenAssumption DEF Init
<1>2. NothingSet \in [Reloadable -> Value] /\ \A f \in Reloadable : NothingSet[f] = Unset
  BY Values DEF NothingSet
<1>3. Fresh \in [Flag -> Value]
  <2>1. "-1" \in Texts /\ "" \in Texts  BY TextsAssumption
  <2>2. Plain("-1") \in Value /\ Plain("") \in Value  BY <2>1, Values
  <2> QED  BY <2>2 DEF Fresh
<1>4. TypeOK  BY <1>1, <1>2, <1>3 DEF Init, TypeOK
<1> QED
  BY <1>2, <1>4 DEF Init, IInv, Control, Lazy, Complete, OwnTenant, AcceptedIsComplete,
                    HostKeySurvives, TenantIsKept, CredentialsAreCurrent

---------------------------------------------------------------------------
(***************************************************************************)
(* Each step preserves the invariant.                                      *)
(***************************************************************************)

LEMMA StartPreserves == ASSUME IInv, ProcessStart PROVE IInv'
<1> USE DEF ProcessStart, clients
<1>1. PICK e \in Environments : env' = e /\ d' = Reload(e)
  OBVIOUS
<1>2. saved \in [Flag -> Value] /\ given \in [Flag -> Value]  BY DEF IInv, TypeOK
<1>3. /\ env' \in [Reloadable -> Value] /\ d' \in [Flag -> Value]
      /\ \A f \in Flag \ Reloadable : d'[f] = saved[f]
      /\ \A f \in Reloadable : d'[f] = IF env'[f] # Unset THEN env'[f] ELSE saved[f]
  BY <1>1, <1>2, Reloaded
<1>4. moved' \in BOOLEAN  OBVIOUS
<1>5. kc = {} /\ fm = {} /\ ssh = {} /\ parsed = {}
  BY DEF IInv, Lazy
<1>6. cfg \in {"new", "used"} /\ cfg' = cfg
  BY DEF IInv, TypeOK, Control
<1>7. cfg = "used" => Kept(saved) /\ Kept(d')
  BY <1>3, Names DEF IInv, Complete, Kept
<1>8. TypeOK'
  BY <1>2, <1>3, <1>4, <1>5, <1>6 DEF IInv, TypeOK
<1>9. Control' /\ Lazy'
  BY <1>5, <1>6 DEF Control, Lazy
<1>10. Complete' /\ AcceptedIsComplete' /\ HostKeySurvives'
  BY <1>5, <1>6, <1>7 DEF IInv, Complete, AcceptedIsComplete, Kept, HostKeySurvives
<1>11. OwnTenant' /\ TenantIsKept'
  <2>1. owner' = owner /\ asked' = asked  OBVIOUS
  <2>2. ~moved' => ~moved /\ (cfg = "used" => env'.tenant \in {Unset} \cup owner)
    OBVIOUS
  <2>3. owner # {} /\ ~moved' => owner = {saved.tenant} /\ owner = {d'.tenant}
    BY <1>3, <2>2, Names DEF IInv, OwnTenant
  <2> QED  BY <2>1, <2>2, <2>3, <1>6 DEF IInv, OwnTenant, TenantIsKept
<1>12. CredentialsAreCurrent'
  BY <1>3, <1>5 DEF CredentialsAreCurrent
<1> QED  BY <1>8, <1>9, <1>10, <1>11, <1>12 DEF IInv

LEMMA ExitPreserves == ASSUME IInv, ProcessExit PROVE IInv'
<1> USE DEF ProcessExit, history
<1>1. cfg' \in {"used", "rejected"} /\ (cfg' = "used" <=> cfg = "used")
  OBVIOUS
<1>2. TypeOK'  BY <1>1 DEF IInv, TypeOK
<1>3. Control' /\ Lazy'  BY <1>1 DEF Control, Lazy
<1>4. Complete' /\ AcceptedIsComplete' /\ HostKeySurvives'
  BY <1>1 DEF IInv, Complete, AcceptedIsComplete, HostKeySurvives, Kept
<1>5. OwnTenant' /\ TenantIsKept'  BY <1>1 DEF IInv, OwnTenant, TenantIsKept
<1>6. CredentialsAreCurrent'  BY DEF IInv, CredentialsAreCurrent
<1> QED  BY <1>2, <1>3, <1>4, <1>5, <1>6 DEF IInv

LEMMA SavePreserves == ASSUME IInv, Save PROVE IInv'
<1> USE DEF Save, clients, history
<1>1. TypeOK'  BY DEF IInv, TypeOK
<1>2. Control' /\ Lazy'  BY DEF IInv, Control, Lazy, NothingSet
<1>3. Complete' /\ AcceptedIsComplete' /\ HostKeySurvives'
  BY DEF IInv, Complete, AcceptedIsComplete, HostKeySurvives, Kept, Mandatory, FromFlag
<1>4. OwnTenant' /\ TenantIsKept'  BY DEF IInv, OwnTenant, TenantIsKept
<1>5. CredentialsAreCurrent'  BY DEF IInv, CredentialsAreCurrent, Account
<1> QED  BY <1>1, <1>2, <1>3, <1>4, <1>5 DEF IInv

LEMMA FlagsPreserve == ASSUME IInv, SetConfigFromFlags PROVE IInv'
<1> USE DEF SetConfigFromFlags, clients, history
<1>1. given \in [Flag -> Value] /\ d \in [Flag -> Value]  BY DEF IInv, TypeOK
<1>2. d' \in [Flag -> Value] /\ \A f \in Flag \ Late : d'[f] = FromFlag(f)
  BY <1>1, FlagValue
<1>3. d'.devices.pad = FALSE
  BY <1>1, <1>2, FlagValue, Names
<1>4. env' \in [Reloadable -> Value] /\ \A f \in Reloadable : env'[f] = Unset
  BY Values DEF NothingSet
<1>5. kc = {} /\ fm = {} /\ ssh = {} /\ parsed = {}
  BY DEF IInv, Lazy
<1>6. TypeOK'  BY <1>1, <1>2, <1>4, <1>5 DEF IInv, TypeOK
<1>7. Control' /\ Lazy'  BY <1>5 DEF IInv, Control, Lazy, NothingSet
<1>8. Complete' /\ AcceptedIsComplete' /\ HostKeySurvives'
  BY <1>3, <1>5 DEF IInv, Complete, AcceptedIsComplete, HostKeySurvives
<1>9. OwnTenant' /\ TenantIsKept'  BY DEF IInv, OwnTenant, TenantIsKept
<1>10. CredentialsAreCurrent'  BY <1>4, <1>5 DEF CredentialsAreCurrent
<1> QED  BY <1>6, <1>7, <1>8, <1>9, <1>10 DEF IInv

(* initClients leaves one client of each kind at most, made from the driver's
   fields as they are. *)
LEMMA ClientsMade ==
  ASSUME IInv, NEW ok \in BOOLEAN, InitClients(ok)
  PROVE  /\ \A a, b \in kc' : a = b
         /\ \A a, b \in fm' : a = b
         /\ kc' \subseteq {Account}
         /\ fm' \subseteq {[url |-> d.url, devices |-> d.devices]}
<1>1. kc' = kc \/ kc' = {Account}
  BY DEF InitClients, InitKeycloak
<1>2. fm' = fm \/ fm' = {[url |-> d.url, devices |-> d.devices]}
  BY DEF InitClients, InitFabricManager
<1> QED  BY <1>1, <1>2 DEF IInv, TypeOK, CredentialsAreCurrent

LEMMA LatePreserves == ASSUME IInv, SetLateFields PROVE IInv'
<1> USE DEF SetLateFields, history
<1>1. given \in [Flag -> Value] /\ d \in [Flag -> Value]  BY DEF IInv, TypeOK
<1>2. \E ok \in BOOLEAN : InitClients(ok)  OBVIOUS
<1>3. /\ \A a, b \in kc' : a = b
      /\ \A a, b \in fm' : a = b
      /\ kc' \subseteq {Account}
      /\ fm' \subseteq {[url |-> d.url, devices |-> d.devices]}
  BY <1>2, ClientsMade
<1>4. d' \in [Flag -> Value] /\ \A f \in Flag \ Late : d'[f] = d[f]
  BY <1>1, FlagValue
<1>5. cfg = "new" /\ parsed = {} /\ ssh = {} /\ parsed' = {} /\ ssh' = {} /\ pc = "clients"
  BY DEF IInv, Control, Lazy
<1>6. \/ pc' = "idle" /\ cfg' = "rejected" /\ ret' = "err"
      \/ /\ pc' = "tenant" /\ cfg' = "new" /\ ret' = ret /\ Mandatory(d')
         /\ d' = [f \in Flag |-> IF f \in Late THEN FromFlag(f) ELSE d[f]]
  BY <1>5 DEF Reject
<1>7. TypeOK'  BY <1>1, <1>3, <1>4, <1>5, <1>6 DEF IInv, TypeOK
<1>8. Control' /\ Lazy'  BY <1>5, <1>6 DEF IInv, Control, Lazy, NothingSet
<1>9. Complete'
  <2>1. d'.devices.pad = FALSE
    BY <1>4, <1>5, Names DEF IInv, Complete
  <2>2. pc' = "tenant" => d'.key = FromFlag("key") /\ d'.code = FromFlag("code")
    BY <1>6, Names
  <2>3. pc' = "tenant" => d'.code.pad = FALSE
    BY <1>1, <2>2, FlagValue, Names
  <2>4. FromFlag("key")' = FromFlag("key")  BY DEF FromFlag
  <2>5. cfg' \in {"new", "rejected"} /\ (pc' = "idle" => cfg' = "rejected")  BY <1>6
  <2>6. pc' = "tenant" => Mandatory(d')  BY <1>6
  <2> QED  BY <1>5, <2>1, <2>2, <2>3, <2>4, <2>5, <2>6 DEF Complete, Mandatory
<1>10. AcceptedIsComplete' /\ HostKeySurvives'
  BY <1>5, <1>6 DEF IInv, AcceptedIsComplete, HostKeySurvives
<1>11. OwnTenant' /\ TenantIsKept'  BY <1>5 DEF IInv, OwnTenant, TenantIsKept
<1>12. CredentialsAreCurrent'
  <2>1. d'.url = d.url /\ d'.devices = d.devices /\ d'.tenant = d.tenant
          /\ d'.username = d.username /\ d'.password = d.password
    BY <1>4, Names
  <2>2. Account' = Account  BY <2>1 DEF Account
  <2>3. \A f \in Reloadable : env'[f] = Unset
    BY <1>5 DEF IInv, Control, NothingSet
  <2> QED  BY <1>3, <2>1, <2>2, <2>3 DEF CredentialsAreCurrent
<1> QED  BY <1>7, <1>8, <1>9, <1>10, <1>11, <1>12 DEF IInv

(* checkConfig accepts only a configuration that is complete. *)
LEMMA TenantPreserves == ASSUME IInv, CheckTenant PROVE IInv'
<1> USE DEF CheckTenant, clients, history
<1>1. given \in [Flag -> Value] /\ d \in [Flag -> Value]  BY DEF IInv, TypeOK
<1>2. /\ cfg = "new" /\ pc = "tenant" /\ ssh = {} /\ parsed = {}
      /\ d' = d /\ given' = given /\ env' = env /\ saved' = saved
      /\ Mandatory(d) /\ d.key = FromFlag("key") /\ d.code.pad = FALSE /\ d.devices.pad = FALSE
  BY DEF IInv, Control, Lazy, Complete
<1>3. /\ pc' = "idle" /\ (parsed' = {} \/ parsed' = {d.key.text} \cap Keys)
      /\ \/ cfg' = "rejected" /\ ret' = "err"
         \/ cfg' = "checked" /\ ret' = "ok" /\ d.tenant \in Tenants /\ parsed' # {} /\ Addressed(d)
  BY <1>2 DEF Reject, ParseSSHPublicKey
<1>4. parsed' # {} => d.key.text \in Keys /\ parsed' = {d.key.text} /\ d.key.text = given.key.text
  BY <1>1, <1>2, <1>3, FlagValue
<1>5. TypeOK'  BY <1>2, <1>3 DEF IInv, TypeOK
<1>6. Control' /\ Lazy'  BY <1>2, <1>3 DEF Control, Lazy
<1>7. cfg' = "checked" => Kept(d)
  <2>1. d.devices \in Value /\ d.devices.text = "boot" /\ d.devices.pad = FALSE
    BY <1>1, <1>2, Names DEF Mandatory
  <2>2. d.devices = Plain("boot")  BY <2>1, Values
  <2> QED  BY <1>2, <1>3, <1>4, <2>2 DEF Mandatory, Kept
<1>8. cfg' = "checked" => d.tenant \in Tenants /\ (d.code.text = "" \/ d.email.text = "mail")
  <2>1. d.code \in Value /\ d.code.pad = FALSE  BY <1>1, <1>2, Names
  <2>2. d.code = Plain("") => d.code.text = ""  BY Values
  <2> QED  BY <1>3, <2>2 DEF Addressed
<1>9. Complete'
  BY <1>2, <1>3, <1>4, <1>7, <1>8 DEF Complete, Kept
<1>10. AcceptedIsComplete' /\ HostKeySurvives'
  BY <1>2, <1>3, <1>7, <1>8 DEF AcceptedIsComplete, HostKeySurvives, Kept
<1>11. OwnTenant' /\ TenantIsKept'  BY <1>2, <1>3 DEF IInv, OwnTenant, TenantIsKept
<1>12. CredentialsAreCurrent'  BY <1>2 DEF IInv, CredentialsAreCurrent, Account
<1> QED  BY <1>5, <1>6, <1>9, <1>10, <1>11, <1>12 DEF IInv

LEMMA CreatePreserves == ASSUME IInv, Create PROVE IInv'
<1> USE DEF Create
<1>1. \E ok \in BOOLEAN : InitClients(ok)  OBVIOUS
<1>2. /\ \A a, b \in kc' : a = b
      /\ \A a, b \in fm' : a = b
      /\ kc' \subseteq {Account}
      /\ fm' \subseteq {[url |-> d.url, devices |-> d.devices]}
  BY <1>1, ClientsMade
<1>3. /\ pc = "idle" /\ cfg = "checked" /\ cfg' = "used" /\ saved = d /\ d' = d /\ saved' = saved
      /\ given' = given /\ env' = env /\ parsed' = parsed /\ ssh' = ssh /\ pc' = pc
      /\ asked' = asked /\ moved' = moved /\ ret' \in {"ok", "err"}
  OBVIOUS
<1>4. owner = {} /\ asked = {} /\ owner' \in {{}, {d.tenant}}
  BY <1>3 DEF IInv, OwnTenant
<1>5. Kept(d)  BY <1>3 DEF IInv, Complete
<1>6. TypeOK'  BY <1>2, <1>3 DEF IInv, TypeOK
<1>7. Control' /\ Lazy'  BY <1>3 DEF Control, Lazy
<1>8. Complete' /\ AcceptedIsComplete' /\ HostKeySurvives'
  BY <1>3, <1>5 DEF IInv, Complete, AcceptedIsComplete, HostKeySurvives, Kept
<1>9. OwnTenant' /\ TenantIsKept'  BY <1>3, <1>4 DEF OwnTenant, TenantIsKept
<1>10. CredentialsAreCurrent'  BY <1>2, <1>3 DEF IInv, CredentialsAreCurrent, Account
<1> QED  BY <1>6, <1>7, <1>8, <1>9, <1>10 DEF IInv

LEMMA RequestPreserves == ASSUME IInv, Request PROVE IInv'
<1> USE DEF Request
<1>1. \E ok \in BOOLEAN : InitClients(ok)  OBVIOUS
<1>2. /\ \A a, b \in kc' : a = b
      /\ \A a, b \in fm' : a = b
      /\ kc' \subseteq {Account}
      /\ fm' \subseteq {[url |-> d.url, devices |-> d.devices]}
  BY <1>1, ClientsMade
<1>3. /\ pc = "idle" /\ cfg = "used" /\ cfg' = cfg /\ d' = d /\ saved' = saved
      /\ given' = given /\ env' = env /\ parsed' = parsed /\ ssh' = ssh /\ pc' = pc
      /\ owner' = owner /\ moved' = moved /\ ret' \in {"ok", "err"} /\ owner # {}
      /\ (asked' = asked \/ asked' = {d.tenant})
  OBVIOUS
<1>4. TypeOK'  BY <1>2, <1>3 DEF IInv, TypeOK
<1>5. Control' /\ Lazy'  BY <1>3 DEF IInv, Control, Lazy
<1>6. Complete' /\ AcceptedIsComplete' /\ HostKeySurvives'
  BY <1>3 DEF IInv, Complete, AcceptedIsComplete, HostKeySurvives, Kept
<1>7. OwnTenant' /\ TenantIsKept'  BY <1>3 DEF IInv, OwnTenant, TenantIsKept
<1>8. CredentialsAreCurrent'  BY <1>2, <1>3 DEF IInv, CredentialsAreCurrent, Account
<1> QED  BY <1>4, <1>5, <1>6, <1>7, <1>8 DEF IInv

(* The host key that is parsed again is the one that was accepted. *)
LEMMA SshPreserves == ASSUME IInv, InitSshManager PROVE IInv'
<1> USE DEF InitSshManager, history
<1>1. /\ pc = "idle" /\ cfg = "used" /\ ssh = {} /\ parsed' = HostKey
      /\ given' = given /\ env' = env /\ d' = d /\ saved' = saved /\ kc' = kc /\ fm' = fm
      /\ pc' = pc /\ cfg' = cfg /\ owner' = owner /\ asked' = asked /\ moved' = moved
  OBVIOUS
<1>2. Kept(d) /\ parsed \subseteq {given.key.text} /\ parsed \subseteq Keys
  BY <1>1 DEF IInv, Complete, TypeOK
<1>3. d.key # Plain("")
  <2>1. Plain("").text = ""  BY Values
  <2>2. d.key.text # ""  BY <1>2 DEF Kept, Keys
  <2> QED  BY <2>1, <2>2
<1>4. parsed' = {given.key.text} /\ parsed' \subseteq Keys
  BY <1>1, <1>2, <1>3 DEF HostKey, ParseSSHPublicKey, Kept
<1>5. ret' = "ok" /\ ssh' = parsed'
  BY <1>4
<1>6. TypeOK'  BY <1>1, <1>4, <1>5 DEF IInv, TypeOK
<1>7. Control' /\ Lazy'  BY <1>1 DEF IInv, Control, Lazy
<1>8. Complete' /\ AcceptedIsComplete' /\ HostKeySurvives'
  BY <1>1, <1>2, <1>4, <1>5 DEF IInv, Complete, AcceptedIsComplete, HostKeySurvives, Kept
<1> HIDE DEF InitSshManager
<1>9. OwnTenant' /\ TenantIsKept'  BY <1>1 DEF IInv, OwnTenant, TenantIsKept
<1>10. CredentialsAreCurrent'  BY <1>1 DEF IInv, CredentialsAreCurrent, Account
<1> QED  BY <1>6, <1>7, <1>8, <1>9, <1>10 DEF IInv

LEMMA StutterPreserves == ASSUME IInv, UNCHANGED vars PROVE IInv'
<1> USE DEF vars, clients, history
<1>1. TypeOK' /\ Control' /\ Lazy'  BY DEF IInv, TypeOK, Control, Lazy, NothingSet
<1>2. Complete' /\ AcceptedIsComplete' /\ HostKeySurvives'
  BY DEF IInv, Complete, AcceptedIsComplete, HostKeySurvives, Kept, Mandatory, FromFlag
<1>3. OwnTenant' /\ TenantIsKept' /\ CredentialsAreCurrent'
  BY DEF IInv, OwnTenant, TenantIsKept, CredentialsAreCurrent, Account
<1> QED  BY <1>1, <1>2, <1>3 DEF IInv

---------------------------------------------------------------------------

(* Whatever the processes do in whatever order: the invariant holds. *)
THEOREM Invariance == Spec => []IInv
<1>1. IInv /\ [Next]_vars => IInv'
  BY StartPreserves, ExitPreserves, SavePreserves, FlagsPreserve, LatePreserves,
     TenantPreserves, CreatePreserves, RequestPreserves, SshPreserves, StutterPreserves DEF Next
<1> QED  BY Start, <1>1, PTL DEF Spec

(* Every variable of the configuration stays in its range. *)
THEOREM TypeCorrect == Spec => []TypeOK
<1>1. IInv => TypeOK  BY DEF IInv
<1> QED  BY Invariance, <1>1, PTL

(* What SetConfigFromFlags accepts, and what later processes make of it,
   misses no mandatory setting. *)
THEOREM Accepted == Spec => []AcceptedIsComplete
<1>1. IInv => AcceptedIsComplete  BY DEF IInv
<1> QED  BY Invariance, <1>1, PTL

(* Every process that has a machine can log in to it with the key the customer
   gave, although the parsed key is not saved. *)
THEOREM HostKeyKept == Spec => []HostKeySurvives
<1>1. IInv => HostKeySurvives  BY DEF IInv
<1> QED  BY Invariance, <1>1, PTL

(* Requests name the tenant of the machine, unless an environment named
   another. *)
THEOREM TenantKept == Spec => []TenantIsKept
<1>1. IInv => TenantIsKept  BY DEF IInv
<1> QED  BY Invariance, <1>1, PTL

(* The clients of a process are made from the settings that hold in it. *)
THEOREM Credentials == Spec => []CredentialsAreCurrent
<1>1. IInv => CredentialsAreCurrent  BY DEF IInv
<1> QED  BY Invariance, <1>1, PTL

===========================================================================
