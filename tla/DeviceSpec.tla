----------------------------- MODULE DeviceSpec -----------------------------
(***************************************************************************)
(* What becomes of the devices a customer asks for: the client that looks  *)
(* for a boot disk among them, the request they are sent in, the machine   *)
(* the Fabric Manager builds, the disk that is found in it again, by its   *)
(* conditions, and gets the operating system, and the labels of its GPUs.  *)
(* Driver takes each of these steps as one that succeeds or fails.         *)
(***************************************************************************)
EXTENDS Integers, Sequences

CONSTANTS
  Devices,       (* the device specifications customers write              *)
  Lists,         (* the condition lists in them                            *)
  Baremetal      (* the values of NetworkBaremetalUUID; "" is none         *)

\* The condition lists; a spec is a set of at most one, {} being a nil
\* pointer.  num, min and max are 0 when they are left out; nothing checks num.
Resource(lists) ==
  [type : {"storage", "gpu", "null"},
   res_spec : {{}} \cup {{l} : l \in lists}, res_spcec : {{}} \cup {{l} : l \in lists},
   tag : {"nil", "no", "yes"}, num : Int, min : Int, max : Int]

ASSUME DevicesAssumption == Devices \subseteq Seq(Resource(Lists))

VARIABLES
  cfg,      (* the configuration: see Init                                 *)
  pc,       (* the step of the driver, or how it ended                     *)
  boot,     (* bootStorageCondition, as a spec                             *)
  machine,  (* the resources of the machine at the Fabric Manager          *)
  gone,     (* has somebody removed the machine behind the driver's back?  *)
  ssd,      (* the boot disk GetMachineDetails returned last, if any        *)
  image,    (* the resources the image is installed on                     *)
  address,  (* IPAddress and PrivateIPAddress, by lanport index; 0: none   *)
  labels    (* the GPU labels the node's kubelet starts with               *)

vars == <<cfg, pc, boot, machine, gone, ssd, image, address, labels>>

Ends == {"done", "error", "nodisk", "panic"}
Steps == {"client", "check", "create", "disk", "install", "address", "labels"}

Init ==
  /\ cfg \in [devices : Devices, json : {"valid", "broken"},
              compute : {"valid", "broken"}, baremetal : Baremetal]
  /\ pc = "client" /\ boot = {} /\ machine = {} /\ gone = FALSE /\ ssd = {}
  /\ image = {} /\ address = [public |-> 0, private |-> 0] /\ labels = {}

---------------------------------------------------------------------------
(***************************************************************************)
(* Reading the specification.                                              *)
(***************************************************************************)

\* UnmarshalJSON: the misspelt field wins when it is there.
SpecOf(r) == IF r.res_spcec # {} THEN r.res_spcec ELSE r.res_spec

\* The specification is parsed again and again, with the same result.  Null is
\* a resource that Resource.UnmarshalJSON cannot dereference.
Parsed == cfg.json = "valid" /\ \A i \in DOMAIN cfg.devices : cfg.devices[i].type # "null"

BootStorage ==
  {i \in DOMAIN cfg.devices : cfg.devices[i].type = "storage" /\ cfg.devices[i].tag = "yes"}

\* Mutant: no spec is taken for no conditions.
DerefNil(spec, next) == pc' = next

Deref(spec, next) == pc' = IF spec = {} THEN "panic" ELSE next

\* NewFabricManagerClient, with getBootStorageCondition: the first one counts.
NewFabricManagerClient ==
  /\ pc = "client"
  /\ \/ cfg.json = "broken" /\ pc' = "error" /\ UNCHANGED boot
     \/ cfg.json = "valid" /\ ~Parsed /\ pc' = "panic" /\ UNCHANGED boot
     \/ Parsed /\ BootStorage = {} /\ pc' = "error" /\ UNCHANGED boot
     \/ /\ Parsed
        /\ \E i \in BootStorage :
             /\ \A j \in BootStorage : i <= j
             /\ boot' = SpecOf(cfg.devices[i]) /\ Deref(boot', "check")
  /\ UNCHANGED <<cfg, machine, gone, ssd, image, address, labels>>

CheckDeviceSpecJson ==
  /\ pc = "check" /\ pc' = IF BootStorage = {} THEN "error" ELSE "create"
  /\ UNCHANGED <<cfg, boot, machine, gone, ssd, image, address, labels>>

---------------------------------------------------------------------------
(***************************************************************************)
(* The request and the machine.                                            *)
(***************************************************************************)

\* Mutant: the spec is among the fields MarshalJSON leaves out.
SentNoSpec(i) == [type |-> cfg.devices[i].type, spec |-> {}]

\* What MarshalJSON leaves of a resource: no tags and no GPU counts.
Sent(i) == [type |-> cfg.devices[i].type, spec |-> SpecOf(cfg.devices[i])]

Compute == [id |-> <<0, 1>>, type |-> "compute", spec |-> {<<>>}]

\* The machine the service builds for the request: as many of each resource
\* as asked for, none when the count is left out, 0 or negative.
Built ==
  {Compute} \cup
  UNION {{[id |-> <<i, n>>, type |-> Sent(i).type, spec |-> Sent(i).spec] :
            n \in 1 .. cfg.devices[i].num} : i \in DOMAIN cfg.devices}

\* The service may also refuse a request with such a count.
CreateMachine ==
  /\ pc = "create"
  /\ \/ cfg.compute = "broken" /\ pc' = "error" /\ UNCHANGED machine
     \/ /\ \E i \in DOMAIN cfg.devices : cfg.devices[i].num < 1
        /\ pc' = "error" /\ UNCHANGED machine
     \/ cfg.compute = "valid" /\ pc' = "disk" /\ machine' = Built
  /\ UNCHANGED <<cfg, boot, gone, ssd, image, address, labels>>

\* Somebody else removes the machine: its devices go first.
Unbuild ==
  /\ pc \in Steps /\ machine # {}
  /\ gone' = TRUE /\ machine' = IF gone THEN {} ELSE {Compute}
  /\ UNCHANGED <<cfg, pc, boot, ssd, image, address, labels>>

\* Mutant: one condition in common is enough.
MatchesOne(r) == r.spec # {} /\ \E l \in r.spec, b \in boot : l # <<>> /\ b # <<>> /\ l[1] = b[1]

Matches(r) == r.spec # {} /\ r.spec = boot

Fail(end) == pc' = end /\ ssd' = {} /\ UNCHANGED address

\* getSsdId over an answer that lists the machine's resources in any order
\* and spells res_spec as it likes: the first storage with the conditions, if
\* no storage without a spec comes before it.  An answer without a machine is
\* taken for one with a machine.
GetMachineDetails(found) ==
  LET Disks == {r \in machine : r.type = "storage"}
  IN  \/ machine = {} /\ found /\ ssd' = {}
      \/ \E r \in Disks : Matches(r) /\ found /\ ssd' = {r.id}
      \/ (\E r \in Disks : r.spec = {}) /\ Fail("panic")
      \/ machine # {} /\ (\A r \in Disks : r.spec # {} /\ ~Matches(r)) /\ Fail("nodisk")
      \/ gone /\ Fail("panic")

FindBootDisk ==
  /\ pc = "disk" /\ GetMachineDetails(pc' = "install" /\ UNCHANGED address)
  /\ UNCHANGED <<cfg, boot, machine, gone, image, labels>>

\* The service installs on the resource named, if there is one.
ImageInstall ==
  /\ pc = "install"
  /\ \/ /\ ssd # {} /\ ssd \subseteq {r.id : r \in machine}
        /\ image' = ssd /\ pc' = "address"
     \/ pc' = "error" /\ UNCHANGED image
  /\ UNCHANGED <<cfg, boot, machine, gone, ssd, address, labels>>

---------------------------------------------------------------------------
(***************************************************************************)
(* The addresses and the labels of the node.                               *)
(***************************************************************************)

Provision == "provision"

\* Mutant: a second network is always asked for.
SubnetsAlwaysTwo == [i \in 1 .. 2 |-> IF i = 1 THEN Provision ELSE cfg.baremetal]

\* populateCreateMachineRequest: the subnet asked for by lanport index.
Subnets ==
  [i \in IF cfg.baremetal = "" THEN {1} ELSE {1, 2} |->
     IF i = 1 THEN Provision ELSE cfg.baremetal]

\* The address a loop over lanports, in any order, leaves in a field that was
\* empty: that of a lanport on the subnet, unless none of them has one yet.
\* Lanports not asked for have no subnet and no address.
Assigned(subnet, ready) ==
  LET Ports == {i \in ready : Subnets[i] = subnet}
  IN  IF Ports = {} THEN {0} ELSE Ports

AssignIpAddresses ==
  /\ pc = "address"
  /\ GetMachineDetails(\E ready \in SUBSET DOMAIN Subnets :
       \E pub \in Assigned(Provision, ready), priv \in Assigned(cfg.baremetal, ready) :
         /\ cfg.baremetal = Provision => priv = pub
         /\ address' = [public |-> pub, private |-> priv]
         /\ pc' = IF pub = 0 THEN "error" ELSE "labels")
  /\ UNCHANGED <<cfg, boot, machine, gone, image, labels>>

allowedGPUs(model) ==
  CASE model \in {"nvidia-a100-40g", "nvidia-a100-80g", "nvidia-h100"} -> {model}
    [] model = "a100-40g" -> {"nvidia-a100-40g"}
    [] model = "a100-80g" -> {"nvidia-a100-80g"}
    [] model = "h100"     -> {"nvidia-h100"}
    [] OTHER              -> {}

\* The model a list asks for: the value of its first condition "model eq".
ModelOf(l) ==
  LET On == {i \in DOMAIN l : l[i].column = "model" /\ l[i].operator = "eq"}
  IN  IF On = {} THEN "" ELSE l[CHOOSE i \in On : \A j \in On : i <= j].value

Gpus == {i \in DOMAIN cfg.devices : cfg.devices[i].type = "gpu" /\ SpecOf(cfg.devices[i]) # {}}
Models(i) == UNION {allowedGPUs(ModelOf(l)) : l \in SpecOf(cfg.devices[i])}

\* Mutant: the counts are not compared.
LabelsUncompared(i) ==
  LET r == cfg.devices[i]
  IN  {[model |-> m, bound |-> "min", count |-> r.min] : m \in IF r.min > 0 THEN Models(i) ELSE {}}
      \cup
      {[model |-> m, bound |-> "max", count |-> r.max] : m \in IF r.max > 0 THEN Models(i) ELSE {}}

\* The labels of one resource: none when the counts contradict each other.
Labels(i) ==
  LET r == cfg.devices[i]
      Of(bound, count) == {[model |-> m, bound |-> bound, count |-> count] :
                             m \in IF r.min <= r.max /\ count > 0 THEN Models(i) ELSE {}}
  IN  Of("min", r.min) \cup Of("max", r.max)

PrepareRke2ConfigScript ==
  /\ pc = "labels" /\ pc' = "done"
  /\ labels' = UNION {Labels(i) : i \in Gpus}
  /\ UNCHANGED <<cfg, boot, machine, gone, ssd, image, address>>

Next ==
  \/ NewFabricManagerClient \/ CheckDeviceSpecJson \/ CreateMachine
  \/ FindBootDisk \/ ImageInstall \/ AssignIpAddresses \/ PrepareRke2ConfigScript
  \/ Unbuild
  \/ pc \in Ends /\ UNCHANGED vars

Spec == Init /\ [][Next]_vars

---------------------------------------------------------------------------
(***************************************************************************)
(* What the customer gets.                                                 *)
(***************************************************************************)

Storage == {i \in DOMAIN cfg.devices : cfg.devices[i].type = "storage"}

(* Every variable stays in its range, there is at most one boot disk, and no
   client goes on without the conditions of one. *)
TypeOK ==
  /\ pc \in Steps \cup Ends
  /\ boot # {} \/ pc \in {"client", "error", "panic"}
  /\ gone \in BOOLEAN
  /\ \A a, b \in ssd : a = b
  /\ \A a, b \in image : a = b
  /\ address \in [public : 0 .. 2, private : 0 .. 2]
  /\ \A l \in labels : l.bound \in {"min", "max"} /\ l.count \in Int

(* The operating system is installed on a storage resource of the machine that
   was asked for with the very conditions of a resource tagged for booting,
   whatever was asked for beside it and in whatever order the Fabric Manager
   lists what it built. *)
BootDiskIsSuitable ==
  \A id \in image :
    /\ id[1] \in Storage
    /\ \E j \in BootStorage : SpecOf(cfg.devices[id[1]]) = SpecOf(cfg.devices[j])

\* A storage with the conditions looked for is asked for, once at least.
BootDiskIsAskedFor ==
  \E j \in Storage : cfg.devices[j].num >= 1 /\ SpecOf(cfg.devices[j]) = boot

(* A machine that is built and that nobody removes has its boot disk found, by
   every call of GetMachineDetails, if every storage resource asked for has a
   spec and one with the conditions looked for is asked for at least once.
   Nothing checks either: without a spec Create may die with the machine built,
   and a tagged storage whose res_num is left out gives a machine that has no
   boot disk, at which Create fails. *)
BootDiskIsFound ==
  /\ \A i \in Storage : SpecOf(cfg.devices[i]) # {}
  /\ machine # {} /\ ~gone /\ BootDiskIsAskedFor
  => pc \notin {"nodisk", "panic"}

(* An address is that of a lanport on its own network, and without a baremetal
   network there is no private one. *)
AddressesOfTheirNetworks ==
  cfg.baremetal # Provision =>
    /\ address.public \in {0, 1}
    /\ address.private \in IF cfg.baremetal = "" THEN {0} ELSE {0, 2}

(* No label of the node contradicts another: a smallest size comes with a
   largest one that is no smaller, and there is one of each for a model, if no
   two resources ask for the same model under its short or its full name. *)
LabelsAgree ==
  /\ \A l \in labels : l.bound = "min" =>
       \E m \in labels : m.model = l.model /\ m.bound = "max" /\ l.count <= m.count
  /\ (\A i, j \in Gpus : Models(i) \cap Models(j) # {} => i = j) =>
       \A l, m \in labels : l.model = m.model /\ l.bound = m.bound => l = m

(* What the comment of MarshalJSON says of the tag (models.go:95): "used by
   the node driver to determine which disk to install the OS on".  getSsdId
   looks at the conditions only, so this is not an invariant; DeviceSpecProofs
   has the assumption under which it holds. *)
BootDiskIsTagged == \A id \in image : id[1] \in BootStorage

===========================================================================
