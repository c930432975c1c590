-------------------------- MODULE DeviceSpecProofs --------------------------
(***************************************************************************)
(* The properties of DeviceSpec for every device specification a customer  *)
(* may write, proved.                                                      *)
(***************************************************************************)
EXTENDS DeviceSpec, TLAPS

\* The specification itself does not change and is one that was written.
CfgOK ==
  /\ cfg \in [devices : Devices, json : {"valid", "broken"},
              compute : {"valid", "broken"}, baremetal : Baremetal]

\* The conditions looked for are those of a tagged storage.
BootOK ==
  /\ boot # {} => \E j \in BootStorage : boot = SpecOf(cfg.devices[j])
  /\ pc = "client" => boot = {}
  /\ pc \in {"check", "create", "disk", "install", "address", "labels", "done"} => boot # {}

\* Every resource of the machine but the compute node is one asked for, and
\* until somebody takes it away all of them are there.
MachineOK ==
  /\ machine \subseteq Built
  /\ pc \in {"client", "check", "create"} => machine = {}
  /\ pc \in {"disk", "install", "address", "labels"} => machine # {} \/ gone
  /\ machine # {} /\ ~gone => machine = Built
  /\ machine # {} => boot # {}

\* A disk that was found is a storage with the conditions looked for.
Fits(ids) == \A id \in ids : id[1] \in Storage /\ SpecOf(cfg.devices[id[1]]) = boot
DisksOK ==
  /\ Fits(ssd) /\ Fits(image)
  /\ image # {} => boot # {}
  /\ ssd # {} => boot # {}

\* Labels come all at once.
LabelsOK == labels \in {{}, UNION {Labels(i) : i \in Gpus}}

IInv ==
  /\ CfgOK /\ TypeOK /\ BootOK /\ MachineOK /\ DisksOK /\ LabelsOK
  /\ AddressesOfTheirNetworks /\ BootDiskIsFound

---------------------------------------------------------------------------

(* A specification is a sequence of resources. *)
LEMMA DevicesAre ==
  ASSUME CfgOK
  PROVE  /\ cfg.devices \in Seq(Resource(Lists))
         /\ \A i \in DOMAIN cfg.devices :
              /\ cfg.devices[i].num \in Int /\ cfg.devices[i].min \in Int
              /\ cfg.devices[i].max \in Int
<1>1. cfg.devices \in Seq(Resource(Lists))
  BY DevicesAssumption DEF CfgOK
<1>2. \A i \in DOMAIN cfg.devices : cfg.devices[i] \in Resource(Lists)
  BY <1>1
<1> QED  BY <1>1, <1>2 DEF Resource

(* What the service has built, resource by resource. *)
LEMMA BuiltIs ==
  ASSUME CfgOK
  PROVE  /\ \A r \in Built :
              r.type = "storage" =>
                r.id[1] \in Storage /\ r.spec = SpecOf(cfg.devices[r.id[1]])
         /\ \A j \in Storage : cfg.devices[j].num >= 1 =>
              \E r \in Built : r.type = "storage" /\ r.spec = SpecOf(cfg.devices[j])
<1>1. ASSUME NEW r \in Built, r.type = "storage"
      PROVE  r.id[1] \in Storage /\ r.spec = SpecOf(cfg.devices[r.id[1]])
  <2>1. r # Compute
    BY <1>1 DEF Compute
  <2>2. PICK i \in DOMAIN cfg.devices : \E n \in 1 .. cfg.devices[i].num :
          r = [id |-> <<i, n>>, type |-> Sent(i).type, spec |-> Sent(i).spec]
    BY <1>1, <2>1 DEF Built
  <2> QED  BY <1>1, <2>2 DEF Sent, Storage
<1>2. ASSUME NEW j \in Storage, cfg.devices[j].num >= 1
      PROVE  \E r \in Built : r.type = "storage" /\ r.spec = SpecOf(cfg.devices[j])
  <2>1. j \in DOMAIN cfg.devices /\ 1 \in 1 .. cfg.devices[j].num
    BY <1>2, DevicesAre DEF Storage
  <2>2. [id |-> <<j, 1>>, type |-> Sent(j).type, spec |-> Sent(j).spec] \in Built
    BY <2>1 DEF Built
  <2> QED  BY <2>2 DEF Sent, Storage
<1> QED  BY <1>1, <1>2

LEMMA ComputeIsBuilt == Compute \in Built
BY DEF Built

(* The address loops leave what belongs to their networks. *)
LEMMA AssignedIs ==
  ASSUME NEW subnet, NEW ready \in SUBSET DOMAIN Subnets, NEW i \in Assigned(subnet, ready)
  PROVE  i = 0 \/ (i \in DOMAIN Subnets /\ Subnets[i] = subnet)
BY DEF Assigned

LEMMA SubnetsAre ==
  /\ DOMAIN Subnets = IF cfg.baremetal = "" THEN {1} ELSE {1, 2}
  /\ \A i \in DOMAIN Subnets : Subnets[i] = IF i = 1 THEN Provision ELSE cfg.baremetal
BY DEF Subnets

---------------------------------------------------------------------------

LEMMA InitIInv == Init => IInv
<1> SUFFICES ASSUME Init PROVE IInv
  OBVIOUS
<1>1. CfgOK
  BY DEF Init, CfgOK
<1>2. TypeOK
  <2>1. address \in [public : 0 .. 2, private : 0 .. 2]
    BY DEF Init
  <2> QED  BY <2>1 DEF Init, TypeOK, Steps, Ends
<1>3. BootOK /\ MachineOK /\ DisksOK /\ LabelsOK
  BY DEF Init, BootOK, MachineOK, DisksOK, Fits, LabelsOK
<1>4. AddressesOfTheirNetworks /\ BootDiskIsFound
  BY DEF Init, AddressesOfTheirNetworks, BootDiskIsFound
<1> QED  BY <1>1, <1>2, <1>3, <1>4 DEF IInv

\* What depends on the specification alone does not change with it.
Static ==
  /\ BootStorage' = BootStorage /\ Storage' = Storage /\ Built' = Built /\ Gpus' = Gpus
  /\ Subnets' = Subnets /\ \A i : (Labels(i))' = Labels(i)
  /\ boot' = boot => (BootDiskIsAskedFor' <=> BootDiskIsAskedFor)

LEMMA StaticStep == cfg' = cfg => Static
BY DEF Static, BootStorage, Storage, Built, Sent, Compute, Gpus, Subnets, Labels, Models,
       Provision, BootDiskIsAskedFor, SpecOf

\* When GetMachineDetails need not find the boot disk.
Excused ==
  gone \/ ~BootDiskIsAskedFor \/ \E i \in Storage : SpecOf(cfg.devices[i]) = {}

(* GetMachineDetails either finds a disk that fits, or finds none; and if the
   machine is all there, and the disk among it, it finds one. *)
LEMMA Details ==
  ASSUME IInv, pc \in {"disk", "address"}, NEW found, GetMachineDetails(found)
  PROVE  /\ Fits(ssd') /\ \A a, b \in ssd' : a = b
         /\ ssd' # {} => boot # {}
         /\ \/ found
            \/ /\ pc' \in {"panic", "nodisk"} /\ UNCHANGED address
               /\ Excused
<1> USE DEF IInv
<1>1. Fits(ssd') /\ \A a, b \in ssd' : a = b
  <2>1. ASSUME NEW r \in machine, r.type = "storage", Matches(r), ssd' = {r.id}
        PROVE  Fits(ssd')
    <3>1. r \in Built
      BY DEF MachineOK
    <3> QED  BY <2>1, <3>1, BuiltIs DEF Fits, Matches
  <2>2. ssd' = {} => Fits(ssd')
    BY DEF Fits
  <2> QED  BY <2>1, <2>2 DEF GetMachineDetails, Fail
<1>2. ssd' # {} => boot # {}
  BY DEF GetMachineDetails, Fail, Matches
<1>3. ASSUME ~Excused
      PROVE  found
  <2>1. machine = Built /\ machine # {} /\ boot # {}
    BY <1>3 DEF Excused, MachineOK
  <2>2. \E r \in machine : r.type = "storage" /\ r.spec = boot
    BY <1>3, <2>1, BuiltIs DEF Excused, BootDiskIsAskedFor
  <2>3. \A r \in machine : r.type = "storage" => r.spec # {}
    BY <1>3, <2>1, BuiltIs DEF Excused
  <2> QED  BY <1>3, <2>1, <2>2, <2>3 DEF Excused, GetMachineDetails, Matches
<1>4. found \/ (pc' \in {"panic", "nodisk"} /\ UNCHANGED address)
  BY DEF GetMachineDetails, Fail
<1> QED  BY <1>1, <1>2, <1>3, <1>4

(* After GetMachineDetails the invariant holds if what it returned fits. *)
LEMMA DetailsStep ==
  ASSUME IInv, pc \in {"disk", "address"}, Static, CfgOK',
         UNCHANGED <<cfg, boot, machine, gone, image, labels>>,
         Fits(ssd'), \A a, b \in ssd' : a = b, ssd' # {} => boot # {},
         pc' \in {"install", "labels", "error", "panic", "nodisk"},
         pc' \in {"panic", "nodisk"} => Excused,
         \/ UNCHANGED address
         \/ address' \in [public : 0 .. 2, private : 0 .. 2] /\ AddressesOfTheirNetworks'
  PROVE  IInv'
<1> USE DEF IInv, Static
<1>1. TypeOK'
  BY DEF TypeOK, Steps, Ends
<1>2. BootOK' /\ MachineOK' /\ LabelsOK'
  BY DEF BootOK, MachineOK, LabelsOK
<1>3. DisksOK'
  BY DEF DisksOK, Fits
<1>4. AddressesOfTheirNetworks' /\ BootDiskIsFound'
  BY DEF AddressesOfTheirNetworks, BootDiskIsFound, Excused
<1> QED  BY <1>1, <1>2, <1>3, <1>4

LEMMA IInvStep == IInv /\ [Next]_vars => IInv'
<1> SUFFICES ASSUME IInv, [Next]_vars PROVE IInv'
  OBVIOUS
<1>0. cfg' = cfg
  BY DEF Next, vars, NewFabricManagerClient, CheckDeviceSpecJson, CreateMachine, FindBootDisk,
         ImageInstall, AssignIpAddresses, PrepareRke2ConfigScript, Unbuild
<1>S. Static /\ CfgOK'
  BY <1>0, StaticStep DEF IInv, CfgOK
<1> USE DEF IInv
<1>1. CASE NewFabricManagerClient
  <2> USE <1>0, <1>S, <1>1 DEF NewFabricManagerClient, Deref, Static
  <2>1. TypeOK'
    BY DEF TypeOK, Steps, Ends
  <2>2. BootOK'
    BY DEF BootOK
  <2>3. MachineOK'
    BY DEF MachineOK
  <2>4. DisksOK'
    BY DEF DisksOK, Fits, BootOK
  <2>5. LabelsOK'
    BY DEF LabelsOK
  <2>6. AddressesOfTheirNetworks' /\ BootDiskIsFound'
    BY DEF MachineOK, AddressesOfTheirNetworks, BootDiskIsFound
  <2> QED  BY <2>1, <2>2, <2>3, <2>4, <2>5, <2>6
<1>2. CASE CheckDeviceSpecJson
  <2> USE <1>0, <1>S, <1>2 DEF CheckDeviceSpecJson, Static
  <2>1. TypeOK'
    BY DEF TypeOK, Steps, Ends
  <2>2. BootOK'
    BY DEF BootOK
  <2>3. MachineOK'
    BY DEF MachineOK
  <2>4. DisksOK'
    BY DEF DisksOK, Fits
  <2>5. LabelsOK'
    BY DEF LabelsOK
  <2>6. AddressesOfTheirNetworks' /\ BootDiskIsFound'
    BY DEF AddressesOfTheirNetworks, BootDiskIsFound
  <2> QED  BY <2>1, <2>2, <2>3, <2>4, <2>5, <2>6
<1>3. CASE CreateMachine
  <2> USE <1>0, <1>S, <1>3 DEF CreateMachine, Static
  <2>1. TypeOK'
    BY DEF TypeOK, Steps, Ends
  <2>2. BootOK'
    BY DEF BootOK
  <2>3. MachineOK'
    BY ComputeIsBuilt DEF MachineOK, BootOK
  <2>4. DisksOK'
    BY DEF DisksOK, Fits
  <2>5. LabelsOK'
    BY DEF LabelsOK
  <2>6. AddressesOfTheirNetworks' /\ BootDiskIsFound'
    BY DEF AddressesOfTheirNetworks, BootDiskIsFound
  <2> QED  BY <2>1, <2>2, <2>3, <2>4, <2>5, <2>6
<1>4. CASE FindBootDisk
  <2>1. GetMachineDetails(pc' = "install" /\ UNCHANGED address) /\ pc = "disk"
        /\ UNCHANGED <<cfg, boot, machine, gone, image, labels>>
    BY <1>4 DEF FindBootDisk
  <2>2. /\ Fits(ssd') /\ (\A a, b \in ssd' : a = b) /\ (ssd' # {} => boot # {})
        /\ pc' \in {"install", "panic", "nodisk"} /\ UNCHANGED address
        /\ pc' = "install" \/ Excused
    BY <2>1, Details
  <2> QED  BY <1>S, <2>1, <2>2, DetailsStep
<1>5. CASE ImageInstall
  <2> USE <1>0, <1>S, <1>5 DEF ImageInstall, Static
  <2>1. TypeOK'
    BY DEF TypeOK, Steps, Ends
  <2>2. BootOK'
    BY DEF BootOK
  <2>3. MachineOK'
    BY DEF MachineOK
  <2>4. DisksOK'
    BY DEF DisksOK, Fits
  <2>5. LabelsOK'
    BY DEF LabelsOK
  <2>6. AddressesOfTheirNetworks' /\ BootDiskIsFound'
    BY DEF AddressesOfTheirNetworks, BootDiskIsFound
  <2> QED  BY <2>1, <2>2, <2>3, <2>4, <2>5, <2>6
<1>6. CASE AssignIpAddresses
  <2> DEFINE found ==
        \E ready \in SUBSET DOMAIN Subnets :
          \E pub \in Assigned(Provision, ready), priv \in Assigned(cfg.baremetal, ready) :
            /\ cfg.baremetal = Provision => priv = pub
            /\ address' = [public |-> pub, private |-> priv]
            /\ pc' = IF pub = 0 THEN "error" ELSE "labels"
  <2>1. /\ GetMachineDetails(found) /\ pc = "address"
        /\ UNCHANGED <<cfg, boot, machine, gone, image, labels>>
    BY <1>6 DEF AssignIpAddresses
  <2>2. /\ Fits(ssd') /\ (\A a, b \in ssd' : a = b) /\ (ssd' # {} => boot # {})
        /\ \/ found
           \/ /\ pc' \in {"panic", "nodisk"} /\ UNCHANGED address
              /\ Excused
    <3> HIDE DEF found
    <3> QED  BY <2>1, Details
  <2>3. CASE found
    <3>1. PICK ready \in SUBSET DOMAIN Subnets :
            \E pub \in Assigned(Provision, ready), priv \in Assigned(cfg.baremetal, ready) :
              /\ address' = [public |-> pub, private |-> priv]
              /\ pc' = IF pub = 0 THEN "error" ELSE "labels"
      BY <2>3
    <3>2. PICK pub \in Assigned(Provision, ready), priv \in Assigned(cfg.baremetal, ready) :
            /\ address' = [public |-> pub, private |-> priv]
            /\ pc' = IF pub = 0 THEN "error" ELSE "labels"
      BY <3>1
    <3>3. /\ pub = 0 \/ (pub \in DOMAIN Subnets /\ Subnets[pub] = Provision)
          /\ priv = 0 \/ (priv \in DOMAIN Subnets /\ Subnets[priv] = cfg.baremetal)
      BY AssignedIs
    <3>4. AddressesOfTheirNetworks'
      BY <1>0, <3>2, <3>3, SubnetsAre DEF AddressesOfTheirNetworks, Provision
    <3>5. address' \in [public : 0 .. 2, private : 0 .. 2] /\ pc' \in {"error", "labels"}
      <4>1. pub \in {0, 1, 2} /\ priv \in {0, 1, 2}
        BY <3>3, SubnetsAre
      <4>2. {0, 1, 2} \subseteq 0 .. 2
        OBVIOUS
      <4> QED  BY <3>2, <4>1, <4>2
    <3> QED  BY <1>S, <2>1, <2>2, <3>4, <3>5, DetailsStep
  <2>4. CASE pc' \in {"panic", "nodisk"} /\ UNCHANGED address
             /\ Excused
    BY <1>S, <2>1, <2>2, <2>4, DetailsStep
  <2> QED  BY <2>2, <2>3, <2>4
<1>7. CASE PrepareRke2ConfigScript
  <2> USE <1>0, <1>S, <1>7 DEF PrepareRke2ConfigScript, Static
  <2>1. TypeOK'
    <3>1. \A i \in Gpus : i \in DOMAIN cfg.devices
      BY DEF Gpus
    <3>2. \A i \in Gpus : \A l \in Labels(i) : l.bound \in {"min", "max"} /\ l.count \in Int
      BY <3>1, DevicesAre DEF Labels
    <3>3. \A l \in labels' : l.bound \in {"min", "max"} /\ l.count \in Int
      BY <3>2
    <3> QED  BY <3>3 DEF TypeOK, Steps, Ends
  <2>2. BootOK'
    BY DEF BootOK
  <2>3. MachineOK'
    BY DEF MachineOK
  <2>4. DisksOK'
    BY DEF DisksOK, Fits
  <2>5. LabelsOK'
    BY DEF LabelsOK
  <2>6. AddressesOfTheirNetworks' /\ BootDiskIsFound'
    BY DEF AddressesOfTheirNetworks, BootDiskIsFound
  <2> QED  BY <2>1, <2>2, <2>3, <2>4, <2>5, <2>6
<1>8. CASE Unbuild
  <2> USE <1>0, <1>S, <1>8 DEF Unbuild, Static
  <2>1. TypeOK'
    BY DEF TypeOK, Steps, Ends
  <2>2. BootOK'
    BY DEF BootOK
  <2>3. MachineOK'
    BY ComputeIsBuilt DEF MachineOK
  <2>4. DisksOK'
    BY DEF DisksOK, Fits
  <2>5. LabelsOK'
    BY DEF LabelsOK
  <2>6. AddressesOfTheirNetworks' /\ BootDiskIsFound'
    BY DEF AddressesOfTheirNetworks, BootDiskIsFound
  <2> QED  BY <2>1, <2>2, <2>3, <2>4, <2>5, <2>6
<1>9. CASE UNCHANGED vars
  <2> USE <1>0, <1>S, <1>9 DEF vars, Static
  <2>1. TypeOK'
    BY DEF TypeOK, Steps, Ends
  <2>2. BootOK'
    BY DEF BootOK
  <2>3. MachineOK'
    BY DEF MachineOK
  <2>4. DisksOK'
    BY DEF DisksOK, Fits
  <2>5. LabelsOK'
    BY DEF LabelsOK
  <2>6. AddressesOfTheirNetworks' /\ BootDiskIsFound'
    BY DEF AddressesOfTheirNetworks, BootDiskIsFound
  <2> QED  BY <2>1, <2>2, <2>3, <2>4, <2>5, <2>6
<1> QED
  BY <1>1, <1>2, <1>3, <1>4, <1>5, <1>6, <1>7, <1>8, <1>9 DEF Next

---------------------------------------------------------------------------

LEMMA Invariance == Spec => []IInv
BY InitIInv, IInvStep, PTL DEF Spec

LEMMA SuitableFromIInv == IInv => BootDiskIsSuitable
BY DEF IInv, DisksOK, Fits, BootOK, BootDiskIsSuitable

(* The labels of one resource agree with each other. *)
LEMMA LabelsOfOne ==
  ASSUME CfgOK, NEW i \in Gpus
  PROVE  /\ \A l \in Labels(i) : l.model \in Models(i)
         /\ \A l \in Labels(i) : l.bound = "min" =>
              \E m \in Labels(i) : m.model = l.model /\ m.bound = "max" /\ l.count <= m.count
         /\ \A l, m \in Labels(i) : l.model = m.model /\ l.bound = m.bound => l = m
<1> DEFINE r == cfg.devices[i]
           Of(bound, count) == {[model |-> m, bound |-> bound, count |-> count] :
                                  m \in IF r.min <= r.max /\ count > 0 THEN Models(i) ELSE {}}
<1>1. r.min \in Int /\ r.max \in Int
  BY DevicesAre DEF Gpus
<1>2. Labels(i) = Of("min", r.min) \cup Of("max", r.max)
  BY DEF Labels
<1>3. ASSUME NEW l \in Of("min", r.min)
      PROVE  /\ l.model \in Models(i) /\ l.bound = "min" /\ l.count = r.min
             /\ r.min <= r.max /\ r.max > 0
             /\ l = [model |-> l.model, bound |-> "min", count |-> r.min]
  BY <1>1, <1>3
<1>4. ASSUME NEW l \in Of("max", r.max)
      PROVE  /\ l.model \in Models(i) /\ l.bound = "max"
             /\ l = [model |-> l.model, bound |-> "max", count |-> r.max]
  BY <1>1, <1>4
<1>5. ASSUME NEW l \in Of("min", r.min)
      PROVE  \E m \in Of("max", r.max) :
               m.model = l.model /\ m.bound = "max" /\ l.count <= m.count
  <2>1. [model |-> l.model, bound |-> "max", count |-> r.max] \in Of("max", r.max)
    BY <1>3
  <2> QED  BY <1>3, <2>1
<1> HIDE DEF Of, r
<1> QED  BY <1>2, <1>3, <1>4, <1>5

LEMMA AgreeFromIInv == IInv => LabelsAgree
<1> SUFFICES ASSUME IInv PROVE LabelsAgree
  OBVIOUS
<1>0. CfgOK /\ LabelsOK
  BY DEF IInv
<1>1. \A l \in labels : \E i \in Gpus : l \in Labels(i) /\ Labels(i) \subseteq labels
  BY <1>0 DEF LabelsOK
<1>2. ASSUME NEW l \in labels, l.bound = "min"
      PROVE  \E m \in labels : m.model = l.model /\ m.bound = "max" /\ l.count <= m.count
  <2>1. PICK i \in Gpus : l \in Labels(i) /\ Labels(i) \subseteq labels
    BY <1>1
  <2>2. \E m \in Labels(i) : m.model = l.model /\ m.bound = "max" /\ l.count <= m.count
    BY <1>0, <1>2, <2>1, LabelsOfOne
  <2> QED  BY <2>1, <2>2
<1>3. ASSUME \A i, j \in Gpus : Models(i) \cap Models(j) # {} => i = j,
             NEW l \in labels, NEW m \in labels, l.model = m.model, l.bound = m.bound
      PROVE  l = m
  <2>1. PICK i \in Gpus : l \in Labels(i)
    BY <1>1
  <2>2. PICK j \in Gpus : m \in Labels(j)
    BY <1>1
  <2>3. l.model \in Models(i) /\ m.model \in Models(j)
    BY <1>0, <2>1, <2>2, LabelsOfOne
  <2>4. i = j
    BY <1>3, <2>3
  <2> QED  BY <1>0, <1>3, <2>1, <2>2, <2>4, LabelsOfOne
<1> QED  BY <1>2, <1>3 DEF LabelsAgree

(* Every variable stays in its range, and no client goes on without the
   conditions of a boot disk. *)
THEOREM TypeCorrect == Spec => []TypeOK
BY Invariance, PTL DEF IInv

(* Whatever the customer asks for, the operating system is installed on a
   storage resource that was asked for with the conditions of a tagged one. *)
THEOREM DiskIsSuitable == Spec => []BootDiskIsSuitable
BY Invariance, SuitableFromIInv, PTL

(* The boot disk of a machine nobody removes is found, if every storage has a
   spec and one with the conditions looked for is asked for at least once. *)
THEOREM DiskIsFound == Spec => []BootDiskIsFound
BY Invariance, PTL DEF IInv

(* The addresses the driver keeps belong to the networks they are kept for. *)
THEOREM OwnAddresses == Spec => []AddressesOfTheirNetworks
BY Invariance, PTL DEF IInv

(* A smallest size never passes the largest one of its model; and there is
   one of each, if no two GPU resources name one model. *)
THEOREM LabelsNeverContradict == Spec => []LabelsAgree
BY Invariance, AgreeFromIInv, PTL

\* No storage without the tag shares its conditions with one that has it.
Distinct ==
  \A i \in Storage, j \in BootStorage :
    SpecOf(cfg.devices[i]) = SpecOf(cfg.devices[j]) => i \in BootStorage

(* What the comment of MarshalJSON says of the tag is true of a specification
   in which the conditions of the tagged resource are its own. *)
THEOREM TaggedIfDistinct == Spec => [](Distinct => BootDiskIsTagged)
<1>1. BootDiskIsSuitable => (Distinct => BootDiskIsTagged)
  BY DEF BootDiskIsSuitable, Distinct, BootDiskIsTagged
<1> QED  BY <1>1, DiskIsSuitable, PTL

===========================================================================
