SPECIFICATION Spec
CONSTANTS
  Devices <- MCDevices
  Lists <- MCLists
  Baremetal = {"", "baremetal", "provision"}
INVARIANTS
  TypeOK
  BootDiskIsSuitable
  BootDiskIsFound
  AddressesOfTheirNetworks
  LabelsAgree
