\* One location and any two failing calls, lost connections or crashes.
CONSTANTS
  amal = amal
  nimal = nimal
  disk1 = disk1
  disk2 = disk2
  CaseIds <- MCCaseIds
  DeviceIds <- MCDeviceIds
  Users <- MCUsers
  Roots <- MCOneRoot
  NoUser = NoUser
  NoPath = NoPath
  MaxFaults = 2
SPECIFICATION Spec
SYMMETRY Symmetry
INVARIANTS
  TypeOK
  CreatedHasStore
  LastPageHasStore
