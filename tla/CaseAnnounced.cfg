\* One failing call while the wizard creates a case.
CONSTANTS
  amal = amal
  nimal = nimal
  disk1 = disk1
  disk2 = disk2
  CaseIds <- MCCaseIds
  DeviceIds <- MCDeviceIds
  Users <- MCUsers
  Roots <- MCOneRoot
  NoUser = NoUser
  NoPath = NoPath
  MaxFaults = 1
SPECIFICATION Spec
SYMMETRY Symmetry
INVARIANTS
  AnnouncedCaseIsCreated
