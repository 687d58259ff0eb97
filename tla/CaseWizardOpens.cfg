\* No failure at all: the path the wizard opens a case with.
CONSTANTS
  amal = amal
  nimal = nimal
  disk1 = disk1
  disk2 = disk2
  CaseIds <- MCCaseIds
  DeviceIds <- MCDeviceIds
  Users <- MCUsers
  Roots <- MCOneRoot
  NoUser = NoUser
  NoPath = NoPath
  MaxFaults = 0
SPECIFICATION Spec
SYMMETRY Symmetry
INVARIANTS
  WizardOpensStore
