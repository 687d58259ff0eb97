\* Two locations, two investigators and one failing call or crash.
CONSTANTS
  amal = amal
  nimal = nimal
  disk1 = disk1
  disk2 = disk2
  CaseIds <- MCCaseIds
  DeviceIds <- MCDeviceIds
  Users <- MCUsers
  Roots <- MCTwoRoots
  NoUser = NoUser
  NoPath = NoPath
  MaxFaults = 1
SPECIFICATION Spec
SYMMETRY Symmetry
INVARIANTS
  OpenedConsistently
  ListStaysValid
PROPERTIES
  StoreMovesOnlyByStaleRead
