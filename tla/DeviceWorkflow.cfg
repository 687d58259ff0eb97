SPECIFICATION WfFairSpec
CONSTANTS
  Devices = {d1, d2}
  NoDevice = NoDevice
  MaxChanges = 2
  MaxFaults = 1
  MaxHides = 2
INVARIANTS
  WfTypeOK
  ButtonsAreCurrent
  AnnouncedIsRooted
PROPERTIES
  BarHides
