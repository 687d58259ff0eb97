\* Every started Operation ends, under the scheduling of threads and events.
SPECIFICATION FairSpec
CONSTANTS
  keyword = keyword
  carving = carving
  form = form
  bluetooth = bluetooth
  gmail = gmail
  strings = strings
  Operations = {op1, op2}
  Options = {bluetooth, gmail, strings}
  Reads <- MCReads
  ByEquals = {form}
  Boxes = {bluetooth, gmail, strings}
  Cases = {c1}
  Stores <- MCAllStores
  Templates <- MCNoTemplate
  NoCase = NoCase
  NoOption = NoOption
  MaxRows = 1
  MaxMods = 1
  MaxFaults = 1
  MayLogOut = TRUE
\* The threads end and the user may stop clicking.
CHECK_DEADLOCK FALSE
PROPERTIES
  EveryOperationEnds
