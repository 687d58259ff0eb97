\* Two Operations on one list that the user keeps editing.
SPECIFICATION Spec
CONSTANTS
  keyword = keyword
  carving = carving
  form = form
  bluetooth = bluetooth
  gmail = gmail
  strings = strings
  Operations = {op1, op2}
  Options = {keyword, carving}
  Reads <- MCReads
  ByEquals = {form}
  Boxes = {keyword}
  Cases = {c1}
  Stores <- MCSomeStores
  Templates <- MCTemplates
  NoCase = NoCase
  NoOption = NoOption
  MaxRows = 0
  MaxMods = 4
  MaxFaults = 0
  MayLogOut = FALSE
SYMMETRY Symmetry
\* The threads end and the user may stop clicking.
CHECK_DEADLOCK FALSE
PROPERTIES
  NeverGoesBack
INVARIANTS
  OneSelection
  ClearsOnlyHandled
  BarCountsFinished
