\* Two Operations on one list while the investigator switches cases, as jobs of Custody.
SPECIFICATION JobSpec
CONSTANTS
  keyword = keyword
  carving = carving
  form = form
  bluetooth = bluetooth
  gmail = gmail
  strings = strings
  Operations = {op1, op2}
  Options = {form, strings}
  Reads <- MCReads
  ByEquals = {form}
  Boxes = {strings}
  Cases = {c1, c2}
  Stores <- MCAllStores
  Templates <- MCTwoSkipped
  NoCase = NoCase
  NoOption = NoOption
  MaxRows = 1
  MaxMods = 1
  MaxFaults = 0
  MayLogOut = FALSE
  MaxTurns = 2
  NotBegun = NotBegun
SYMMETRY Symmetry
\* The threads end and the user may stop clicking.
CHECK_DEADLOCK FALSE
INVARIANTS
  TypeOK
  RowsFiledUnderSource
  RowsLogged
PROPERTIES
  OptionsKeepCustody
