\* Calls shown by two views and the history of two browsers, numbers that rows
\* share and share not, one failing call or end of the program.
SPECIFICATION EvSpec
CONSTANTS
  incoming = incoming
  missed = missed
  chrome = chrome
  firefox = firefox
  eventLog = eventLog
  historyTable = historyTable
  allCalls = allCalls
  incomingCalls = incomingCalls
  chromeView = chromeView
  Cases = {c1, c2}
  NoCase = NoCase
  Parts = {incoming, missed, chrome, firefox}
  Tables = {eventLog, historyTable}
  TableOf <- MCTableOf
  Counted = {}
  Ids = {i1, i2}
  Copies = {k1}
  Views = {allCalls, incomingCalls, chromeView}
  Groups <- MCGroups
  Shows <- MCShows
  SavesTo <- MCSavesTo
  NoTable = NoTable
  Restricts <- MCRestricts
  NoView = NoView
  MaxRows = 3
  MaxFaults = 1
SYMMETRY MCSymmetry
INVARIANTS EvTypeOK MarksAreChoices BoxesShowMarks
