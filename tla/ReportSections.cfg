\* Up to two sections of two kinds, which may be the same, one view, rows that
\* share their number and rows that do not, one failing call or end of the
\* program; the program may stop nowhere, so deadlock is checked.
SPECIFICATION Spec
CONSTANTS
  sms = sms
  chrome = chrome
  smsTable = smsTable
  cookiesTable = cookiesTable
  smsView = smsView
  cookiesView = cookiesView
  smsBox = smsBox
  chromeBox = chromeBox
  chromeCookies = chromeCookies
  Cases = {c1}
  NoCase = NoCase
  Parts = {sms, chrome}
  Tables = {smsTable, cookiesTable}
  TableOf <- MCTableOf
  Counted = {cookiesTable}
  Ids = {i1, i2}
  Copies = {k1, k2}
  Views = {smsView}
  Groups <- MCGroups
  Shows <- MCShows
  SavesTo <- MCSavesTo
  NoTable = NoTable
  Restricts <- MCShows
  NoView = NoView
  MaxRows = 2
  MaxFaults = 1
  Sections = {smsBox, chromeCookies}
  Contents <- MCContents
  ByIdentity = {smsBox}
  Boxes = {smsBox, chromeBox}
  Opens = {chromeBox}
  Resets = {chromeBox}
  Options <- MCOptions
  Looks <- MCLooks
  Always = {}
  MaxSections = 2
SYMMETRY MCSymmetry
INVARIANTS TypeOK ListShowsChecked BoxesFollowList ReportIsAsChosen
