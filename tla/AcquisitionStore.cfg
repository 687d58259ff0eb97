\* Two threads, two cases and two tabs, with and without a waiting b.sh.
SPECIFICATION Spec
CONSTANTS
  j1 = j1
  j2 = j2
  t1 = t1
  t2 = t2
  c1 = c1
  c2 = c2
  data = data
  system = system
  Jobs = {j1, j2}
  Tabs = {t1, t2}
  Partitions = {data, system}
  Rank <- MCRank
  Cases = {c1, c2}
  Beside = {c2}
  NoCase = NoCase
  NoTab = NoTab
  NoPartition = NoPartition
  NoJob = NoJob
  BshWaits = {FALSE, TRUE}
  MaxFaults = 1
SYMMETRY Symmetry
\* Where b.sh waits for its client the program stops; where not, the threads end.
CHECK_DEADLOCK FALSE
INVARIANTS
  TypeOK
  ImageOfItsPartition
  AcquiredInLoggedCase
  HashFitsTree
  BarHiddenAtRest
  OwnListenerNeverServes
PROPERTIES
  KeepsCustody
