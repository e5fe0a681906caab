SPECIFICATION FairNodeJobsSpec
CONSTANTS
  s1 = s1
  s2 = s2
  d1 = d1
  d2 = d2
  Sources = {s1, s2}
  Sites = {d1, d2}
  Versions <- ListVersions
  Initially <- FirstLists
  InUse = {s1}
  nightly = nightly
  reconcile = reconcile
  Requests = {r1}
  NoSource = NoSource
  MaxEvents = 2
  UpdateNodes = {n1}
  Plans = {p1, p2}
  NoPlan = NoPlan
  MaxMishaps = 3
INVARIANTS
  NodeJobsTypeOK
  ListIsWhole
  StaysBlocked
  CompletedWasInstalled
  NotBeforeItsTime
PROPERTIES
  ListsSettle
  EveryScheduleEnds
CHECK_DEADLOCK FALSE
