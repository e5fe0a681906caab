SPECIFICATION FairClusterSpec
CONSTANTS
  Nodes = {a, b}
  Original = a
  Grace = 1
  Relabels = {"primary", "standby"}
  MaxFaults = 3
  Hosts = {h1, h2}
  Reservations = {q1, q2}
  NoReservation = NoReservation
  RowIds = {i1, i2, i3, i4, i5, i6}
  NoId = NoId
  Clerks = {a1, a2}
  Pushes = {cronPush}
  LeaseRuns = {cronLeases}
  MaxHappened = 2
INVARIANTS
  ClusterTypeOK
  ReservedTellsReservation
PROPERTIES
  SplitBrainDetected
  PromotionCompletes
  TypedRowsStay
  DhcpSettles
CHECK_DEADLOCK FALSE
