SPECIFICATION FairSpec
CONSTANTS
  Nodes = {a, b}
  Original = a
  Grace = 1
  Relabels = {}
  MaxFaults = 1
PROPERTIES FailoverHappens
CHECK_DEADLOCK FALSE
