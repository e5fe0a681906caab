SPECIFICATION Spec
CONSTANTS
  Nodes = {a, b, c}
  Original = a
  Grace = 0
  Relabels = {}
  MaxFaults = 2
SYMMETRY StandbySymmetry
INVARIANTS OwnTableNamesMe
PROPERTIES NoSecondPromotion
CHECK_DEADLOCK FALSE
