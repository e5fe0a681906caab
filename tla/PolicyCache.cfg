SPECIFICATION TwoPartsSpec
CONSTANTS
  Students = {s1}
  Classes = {c1}
  Policies = {p1}
  Locations = {any}
  AnyLocation = any
  Nothing = nothing
  Writers = {w1}
  Resolvers = {r1, r2}
  TTL = 2
  MaxFill = 1
  Layers = {"lockdown", "penalty", "lesson", "members", "assign", "inherit", "rules", "category"}
  MaxTime = 6
  MaxWrites = 2
  MaxCrashes = 1
SYMMETRY Symmetric
INVARIANTS TypeOK NoLostInvalidation BoundedStaleness
CHECK_DEADLOCK FALSE
