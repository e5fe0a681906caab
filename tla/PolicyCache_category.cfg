SPECIFICATION AssignedSpec
CONSTANTS
  Students = {s1}
  Classes = {c1}
  Policies = {p1}
  Locations = {any}
  AnyLocation = any
  Nothing = nothing
  Writers = {w1}
  Resolvers = {r1}
  TTL = 2
  MaxFill = 1
  Layers = {"category"}
  MaxTime = 4
  MaxWrites = 1
  MaxCrashes = 0
INVARIANT CategoryRuleReachesUsers
CHECK_DEADLOCK FALSE
