SPECIFICATION Spec
CONSTANTS
  Worlds <- MCWorlds
  NoPolicy = none
  Outages <- MCOutages
  MaxEvents = 2
INVARIANTS OneInstant RestrictionHolds LogTellsTheAnswer
