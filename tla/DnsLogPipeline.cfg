SPECIFICATION FairOverlapSpec
CONSTANTS
  Drains = {d1, d2}
  MaxEntry = 3
  RingSize = 2
  FlushBatch = 2
  StreamMax = 2
  DrainBatch = 2
  MaxFaults = 1
INVARIANTS TypeOK NothingVanishes CursorBehindTable ExactlyOnce
PROPERTIES EventuallySettled ImplementsDurableLog
