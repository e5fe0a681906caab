SPECIFICATION TeachingSpec
CONSTANTS
  Pupils = {s1}
  Lessons = {b1, b2}
  Jobs = {h1, h2}
  MaxWire = 1
  MaxFaults = 1
  Students = {s1}
  Staff = {t1}
  Domains = {d1}
  Addresses = {a1, a2}
  Boxes = {b1, b2}
  Requests = {q1, q2}
  Codes = {c1}
  Handlers = {h1, h2}
  None = None
  MaxSpans = 2
  MaxDeaths = 1
SYMMETRY Symmetry
INVARIANTS
  TeachingTypeOK
  OneSession
  NoForgottenLock
  FocusLockReaches
  MirrorTruthful
  GrantInItsBox
  ApprovalTakesEffect
  CodeOpensOnce
CHECK_DEADLOCK FALSE
