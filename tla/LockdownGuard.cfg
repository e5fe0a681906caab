CONSTANTS
  Sessions = {l1, l2}
  Tabs = {t1, t2, t3}
  Syncs = {y1, y2}
  Listeners = {h1}
  Standard = Standard
  NoTab = NoTab
  FirstTest = l1
  FirstSync = y1
  FirstTab = t1
  MaxHappens = 3
  HappensInTests = 2
SPECIFICATION FairLockdownSpec
INVARIANTS
  LockdownTypeOK
  OneTab
PROPERTIES
  FinishedTestLetsGo
  DeviceFollowsServer
