\* Two streams of one page and a worker kill.
CONSTANTS
  t1 = t1
  p1 = p1
  p2 = p2
  r1 = r1
  r2 = r2
  c1 = c1
  c2 = c2
  Tabs = {t1}
  Ports = {p1}
  Requests = {r1, r2}
  Cancels = {}
  Segments = {}
  TabOf <- OneTab
  PortOf <- PagePortOf
  NoReq = NoReq
  StorageFaults = {}
  MaxTokens = 0
  MaxCrashes = 1
SPECIFICATION Spec
CHECK_DEADLOCK FALSE
PROPERTY RestartFlagsInterruptedTabs
