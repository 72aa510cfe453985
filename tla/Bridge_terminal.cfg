\* One stream and a CANCEL of it.
CONSTANTS
  t1 = t1
  p1 = p1
  p2 = p2
  r1 = r1
  r2 = r2
  c1 = c1
  c2 = c2
  Tabs = {t1}
  Ports = {p1}
  Requests = {r1}
  Cancels = {c1}
  Segments = {}
  TabOf <- OneTab
  PortOf <- PagePortOf
  NoReq = NoReq
  StorageFaults = {}
  MaxTokens = 1
  MaxCrashes = 0
SPECIFICATION Spec
CHECK_DEADLOCK FALSE
INVARIANT OneTerminal
