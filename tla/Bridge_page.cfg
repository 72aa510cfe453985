\* A SEGMENT and a stream of one page in flight together, a CANCEL, a worker kill, rejected removes.
CONSTANTS
  t1 = t1
  p1 = p1
  p2 = p2
  r1 = r1
  r2 = r2
  c1 = c1
  c2 = c2
  Tabs = {t1}
  Ports = {p1}
  Requests = {r1, r2}
  Cancels = {c1}
  Segments = {r2}
  TabOf <- OneTab
  PortOf <- PagePortOf
  NoReq = NoReq
  StorageFaults = {"clear"}
  MaxTokens = 0
  MaxCrashes = 1
SPECIFICATION FairSpec
CHECK_DEADLOCK FALSE
INVARIANTS
  MapMirrorsCoroutines
  AbortIsAnswered
PROPERTIES
  EveryRequestIsAnswered
  MarkersAreCleared
