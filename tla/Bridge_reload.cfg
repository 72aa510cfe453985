\* A page, its reload, a CANCEL from each, and one worker kill.
CONSTANTS
  t1 = t1
  p1 = p1
  p2 = p2
  r1 = r1
  r2 = r2
  c1 = c1
  c2 = c2
  Tabs = {t1}
  Ports = {p1, p2}
  Requests = {r1, r2}
  Cancels = {c1, c2}
  Segments = {r2}
  TabOf <- OneTab
  PortOf <- ReloadPortOf
  NoReq = NoReq
  StorageFaults = {"persist"}
  MaxTokens = 1
  MaxCrashes = 1
SPECIFICATION Spec
CHECK_DEADLOCK FALSE
PROPERTY StreamContract
INVARIANTS
  TypeOK
  TerminalDiscipline
  OrphansWereKilled
  MarkersAreLive
  SoleRequestIsMarked
