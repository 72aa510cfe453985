\* Two overlapping operations, up to four saves of three prompts.
CONSTANTS
  a = a
  b = b
  c = c
  d = d
  page = page
  popup = popup
  other = other
  Prompts = {a, b, c}
  Callers = {page, popup}
  UnpinnedLimit = 1
  PinnedLimit = 1
  MaxSaves = 4
SPECIFICATION Spec
SYMMETRY HistorySymmetry
CHECK_DEADLOCK FALSE
INVARIANTS
  TypeOK
  EntriesAreUnique
  PinLimitHolds
  HistoryIsBounded
PROPERTY KnownPinsSurvive
