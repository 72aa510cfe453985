\* A bind without an accepted clause.
CONSTANTS
  call1 = call1
  call2 = call2
  editor = editor
  search = search
  Inputs = {editor}
  Texts = {"empty", "two"}
  EmptyText = "empty"
  Positions <- MCPositions
  Split <- MCSplit
  Sections <- MCSections
  Wording <- MCWording
  BindCalls = {call1}
  Contexts = {"ok"}
  MaxTokens = 1
  MaxEdits = 2
SPECIFICATION Spec
CHECK_DEADLOCK FALSE
INVARIANTS
  NoPassThroughBind
