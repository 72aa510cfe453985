\* A clause bound with an expansion made when the one before it was worded otherwise.
CONSTANTS
  call1 = call1
  call2 = call2
  editor = editor
  search = search
  Inputs = {editor}
  Texts = {"empty", "two", "reworded"}
  EmptyText = "empty"
  Positions <- MCPositions
  Split <- MCSplit
  Sections <- MCSameSections
  Wording <- MCWording
  BindCalls = {call1}
  Contexts = {"ok"}
  MaxTokens = 1
  MaxEdits = 2
SPECIFICATION Spec
CHECK_DEADLOCK FALSE
INVARIANTS
  BoundExpansionsAreCurrent
