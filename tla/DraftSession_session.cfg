\* Two inputs, drafts of no clause and of two, one Cmd+Enter at a time.
CONSTANTS
  call1 = call1
  call2 = call2
  editor = editor
  search = search
  Inputs = {editor, search}
  Texts = {"empty", "two"}
  EmptyText = "empty"
  Positions <- MCTwoPositions
  Split <- MCSplit
  Sections <- MCSections
  Wording <- MCWording
  BindCalls = {call1}
  Contexts = {"ok", "paused", "signedOut"}
  MaxTokens = 1
  MaxEdits = 2
SPECIFICATION Spec
SYMMETRY DraftSymmetry
CHECK_DEADLOCK FALSE
INVARIANTS
  TypeOK
  GateMeansApproved
  BindAnswersInput
  BindPhaseAgrees
  PanelIsAnswer
  BindsAreHeard
  EnhancesAreHeard
  EnhancesAreAnswered
  FreshDraftIsTyped
