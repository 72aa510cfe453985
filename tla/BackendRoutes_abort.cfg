\* A client that leaves while the provider is answering.
CONSTANTS
  Tiers = {"free"}
  MaxAttempts = 1
  MaxTokens = 1
  Answers <- FewAnswers
  Segments <- MCSegments
SPECIFICATION Spec
INVARIANT AbortReleasesProvider
