\* Every route, three attempts, answers of up to two chunks.
CONSTANTS
  Tiers = {"free", "pro", "byok"}
  MaxAttempts = 3
  MaxTokens = 2
  Answers <- MCAnswers
  Segments <- MCSegments
SPECIFICATION Spec
INVARIANTS
  TypeOK
  MetadataAgrees
  DoneMeansRecorded
  AnswersAreAcyclic
PROPERTIES
  StreamContract
  HeadersAreNotAwaitedForever
