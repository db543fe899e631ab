CONSTANTS
  Sessions = {s1, s2}
  Scores = {1, 2}
  MaxVersions = 3
  MaxReviews = 2
  MaxRequests = 4
  MaxFaults = 1
  Tokens = {"a", "b"}
  MaxCount = 2
  Drafts <- Samples
  Answers <- SampleAnswers
  Weights <- SampleWeights
SPECIFICATION MCSpec
SYMMETRY SessionSymmetry
CONSTRAINT QualityFocus
INVARIANTS
  FinalFlagsAgree
  ResolutionsAreApplied
  MemoryFollowsSelection
  ScoresAreGraded
PROPERTIES
  DecisionsAreFinal
  ErrorsNeverHelp
CHECK_DEADLOCK FALSE
