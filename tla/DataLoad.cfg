SPECIFICATION Spec
CONSTANTS
  Jobs = 2
  Sizes = {0, 1, 2, 3}
  BatchSize = 2
  Runs = 2
INVARIANTS
  ExitIsTruthful
  FailureLeavesPrefix
  MalformedAddsNothing
  CancelStopsWriting
