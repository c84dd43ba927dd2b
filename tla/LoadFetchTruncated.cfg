SPECIFICATION Spec
CONSTANTS
  Names = {"", "data", "database"}
  Origins = {"a", "b"}
  Barred = "barred"
  Allowlists <- MCAllowlists
  Depth = 2
  Limits = {0, 1, 2, 4}
  MaxSize = 6
  HeadSize = 3
  MaxRequests = 3
  Batches = 2
INVARIANT
  NeverTruncated
