SPECIFICATION Spec
CONSTANTS
  MinSize = 3
  MaxBody = 6
INVARIANTS
  RightlyEncoded
  EndIsTruthful
PROPERTY
  FlushDelivers
