SPECIFICATION Spec
CONSTANTS
  Queries = {q1}
  Updates = {u1, u2}
  Scrapes = {}
  Probes = {}
  Gauges = {}
  MaxData = 2
  q1 = q1
  u1 = u1
  u2 = u2
SYMMETRY UpdateSymmetry
INVARIANTS
  TypeOK
  GatedUntilLoaded
  LoadEndsBeforeClose
  AckedWriteApplied
  ForcedCloseOnlyAfterCutoff
  EvaluationEndsBeforeClose
  StoreReleased
  NoDataStopsCleanly
PROPERTY
  ImplementsLifecycle
