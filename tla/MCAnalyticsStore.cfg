CONSTANTS
  Thread = {t1, t2}
  Path = {p1}
  Store = {s1, s2}
  NoStore = NoStore
  NoKey = NoKey
  RunId = {r1}
  NoRun = NoRun
  Batch <- MCBatch
  MaxCalls = 3
SYMMETRY Symmetry
SPECIFICATION Spec
INVARIANTS
  TypeOK
  RowsBelongToTheirRun
  AcknowledgedRunIsWhole
  EngineMatchesFile
PROPERTIES
  ImplementsRegistry
