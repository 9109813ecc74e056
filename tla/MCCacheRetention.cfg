CONSTANTS
  TableOrder <- MCTableOrder
  SizedOrder <- MCSizedOrder
  Bytes <- MCBytes
  Ttl <- MCTtl
  Cap <- MCCap
  k1 = k1
  k2 = k2
  v1 = v1
  Item = {i1}
  Value = {v1}
  Legacy = Legacy
  NoTable = NoTable
  NoRow = NoRow
  Thread = {t1, t2}
  Key = {k1, k2}
  Store = {s1, s2}
  NoStore = NoStore
  NoKey = NoKey
  Ops = {"put", "open", "export", "close"}
  Files = {"older", "current"}
  MaxNow = 1
  MaxCalls = 2
  MaxCount = 1
  DiskErrors = FALSE
SPECIFICATION FairSpec
INVARIANTS
  TablesMissOnlyInRebuild
PROPERTIES
  RowsGoForAReason
  CallsReturn
