CONSTANTS
  Thread = {t1, t2, t3}
  Key = {k1, k2}
  Store = {s1, s2, s3}
  NoStore = NoStore
  NoKey = NoKey
SYMMETRY Symmetry
SPECIFICATION Spec
INVARIANTS
  TypeOK
  RegisteredIsOpen
  NoLeakedConnection
  OneStorePerIdentity
PROPERTIES
  FirstWinnerKept
