CONSTANTS
  plain = plain
  guarded = guarded
  Thread = {t1, t2}
  Path = {plain, guarded}
  Guarded = {guarded}
  Vetted = {1}
  Request <- MCRequest
  MaxFuel = 9
  SmallFuel = 2
  MaxVersion = 2
  MaxCalls = 3
  NoComponent = NoComponent
SYMMETRY Symmetry
SPECIFICATION Spec
INVARIANTS
  TypeOK
  ParsesWithCurrentComponent
  BatchRunsOneBuild
  GuardedIsVetted
  FuelIsPerCall
PROPERTIES
  CachedComponentIsKept
CHECK_DEADLOCK FALSE
