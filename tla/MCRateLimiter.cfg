SPECIFICATION LimiterSpec
CONSTANTS
  Key = {k1, k2}
  U32Max = 5
  Capacity = 3
  Refill = 2
  Interval = 2
  MaxTime = 5
SYMMETRY Symmetry
INVARIANTS LimiterTypeOK GrantsBounded
PROPERTIES DeniedOnlyAfterAllowance
