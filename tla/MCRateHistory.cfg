SPECIFICATION HSpec
CONSTANTS
  w1 = w1
  w2 = w2
  k1 = k1
  k2 = k2
  Workers = {w1, w2}
  Keys = {k1, k2}
  RowLimit <- MCRowLimit
  Default = 2
  Minute = 2
  Horizon = 3
INVARIANTS
  WindowBound
  RetryAfterSuffices
PROPERTY ImplementsBucket
