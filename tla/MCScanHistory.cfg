SPECIFICATION FairHSpec
CONSTANTS
  f1 = f1
  f2 = f2
  w1 = w1
  s1 = s1
  Files = {f1, f2}
  Malware <- MCMalware
  OkNamed <- MCOkNamed
  Workers = {w1}
  Sweepers = {s1}
  Configured = TRUE
  PickupGrace = 1
  PendingGrace = 2
  Limit = 1
  ReleaseLimit = 1
  MayFail = TRUE
  MayRaise = TRUE
INVARIANT HInv
INVARIANT MalwareHasCause
INVARIANT ResponseStands
INVARIANT FastVerdictStands
PROPERTY ImplementsGate
PROPERTY OnlyLateSweepsFailUnasked
PROPERTY PendingResolved
