SPECIFICATION Spec
CONSTANTS
  Files = {f1}
  Malware = {f1}
  OkNamed = {f1}
  Workers = {w1, w2}
  Secrets = {k1, k2, k3, k4}
  Slots = {a}
  Requested <- MCRequested
  NoTtl = NoTtl
  DefaultTtl = 2
  MaxTtl = 3
  ClockSkew = 1
  NoLink = NoLink
  Nobody = Nobody
  MaxReal = 7
  MaxDrift = 1
  MaxBoots = 2
SYMMETRY Symmetry
INVARIANTS
  LivesItsTtl
  DeadAfterLongestTtl
  RefusalIsFinal
  ForgedOnlyElsewhere
CHECK_DEADLOCK FALSE
