SPECIFICATION HSpec
CONSTANTS
  k1 = k1
  k2 = k2
  r1 = r1
  r2 = r2
  r3 = r3
  NoKey = NoKey
  Keys = {k1, k2}
  Requests = {r1, r2, r3}
  Tools = {t1}
  Size <- MCSize
  Limited = {k1}
  Quota <- MCQuota
  Workers = 2
\* Every request ends, and there are three of them.
CHECK_DEADLOCK FALSE
INVARIANTS
  OnlyRacesExceed
  UsedAccountsForFiles
  HistoryResolves
