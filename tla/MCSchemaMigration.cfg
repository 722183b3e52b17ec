SPECIFICATION FairSpec
CONSTANTS
  Workers = {w1, w2}
  Tools = {t1}
  Migrations <- MCMigrations
  ScanStatus = "scan_status"
INVARIANTS
  UpHasSchema
PROPERTIES
  NeverFailsTwice
  WorkersComeUp
