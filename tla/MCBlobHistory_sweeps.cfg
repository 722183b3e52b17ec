SPECIFICATION FairHSpec
CONSTANTS
  h1 = h1
  h2 = h2
  NoSha = NoSha
  Files = {f1, f2}
  Hashes = {h1}
  Thumbable <- MCThumbable
  Sweepers = {s1, s2}
  Workers = 2
  Grace = 1
  MayCrash = TRUE
INVARIANT IInv
PROPERTIES
  DeletedContentIsPurged
  ExpiredFileIsDeleted
