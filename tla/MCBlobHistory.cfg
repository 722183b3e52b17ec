SPECIFICATION HSpec
CONSTANTS
  h1 = h1
  h2 = h2
  NoSha = NoSha
  Files = {f1, f2, f3}
  Hashes = {h1, h2}
  Thumbable <- MCThumbable
  Sweepers = {s1}
  Workers = 2
  Grace = 1
  MayCrash = TRUE
SYMMETRY Symmetry
INVARIANTS
  OnlyOverlapLosesBytes
  BytesAccountedFor
PROPERTIES
  UnlinkOnlyAfterGrace
  PurgeOnlyAfterGrace
