SPECIFICATION SSpec
CONSTANTS
  h1 = h1
  NoSha = NoSha
  NoFile = NoFile
  Files = {f1, f2}
  Hashes = {h1}
  Thumbable <- MCThumbable
  Sweepers = {s1, s2}
  Workers = 2
  Grace = 1
  MayCrash = TRUE
SYMMETRY Symmetry
INVARIANTS
  FastReadersFindFiles
  OrphansAreReal
  OrphansAreFound
  TornHasCause
