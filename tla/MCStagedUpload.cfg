SPECIFICATION FairSpec
CONSTANTS
  a = a
  b = b
  x = x
  t = t
  NoFile = NoFile
  Uploads = {u1, u2}
  Chunks = {a, b, x, t}
  Bodies <- MCBodies
  Exif <- MCExif
  Mpo <- MCMpo
  Tiff <- MCTiff
  Clean <- MCClean
  Limit = 2
\* Every upload ends, and so do its fragments.
CHECK_DEADLOCK FALSE
INVARIANTS
  StoredAsPromised
  MetadataOnlyIfLeftAlone
  LimitKept
PROPERTIES
  FragmentsReclaimed
  ImplementsCommit
