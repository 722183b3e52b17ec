SPECIFICATION Spec
CONSTANTS
  empty = empty
  plain = plain
  huge = huge
  worm = worm
  trojan = trojan
  Files = {empty, plain, huge, worm, trojan}
  Size <- MCSize
  Malware = {worm, trojan}
  Name <- MCName
  StreamMax = 2
  Buffer = 2
  Timeout = 2
INVARIANT AnsweringDaemonIsAvailable
CHECK_DEADLOCK FALSE
