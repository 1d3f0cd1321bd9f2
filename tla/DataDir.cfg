SPECIFICATION DirFairSpec
CONSTANTS
  Procs = {p1, p2, p3, p4}
  Kind <- MCKind
  Build <- MCBuild
  Hosts <- MCHosts
  MigrateAttempts = 2
  MaxRemovals = 1
  None = None
  p1 = p1
  p2 = p2
  p3 = p3
  p4 = p4
CHECK_DEADLOCK FALSE
INVARIANTS DirTypeOK MigratedOnce OneAuthority
PROPERTIES EveryStartEnds
