SPECIFICATION Spec
CONSTANTS
  Docs <- MCDocs
  Clusters <- MCClusters
  Writes <- MCWrites
  MaxReplicas = 2
  MaxMoves = 1
  None = None
  Unknown = Unknown
CHECK_DEADLOCK FALSE
INVARIANTS MeasureTypeOK MeasuredTellsAll NeverAllowedUnmeasured AllowedIsHarmless TrailReplays
