SPECIFICATION FairSpec
CONSTANTS
  Listeners = {"proxy", "webhook"}
  SessionIds = {s1}
  SessionTTL = 1
  Human <- MCHuman
  Requests = {r1}
  DryRun <- MCDryRun
  Real <- MCReal
  Writes = {dry, real, direct}
  Plain = {dry, real, direct}
  MaxInFlight = 1
  MaxStarts = 1
  MaxTime = 1
  Nobody = Nobody
  r1 = r1
  s1 = s1
  dry = dry
  real = real
  direct = direct
CHECK_DEADLOCK FALSE
INVARIANTS ServeTypeOK SlotsAreReviews BypassIsTold ForwardedAsTheHuman CompletedOnce
PROPERTIES HalfServerStops EveryReviewEnds
