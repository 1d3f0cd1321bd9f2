SPECIFICATION Spec
CONSTANTS
  t1 = t1  t2 = t2  c1 = c1  c2 = c2  q1 = q1  q2 = q2
  Null = Null
  Tabs = {t1}
  Conns = {c1, c2}
  Queues = {q1, q2}
  MaxRows = 2
  MaxStreams = 1
  StreamBatch = 1
  StreamCatchUp = 2
  PageRows = 1
  MaxWire = 2
INVARIANTS TypeOK FeedMissesNothing BadgeIsWhatWasTold SlotsAreHandlers
SYMMETRY Connections
