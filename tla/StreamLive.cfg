SPECIFICATION FairSpec
CONSTANTS
  t1 = t1  t2 = t2  c1 = c1  c2 = c2  q1 = q1  q2 = q2
  Null = Null
  Tabs = {t1}
  Conns = {c1, c2}
  Queues = {q1}
  MaxRows = 1
  MaxStreams = 1
  StreamBatch = 1
  StreamCatchUp = 2
  PageRows = 1
  MaxWire = 2
PROPERTY StreamEndsWithSession

CHECK_DEADLOCK FALSE
