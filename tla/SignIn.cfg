SPECIFICATION Spec
CONSTANTS
  ann = ann  bob = bob
  s1 = s1  s2 = s2  s3 = s3
  t1 = t1  t2 = t2  b1 = b1  b2 = b2  h1 = h1  h2 = h2
  Null = Null
  Approvers = {ann}
  Sids = {s1, s2}
  Tabs = {t1, t2}
  Browsers = {b1, b2}
  Hosts = {h1, h2}
  BrowserOf <- TwoBrowsers
  HostOf <- TwoHosts
  Copiers = {b2}
  LoginAttempts = 2
  LoginWindow = 2
  LimiterHosts = 1
  SessionTTL = 2
  MaxTime = 2
INVARIANTS TypeOK LimitHolds NoEntryAfterEnd
SYMMETRY Minted
