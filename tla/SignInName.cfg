SPECIFICATION Spec
CONSTANTS
  ann = ann  bob = bob
  s1 = s1  s2 = s2  s3 = s3
  t1 = t1  t2 = t2  b1 = b1  b2 = b2  h1 = h1  h2 = h2
  Null = Null
  Approvers = {ann, bob}
  Sids = {s1, s2}
  Tabs = {t1, t2}
  Browsers = {b1}
  Hosts = {h1}
  BrowserOf <- OneBrowser
  HostOf <- OneHost
  Copiers = {}
  LoginAttempts = 3
  LoginWindow = 9
  LimiterHosts = 1
  SessionTTL = 1
  MaxTime = 0
INVARIANT ActsAsShown
SYMMETRY Minted
