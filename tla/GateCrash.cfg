SPECIFICATION FairSpec
CONSTANTS
  ApprovalIds = {1}
  Keys = {k1}
  Impacts = {small}
  Grants = {}
  Bundle <- UpdateOrDelete
  Accounts = {}
  AccountName <- MCEmpty
  LinkedHumans <- MCEmpty
  Names <- MCNames
  CliNames = {"dave"}
  Fold <- MCFold
  KeyHuman <- MCKeyHuman
  Null = Null
  Callers = {c1}
  Requests = {r1, r2}
  RequestKey <- MCRequestKey
  Verdict <- MCVerdict
  Impatient = {r1}
  MaxCrashes = 1
  PendingTTL = 0
  TokenTTL = 0
  Reauth = 0
  MaxTime = 1
  k1 = k1
  small = small
  big = big
  r1 = r1
  r2 = r2
  r3 = r3
INVARIANTS RecordedBeforeForward NoStraySnapshot NoYesWasted
PROPERTIES EveryRequestDecided
