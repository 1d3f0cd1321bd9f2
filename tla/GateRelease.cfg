SPECIFICATION Spec
CONSTANTS
  ApprovalIds = {1, 2}
  Keys = {k1}
  Impacts = {small, big}
  Grants = {}
  Bundle <- CreateOrDelete
  Accounts = {}
  AccountName <- MCEmpty
  LinkedHumans <- MCEmpty
  Names <- MCNames
  CliNames = {"dave"}
  Fold <- MCFold
  KeyHuman <- MCKeyHuman
  Null = Null
  Callers = {c1}
  Requests = {r1, r2}
  RequestKey <- MCRequestKey
  Verdict <- MCHeld
  Impatient = {}
  MaxCrashes = 0
  PendingTTL = 0
  TokenTTL = 1
  Reauth = 0
  MaxTime = 2
  k1 = k1
  small = small
  big = big
  r1 = r1
  r2 = r2
  r3 = r3
SYMMETRY Twins
INVARIANTS TypeOK ForwardedAsApproved
PROPERTIES ApprovalsKeptUnlessUsed
