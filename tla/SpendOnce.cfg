SPECIFICATION Spec
CONSTANTS
  ApprovalIds = {1, 2}
  Keys = {k1}
  Impacts = {plain, other}
  Grants = {}
  Accounts = {carol}
  AccountName <- MCAccountName
  LinkedHumans <- MCLinkedHumans
  Names <- MCNames
  CliNames = {"dave"}
  Fold <- MCFold
  KeyHuman <- MCKeyHuman
  Null = Null
  Callers = {c1}
  Retriers = {r1, r2}
  PendingTTL = 1
  TokenTTL = 1
  Reauth = 0
  MaxTime = 2
  bob = bob
  bob2 = bob2
  Bob = Bob
  dave = dave
  carol = carol
  k1 = k1
  k2 = k2
  grant = grant
  plain = plain
  other = other
SYMMETRY Workers
INVARIANTS TypeOK MintedByTheRightPeople SpentOnceAsApproved
PROPERTIES LostOnlyForCause
