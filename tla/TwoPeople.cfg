SPECIFICATION Spec
CONSTANTS
  ApprovalIds = {1}
  Keys = {k1}
  Impacts = {grant}
  Grants = {grant}
  Accounts = {bob, Bob, dave}
  AccountName <- MCAccountName
  LinkedHumans <- MCLinkedHumans
  Names <- MCNames
  CliNames = {}
  Fold <- MCFold
  KeyHuman <- MCKeyHuman
  Null = Null
  Callers = {c1, c2}
  Retriers = {r1}
  PendingTTL = 0
  TokenTTL = 0
  Reauth = 0
  MaxTime = 1
  bob = bob
  bob2 = bob2
  Bob = Bob
  dave = dave
  carol = carol
  k1 = k1
  k2 = k2
  grant = grant
  plain = plain
  other = other
SYMMETRY Workers
INVARIANTS MintedByTheRightPeople OutboxTellsTheRow
PROPERTIES HalvesAreLive ImplementsContract
