CONSTANTS
  Holders = {h1, h2}
  Issuers = {"kyc"}
  Accounts = {a1, a2}
  Marks <- MCMarks
  Policies <- MCPolicies
  Kinds = {1}
  Publications <- MCPublications
  NoMark = NoMark
  NoIssuer = NoIssuer
  NoAccount = NoAccount
  MaxPolicies = 1
  MaxEpoch = 2
  MaxTime = 2
  RecoveryDelay = 1
  MaxSupply = 1
  MaxRecoveries = 1
  TreeKeys = 4
  TreeMarks = {mark}
  NotListed = NotListed
  NoRoster = NoRoster
  NEVER_ISSUED = 2
  DEMO_SUBJECT = 3
SPECIFICATION NoteAndTreeSpec
SYMMETRY Symmetries
CONSTRAINT NoteOrDirect
INVARIANTS
  WitnessIsCurrent
  RecoveryTakesTwo
  ProofsAreExact
PROPERTIES
  BalancesMoveByRule
CHECK_DEADLOCK FALSE
