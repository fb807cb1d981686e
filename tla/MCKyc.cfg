SPECIFICATION IdentitySpec
CONSTANTS
  Flows = {f1, f2}
  StartIds = {1, 2}
  Accounts = {a1}
  Names = {kim, lee}
  kim = kim
  consent1 = consent1
  v1 = v1  v2 = v2
  Vendors = {v1, v2}
  Consents = {consent1}
  Processing <- MCProcessing
  Retention <- MCRetention
  MaxDeploys = 2
  NoneYet = NoneYet
  wallet1 = wallet1
  MaxTokens = 1
  FlowTime = 0
  Handlers = {h1, h2}
  WalletOf <- MCWalletOf
  HolderOf <- MCHolderOf
  Attempts = 2
  FlowStarts = 2
  AccountStarts = 2
  WalletStarts = 2
  GlobalStarts = 4
  Lifetime = 1
  TokenLife = 1
  Budget = 3
  MaxTime = 3
  MaxStarts = 2
  MaxRedeploys = 1
  Identity <- MCIdentity
  q1 = q1  customer1 = customer1
  Requests = {q1}
  Customers = {customer1, customer2}
  CustomerOf <- MCCustomerOf
  ClaimKeys = {n1}
  Keys = {k1}
  Blocks = {b1, b2}
  MaxHours = 2
  MaxAnswers = 2
  MaxChanges = 1
  NoIssuance = NoIssuance
  NoBlock = NoBlock
  NoRecord = NoRecord
  NoId = NoId
  NoEntry = NoEntry
  NoProof = NoProof
  Callers = {c1, c2}
  ApplyTries = 2
  ReviewKinds = {"hold", "green"}
  MaxReviews = 2
  MaxRevision = 3
  MaxExpiries = 1
  NoSession = NoSession
  w1 = w1
  WalletAccounts = {w1, w2}
  NoWallet = NoWallet
  MaxConnects = 2
  MaxSwitches = 1
  MaxPolls = 1
  MaxReads = 2
SYMMETRY IdentitySymmetry
CONSTRAINT OnePartAtATime
INVARIANTS
  OneDepositPerStart BitsAreEarned ApprovalIsFresh
  PageIsOneSession CommittedIsRecoverable HostedIsOneSession ProcessedAsDisclosed ExportIsBacked
CHECK_DEADLOCK FALSE
