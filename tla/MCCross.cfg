CONSTANTS
  alice = alice
  ana = ana
  ben = ben
  stable = stable
  k1 = k1
  k2 = k2
  k3 = k3
  NoKey = NoKey
  This = This
  ChainKey = 1
  Subjects <- OneHolder
  Attrs = {"kyc"}
  ValidAttrs = {"kyc"}
  Window <- MCWindow
  Claims = {1}
  Requests = {1, 2}
  Externals <- MCAccounts
  Stable = stable
  Address <- MCAddress
  Keys <- MCKeys
  Batches <- Twice
  Publications <- MCPublications
  ApprovalLists <- MCApprovals
  FirstIssuers = {ana, stable}
  FirstPublishers = {ana}
  FirstApprovers = {ana, ben}
  CorrectionDelay = 1
  MaxApprovals = 2
  MaxAge = 3
  MaxLag = 1
  MaxGeneration = 3
  MaxHeight = 3
  MaxTx = 1
  MaxCalls = 1
  MaxCorrections = 2
  MaxRoleChanges = 1
  HubIssuers <- MCIssuers
  HubEpochs = {1, 2}
  HubGenerations = {1, 2, 3, 4}
  NoContract = NoContract
  NoReceipt = NoReceipt
  NoCredential = NoCredential
  MaxTime = 1
SYMMETRY KeySymmetry
SPECIFICATION CrossSpec
CONSTRAINT SourceOrBoth
INVARIANTS
  SourceLogsAreAccepted
  AgreesOnceRelayed
  RosterMatchesHub
  CorrectionAnswersEveryDenial
  KeysStayApart
CHECK_DEADLOCK FALSE
