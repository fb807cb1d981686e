CONSTANTS
  alice = alice
  bob = bob
  kim = kim
  lee = lee
  src = src
  copycat = copycat
  NoContract = NoContract
  NoCredential = NoCredential
  NoReceipt = NoReceipt
  Subjects <- MCSubjects
  Issuers <- MCIssuers
  Accounts <- MCIssuers
  Contracts <- MCContracts
  Receipts <- HubReceipts
  Attrs = {"kyc", "malformed"}
  ValidAttrs = {"kyc"}
  Claims = {1, 2}
  KeyEpochs = {1}
  Epochs = {1, 2}
  ChainKeys = {1}
  MaxApprovals = 2
  MaxAge = 3
  MaxLag = 1
  MaxTime = 2
SPECIFICATION Spec
CONSTRAINT OneGroup
INVARIANTS
  StorageFollowsSourceOrder
  RosterIsNewestDelivered
  CompromiseCutsOff
PROPERTIES
  ImplementsLedger
  DenialLiftedOnlyByCorrection
CHECK_DEADLOCK FALSE
