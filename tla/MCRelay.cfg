CONSTANTS
  Txs = {1, 2}
  Relayable = {1, 2}
  NoRelay = NoRelay
  NoHash = NoHash
  NoSignature = NoHash
  NoBlock = NoBlock
  MaxAttempts = 2
  Capacity = 2
  Mixes <- SafetyMixes
SPECIFICATION WorkerSpec
CONSTRAINT SimpleRecovery
INVARIANTS
  EvidenceKept
  OutcomeIsOnHub
  HubHeldForCause
  SignedOnce
