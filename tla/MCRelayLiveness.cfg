CONSTANTS
  Txs = {1, 2}
  Relayable = {1, 2}
  NoRelay = NoRelay
  NoHash = NoHash
  NoSignature = NoHash
  NoBlock = NoBlock
  MaxAttempts = 2
  Capacity = 1
  Mixes <- LivenessMixes
SPECIFICATION FairWorkerSpec
PROPERTIES
  EveryJobCloses
