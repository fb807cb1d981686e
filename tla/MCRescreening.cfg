CONSTANTS
  Records = {a, b}
  Denied = {b}
  Operators = {o1, o2}
  Holds = {h}
  Verdicts <- Block2
  Interval = 1
  Retention = 1
  BackupTimes = {1}
  IssueTx = IssueTx
  NoTx = NoTx
  NoRecord = NoRecord
  NoDeletion = NoDeletion
  NoCase = NoCase
  NoJob = NoJob
  MaxTime = 2
  MaxWork = 2
  MaxFaults = 1
  Txs = {1}
  NoRelay = NoRelay
  NoHash = NoHash
  NoBlock = NoBlock
  MaxAttempts = 2
  Sampled = {1}
  Never = Never
  MaxClock = 4
  MaxScanAge = 2
  Timeout = 1
  JobAge = 2
  RetryLimit = 1
  MaxBlockLag = 1
  MaxRunGap = 2
  RequiredWindow = 2
  TargetMinJobs = 0
SPECIFICATION MCSpec
INVARIANTS
  SentIsRetained
  DrainedMeansRevoked
  OutageIsSeen
PROPERTIES
  BlockStands
  ErasureIsAgreedAndFinal
CONSTRAINT Bounds
ACTION_CONSTRAINT Settled
CHECK_DEADLOCK FALSE
