SPECIFICATION MCSpec
CONSTANTS
  s1 = s1  s2 = s2  r1 = r1  r2 = r2  hub1 = hub1  issuer1 = issuer1
  Subjects <- MCSubjects
  Replicas <- MCReplicas
  NoTx = NoTx  NoConf = NoConf  NoPlan = NoPlan  NoRecord = NoRecord
  MaxEntries = 2
  MaxTime = 1
  MaxLists = 1
  MaxEpoch = 2
  MaxForks = 1
  MaxOthers = 1
  MaxFaults = 1
  Lag = 0
  Age = 2
  RenewBefore = 1
  Commands = {"publish", "resume", "cancel", "check"}
  Holder = s1
  None = None
  Blocks <- MCBlocks
  Window <- MCWindow
  ValidAttrs = {1}
  Height = 3
  Chunk = 2
  MaxBlocks = 3
  MaxMoves = 4
CONSTRAINT Bounds
SYMMETRY ReplicaSymmetry
INVARIANTS SentIsRecoverable ConfirmedStands SnapshotIsCanonical
