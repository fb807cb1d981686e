CONSTANTS
  Records = {a, b}
  Denied = {a, b}
  Operators = {o1, o2}
  Holds = {h}
  Verdicts <- Block2
  Interval = 1
  Retention = 1
  BackupTimes = {}
  IssueTx = IssueTx
  NoTx = NoTx
  NoRecord = NoRecord
  NoDeletion = NoDeletion
  NoCase = NoCase
  NoJob = NoJob
  MaxTime = 2
  MaxWork = 2
  MaxFaults = 2
SPECIFICATION RescreenSpec
INVARIANTS
  NoncesDiffer
CHECK_DEADLOCK FALSE
