CONSTANTS
  Records = {a}
  Denied = {}
  Operators = {o1, o2}
  Holds = {}
  Verdicts <- Block2
  Interval = 1
  Retention = 1
  BackupTimes = {1}
  IssueTx = IssueTx
  NoTx = NoTx
  NoRecord = NoRecord
  NoDeletion = NoDeletion
  NoCase = NoCase
  NoJob = NoJob
  MaxTime = 2
  MaxWork = 1
  MaxFaults = 1
SPECIFICATION FairRescreen
PROPERTIES
  BlockIsDelivered
CHECK_DEADLOCK FALSE
