CONSTANTS
  Requests = {r1, r2}
  Owners = {script}
  Web = {}
  Hashes <- MCHashes
  NoTx = NoTx
  NoOwner = NoOwner
  NoRequest = NoRequest
  NoSlot = NoSlot
  NoRecord = NoRecord
  Never = Never
  Unreconciled = Unreconciled
  GasLimits = {2}
  GasUsed = 1
  DailyGas = 3
  DailyTransactions = 2
  MaxTick = 1
  MaxFaults = 1
SPECIFICATION FairDelivery
PROPERTY
  RequestsSettle
CHECK_DEADLOCK FALSE
