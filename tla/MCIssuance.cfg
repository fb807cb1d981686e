CONSTANTS
  Requests = {r1, r2}
  Owners = {web, script}
  Web = {web}
  Hashes <- MCHashes
  NoTx = NoTx
  NoOwner = NoOwner
  NoRequest = NoRequest
  NoSlot = NoSlot
  NoRecord = NoRecord
  Never = Never
  Unreconciled = Unreconciled
  GasLimits = {2}
  GasUsed = 1
  DailyGas = 3
  DailyTransactions = 2
  MaxTick = 1
  MaxFaults = 1
SPECIFICATION DeliverySpec
INVARIANTS
  SignedHoldsGate
  OneNonceOneTransaction
PROPERTIES
  DecisionStands
SYMMETRY RequestSymmetry
CHECK_DEADLOCK FALSE
