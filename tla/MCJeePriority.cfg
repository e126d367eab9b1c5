SPECIFICATION MCSpec
CONSTANTS
  alice = alice
  bob = bob
  Accounts = {alice, bob}
  MaxUint64 = 1023
  MinManaFloor = 4
  ManaRegenWindowBlocks = 4
  DefaultBlocksPerYear = 4
  DefaultManaBaseCost = 1
  DefaultManaCostPerByte = 1
  TotalManaPool = 8
  BlocksPerYear = 4
  ManaRegenMultiplier = 2
  MaxTxPerBlock = 2
  FirstStore <- MCModestStore
  BankStates <- MCFrozenBank
  Tx <- MCOneForm
  MaxTxBytes = 2
  MaxMempoolTxs = 3
  CometSize = 3
  MaxBlockBytes = 3
  MaxNonce = 2
  MaxCalls = 1
  MaxBlockTxs = 2
  MaxHeight = 3
  MaxRestarts = 0
INVARIANT
  HigherManaFirst
