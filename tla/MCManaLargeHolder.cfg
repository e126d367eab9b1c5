SPECIFICATION Spec
CONSTANTS
  founder = founder
  validator = validator
  Accounts = {founder, validator}
  MaxUint64 = 2147483647
  MinManaFloor = 1000000
  ManaRegenWindowBlocks = 1000
  DefaultBlocksPerYear = 31557600
  DefaultManaBaseCost = 100
  DefaultManaCostPerByte = 1
  TotalManaPool = 1000000000
  BlocksPerYear = 31557600
  ManaRegenMultiplier = 1
  MaxTxPerBlock = 20
  GenesisStore <- MCGenesisStore
  BankStates <- MCWholeSupply
  TxSizes = {300}
  MaxTxBytes = 1048576
  MaxBlockTxs = 2
  MaxHeight = 2
INVARIANT
  LargeHolderBeatsFloor
CHECK_DEADLOCK FALSE
