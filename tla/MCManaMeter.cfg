SPECIFICATION MCMeterSpec
CONSTANTS
  alice = alice
  bob = bob
  Accounts = {alice, bob}
  MaxUint64 = 1023
  MinManaFloor = 4
  ManaRegenWindowBlocks = 4
  DefaultBlocksPerYear = 4
  DefaultManaBaseCost = 1
  DefaultManaCostPerByte = 1
  TotalManaPool = 8
  BlocksPerYear = 8
  ManaRegenMultiplier = 1
  MaxTxPerBlock = 2
  GenesisStore <- MCGenesisStore
  BankStates <- MCMeterBanks
  TxSizes = {0, 3, 4}
  MaxTxBytes = 3
  MaxBlockTxs = 3
  MaxHeight = 3
PROPERTY
  ImplementsMeter
