SPECIFICATION MCGenesisSpec
CONSTANTS
  alice = alice
  bob = bob
  Accounts = {alice, bob}
  MaxUint64 = 1023
  MinManaFloor = 4
  ManaRegenWindowBlocks = 4
  DefaultBlocksPerYear = 4
  DefaultManaBaseCost = 1
  DefaultManaCostPerByte = 1
  TotalManaPool = 8
  BlocksPerYear = 4
  ManaRegenMultiplier = 1
  MaxTxPerBlock = 2
  GenesisStore <- MCGenesisStore
  BankStates <- MCRewardBank
  TxSizes = {0, 3}
  MaxTxBytes = 3
  MaxBlockTxs = 1
  MaxHeight = 3
  ExportKinds = {TRUE, FALSE}
  MaxExports = 1
INVARIANTS
  NoFreeMana
  RecoversGradually
