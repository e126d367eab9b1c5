SPECIFICATION MCNetworkSpec
CONSTANTS
  alice = alice
  bob = bob
  carol = carol
  Accounts = {alice, bob, carol}
  MaxUint64 = 1023
  MinManaFloor = 2
  ManaRegenWindowBlocks = 2
  DefaultBlocksPerYear = 1
  DefaultManaBaseCost = 2
  DefaultManaCostPerByte = 2
  TotalManaPool = 8
  BlocksPerYear = 1
  ManaRegenMultiplier = 1
  MaxTxPerBlock = 2
  GenesisStore <- MCGenesisStore
  BankStates <- MCBankStates
  TxSizes = {0, 3}
  MaxTxBytes = 3
  MaxBlockTxs = 3
  MaxHeight = 2
INVARIANT
  NetworkBandwidth
