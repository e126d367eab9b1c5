SPECIFICATION MCSpec
CONSTANTS
  alice = alice
  bob = bob
  Accounts = {alice, bob}
  MaxUint64 = 15
  MinManaFloor = 4
  ManaRegenWindowBlocks = 8
  DefaultBlocksPerYear = 4
  DefaultManaBaseCost = 1
  DefaultManaCostPerByte = 1
  TotalManaPool = 8
  BlocksPerYear = 4
  ManaRegenMultiplier = 2
  MaxTxPerBlock = 2
  FirstStore <- MCFirstStore
  BankStates <- MCBankStates
  Tx <- MCTxs
  MaxTxBytes = 2
  MaxMempoolTxs = 3
  CometSize = 2
  MaxBlockBytes = 3
  MaxNonce = 2
  MaxCalls = 2
  MaxBlockTxs = 2
  MaxHeight = 3
  MaxRestarts = 1
INVARIANTS
  TypeOK
  CheckStateExact
  ProposalAccepted
  DecidedIsExecuted
  AdmittedIsProposable
  NothingLeftBehind
  NothingForgotten
