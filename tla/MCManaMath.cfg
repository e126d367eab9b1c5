SPECIFICATION Spec
CONSTANTS
  MaxUint64 = 15
  MinManaFloor = 4
  ManaRegenWindowBlocks = 4
  DefaultBlocksPerYear = 4
  DefaultManaBaseCost = 1
  DefaultManaCostPerByte = 1
  TotalManaPool = 8
  BlocksPerYear = 4
  ManaRegenMultiplier = 1
  MaxElapsed = 4
INVARIANTS
  SaturatesExactly
  LazyEqualsEager
