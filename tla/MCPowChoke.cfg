SPECIFICATION FairSpec
CONSTANTS
  Wallets = {w1, w2}
  PowMaxDifficulty = 3
  PowHighWatermarkTxPerBlock = 1000
  PowLowWatermarkTxPerBlock = 200
  Loads = {0, 199, 200, 1000, 1001}
  MaxRestarts = 1
INVARIANTS
  TypeOK
  EngagesOnlyWhenBusy
  DecaysWhenCalm
  AdmittedHaveWork
PROPERTIES
  CalmSwitchesOff
  WalletsGetIn
