CONSTANTS
  BlockGasLimit = 8
  MaxU128 = 2268
  U64Modulus = 252
  GenesisFees = {1, 5, 16, 60}
  Supply = 1000
  MinGas = 2
  MaxTxGas = 8
SPECIFICATION MarketSpec
INVARIANTS
  FeeStaysInRange
  FeeFitsU64
  FeeFollowsDemand
  NeverPricedOut
