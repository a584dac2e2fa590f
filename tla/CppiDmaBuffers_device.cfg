SPECIFICATION PoolSpec
CONSTANTS
  NumBuffers = 6
  Modulus = 64
  Held = 1
  MaxBlocks = 3
  Transfers = {t1, t2, t3}
INVARIANTS TypeOK OwnersApart UsedIffOwned
