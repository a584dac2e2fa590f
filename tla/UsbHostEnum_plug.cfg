SPECIFICATION Spec
CONSTANTS
  Packet = 2
  DefaultPacket = 16
  Head = 2
  DevSize = 5
  CfgHead = 3
  CfgTotals = {4, 5}
  PoolSize = 4
  MaxPlugs = 2
  MaxFaults = 1
  SlowHands = TRUE
INVARIANTS OpenOnWhole
PROPERTY FollowsThePlug
