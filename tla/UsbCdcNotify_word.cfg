SPECIFICATION NotifySpec
CONSTANTS
  Lines = {txcarrier, rxcarrier}
  Errors = {parity}
  Preempt = TRUE
  MaxChanges = 3
  MaxPackets = 1
  MaxConfigs = 0
INVARIANTS WordKept
CHECK_DEADLOCK FALSE
