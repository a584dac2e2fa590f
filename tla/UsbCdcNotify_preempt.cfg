SPECIFICATION NotifyFairSpec
CONSTANTS
  Lines = {txcarrier, rxcarrier}
  Errors = {parity}
  Preempt = TRUE
  MaxChanges = 3
  MaxPackets = 1
  MaxConfigs = 1
INVARIANTS NotifyTypeOK BusyWhileNotifying NeverBusyForNothing ReportedAtRest
PROPERTIES EventuallyReported
CHECK_DEADLOCK FALSE
