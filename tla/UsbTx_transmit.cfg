SPECIFICATION FairSpec
CONSTANTS
  Size = 5
  Packet = 3
  Preempt = "anywhere"
  ClientFlush = TRUE
  TakesInUpdate = FALSE
  MaxBytes = 8
  MaxUpsets = 2
INVARIANTS TypeOK BusyWhileOnItsWay NoByteLeftBehind NeverBusyForNothing
PROPERTIES CompleteReportsSent QueueSpec AllDelivered
