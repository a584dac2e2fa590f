SPECIFICATION Spec
CONSTANTS
  Size = 4
  Packet = 3
  UartRoom = 1
  Durations = {0, 2}
  MaxBytes = 5
  MaxRequests = 2
  MaxRestarts = 0
PROPERTIES DeferredBreakAsAsked
