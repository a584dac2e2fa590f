SPECIFICATION FairSpec
CONSTANTS
  Size = 3
  Packet = 3
  UartRoom = 1
  Durations = {0, 2}
  MaxBytes = 4
  MaxRequests = 2
  MaxRestarts = 1
INVARIANTS TypeOK EveryByteSomewhere PacketRemembered ClientUpToDate
PROPERTIES NoLaterDataFirst ChangesMade AllReceived
