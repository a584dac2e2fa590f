SPECIFICATION CpswSpec
CONSTANTS
  NumBds = 2
  Pool = 2
  Hold = 2
  Burst = 1
  NumTx = 3
  MaxChain = 2
INVARIANTS BuffersSafe ReceptionGoesOn TransmissionGoesOn
PROPERTIES FramesInOrder HdpOnlyWhenStopped SentInOrder
