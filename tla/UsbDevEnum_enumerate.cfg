SPECIFICATION Spec
CONSTANTS
  Packet = 3
  SectionSizes <- MCSections
  BlockSize <- MCBlockSize
  Requests <- MCRequests
  TidyResets = TRUE
  Window = FALSE
INVARIANTS AddressAgreed DataStageExact
PROPERTY EveryTransferEnds
