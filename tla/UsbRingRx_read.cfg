SPECIFICATION Spec
CONSTANTS
  Size = 4
  MaxAdvance = 3
  MaxTaken = 2
  Gaps = {"load", "add", "test", "skip", "flush"}
  Modulus = 64
  MaxBytes = 9
INVARIANTS TypeOK FreeBlockIsFree ContentsInOrder
PROPERTY QueueSpec
