SPECIFICATION Spec
CONSTANTS
  NumBds = 3
  Pool = 4
  Hold = 3
  Burst = 2
INVARIANT EndIsNoticed
