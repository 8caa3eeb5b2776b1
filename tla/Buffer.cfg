SPECIFICATION Spec
CONSTANTS
  Byte = {0, 1, 2, 3}
  Zero = 0
  Chunks <- MCChunks
  kCheapPrepend = 2
  kInitialSize = 3
  ExtraSize = 2
  MaxBytes = 9
INVARIANTS
  Layout
  Contents
PROPERTY
  GrowsOnlyWhenNeeded
