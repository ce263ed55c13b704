CONSTANTS
  BufferSize = 3
SPECIFICATION ResetSCSpec
INVARIANTS NeverDetects
