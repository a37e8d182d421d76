\* Both directions at once, with a ring of one character and a FIFO of one, a host that
\* may fall silent, and calls of three characters.
SPECIFICATION Spec
CONSTANTS
  BufLen = 2
  FifoDepth = 1
  WriteThreshold = 0
  DefaultTimeout = 2
  IntMax = 4
  Sizes <- Three
  Timeouts <- Three
  Modes <- Waits
  Masks <- Waits
  MaxQueued = 3
  MaxTyped = 2
INVARIANTS IInv WriteArmed ReadArmed WaitsOnlyWhenFull
PROPERTIES Transmits Receives CountIsExact WritesReturn ReadsReturn
