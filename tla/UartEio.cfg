\* A host that was idle for a second, and shorter than the time-out.
SPECIFICATION Spec
CONSTANTS
  BufLen = 2
  FifoDepth = 1
  WriteThreshold = 0
  DefaultTimeout = 8
  IntMax = 11
  Sizes <- One
  Timeouts <- None
  Modes <- Waits
  Masks <- Waits
  MaxQueued = 3
  MaxTyped = 0
PROPERTIES EioMeansAbsent
