\* Every latency at its smallest value that keeps the code's structure.
SPECIFICATION Spec
CONSTANTS
  x1 = x1
  x2 = x2
  X <- Terms
  Zero = Zero
  Garbage = Garbage
  Cleared = Cleared
  NoTerm = NoTerm
  NoSum = NoSum
  MulLatency = 1
  AddLatency = 1
  pipeline_stages = 2
  MidDelay = 1
  BottomDelay = 2
  AccInLatency = 1
  AccOutLatency = 1
  cycles = 4
  acc_cycles = 3
  ReadLatency = 8
  MaxWrites = 3
INVARIANTS IInv ReadReturnsSum LanesMeet NeverGated RestartDrained
PROPERTIES Implements Settles
