\* The latencies of the code, and short vectors: one fits the data cache whole, one does not.
SPECIFICATION SystemSpec
CONSTANTS
  X <- Terms
  Zero = Zero
  Garbage = Garbage
  Cleared = Cleared
  NoTerm = NoTerm
  NoSum = NoSum
  MulLatency = 4
  AddLatency = 5
  pipeline_stages = 6
  MidDelay = 2
  BottomDelay = 6
  AccInLatency = 2
  AccOutLatency = 4
  cycles = 15
  acc_cycles = 7
  ReadLatency = 23
  MaxWrites = 3
  Sizes <- SmallSizes
  Rounds = 2
  CacheWords = 1
  Stale = Stale
INVARIANTS PrintsRight
PROPERTIES BusKept OnServer Finishes
