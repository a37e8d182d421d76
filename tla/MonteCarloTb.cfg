\* monte_carlo_tb.sv waits 10 time units, 5 edges.
SPECIFICATION BenchSpec
CONSTANTS
  Inputs <- BenchInputs
  Cleared = Cleared
  WaitEdges = 5
INVARIANTS LineRight
