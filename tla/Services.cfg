\* Two lines of two words in caches of one line; a clock of three ticks a second with
\* words of 16; four calls of two functions from two places.
SPECIFICATION ServicesSpec
CONSTANTS
  LINE = 2
  Top = 2
  DLines = 1
  ILines = 1
  dset <- OnePlace
  iset <- OnePlace
  MaxBlocks = 1
  Word = 16
  HALF = 4
  ALT_US = 6
  Rate = 3
  Freq = 1
  Times <- Instants
  MaxTicks = 12
  MaxSetTick = 7
  Functions = {1, 2}
  Callers = {1, 2}
  MaxCalls = 4
INVARIANTS Coherent TimesRight ProfileRight
CHECK_DEADLOCK FALSE
