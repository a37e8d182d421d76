\* A tick is two microseconds and a word holds 0..15: at tick 8 their product does not fit.
SPECIFICATION Spec
CONSTANTS
  Word = 16
  HALF = 2
  ALT_US = 6
  Rate = 3
  Freq = 1
  Times <- Late
  MaxTicks = 9
  MaxSetTick = 8
INVARIANT WallClock
CHECK_DEADLOCK FALSE
