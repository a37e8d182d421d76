\* Any sequence of three inputs, bubbles and resets through the pipeline; and the
\* rotation of the inputs 0, 1/1024, ... 255, among which are those of the three test
\* cases of hello_world.c, and of the corners. A rotation ends.
SPECIFICATION SpecMC
CONSTANTS
  Inputs <- Grid
  Cleared = Cleared
  Steps = 1024
  Largest = 261120
INVARIANTS InStep ResultIsCosine Converges NoOverflow Accurate
CHECK_DEADLOCK FALSE
