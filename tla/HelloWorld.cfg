\* The ten rounds of the program over short vectors, one of them only the 0.
SPECIFICATION Spec
CONSTANTS
  Sizes <- SmallSizes
  Rounds = 10
  CacheWords = 2
  Zero = Zero
  NoSum = NoSum
  Stale = Stale
INVARIANTS ResultsRight TransferRight
PROPERTIES KeepsContract
