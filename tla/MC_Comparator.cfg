\* Equal-length clocks (two timestampers), two or three clocks per scan.
CONSTANTS
  Epochs <- MC_Epochs
  Counters <- MC_Counters
  ClockLens = {3}
  MinN = 2
  MaxN = 3
SPECIFICATION Spec
INVARIANT TypeOK
INVARIANT CompareTwoMatchesHB
INVARIANT MarksExactlyNonMinimal
