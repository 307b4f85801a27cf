\* No failures at all: only op ids crossing 2^31 in multiple_call's int.
CONSTANTS
  Kinds <- MC_WithCall
  MaxCalls = 2
  MaxOps = 3
  MaxFails = 0
  FirstOp <- MC_FirstOp
  CoordKinds <- MC_Coord
  Records = 1
SPECIFICATION Spec
CHECK_DEADLOCK FALSE
INVARIANT CallSuccessMeansDone
