\* Three calls of up to three operations on one client, two failures, op
\* ids crossing 2^31 at the third operation.
CONSTANTS
  Kinds <- MC_MainKinds
  MaxCalls = 3
  MaxOps = 3
  MaxFails = 2
  FirstOp <- MC_FirstOp
  CoordKinds <- MC_Coord
  Records = 1
SPECIFICATION Spec
\* The stub stops when its caller stops calling (after MaxCalls calls).
CHECK_DEADLOCK FALSE
INVARIANT TypeOK
 
