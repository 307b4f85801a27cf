\* One get_mappings of two handles on a fresh client, one of which the
\* store may not hold (a NOTFOUND completion).
CONSTANTS
  Kinds <- MC_NoKinds
  MaxCalls = 1
  MaxOps = 2
  MaxFails = 1
  FirstOp = 0
  CoordKinds <- MC_Mappings
  Records = 1
SPECIFICATION Spec
CHECK_DEADLOCK FALSE
INVARIANT MappingsFromStore
