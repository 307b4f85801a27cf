\* No failures at all: a multiple_call whose op id crosses 2^31, then one
\* restore_backup on the same client.
CONSTANTS
  Kinds <- MC_Batches
  MaxCalls = 2
  MaxOps = 3
  MaxFails = 0
  FirstOp <- MC_FirstOp
  CoordKinds <- MC_Restore
  Records = 1
SPECIFICATION Spec
CHECK_DEADLOCK FALSE
INVARIANT RestoreReturnsAllBackups
