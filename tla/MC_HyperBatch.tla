---------------------------- MODULE MC_HyperBatch ----------------------------
EXTENDS HyperBatch

\* The batch functions, with op ids stored in an int and in an int64, and
\* with the statuses of multiple_del.
MC_Batches == {"multiple_call", "multiple_get", "multiple_del"}
\* The same, and the single-operation call().
MC_WithCall == MC_Batches \cup {"call"}
\* The client has handed out 2^31 - 3 op ids: the third one crosses 2^31.
MC_FirstOp == -2
\* The main run: get_mappings calls multiple_get_partial, whose entry of Fn
\* is multiple_get's, so multiple_get is left to it.
MC_MainKinds == {"multiple_call", "multiple_del", "call"}
\* The functions of the coordinator's stub.
MC_Coord == {"restore_backup", "clean_tx", "get_mappings"}
\* Only restore_backup.
MC_Restore == {"restore_backup"}
\* Only get_mappings, and no function of the base called directly.
MC_Mappings == {"get_mappings"}
MC_NoKinds == {}
=============================================================================
