\* As MC_LinkRpcs.cfg, and m_sm->rpc may fail to issue an RPC.
CONSTANTS
  MaxVersion = 2
  MaxFails = 2
  MaxSuspects = 1
  IssueMayFail = TRUE
SPECIFICATION Spec
INVARIANT NeedTracksVersion
