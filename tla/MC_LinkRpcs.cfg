\* Two versions of each flag, up to two failed RPCs and one lost session;
\* issuing never fails.
CONSTANTS
  MaxVersion = 2
  MaxFails = 2
  MaxSuspects = 1
  IssueMayFail = FALSE
SPECIFICATION Spec
INVARIANT TypeOK
INVARIANT NeedTracksVersion
PROPERTY VersionsEventuallyApplied
PROPERTY OnlineEventuallyRestored
