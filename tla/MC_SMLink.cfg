CONSTANTS
  Maintainer = Maintainer
  Poller = Poller
  NoThread = NoThread
  a1 = a1
  a2 = a2
  Apps <- MC_TwoApps
  MaxCalls = 2
  MaxEvents = 3
  FairMutex = FALSE
SPECIFICATION Spec
INVARIANT TypeOK
INVARIANT MutualExclusion
INVARIANT EventsInOrder
PROPERTY ImplementsLinkSection
