\* Two threads, five clocks, compare_vts on two clocks,
\* assign_vt_order with one 'before' clock; the service always answers.
CONSTANTS
  t1 = t1
  t2 = t2
  NoThread = NoThread
  Threads <- MC_Threads
  Clocks <- MC_Clocks
  MaxN = 2
  MaxBefore = 1
  TimeoutEnabled = FALSE
  VisQueries <- MC_OneVisQuery
SYMMETRY MC_Symmetry
SPECIFICATION Spec
INVARIANT TypeOK
INVARIANT ReportedOrdersDurable
INVARIANT NoAssertionFailure
INVARIANT OnlyAmbiguousEscalated
INVARIANT VisibilityDurable
