\* One thread, five clocks: compare_vts on up to three clocks,
\* assign_vt_order with up to two 'before' clocks (hard batches of two
\* pairs), four visibility queries.
CONSTANTS
  t1 = t1
  t2 = t2
  NoThread = NoThread
  Threads <- MC_OneThread
  Clocks <- MC_Clocks
  MaxN = 3
  MaxBefore = 2
  TimeoutEnabled = FALSE
  VisQueries <- MC_VisQueries
SPECIFICATION Spec
INVARIANT OnlyAmbiguousEscalated
INVARIANT VisibilityDurable
