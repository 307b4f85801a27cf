\* One thread, five clocks; kronos_cl->wait may time out before the service
\* answers.  The caller then reads the order fields it filled in itself.
CONSTANTS
  t1 = t1
  t2 = t2
  NoThread = NoThread
  Threads <- MC_OneThread
  Clocks <- MC_Clocks
  MaxN = 2
  MaxBefore = 1
  TimeoutEnabled = TRUE
  VisQueries <- MC_VisQueries
SPECIFICATION Spec
INVARIANT ReportedOrdersDurable
