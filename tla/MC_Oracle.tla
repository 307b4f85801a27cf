----------------------------- MODULE MC_Oracle -----------------------------
EXTENDS Oracle, TLC

CONSTANTS t1, t2

MC_Threads == {t1, t2}
MC_OneThread == {t1}

\* Five clocks <<epoch, c1, c2>> of two timestampers:
\*   a || b, b || e, c || e within epoch 0; a < c, b < c, a < e;
\*   d (epoch 1) after all of them by its epoch alone.
MC_Clocks == {<<0, 1, 0>>, <<0, 0, 1>>, <<0, 1, 1>>, <<0, 2, 0>>, <<1, 0, 0>>}

CA == <<0, 1, 0>>
CB == <<0, 0, 1>>
CC == <<0, 1, 1>>
CE == <<0, 2, 0>>

\* Visibility queries <<req, creat, del>>: both comparisons concurrent (two
\* Kronos calls); the deletion concurrent, the creation locally earlier;
\* the creation concurrent and no deletion; the request locally before the
\* creation.
MC_VisQueries == {<<CB, CA, CE>>, <<CC, CA, CE>>, <<CE, CB, NoClock>>,
                  <<CA, CC, NoClock>>}
\* The two-thread run: the query with two Kronos calls in a row.
MC_OneVisQuery == {<<CB, CA, CE>>}

MC_Symmetry == Permutations(MC_Threads)
=============================================================================
