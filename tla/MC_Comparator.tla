--------------------------- MODULE MC_Comparator ---------------------------
EXTENDS Comparator

\* Two epochs, counters 0..1 for two timestampers: clocks <<e, c1, c2>>.
MC_Epochs == {0, 1}
MC_Counters == 0..1

\* compare_vector_clocks on a single clock skips its loop and then fails
\* assert(num_large < num_clks-1), 0 < 0 (event_order.cc:90), although
\* spec 4.1 admits N >= 1: true of every clock, so the runs start at two.
ASSUME \A c \in AllClocks : ~CompareVectorClocks(<<c>>).ok

\* compare_two_clocks scans only the shared prefix of clocks of different
\* lengths (its length asserts are commented out, event_order.cc:35) and
\* reports IDENTICAL (2) for a clock and its own prefix, although spec 4.1
\* says clocks of different lengths must be rejected: the runs therefore
\* compare clocks of one length only.
ASSUME \A e \in MC_Epochs, a, b \in MC_Counters :
         CompareTwoClocks(<<e, a, b>>, <<e, a>>) = 2
=============================================================================
