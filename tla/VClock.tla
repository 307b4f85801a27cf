------------------------------- MODULE VClock -------------------------------
(***************************************************************************)
(* The local, side-effect-free part of order::oracle                       *)
(* (src/common/event_order.cc): comparison of two vector clocks and the    *)
(* all-pairs scan that marks the clocks that are provably not the causal   *)
(* minimum.  A clock is a tuple <<epoch, c_1, ..., c_n>>: slot 1 is the    *)
(* epoch (clk[0] in the code), the others the per-timestamper counters.    *)
(*                                                                         *)
(* Result codes are those of the code: 0 (first smaller), 1 (second        *)
(* smaller), 2 (identical), -1 (incomparable).                             *)
(***************************************************************************)
EXTENDS Integers, Sequences

\* The std::min of the two sizes: the scan runs over the shared prefix only.
MinLen(c1, c2) == IF Len(c1) < Len(c2) THEN Len(c1) ELSE Len(c2)

-----------------------------------------------------------------------------
(* Variants of the operators below, each with one plausible coding error   *)
(* (named after it); the properties of the models must tell them apart    *)
(* from the code.                                                          *)

\* compare_two_clocks without the epoch short-circuit: clk[0] is scanned as
\* one more counter.
CompareTwoClocksNoEpoch(c1, c2) ==
  LET RECURSIVE Scan(_, _)
      Scan(i, ret) ==
        IF i > MinLen(c1, c2) THEN ret
        ELSE IF c1[i] < c2[i] /\ ret # 0 THEN IF ret = 2 THEN Scan(i + 1, 0) ELSE -1
        ELSE IF c1[i] > c2[i] /\ ret # 1 THEN IF ret = 2 THEN Scan(i + 1, 1) ELSE -1
        ELSE Scan(i + 1, ret)
  IN  Scan(1, 2)

\* compare_two_clocks with the 'ret != 0' test dropped: a second smaller
\* counter on the same side is taken for a conflict.
CompareTwoClocksNoDirGuard(c1, c2) ==
  LET RECURSIVE Scan(_, _)
      Scan(i, ret) ==
        IF i > MinLen(c1, c2) THEN ret
        ELSE IF c1[i] < c2[i] THEN IF ret = 2 THEN Scan(i + 1, 0) ELSE -1
        ELSE IF c1[i] > c2[i] /\ ret # 1 THEN IF ret = 2 THEN Scan(i + 1, 1) ELSE -1
        ELSE Scan(i + 1, ret)
  IN  IF c1[1] < c2[1] THEN 0 ELSE IF c1[1] > c2[1] THEN 1 ELSE Scan(2, 2)

-----------------------------------------------------------------------------

\* oracle::compare_two_clocks.  The epoch short-circuits; otherwise the
\* counters are scanned once, 'ret' remembering which side was smaller so far.
CompareTwoClocks(c1, c2) ==
  LET sz == MinLen(c1, c2)
      RECURSIVE Scan(_, _)
      Scan(i, ret) ==
        IF i > sz THEN ret
        ELSE IF c1[i] < c2[i] /\ ret # 0
                THEN IF ret = 2 THEN Scan(i + 1, 0) ELSE -1
        ELSE IF c1[i] > c2[i] /\ ret # 1
                THEN IF ret = 2 THEN Scan(i + 1, 1) ELSE -1
        ELSE Scan(i + 1, ret)
  IN  IF c1[1] < c2[1] THEN 0
      ELSE IF c1[1] > c2[1] THEN 1
      ELSE Scan(2, 2)

\* compare_vector_clocks, parameterised by the mark taken on cmp = 0 and by
\* whether num_large is bumped only for a clock not yet marked.
VectorScanVariant(clks, markOnZero(_, _), guardCount) ==
  LET n == Len(clks)
      RECURSIVE Inner(_, _, _, _, _), Outer(_, _, _, _)
      Mark(large, nl, k, ok) ==
        [large |-> [large EXCEPT ![k] = TRUE],
         nl |-> IF guardCount /\ large[k] THEN nl ELSE nl + 1, ok |-> ok]
      Inner(i, j, large, nl, ok) ==
        IF j > n THEN [large |-> large, nl |-> nl, ok |-> ok]
        ELSE LET cmp == CompareTwoClocks(clks[i], clks[j])
                 k == IF cmp = 0 THEN markOnZero(i, j) ELSE i
                 m == Mark(large, nl, k, ok /\ cmp # 2)
             IN  IF cmp \in {0, 1} /\ (~large[k] \/ ~guardCount)
                   THEN Inner(i, j + 1, m.large, m.nl, m.ok)
                 ELSE Inner(i, j + 1, large, nl, ok /\ cmp # 2)
      Outer(i, large, nl, ok) ==
        IF i > n - 1 THEN [large |-> large, nl |-> nl, ok |-> ok /\ nl < n - 1]
        ELSE LET r == Inner(i, i + 1, large, nl, ok)
             IN  IF r.nl = n - 1 THEN r ELSE Outer(i + 1, r.large, r.nl, r.ok)
  IN  Outer(1, [k \in 1..n |-> FALSE], 0, TRUE)

FirstOf(i, j) == i
SecondOf(i, j) == j

\* The '!large.at(j)' / '!large.at(i)' tests dropped: num_large is bumped for
\* every ordered pair, also when the later clock is already marked.
CompareVectorClocksNoMarkGuard(clks) == VectorScanVariant(clks, SecondOf, FALSE)

\* cmp = 0 (clocks[i] smaller) marks clocks[i] instead of clocks[j].
CompareVectorClocksMarkFirst(clks) == VectorScanVariant(clks, FirstOf, TRUE)

-----------------------------------------------------------------------------

\* oracle::compare_vector_clocks.  The i<j scan marks the later clock of
\* every locally ordered pair and returns as soon as n-1 clocks are marked.
\* 'ok' is FALSE when one of its assertions fails: two identical clocks were
\* compared, or the scan ran to the end with num_large >= n-1.
CompareVectorClocks(clks) ==
  LET n == Len(clks)
      RECURSIVE Inner(_, _, _, _, _), Outer(_, _, _, _)
      Inner(i, j, large, nl, ok) ==
        IF j > n THEN [large |-> large, nl |-> nl, ok |-> ok]
        ELSE LET cmp == CompareTwoClocks(clks[i], clks[j])
                 ok2 == ok /\ cmp # 2
             IN  IF cmp = 0 /\ ~large[j]
                    THEN Inner(i, j + 1, [large EXCEPT ![j] = TRUE], nl + 1, ok2)
                 ELSE IF cmp = 1 /\ ~large[i]
                    THEN Inner(i, j + 1, [large EXCEPT ![i] = TRUE], nl + 1, ok2)
                 ELSE Inner(i, j + 1, large, nl, ok2)
      Outer(i, large, nl, ok) ==
        IF i > n - 1
          THEN [large |-> large, nl |-> nl, ok |-> ok /\ nl < n - 1]
        ELSE LET r == Inner(i, i + 1, large, nl, ok)
             IN  IF r.nl = n - 1 THEN r
                 ELSE Outer(i + 1, r.large, r.nl, r.ok)
  IN  Outer(1, [k \in 1..n |-> FALSE], 0, TRUE)

\* The unmarked positions of a 'large' vector.
Unmarked(large) == {k \in DOMAIN large : ~large[k]}

\* get_false_position, and the final loop of compare_vts: the first
\* unmarked index, or 0 when every clock is marked (the assert(false) path).
FirstUnmarked(large) ==
  IF Unmarked(large) = {} THEN 0
  ELSE CHOOSE k \in Unmarked(large) : \A m \in Unmarked(large) : k =< m
=============================================================================
