----------------------------- MODULE Comparator -----------------------------
(***************************************************************************)
(* The comparator of order::oracle checked against the vector-clock        *)
(* happens-before relation.  Each step is one call of a pure function of   *)
(* VClock on inputs drawn from a small universe of clocks; the variables   *)
(* hold the inputs and the result of the latest call of each function.     *)
(***************************************************************************)
EXTENDS VClock, FiniteSets

CONSTANTS
  Epochs,      \* epoch numbers (slot 0 of a clock)
  Counters,    \* per-timestamper counter values
  ClockLens,   \* lengths of the clocks that may be compared (1 + #VTs)
  MinN, MaxN   \* bounds on the number of clocks given to compare_vector_clocks

ASSUME /\ ClockLens \subseteq 2..5
       /\ MinN \in 1..MaxN

\* Every clock of every admitted length.
AllClocks ==
  UNION { {<<e>> \o c : e \in Epochs, c \in [1..(L - 1) -> Counters]} : L \in ClockLens }

\* Sequences of pairwise distinct clocks of one length, MinN to MaxN long:
\* compare_vector_clocks requires distinct clocks (it asserts cmp != 2).
ClockVectors ==
  UNION { {s \in [1..n -> {c \in AllClocks : Len(c) = L}] :
              \A i, j \in 1..n : i # j => s[i] # s[j]} :
          n \in MinN..MaxN, L \in ClockLens }

VARIABLE
  call   \* the latest call: the function, its argument and its result

vars == <<call>>

TwoCalls == [fn : {"compare_two_clocks"}, arg : AllClocks \X AllClocks, ret : {-1, 0, 1, 2}]
\* A scan result; num_large is the "number of true values" in large.
ScanResults(s) ==
  {r \in [large : [DOMAIN s -> BOOLEAN], nl : 0..MaxN, ok : BOOLEAN] :
     r.nl = Cardinality({k \in DOMAIN s : r.large[k]})}

\* The type of the latest call; for compare_vector_clocks this includes the
\* invariant the code's comment gives num_large (the count of marked clocks),
\* on which compare_vts's early exit and its num_pairs rely.
TypeOK ==
  \/ call \in TwoCalls
  \/ /\ call.fn = "compare_vector_clocks"
     /\ call.arg \in ClockVectors
     /\ call.ret \in ScanResults(call.arg)

\* A call of compare_two_clocks(a, b).
CallCompareTwoClocks(a, b) ==
  call' = [fn |-> "compare_two_clocks", arg |-> <<a, b>>, ret |-> CompareTwoClocks(a, b)]

\* A call of compare_vector_clocks(s).
CallCompareVectorClocks(s) ==
  call' = [fn |-> "compare_vector_clocks", arg |-> s, ret |-> CompareVectorClocks(s)]

Init ==
  \E a, b \in AllClocks :
    call = [fn |-> "compare_two_clocks", arg |-> <<a, b>>, ret |-> CompareTwoClocks(a, b)]

Next ==
  \/ \E a, b \in AllClocks : CallCompareTwoClocks(a, b)
  \/ \E s \in ClockVectors : CallCompareVectorClocks(s)

Spec == Init /\ [][Next]_vars

-----------------------------------------------------------------------------
(* Reference definitions, from the happens-before relation of vector       *)
(* clocks (clocks of one length).                                          *)

\* a happens before b: a lower epoch, or the same epoch and every counter
\* of a at most the one of b, a # b.
HappensBefore(a, b) ==
  \/ a[1] < b[1]
  \/ /\ a[1] = b[1] /\ a # b
     /\ \A k \in 2..Len(a) : a[k] =< b[k]

\* The ComparisonResult the spec assigns to the pair (a, b).
Expected(a, b) ==
  IF a = b THEN 2
  ELSE IF HappensBefore(a, b) THEN 0
  ELSE IF HappensBefore(b, a) THEN 1
  ELSE -1

-----------------------------------------------------------------------------
(* Properties.                                                             *)

\* compare_two_clocks classifies every pair of equal-length clocks exactly
\* as happens-before does: epoch dominance, antisymmetry, IDENTICAL only
\* for equal clocks, INCOMPARABLE only for concurrent clocks.  The single
\* 'ret' variable of the counter scan must remember the direction of the
\* first difference and give up on the first opposite one.
CompareTwoMatchesHB ==
  call.fn = "compare_two_clocks" /\ Len(call.arg[1]) = Len(call.arg[2])
    => call.ret = Expected(call.arg[1], call.arg[2])

\* compare_vector_clocks marks exactly the clocks that some other clock of
\* the set happens before, and none of its assertions fails, in spite of
\* the early exit once n-1 clocks are marked.
MarksExactlyNonMinimal ==
  call.fn = "compare_vector_clocks" =>
    LET s == call.arg IN
    /\ call.ret.ok
    /\ \A k \in DOMAIN s :
         call.ret.large[k] <=> \E j \in DOMAIN s : HappensBefore(s[j], s[k])
=============================================================================
