------------------------------- MODULE Oracle -------------------------------
(***************************************************************************)
(* order::oracle (src/common/event_order.cc) shared by several coordinator *)
(* threads, and the external Kronos (chronos) temporal-order service it    *)
(* escalates to.  A thread runs compare_vts or assign_vt_order: the local  *)
(* pass of VClock, then, for the pairs the vector clocks cannot order, one *)
(* batched weaver_order call and a bounded wait on it.  The batch is an    *)
(* in/out buffer: the code fills in the requested order HAPPENS_BEFORE     *)
(* and reads the order fields back after kronos_cl->wait returns, whatever *)
(* the wait returned.                                                      *)
(*                                                                         *)
(* The service keeps the orders it has established (kfacts); it answers a  *)
(* request at some later step, possibly after the caller's wait has timed  *)
(* out.  'told' holds the orders the oracle handed to a caller last.       *)
(***************************************************************************)
EXTENDS VClock, FiniteSets
LOCAL INSTANCE Graphs

CONSTANTS
  Threads,         \* coordinator threads calling the oracle
  Clocks,          \* the vector clocks the calls are about
  MaxN,            \* most clocks given to one compare_vts call
  MaxBefore,       \* most 'before' clocks given to one assign_vt_order call
  TimeoutEnabled,  \* whether kronos_cl->wait may return before the answer
  NoThread,        \* owner of a request whose caller has stopped waiting
  VisQueries       \* <<req, creat, del>> arguments clock_creat_before_del_after
                   \* is called with (del may be NoClock)

ASSUME /\ NoThread \notin Threads
       /\ MaxN >= 2 /\ MaxBefore >= 1
       /\ TimeoutEnabled \in BOOLEAN

Orders == {"BEFORE", "AFTER"}   \* CHRONOS_HAPPENS_BEFORE, CHRONOS_HAPPENS_AFTER

\* The value 'after' holds outside assign_vt_order (any fixed clock).
IdleClock == CHOOSE c \in Clocks : TRUE

\* A null vclock_ptr_t (no deletion clock); no clock is empty.
NoClock == <<>>

Visibility == [req : Clocks, creat : Clocks, del : Clocks \cup {NoClock},
               ans : {"none", "pending", "visible", "hidden"}]

\* Clocks are unique: the three clocks of a query are distinct.
ASSUME \A q \in VisQueries :
         /\ q[1] \in Clocks /\ q[2] \in Clocks /\ q[3] \in Clocks \cup {NoClock}
         /\ q[1] # q[2] /\ q[3] \notin {q[1], q[2]}

\* Sequences of pairwise distinct clocks (clocks are unique; the code
\* asserts cmp != 2 on every pair it compares).
DistinctSeqs(lo, hi) ==
  UNION { {s \in [1..n -> Clocks] : \A i, j \in 1..n : i # j => s[i] # s[j]} :
          n \in lo..hi }

Requests == [owner : Threads \cup {NoThread},
             batch : Seq(Clocks \X Clocks),
             hard : BOOLEAN]

VARIABLES
  pc,        \* [Threads -> {"idle", "vts_wait", "assign_wait", "vis_del_wait",
             \*              "vis_creat_wait"}]
  clks,      \* the clocks argument: of compare_vts, or 'before' of assign_vt_order
  after,     \* the 'after' argument of assign_vt_order
  large,     \* the marks of the local pass of compare_vts
  pairs,     \* index pairs <<i, j>> of the weaver_pair batch of compare_vts
  buf,       \* the order fields of the caller's weaver_pair batch
  answered,  \* the service has written the answer into the caller's batch
  inflight,  \* requests the service has not processed yet
  kfacts,    \* happens-before orders the service has established
  told,      \* the orders the oracle reported to each thread on its last return
  failed,    \* an assertion of the oracle has failed
  vis        \* the arguments of each thread's clock_creat_before_del_after
             \* call and its answer, kept until its next call

vars == <<pc, clks, after, large, pairs, buf, answered, inflight, kfacts,
          told, failed, vis>>

TypeOK ==
  /\ pc \in [Threads -> {"idle", "vts_wait", "assign_wait", "vis_del_wait",
                         "vis_creat_wait"}]
  /\ clks \in [Threads -> Seq(Clocks)]
  /\ after \in [Threads -> Clocks]
  /\ large \in [Threads -> Seq(BOOLEAN)]
  /\ pairs \in [Threads -> Seq((1..MaxN) \X (1..MaxN))]
  /\ buf \in [Threads -> Seq(Orders)]
  /\ answered \in [Threads -> BOOLEAN]
  /\ inflight \subseteq Requests
  /\ kfacts \subseteq Clocks \X Clocks
  /\ told \in [Threads -> SUBSET (Clocks \X Clocks)]
  /\ failed \in BOOLEAN
  /\ vis \in [Threads -> Visibility]
  \* the batch compare_vts allocates (num_pairs slots) is the one its loop
  \* fills: one slot per pair of unmarked clocks
  /\ \A t \in Threads :
       pc[t] \in {"vts_wait", "vis_del_wait", "vis_creat_wait"} => Len(buf[t]) = Len(pairs[t])

-----------------------------------------------------------------------------
(* The order known to the oracle and to the service.                       *)

\* Pairs the local comparison orders: compare_two_clocks returns 0.
LocalOrder == {p \in Clocks \X Clocks : CompareTwoClocks(p[1], p[2]) = 0}

\* The order of the vector clocks and the orders in f, as a matrix of
\* paths (computed once and then looked up).
Order(f) == ConnectionsIn([node |-> Clocks, edge |-> f \cup LocalOrder])

\* x is ordered before y in the order matrix C.
Reaches(C, x, y) == x # y /\ C[x, y]

-----------------------------------------------------------------------------
(* The Kronos service (external: modelled from its interface, spec 6).     *)

\* A soft-fail batch (compare_vts) is answered pair by pair: an order
\* already implied is returned, otherwise the requested HAPPENS_BEFORE is
\* established.
RECURSIVE SoftAnswers(_, _, _)
SoftAnswers(batch, k, f) ==
  IF k > Len(batch) THEN [facts |-> f, orders |-> <<>>]
  ELSE LET l == batch[k][1]
           r == batch[k][2]
           C == Order(f)
           decided == Reaches(C, l, r) \/ Reaches(C, r, l)
           rest == SoftAnswers(batch, k + 1, IF decided THEN f ELSE f \cup {<<l, r>>})
       IN  [facts |-> rest.facts,
            orders |-> <<IF Reaches(C, r, l) THEN "AFTER" ELSE "BEFORE">> \o rest.orders]

\* A hard batch (assign_vt_order, flags 0) is all or nothing: every pair
\* is established as requested, or none is and the pairs that contradict
\* the established order come back HAPPENS_AFTER.
HardAnswers(batch, f) ==
  LET C == Order(f)
      ok == \A k \in DOMAIN batch : ~Reaches(C, batch[k][2], batch[k][1])
  IN  [facts |-> IF ok THEN f \cup {batch[k] : k \in DOMAIN batch} ELSE f,
       orders |-> [k \in DOMAIN batch |->
                     IF Reaches(C, batch[k][2], batch[k][1]) THEN "AFTER" ELSE "BEFORE"]]

\* The service processes one request; the answer reaches the caller's
\* batch only while the caller still waits on it.
ServeRequest(q) ==
  LET res == IF q.hard THEN HardAnswers(q.batch, kfacts)
             ELSE SoftAnswers(q.batch, 1, kfacts)
  IN  /\ kfacts' = res.facts
      /\ inflight' = inflight \ {q}
      /\ IF q.owner = NoThread THEN UNCHANGED <<buf, answered>>
         ELSE /\ buf' = [buf EXCEPT ![q.owner] = res.orders]
              /\ answered' = [answered EXCEPT ![q.owner] = TRUE]
      /\ UNCHANGED <<pc, clks, after, large, pairs, told, failed, vis>>

-----------------------------------------------------------------------------
(* Helpers of the oracle.                                                  *)

\* compare_vts returning index k of s: s[k] is ordered before every other.
Earliest(s, k) == {<<s[k], s[j]>> : j \in DOMAIN s \ {k}}

\* The ambiguous pairs, in the order of the i<j loops that fill the batch.
AmbiguousPairs(large_) ==
  LET U == Unmarked(large_)
      P == {p \in U \X U : p[1] < p[2]}
      Rank(p) == Cardinality({o \in P : o[1] < p[1] \/ (o[1] = p[1] /\ o[2] < p[2])})
  IN  [k \in 1..Cardinality(P) |-> CHOOSE p \in P : Rank(p) = k - 1]

\* The clocks compare_vts is called with, the result of its local pass
\* (compare_vector_clocks) on each, and the pairs that pass leaves
\* ambiguous: they depend on the constants only, so TLC computes them once.
VtsArgs == DistinctSeqs(2, MaxN)
LocalPass == [s \in VtsArgs |-> CompareVectorClocks(s)]
BatchPairs == [s \in VtsArgs |-> AmbiguousPairs(LocalPass[s].large)]

\* The epoch asserts of the batch loop: every clock of an ambiguous pair
\* has the epoch of the first one.
EpochsAgree(s, ps) ==
  LET idx == {ps[a][1] : a \in DOMAIN ps} \cup {ps[a][2] : a \in DOMAIN ps}
  IN  \A i, j \in idx : s[i][1] = s[j][1]

\* Variant of NumPairs with a plausible error: the /2 forgotten.
NumPairsNoHalf(n, nl) == (n - nl) * (n - nl - 1)

\* num_pairs, the size of the weaver_pair batch compare_vts allocates: the
\* pairs among the n - num_large unmarked clocks.
NumPairs(n, nl) == ((n - nl) * (n - nl - 1)) \div 2

\* Variant of ApplyOrders with a plausible error: the two cases swapped.
ApplyOrdersSwapped(large_, ps, orders) ==
  [k \in DOMAIN large_ |->
     \/ large_[k]
     \/ \E m \in DOMAIN ps : \/ ps[m][1] = k /\ orders[m] = "BEFORE"
                             \/ ps[m][2] = k /\ orders[m] = "AFTER"]

\* The apply loop of compare_vts: large_upd, the local marks plus, for each
\* pair <<i, j>> of the batch, j marked on HAPPENS_BEFORE, i on HAPPENS_AFTER.
ApplyOrders(large_, ps, orders) ==
  [k \in DOMAIN large_ |->
     \/ large_[k]
     \/ \E m \in DOMAIN ps : \/ ps[m][2] = k /\ orders[m] = "BEFORE"
                             \/ ps[m][1] = k /\ orders[m] = "AFTER"]

\* The waiting thread stops waiting: its outstanding request, if any, is
\* still processed by the service but no longer answers into its batch.
Orphan(t) ==
  {IF q.owner = t THEN [q EXCEPT !.owner = NoThread] ELSE q : q \in inflight}

\* kronos_cl->wait(ret, 100000, &status) returns: the answer arrived, or
\* the wait timed out (its return value and status are not checked).
WaitReturns(t) == answered[t] \/ TimeoutEnabled

-----------------------------------------------------------------------------
(* compare_vts(clocks): the index of the causally earliest clock.          *)

\* The local variables of a call, gone when it returns.
ReturnLocals(t) ==
  /\ pc' = [pc EXCEPT ![t] = "idle"]
  /\ clks' = [clks EXCEPT ![t] = <<>>]
  /\ after' = [after EXCEPT ![t] = IdleClock]
  /\ large' = [large EXCEPT ![t] = <<>>]
  /\ pairs' = [pairs EXCEPT ![t] = <<>>]
  /\ buf' = [buf EXCEPT ![t] = <<>>]
  /\ answered' = [answered EXCEPT ![t] = FALSE]

\* The local pass (compare_vts_no_kronos) leaves exactly one clock
\* unmarked: it is returned without calling Kronos.
CompareVtsLocal(t, s) ==
  LET r == LocalPass[s] IN
  /\ pc[t] = "idle"
  /\ Cardinality(Unmarked(r.large)) = 1
  /\ told' = [told EXCEPT ![t] = Earliest(s, FirstUnmarked(r.large))]
  /\ failed' = (failed \/ ~r.ok)
  /\ UNCHANGED <<pc, clks, after, large, pairs, buf, answered, inflight, kfacts, vis>>

\* The part of compare_vts past a local pass that left several clocks of s
\* unmarked: every pair of them goes into one soft-fail batch requesting
\* HAPPENS_BEFORE, on top of the requests f in flight, and the thread waits
\* on the call at 'stage'; fl is the assertion state so far.
EscalateVts(t, s, stage, f, fl) ==
  LET r == LocalPass[s]
      ps == BatchPairs[s]
  IN  /\ failed' = (fl \/ ~r.ok \/ ~EpochsAgree(s, ps))
      /\ pc' = [pc EXCEPT ![t] = stage]
      /\ clks' = [clks EXCEPT ![t] = s]
      /\ after' = [after EXCEPT ![t] = IdleClock]
      /\ large' = [large EXCEPT ![t] = r.large]
      /\ pairs' = [pairs EXCEPT ![t] = ps]
      /\ buf' = [buf EXCEPT ![t] =
                 [k \in 1..NumPairs(Len(s), Len(s) - Cardinality(Unmarked(r.large))) |-> "BEFORE"]]
      /\ answered' = [answered EXCEPT ![t] = FALSE]
      /\ inflight' = f \cup
           {[owner |-> t, hard |-> FALSE,
             batch |-> [k \in DOMAIN ps |-> <<s[ps[k][1]], s[ps[k][2]]>>]]}

\* compare_vts called with several clocks the local pass cannot order.
CompareVtsEscalate(t, s) ==
  /\ pc[t] = "idle"
  /\ Cardinality(Unmarked(LocalPass[s].large)) # 1
  /\ EscalateVts(t, s, "vts_wait", inflight, failed)
  /\ told' = [told EXCEPT ![t] = {}]
  /\ UNCHANGED <<kfacts, vis>>

\* The wait returns; each order field of the batch marks the later clock
\* of its pair, and the first unmarked clock is returned (none left is the
\* final assert(false)).
CompareVtsFinish(t) ==
  LET ps == pairs[t]
      upd == ApplyOrders(large[t], ps, buf[t])
      min == FirstUnmarked(upd)
  IN  /\ pc[t] = "vts_wait"
      /\ WaitReturns(t)
      /\ ReturnLocals(t)
      /\ failed' = (failed \/ min = 0)
      /\ told' = [told EXCEPT ![t] = IF min = 0 THEN {} ELSE Earliest(clks[t], min)]
      /\ inflight' = Orphan(t)
      /\ UNCHANGED <<kfacts, vis>>

-----------------------------------------------------------------------------
(* assign_vt_order(before, after): order 'after' after every 'before'.     *)
(* A 'before' clock that the local comparison finds equal to or later than *)
(* 'after' makes the call return false at once, with no Kronos call.       *)

\* Variant of NeedKronos with a plausible error: every 'before' clock that
\* is not locally later is sent, the ordered ones too.
NeedKronosNoCmpTest(b, a) == {i \in DOMAIN b : CompareTwoClocks(b[i], a) < 1}

\* Indices of the 'before' clocks the local comparison cannot order.
NeedKronos(b, a) == {i \in DOMAIN b : CompareTwoClocks(b[i], a) = -1}

\* The early return: some 'before' clock is locally equal or later.
AssignLocalFail(t, b, a) ==
  /\ pc[t] = "idle"
  /\ \E i \in DOMAIN b : CompareTwoClocks(b[i], a) >= 1
  /\ told' = [told EXCEPT ![t] = {}]
  /\ UNCHANGED <<pc, clks, after, large, pairs, buf, answered, inflight, kfacts, failed, vis>>

\* No 'before' clock is locally later, none is ambiguous: true at once.
AssignLocal(t, b, a) ==
  /\ pc[t] = "idle"
  /\ \A i \in DOMAIN b : CompareTwoClocks(b[i], a) < 1
  /\ NeedKronos(b, a) = {}
  /\ told' = [told EXCEPT ![t] = {<<b[i], a>> : i \in DOMAIN b}]
  /\ UNCHANGED <<pc, clks, after, large, pairs, buf, answered, inflight, kfacts, failed, vis>>

\* Some are ambiguous: one hard batch (flags 0) asking each of them to
\* happen before 'after'.
AssignEscalate(t, b, a) ==
  LET need == NeedKronos(b, a)
      idx == [k \in 1..Cardinality(need) |->
                CHOOSE i \in need : Cardinality({m \in need : m < i}) = k - 1]
  IN  /\ pc[t] = "idle"
      /\ \A i \in DOMAIN b : CompareTwoClocks(b[i], a) < 1
      /\ need # {}
      /\ pc' = [pc EXCEPT ![t] = "assign_wait"]
      /\ clks' = [clks EXCEPT ![t] = b]
      /\ after' = [after EXCEPT ![t] = a]
      /\ buf' = [buf EXCEPT ![t] = [k \in DOMAIN idx |-> "BEFORE"]]
      /\ answered' = [answered EXCEPT ![t] = FALSE]
      /\ inflight' = inflight \cup
           {[owner |-> t, hard |-> TRUE, batch |-> [k \in DOMAIN idx |-> <<b[idx[k]], a>>]]}
      /\ told' = [told EXCEPT ![t] = {}]
      /\ UNCHANGED <<large, pairs, kfacts, failed, vis>>

\* The wait returns; the call succeeds iff every order field of the batch
\* reads HAPPENS_BEFORE.
AssignFinish(t) ==
  /\ pc[t] = "assign_wait"
  /\ WaitReturns(t)
  /\ ReturnLocals(t)
  /\ told' = [told EXCEPT ![t] =
                IF \A k \in DOMAIN buf[t] : buf[t][k] = "BEFORE"
                THEN {<<clks[t][i], after[t]>> : i \in DOMAIN clks[t]}
                ELSE {}]
  /\ inflight' = Orphan(t)
  /\ UNCHANGED <<kfacts, failed, vis>>

-----------------------------------------------------------------------------
(* clock_creat_before_del_after(req, creat, del): whether an entity created *)
(* at creat and deleted at del (if any) is visible at req.  Each of its two *)
(* compare_two_vts calls compares locally and, when the clocks are         *)
(* concurrent, runs compare_vts on the two of them, waiting on Kronos.     *)

\* compare_vts returned index min (1-based; 0 is the assert(false) path):
\* the index of the earliest clock once the batch answers are applied.
VtsMin(t) == FirstUnmarked(ApplyOrders(large[t], pairs[t], buf[t]))

\* The call returns ans with assertion state fl and requests f in flight.
VisReturn(t, v, ans, fl, f) ==
  /\ ReturnLocals(t)
  /\ vis' = [vis EXCEPT ![t] = [v EXCEPT !.ans = ans]]
  /\ failed' = fl
  /\ inflight' = f

\* The second compare_two_vts(creat, req): locally decided, or escalated.
CreatCompare(t, v, fl, f) ==
  LET cmp2 == CompareTwoClocks(v.creat, v.req) IN
  IF cmp2 = -1
  THEN /\ EscalateVts(t, <<v.creat, v.req>>, "vis_creat_wait", f, fl)
       /\ vis' = [vis EXCEPT ![t] = v]
  ELSE VisReturn(t, v, IF cmp2 = 0 THEN "visible" ELSE "hidden", fl \/ cmp2 = 2, f)

\* Variant with a plausible error: cmp = (cmp_1 == 0), the deletion taken
\* to be in the request's future when it is in its past.
AfterDelCompareSwapped(t, v, later, fl, f) ==
  IF ~later THEN CreatCompare(t, v, fl, f) ELSE VisReturn(t, v, "hidden", fl, f)

\* cmp = (cmp_1 == 1): only a deletion after the request lets the creation
\* be compared; otherwise the entity is hidden.
AfterDelCompare(t, v, later, fl, f) ==
  IF later THEN CreatCompare(t, v, fl, f) ELSE VisReturn(t, v, "hidden", fl, f)

\* The call: with a deletion clock, compare_two_vts(del, req) first.
VisStart(t, r, c, d) ==
  LET v == [req |-> r, creat |-> c, del |-> d, ans |-> "pending"]
      cmp1 == CompareTwoClocks(d, r)
  IN  /\ pc[t] = "idle"
      /\ told' = [told EXCEPT ![t] = {}]
      /\ UNCHANGED kfacts
      /\ IF d = NoClock THEN CreatCompare(t, v, failed, inflight)
         ELSE IF cmp1 = -1
         THEN /\ EscalateVts(t, <<d, r>>, "vis_del_wait", inflight, failed)
              /\ vis' = [vis EXCEPT ![t] = v]
         ELSE AfterDelCompare(t, v, cmp1 = 1, failed \/ cmp1 = 2, inflight)

\* compare_vts(<<del, req>>) returns: index 1 means req is the earlier.
VisDelFinish(t) ==
  /\ pc[t] = "vis_del_wait"
  /\ WaitReturns(t)
  /\ AfterDelCompare(t, vis[t], VtsMin(t) = 2, failed \/ VtsMin(t) = 0, Orphan(t))
  /\ UNCHANGED <<told, kfacts>>

\* compare_vts(<<creat, req>>) returns: index 0 means creat is the earlier.
VisCreatFinish(t) ==
  /\ pc[t] = "vis_creat_wait"
  /\ WaitReturns(t)
  /\ VisReturn(t, vis[t], IF VtsMin(t) = 1 THEN "visible" ELSE "hidden",
               failed \/ VtsMin(t) = 0, Orphan(t))
  /\ UNCHANGED <<told, kfacts>>

-----------------------------------------------------------------------------

Init ==
  /\ pc = [t \in Threads |-> "idle"]
  /\ clks = [t \in Threads |-> <<>>]
  /\ after = [t \in Threads |-> IdleClock]
  /\ large = [t \in Threads |-> <<>>]
  /\ pairs = [t \in Threads |-> <<>>]
  /\ buf = [t \in Threads |-> <<>>]
  /\ answered = [t \in Threads |-> FALSE]
  /\ inflight = {}
  /\ kfacts = {}
  /\ told = [t \in Threads |-> {}]
  /\ failed = FALSE
  /\ vis = [t \in Threads |-> [req |-> IdleClock, creat |-> IdleClock,
                                del |-> NoClock, ans |-> "none"]]

Next ==
  \/ \E q \in inflight : ServeRequest(q)
  \/ \E t \in Threads :
       \/ \E s \in VtsArgs : CompareVtsLocal(t, s) \/ CompareVtsEscalate(t, s)
       \/ CompareVtsFinish(t)
       \/ \E b \in DistinctSeqs(1, MaxBefore), a \in Clocks :
            /\ a \notin {b[i] : i \in DOMAIN b}
            /\ \/ AssignLocalFail(t, b, a)
               \/ AssignLocal(t, b, a)
               \/ AssignEscalate(t, b, a)
       \/ AssignFinish(t)
       \/ \E q \in VisQueries : VisStart(t, q[1], q[2], q[3])
       \/ VisDelFinish(t)
       \/ VisCreatFinish(t)

Spec == Init /\ [][Next]_vars

-----------------------------------------------------------------------------
(* Properties.                                                             *)

\* Every order the oracle reports to a caller (compare_vts's earliest clock
\* before the others, a successful assign_vt_order's 'before' clocks
\* before 'after') is implied by the vector clocks and the orders the
\* service has durably established, so that the orders different threads
\* are told, now and later, are mutually consistent.  It fails if an
\* answer is applied to the wrong pair or the wrong side, or a result is
\* taken from a batch the service never answered.
ReportedOrdersDurable ==
  LET C == Order(kfacts) IN
  \A t \in Threads : \A e \in told[t] : Reaches(C, e[1], e[2])

\* No assertion of the oracle fails: the local pass never meets identical
\* clocks, the clocks of an escalated batch share one epoch, and after the
\* service's answers exactly one clock of compare_vts remains unmarked.
NoAssertionFailure == ~failed

\* The service is asked only about pairs the vector clocks cannot order
\* (spec 8, "escalation only when needed").
OnlyAmbiguousEscalated ==
  \A q \in inflight : \A k \in DOMAIN q.batch :
    CompareTwoClocks(q.batch[k][1], q.batch[k][2]) = -1

\* The answer of the last clock_creat_before_del_after call of each thread
\* agrees, now and after any later orders, with the established order: the
\* entity is reported visible iff its creation is ordered before the
\* request and the request before its deletion (if any).  Two threads that
\* ask about the same entity at the same request clock therefore get the
\* same answer, even when each answer needed up to two Kronos calls with
\* other threads' batches served in between.
VisibilityDurable ==
  LET C == Order(kfacts) IN
  \A t \in Threads :
    vis[t].ans \in {"visible", "hidden"} =>
      ((vis[t].ans = "visible") <=>
         /\ Reaches(C, vis[t].creat, vis[t].req)
         /\ vis[t].del = NoClock \/ Reaches(C, vis[t].req, vis[t].del))

=============================================================================
