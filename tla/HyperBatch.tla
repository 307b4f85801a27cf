----------------------------- MODULE HyperBatch -----------------------------
(***************************************************************************)
(* The batched HyperDex calls of hyper_stub_base                           *)
(* (src/common/hyper_stub_base.cc) on the stub's one client.               *)
(* multiple_call, multiple_get, multiple_get_partial and multiple_del      *)
(* issue N operations (HYPERDEX_CALL*, check_op_id, INSERT_HDEX_ID), then  *)
(* call hyperdex_client_loop once per operation counted as issued, look    *)
(* the returned op id up (CHECK_HDEX_ID) and check the statuses            *)
(* (HYPERDEX_CHECK_STATUSES).  The single-operation functions (call, get,  *)
(* del, commit_tx...) issue one operation and reap one completion without  *)
(* looking at its id.                                                      *)
(*                                                                         *)
(* The client hands out increasing op ids and completes its pending        *)
(* operations in any order; loop returns any completed one and writes its *)
(* status through the pointer given at issue.  An operation left pending   *)
(* when its call returns is completed by a later call's loop.  The calls   *)
(* of one stub are sequential.                                             *)
(*                                                                         *)
(* The coordinator's stub (src/coordinator/hyper_stub.cc) derives from     *)
(* hyper_stub_base and uses the same client: restore_backup runs one       *)
(* search whose results arrive as several completions of one op id, and    *)
(* clean_tx is a del inside a transaction followed by commit_tx or         *)
(* abort_tx; get_mappings looks node locations up with get_nmap, which      *)
(* reads back the output arrays of get_partial or multiple_get_partial.    *)
(***************************************************************************)
EXTENDS Integers, FiniteSets

CONSTANTS
  Kinds,      \* the functions of the stub that are called
  MaxCalls,   \* calls made
  MaxOps,     \* operations per batch
  MaxFails,   \* failed issues and failed completions
  FirstOp,    \* the first op id handed out is 2^31 + FirstOp
  CoordKinds, \* the coordinator stub's functions that are called
  Records     \* backup records in tx_space for this timestamper

ASSUME MaxCalls \in Nat /\ MaxOps \in Nat \ {0} /\ MaxFails \in Nat /\ FirstOp \in Int
ASSUME CoordKinds \subseteq {"restore_backup", "clean_tx", "get_mappings"} /\ Records \in 1..MaxOps

(***************************************************************************)
(* Op ids are int64; multiple_call keeps them in an 'int hdex_id'.  An id  *)
(* 2^31 + d (d small) is represented by d; a value of the id variable by   *)
(* [neg, v]: -2^31 + v if neg, 2^31 + v otherwise.  Stored in an int, the  *)
(* ids from 2^31 on wrap to negative values.  -1 is -2^31 + (2^31 - 1).    *)
(***************************************************************************)
IdValue(d, narrow) == [neg |-> narrow /\ d >= 0, v |-> d]
MinusOne == [neg |-> TRUE, v |-> 2147483647]

Statuses == {"SUCCESS", "NOTFOUND", "ABORTED", "ERROR", "TIMEOUT", "NONEPENDING"}
\* What an uninitialised hyperdex_client_returncode may read as, by the
\* classes the code tells apart: SUCCESS, one check_op_id lets pass, other.
Garbage == {"SUCCESS", "TIMEOUT", "ERROR"}

\* The functions, by what the model tells apart: whether the op id is kept
\* in an int, the completion statuses accepted, whether the op id returned
\* by loop is looked up.
MultipleCall == [narrow |-> TRUE, accept |-> {"SUCCESS"}, batch |-> TRUE]
\* Reached only through the wrapper that passes empty map vectors.
MultipleCallTx == [narrow |-> TRUE, accept |-> {"SUCCESS"}, batch |-> TRUE]
MultipleGet == [narrow |-> FALSE, accept |-> {"SUCCESS"}, batch |-> TRUE]
MultipleGetPartial == [narrow |-> FALSE, accept |-> {"SUCCESS"}, batch |-> TRUE]
MultipleDel == [narrow |-> FALSE, accept |-> {"SUCCESS", "NOTFOUND"}, batch |-> TRUE]
\* The single-operation functions: one HYPERDEX_CALL, and one HYPERDEX_LOOP
\* when the operation counted as issued, then the status check.
Call == [narrow |-> FALSE, accept |-> {"SUCCESS"}, batch |-> FALSE]
CallTx == [narrow |-> FALSE, accept |-> {"SUCCESS"}, batch |-> FALSE]
MapCall == [narrow |-> FALSE, accept |-> {"SUCCESS"}, batch |-> FALSE]
Get == [narrow |-> FALSE, accept |-> {"SUCCESS"}, batch |-> FALSE]
GetPartial == [narrow |-> FALSE, accept |-> {"SUCCESS"}, batch |-> FALSE]
Del == [narrow |-> FALSE, accept |-> {"SUCCESS"}, batch |-> FALSE]
\* commit_tx loops when check_op_id left success true, which for one
\* operation is the same test; an aborted transaction is not an error.
CommitTx == [narrow |-> FALSE, accept |-> {"SUCCESS", "ABORTED"}, batch |-> FALSE]

Fn == [multiple_call |-> MultipleCall, multiple_call_tx |-> MultipleCallTx,
       multiple_get |-> MultipleGet, multiple_get_partial |-> MultipleGetPartial,
       multiple_del |-> MultipleDel, call |-> Call, call_tx |-> CallTx,
       map_call |-> MapCall, get |-> Get, get_partial |-> GetPartial,
       del |-> Del, commit_tx |-> CommitTx]

ASSUME Kinds \subseteq DOMAIN Fn

VARIABLES
  nextOp,        \* the client's next op id
  pending,       \* operations issued and not completed: [id, call, slot]
  fails,         \* failures so far
  callNo,        \* calls started
  stale,         \* a completion's status was written for a call that returned
  lastRet,       \* the last call's result, for the properties
  \* locals of the running call
  phase,         \* "idle", "issue" or "loop"
  fn,            \* the function running
  n,             \* num_calls
  i,             \* the operation being issued
  opmap,         \* opid_to_idx
  success,       \* success
  successCalls,  \* success_calls
  numLoops,      \* num_loops
  loops,         \* completions reaped
  callStatus,    \* call_status[] (get_status[], del_status[])
  own,           \* slots whose operation this call reaped, completed with
                 \* a status the function accepts
  clean,         \* nothing was pending at the client when the call began
  \* the coordinator stub
  ctx,           \* where clean_tx is: "none", "del" (in del), "commit";
                 \* "nmap" in get_mappings
  searchId,      \* restore_backup's call_id
  txs,           \* the transactions restore_backup has recreated so far
  restored,      \* the last restore_backup's outcome, for the properties
  mappings       \* get_mappings: the handles asked while it runs, and
                 \* whether its last return reported one it never read

vars == <<nextOp, pending, fails, callNo, stale, lastRet, phase, fn, n, i,
          opmap, success, successCalls, numLoops, loops, callStatus, own, clean,
          ctx, searchId, txs, restored, mappings>>

OpIds == FirstOp..(FirstOp + MaxCalls * MaxOps)
Keys == {IdValue(d, b) : d \in OpIds, b \in BOOLEAN} \cup {MinusOne}
NoRet == [fn |-> "none", val |-> FALSE, allOk |-> FALSE, own |-> {}, clean |-> FALSE]
NoSearch == FirstOp - 1
NoRestore == [done |-> FALSE, txs |-> -1]
NoMappings == [asked |-> 0, spurious |-> FALSE]

\* A restore counts at most one transaction per completion the client holds.
MaxTxs == MaxCalls * (MaxOps + 1)

TypeOK ==
  /\ nextOp \in OpIds
  \* slot 0 is a search's SEARCHDONE, slots 1..Records its results
  /\ pending \subseteq [id : OpIds, call : 1..MaxCalls, slot : 0..MaxOps]
  /\ fails \in 0..MaxFails /\ callNo \in 0..MaxCalls /\ stale \in BOOLEAN
  /\ phase \in {"idle", "issue", "loop", "search"}
  /\ fn \in DOMAIN Fn \cup {"none"}
  /\ n \in 0..MaxOps /\ i \in 1..MaxOps
  /\ DOMAIN opmap \subseteq Keys /\ \A k \in DOMAIN opmap : opmap[k] \in -1..MaxOps
  /\ success \in BOOLEAN
  /\ successCalls \in 0..MaxOps /\ numLoops \in 0..MaxOps /\ loops \in 0..MaxOps
  /\ callStatus \in [1..MaxOps -> Statuses]
  /\ own \subseteq 1..MaxOps /\ clean \in BOOLEAN
  /\ ctx \in {"none", "del", "commit", "nmap"}
  /\ searchId \in OpIds \cup {NoSearch} /\ txs \in 0..MaxTxs
  /\ restored \in [done : BOOLEAN, txs : -1..MaxTxs]
  /\ mappings \in [asked : 0..MaxOps, spurious : BOOLEAN]

-----------------------------------------------------------------------------

\* check_op_id: TRUE when the id counts as issued (success_calls++), FALSE
\* when the call is marked failed.  A negative id counts as issued when the
\* status is TIMEOUT or NONEPENDING.
CheckOpId(key, st) == ~(key.neg /\ st \notin {"TIMEOUT", "NONEPENDING"})

\* The locals as the call's frame is left behind.
IdleLocals ==
  /\ phase' = "idle" /\ fn' = "none" /\ n' = 0 /\ i' = 1
  /\ opmap' = [k \in {} |-> 0] /\ success' = TRUE /\ successCalls' = 0
  /\ numLoops' = 0 /\ loops' = 0
  /\ callStatus' = [s \in 1..MaxOps |-> "ERROR"] /\ own' = {} /\ clean' = FALSE

\* The call returns val, having reaped the slots ownNow with accepted status.
Return(val, ownNow) ==
  /\ lastRet' = [fn |-> fn, val |-> val, allOk |-> ownNow = 1..n,
                 own |-> IF ctx = "nmap" THEN ownNow ELSE {}, clean |-> clean]
  /\ IdleLocals

coordVars == <<ctx, searchId, txs, restored, mappings>>

\* A call of function f with m operations; the status array is
\* uninitialised.
StartCall(f, m) ==
  /\ phase = "idle" /\ callNo < MaxCalls
  /\ Fn[f].batch \/ m = 1
  /\ phase' = "issue" /\ fn' = f /\ n' = m /\ i' = 1
  /\ opmap' = [k \in {} |-> 0] /\ success' = TRUE /\ successCalls' = 0
  /\ numLoops' = 0 /\ loops' = 0
  /\ callStatus' \in [1..MaxOps -> Garbage]
  /\ own' = {} /\ clean' = (pending = {})
  /\ callNo' = callNo + 1
  /\ UNCHANGED <<nextOp, pending, fails, stale, lastRet, searchId, txs, restored>>

\* A call made by the stub's user (not from inside clean_tx).
Begin(f, m) == ctx = "none" /\ StartCall(f, m) /\ UNCHANGED <<ctx, mappings>>

\* Variant with a plausible error: one loop too many (num_loops =
\* success_calls + 1).
StartLoopOffByOne(sc) ==
  phase' = "loop" /\ numLoops' = sc + 1 /\ successCalls' = 0

\* After the last issue: num_loops = success_calls; success_calls = 0.
StartLoop(sc) ==
  phase' = "loop" /\ numLoops' = sc /\ successCalls' = 0

\* After the issue of operation i returned key with the status array cs:
\* check_op_id, then for a batch INSERT_HDEX_ID (a repeated id returns
\* false at once) and, after the last issue, the loop phase; call() loops
\* only if its one operation counted as issued.
AfterIssue(key, cs) ==
  LET counted == CheckOpId(key, cs[i])
      sc == successCalls + (IF counted THEN 1 ELSE 0)
      su == success /\ counted
  IN  IF ~Fn[fn].batch
      THEN IF sc = 1
           THEN /\ StartLoop(sc) /\ success' = su /\ callStatus' = cs
                /\ UNCHANGED <<lastRet, fn, n, i, opmap, loops, own, clean>>
           ELSE Return(su, own)
      ELSE IF key \in DOMAIN opmap
      THEN Return(FALSE, own)
      ELSE /\ opmap' = [k \in DOMAIN opmap \cup {key} |-> IF k = key THEN i ELSE opmap[k]]
           /\ success' = su /\ callStatus' = cs
           /\ IF i = n
              THEN StartLoop(sc) /\ i' = i
              ELSE phase' = phase /\ numLoops' = numLoops /\ successCalls' = sc /\ i' = i + 1
           /\ UNCHANGED <<lastRet, fn, n, loops, own, clean>>

\* HYPERDEX_CALL of operation i: the client takes it and returns the next
\* op id; its status is written only when it completes.
IssueOk ==
  /\ phase = "issue"
  /\ pending' = pending \cup {[id |-> nextOp, call |-> callNo, slot |-> i]}
  /\ nextOp' = nextOp + 1
  /\ AfterIssue(IdValue(nextOp, Fn[fn].narrow), callStatus)
  /\ UNCHANGED <<fails, callNo, stale>> /\ UNCHANGED coordVars

\* HYPERDEX_CALL of operation i fails: -1 with an error status (an
\* INTERRUPTED issue is retried by HYPERDEX_CALL_WRAPPER).
IssueFail ==
  /\ phase = "issue"
  /\ fails < MaxFails
  /\ fails' = fails + 1
  /\ AfterIssue(MinusOne, [callStatus EXCEPT ![i] = "ERROR"])
  /\ UNCHANGED <<nextOp, pending, callNo, stale>> /\ UNCHANGED coordVars

\* The statuses a completion may carry, failures within the bound.
Completions == {"SUCCESS"} \cup IF fails < MaxFails THEN {"ERROR", "NOTFOUND"} ELSE {}

\* The client completes the pending operation p with status st: the status
\* goes to the slot of p's call, which may have returned already.
Complete(p, st) ==
  /\ pending' = pending \ {p}
  /\ fails' = IF st = "SUCCESS" THEN fails ELSE fails + 1
  /\ stale' = (stale \/ p.call # callNo)

\* The completions loop may return next: a search's SEARCHDONE comes after
\* all of its results.
Deliverable ==
  {p \in pending : p.slot = 0 => \A q \in pending : q.id = p.id => q = p}

Written(p, st) ==
  IF p.call = callNo THEN [callStatus EXCEPT ![p.slot] = st] ELSE callStatus

\* HYPERDEX_CHECK_STATUSES after loop returned with SUCCESS: the
\* operation's status must be one the function accepts.
CheckStatuses(f, st) == st \in Fn[f].accept

\* One HYPERDEX_LOOP of a batch: loop returns the id of a completed
\* operation p (any pending one) with loop status SUCCESS; check_op_id;
\* CHECK_HDEX_ID returns false for an id not in opid_to_idx or already
\* reaped; the statuses are checked and the entry set to -1.  The last
\* loop returns success.
LoopBatch ==
  /\ phase = "loop" /\ Fn[fn].batch /\ loops < numLoops
  /\ pending # {}
  /\ \E p \in Deliverable, st \in Completions :
       LET cs == Written(p, st)
           key == IdValue(p.id, Fn[fn].narrow)
           counted == CheckOpId(key, "SUCCESS")
       IN  /\ Complete(p, st)
           /\ IF key \notin DOMAIN opmap \/ opmap[key] < 0
              THEN Return(FALSE, own)
              ELSE LET idx == opmap[key]
                       ok == CheckStatuses(fn, cs[idx])
                       su == success /\ counted /\ ok
                       own2 == IF p.call = callNo /\ st \in Fn[fn].accept
                               THEN own \cup {p.slot} ELSE own
                   IN  IF loops + 1 = numLoops
                       THEN Return(su, own2)
                       ELSE /\ opmap' = [opmap EXCEPT ![key] = -1]
                            /\ success' = su /\ own' = own2 /\ callStatus' = cs
                            /\ loops' = loops + 1
                            /\ successCalls' = successCalls + (IF counted THEN 1 ELSE 0)
                            /\ UNCHANGED <<lastRet, phase, fn, n, i, numLoops, clean>>
  /\ UNCHANGED <<nextOp, callNo>> /\ UNCHANGED coordVars

\* The one HYPERDEX_LOOP of call(): whatever completion loop returns is taken
\* for the call's own; HYPERDEX_CHECK_STATUSES reads call_status, which only
\* the call's own completion writes.
LoopSingle ==
  /\ phase = "loop" /\ ~Fn[fn].batch
  /\ pending # {}
  /\ \E p \in Deliverable, st \in Completions :
       LET cs == Written(p, st)
           ok == CheckStatuses(fn, cs[1])
       IN  /\ Complete(p, st)
           /\ Return(success /\ ok,
                     IF p.call = callNo /\ st \in Fn[fn].accept THEN {1} ELSE {})
  /\ UNCHANGED <<nextOp, callNo>> /\ UNCHANGED coordVars

-----------------------------------------------------------------------------
(* The coordinator's stub, hyper_stub.                                     *)

\* restore_backup returns, having recreated k transactions; done when it
\* saw SEARCHDONE.  The function is void: its caller only gets the list.
RestoreReturn(done, k) ==
  /\ phase' = "idle" /\ restored' = [done |-> done, txs |-> k]
  /\ searchId' = NoSearch /\ txs' = 0 /\ clean' = FALSE

\* restore_backup: hyperdex_client_search for the records of vt_id.  A
\* negative call_id returns at once; otherwise the client will deliver one
\* completion per record and then SEARCHDONE.
RestoreBegin ==
  /\ "restore_backup" \in CoordKinds
  /\ phase = "idle" /\ ctx = "none" /\ callNo < MaxCalls
  /\ callNo' = callNo + 1
  /\ lastRet' = NoRet
  /\ \/ /\ pending' = pending \cup
              {[id |-> nextOp, call |-> callNo + 1, slot |-> k] : k \in 0..Records}
        /\ nextOp' = nextOp + 1
        /\ phase' = "search" /\ searchId' = nextOp /\ txs' = 0
        /\ clean' = (pending = {})
        /\ UNCHANGED <<fails, restored>>
     \/ /\ fails < MaxFails
        /\ fails' = fails + 1
        /\ restored' = [done |-> FALSE, txs |-> 0]
        /\ UNCHANGED <<pending, nextOp, phase, searchId, txs, clean>>
  /\ UNCHANGED <<stale, fn, n, i, opmap, success, successCalls, numLoops, loops,
                 callStatus, own, ctx, mappings>>

\* One pass of restore_backup's loop on completion p with status st: a
\* completion of another call, or a failed search, returns at once; a
\* result recreates one transaction (recreate_tx, emplace_back);
\* SEARCHDONE ends the loop.  A failed search delivers nothing more.
RestoreReap(p, st) ==
  IF p.id # searchId
  THEN Complete(p, st) /\ RestoreReturn(FALSE, txs)
  ELSE IF p.slot = 0
  THEN Complete(p, "SUCCESS") /\ RestoreReturn(TRUE, txs)
  ELSE IF st = "SUCCESS"
  THEN Complete(p, st) /\ txs' = txs + 1
       /\ UNCHANGED <<phase, searchId, restored, clean>>
  ELSE /\ pending' = {q \in pending : q.id # p.id}
       /\ fails' = fails + 1 /\ UNCHANGED stale
       /\ RestoreReturn(FALSE, txs)

\* hyperdex_client_loop inside restore_backup returns a completion.
RestoreLoop ==
  /\ phase = "search"
  /\ \E p \in Deliverable, st \in Completions : RestoreReap(p, st)
  /\ UNCHANGED <<nextOp, callNo, lastRet, fn, n, i, opmap, success,
                 successCalls, numLoops, loops, callStatus, own, ctx, mappings>>

\* clean_tx: begin_tx (no client operation), then del of the tx record
\* inside the transaction.
CleanTxBegin ==
  /\ "clean_tx" \in CoordKinds
  /\ ctx = "none"
  /\ StartCall("del", 1)
  /\ ctx' = "del" /\ UNCHANGED mappings

\* del has returned: true goes on to commit_tx, false to abort_tx, which
\* makes no client operation.
CleanTxAfterDel ==
  /\ phase = "idle" /\ ctx = "del"
  /\ IF lastRet.val
     THEN StartCall("commit_tx", 1) /\ ctx' = "commit" /\ UNCHANGED mappings
     ELSE /\ ctx' = "none"
          /\ UNCHANGED <<nextOp, pending, fails, callNo, stale, lastRet, phase,
                         fn, n, i, opmap, success, successCalls, numLoops, loops,
                         callStatus, own, clean, searchId, txs, restored, mappings>>

\* commit_tx has returned; a commit_status other than SUCCESS is logged.
CleanTxEnd ==
  /\ phase = "idle" /\ ctx = "commit"
  /\ ctx' = "none"
  /\ UNCHANGED <<nextOp, pending, fails, callNo, stale, lastRet, phase, fn, n,
                 i, opmap, success, successCalls, numLoops, loops, callStatus,
                 own, clean, searchId, txs, restored, mappings>>

\* get_mappings on m handles: one handle goes to get_nmap(h), a get_partial
\* on the single-operation path; several go to get_nmap(set), whose
\* multiple_get_partial fills the stack arrays attr_array and
\* num_attrs_array, left uninitialised.  An empty set makes no call.
GetMappingsBegin(m) ==
  /\ "get_mappings" \in CoordKinds
  /\ ctx = "none"
  /\ StartCall(IF m = 1 THEN "get_partial" ELSE "multiple_get_partial", m)
  /\ ctx' = "nmap"
  /\ mappings' = [asked |-> m, spurious |-> FALSE]

\* The handles get_nmap reports a location for, after the call returned
\* val having reaped the slots rd of its own operations with SUCCESS:
\* HyperDex writes a slot's attributes only then.  get_nmap(h) returns
\* UINT64_MAX unless get_partial returned true, and then reads num_attrs
\* and the value; get_nmap(set) ignores the result and reads every slot of
\* num_attrs_array: an unwritten slot holds whatever the stack held, and
\* is taken for one attribute when that is 1.
Reported(single, val, rd, asked) ==
  IF single
  THEN IF ~val THEN {{}} ELSE IF 1 \in rd THEN {{1}} ELSE {{}, {1}}
  ELSE {rd \cup g : g \in SUBSET (asked \ rd)}

\* get_mappings returns: ret holds the handles get_nmap reported.
GetMappingsEnd ==
  /\ phase = "idle" /\ ctx = "nmap"
  /\ ctx' = "none"
  /\ \E got \in Reported(lastRet.fn = "get_partial", lastRet.val, lastRet.own,
                         1..mappings.asked) :
       mappings' = [asked |-> 0, spurious |-> ~(got \subseteq lastRet.own)]
  /\ lastRet' = [lastRet EXCEPT !.own = {}]
  /\ UNCHANGED <<nextOp, pending, fails, callNo, stale, phase, fn, n,
                 i, opmap, success, successCalls, numLoops, loops, callStatus,
                 own, clean, searchId, txs, restored>>

Init ==
  /\ nextOp = FirstOp /\ pending = {} /\ fails = 0 /\ callNo = 0
  /\ stale = FALSE /\ lastRet = NoRet
  /\ phase = "idle" /\ fn = "none" /\ n = 0 /\ i = 1
  /\ opmap = [k \in {} |-> 0] /\ success = TRUE /\ successCalls = 0
  /\ numLoops = 0 /\ loops = 0
  /\ callStatus = [s \in 1..MaxOps |-> "ERROR"] /\ own = {} /\ clean = FALSE
  /\ ctx = "none" /\ searchId = NoSearch /\ txs = 0 /\ restored = NoRestore
  /\ mappings = NoMappings

Next ==
  \/ \E f \in Kinds, m \in 1..MaxOps : Begin(f, m)
  \/ IssueOk
  \/ IssueFail
  \/ LoopBatch
  \/ LoopSingle
  \/ RestoreBegin
  \/ RestoreLoop
  \/ CleanTxBegin
  \/ CleanTxAfterDel
  \/ CleanTxEnd
  \/ \E m \in 1..MaxOps : GetMappingsBegin(m)
  \/ GetMappingsEnd

\* The stub is a library: it stops when its caller stops calling, here
\* after MaxCalls calls.
Spec == Init /\ [][Next]_vars

-----------------------------------------------------------------------------
(* Properties.                                                             *)

CallSuccessMeansDone ==
  lastRet.fn # "none" /\ ~Fn[lastRet.fn].batch /\ lastRet.val => lastRet.allOk

\* No completion's status is written through the pointer of a call that
\* has already returned.
NoStaleCompletion == ~stale

\* Whenever restore_backup returns, its caller holds every backup record:
\* the function is void, so a list cut short is indistinguishable from a
\* complete one.
RestoreReturnsAllBackups == restored # NoRestore => restored.txs = Records


\* Every node location get_mappings returns was read from the store for
\* that node: get_nmap(set) must not report a handle whose get completed
\* NOTFOUND, failed, or was never reaped because multiple_get_partial
\* returned early.
MappingsFromStore == ~mappings.spurious

=============================================================================
