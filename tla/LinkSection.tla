----------------------------- MODULE LinkSection -----------------------------
(***************************************************************************)
(* What the critical section of server_manager_link_wrapper promises, with *)
(* no mutex, condition variable, signal or poller in sight: one thread at  *)
(* a time owns the replicant client; the events the server manager        *)
(* produces wait in one queue, and only the maintainer, while it owns the  *)
(* client, takes them off, oldest first.  Handling an event may end the    *)
(* maintainer's turn.  SMLink is shown to implement this module.           *)
(***************************************************************************)
EXTENDS Naturals, Sequences

CONSTANTS Maintainer, Threads, NoThread, MaxEvents

VARIABLES
  holder,    \* the thread that owns the client, or NoThread
  produced,  \* events produced so far
  pending,   \* events produced and not yet handled, oldest first
  handled    \* events handled, in order

avars == <<holder, produced, pending, handled>>

AInit ==
  /\ holder = NoThread /\ produced = 0
  /\ pending = <<>> /\ handled = <<>>

Acquire(t) ==
  /\ holder = NoThread
  /\ holder' = t
  /\ UNCHANGED <<produced, pending, handled>>

Release(t) ==
  /\ holder = t
  /\ holder' = NoThread
  /\ UNCHANGED <<produced, pending, handled>>

AProduce ==
  /\ produced < MaxEvents
  /\ produced' = produced + 1
  /\ pending' = Append(pending, produced + 1)
  /\ UNCHANGED <<holder, handled>>

\* The maintainer handles the oldest pending event and keeps or ends its
\* turn.
Handle ==
  /\ holder = Maintainer
  /\ pending # <<>>
  /\ handled' = Append(handled, Head(pending))
  /\ pending' = Tail(pending)
  /\ holder' \in {Maintainer, NoThread}
  /\ UNCHANGED produced

ANext ==
  \/ \E t \in Threads : Acquire(t) \/ Release(t)
  \/ AProduce
  \/ Handle

\* Every owner gives the client back, and the maintainer, holding it with
\* events pending, handles one or gives it back.  Nothing promises that
\* the maintainer gets the client back: its entry competes for m_mtx with
\* the others, and a mutex need not be fair.
AFairness ==
  /\ \A t \in Threads : WF_avars(Release(t))
  /\ WF_avars(Handle)

ASpec == AInit /\ [][ANext]_avars /\ AFairness
=============================================================================
