------------------------------- MODULE SMLink -------------------------------
(***************************************************************************)
(* The critical section of server_manager_link_wrapper                     *)
(* (src/common/server_manager_link_wrapper.cc) and the events it hands     *)
(* over.  Three kinds of thread use the replicant client m_sm:             *)
(*  - the maintainer calls maintain_link over and over; it enters with     *)
(*    enter_critical_section_killable, handles deferred events first, then *)
(*    events of m_sm->loop, and leaves when the loop times out or is       *)
(*    interrupted;                                                         *)
(*  - the background poller (started by the first maintain_link) loops:    *)
(*    enter_critical_section_background, one m_sm->loop, the event pushed *)
(*    on m_deferred, exit; it enters only when nobody else waits, and it   *)
(*    blocks every signal;                                                 *)
(*  - application threads (config_ack, config_stable, make_rpc,            *)
(*    should_exit) enter with enter_critical_section.                      *)
(* The section is m_locked, guarded by the mutex m_mtx and the condition   *)
(* variable m_cond.  Every test and update of the shared fields happens    *)
(* under m_mtx, so each segment between two waits is one atomic step; a    *)
(* wait is the step that releases the mutex, its return (by broadcast or   *)
(* spuriously) a separate step that must re-take it.                       *)
(***************************************************************************)
EXTENDS Naturals, Sequences, FiniteSets

CONSTANTS
  Maintainer,  \* the thread running maintain_link
  Poller,      \* the background_maintenance thread
  Apps,        \* application threads
  NoThread,    \* m_to_kill before any killable entry
  MaxCalls,    \* critical sections each application thread enters
  MaxEvents,   \* events (RPC completions, configuration changes) produced
  FairMutex    \* whether a woken thread that keeps finding the section
               \* free eventually wins m_mtx (POSIX does not promise it)

Threads == {Maintainer, Poller} \cup Apps

ASSUME /\ Maintainer # Poller /\ Maintainer \notin Apps /\ Poller \notin Apps
       /\ NoThread \notin Threads
       /\ MaxCalls \in Nat /\ MaxEvents \in Nat /\ FairMutex \in BOOLEAN

VARIABLES
  pc,         \* [Threads -> {"idle", "waiting", "woken", "in", "unstarted"}]
  locked,     \* m_locked
  kill,       \* m_kill
  toKill,     \* m_to_kill
  waiting,    \* m_waiting
  intr,       \* a SIGUSR1 is pending for the maintainer's m_sm->loop
  calls,      \* critical sections entered so far, per application thread
  produced,   \* events the replicant client has produced
  ready,      \* events produced and not yet returned by m_sm->loop
  deferred,   \* m_deferred
  handled     \* events maintain_link has handled, in order

vars == <<pc, locked, kill, toKill, waiting, intr, calls, produced, ready,
          deferred, handled>>

TypeOK ==
  /\ pc \in [Threads -> {"idle", "waiting", "woken", "in", "unstarted"}]
  /\ locked \in BOOLEAN /\ kill \in BOOLEAN /\ intr \in BOOLEAN
  /\ toKill \in {Maintainer, Poller, NoThread}
  /\ calls \in [Apps -> 0..MaxCalls]
  /\ produced \in 0..MaxEvents
  /\ ready \in Seq(1..MaxEvents) /\ deferred \in Seq(1..MaxEvents)
  /\ handled \in Seq(1..MaxEvents)
  \* m_waiting counts exactly the threads inside m_cond.wait or woken
  \* from it and not yet past their decrement
  /\ waiting = Cardinality({t \in Threads : pc[t] \in {"waiting", "woken"}})

-----------------------------------------------------------------------------

\* The condition of the while loop of each entry function, with m_waiting
\* at w: the background entry also yields to every other waiter.
Blocked(t, w) == IF t = Poller THEN locked \/ w > 0 ELSE locked

\* The killable and background entries make the holder interruptible.
Killable(t) == t \in {Maintainer, Poller}

\* The pthread_kill(m_to_kill, SIGUSR1) of a blocked enter_critical_section
\* or enter_critical_section_killable: it interrupts the maintainer's loop;
\* the poller blocks every signal, and the background entry sends none.
SignalFrom(t) ==
  IF t # Poller /\ kill /\ toKill = Maintainer THEN TRUE ELSE intr

\* Past the while loop: the section is taken.
TakeSection(t) ==
  /\ locked' = TRUE
  /\ kill' = Killable(t)
  /\ toKill' = IF Killable(t) THEN t ELSE toKill
  /\ pc' = [pc EXCEPT ![t] = "in",
                      ![Poller] = IF t = Maintainer /\ pc[Poller] = "unstarted"
                                  THEN "idle" ELSE @]

\* One pass of the while loop with m_waiting at w: blocked, the thread
\* signals the holder if killable, counts itself and waits; otherwise it
\* takes the section.
EnterCheck(t, w) ==
  IF Blocked(t, w)
  THEN /\ intr' = SignalFrom(t)
       /\ waiting' = w + 1
       /\ pc' = [pc EXCEPT ![t] = "waiting"]
       /\ UNCHANGED <<locked, kill, toKill>>
  ELSE /\ waiting' = w
       /\ TakeSection(t)
       /\ UNCHANGED intr

\* An entry function called: the maintainer's maintain_link (which starts
\* the poller the first time), one iteration of the poller, an application
\* thread's call.
Enter(t) ==
  /\ pc[t] = "idle"
  /\ t \in Apps => calls[t] < MaxCalls
  /\ calls' = IF t \in Apps THEN [calls EXCEPT ![t] = @ + 1] ELSE calls
  /\ EnterCheck(t, waiting)
  /\ UNCHANGED <<produced, ready, deferred, handled>>

\* m_cond.wait returns without a broadcast (allowed by POSIX).
SpuriousWakeup(t) ==
  /\ pc[t] = "waiting"
  /\ pc' = [pc EXCEPT ![t] = "woken"]
  /\ UNCHANGED <<locked, kill, toKill, waiting, intr, calls, produced, ready, deferred, handled>>

\* Variant with a plausible error: --m_waiting forgotten after the wait.
ReacquireNoDecrement(t) ==
  /\ pc[t] = "woken"
  /\ EnterCheck(t, waiting)
  /\ UNCHANGED <<calls, produced, ready, deferred, handled>>

\* Variant with a plausible error: 'if' for 'while', no re-check on return.
ReacquireNoRecheck(t) ==
  /\ pc[t] = "woken"
  /\ waiting' = waiting - 1
  /\ TakeSection(t)
  /\ UNCHANGED <<intr, calls, produced, ready, deferred, handled>>

\* m_cond.wait returns holding m_mtx: --m_waiting, then the loop re-checks.
Reacquire(t) ==
  /\ pc[t] = "woken"
  /\ EnterCheck(t, waiting - 1)
  /\ UNCHANGED <<calls, produced, ready, deferred, handled>>

\* exit_critical_section and exit_critical_section_killable: the section
\* is freed and, if anyone waits, every waiter woken.
Leave(t) ==
  /\ locked' = FALSE
  /\ kill' = FALSE
  /\ pc' = [u \in Threads |->
              IF u = t THEN "idle"
              ELSE IF waiting > 0 /\ pc[u] = "waiting" THEN "woken" ELSE pc[u]]

\* An application thread's section ends (its body is modelled in ConfigAck).
AppExit(t) ==
  /\ pc[t] = "in"
  /\ Leave(t)
  /\ UNCHANGED <<toKill, waiting, intr, calls, produced, ready, deferred, handled>>

\* The server manager completes an RPC or changes the configuration: the
\* replicant client has one more event for m_sm->loop to return.
Produce ==
  /\ produced < MaxEvents
  /\ produced' = produced + 1
  /\ ready' = Append(ready, produced + 1)
  /\ UNCHANGED <<pc, locked, kill, toKill, waiting, intr, calls, deferred, handled>>

\* Variant with a plausible error: exit_critical_section_killable missing
\* after the poller's m_sm->loop.
BackgroundPollNoExit ==
  /\ pc[Poller] = "in"
  /\ IF ready # <<>>
     THEN /\ deferred' = Append(deferred, Head(ready))
          /\ ready' = Tail(ready)
     ELSE UNCHANGED <<deferred, ready>>
  /\ UNCHANGED <<pc, locked, kill, toKill, waiting, intr, calls, produced, handled>>

\* One iteration of the poller's loop inside its section: m_sm->loop returns
\* an event, pushed on m_deferred, or times out; exit_critical_section_killable.
BackgroundPoll ==
  /\ pc[Poller] = "in"
  /\ IF ready # <<>>
     THEN /\ deferred' = Append(deferred, Head(ready))
          /\ ready' = Tail(ready)
     ELSE UNCHANGED <<deferred, ready>>
  /\ Leave(Poller)
  /\ UNCHANGED <<toKill, waiting, intr, calls, produced, handled>>

\* After maintain_link has handled an event: a configuration change
\* (INT64_MAX), a callback that returns true, or an error status after
\* do_sleep breaks the loop and leaves the section; any other event
\* continues it.
AfterEvent(brk) ==
  IF brk THEN intr' = FALSE /\ Leave(Maintainer)
  ELSE UNCHANGED <<pc, locked, kill, intr>>

\* maintain_link handles the first deferred event.
MaintainDeferred ==
  /\ pc[Maintainer] = "in"
  /\ deferred # <<>>
  /\ handled' = Append(handled, Head(deferred))
  /\ deferred' = Tail(deferred)
  /\ \E brk \in BOOLEAN : AfterEvent(brk)
  /\ UNCHANGED <<toKill, waiting, calls, produced, ready>>

\* Variant with a plausible error: m_sm->loop called before m_deferred is
\* drained.
MaintainLoopFirst ==
  /\ pc[Maintainer] = "in"
  /\ ready # <<>>
  /\ handled' = Append(handled, Head(ready))
  /\ ready' = Tail(ready)
  /\ \E brk \in BOOLEAN : AfterEvent(brk)
  /\ UNCHANGED <<toKill, waiting, calls, produced, deferred>>

\* With m_deferred empty, maintain_link's m_sm->loop returns an event,
\* which it handles (a pending signal may be lost before the call).
MaintainLoop ==
  /\ pc[Maintainer] = "in"
  /\ deferred = <<>>
  /\ ready # <<>>
  /\ handled' = Append(handled, Head(ready))
  /\ ready' = Tail(ready)
  /\ \E brk \in BOOLEAN : AfterEvent(brk)
  /\ UNCHANGED <<toKill, waiting, calls, produced, deferred>>

\* With m_deferred empty, m_sm->loop times out (no event) or is interrupted
\* by a pending SIGUSR1: maintain_link breaks and leaves the section.
MaintainExit ==
  /\ pc[Maintainer] = "in"
  /\ deferred = <<>>
  /\ ready = <<>> \/ intr
  /\ intr' = FALSE
  /\ Leave(Maintainer)
  /\ UNCHANGED <<toKill, waiting, calls, produced, ready, deferred, handled>>

Init ==
  /\ pc = [t \in Threads |-> IF t = Poller THEN "unstarted" ELSE "idle"]
  /\ locked = FALSE /\ kill = FALSE /\ toKill = NoThread
  /\ waiting = 0 /\ intr = FALSE
  /\ calls = [a \in Apps |-> 0]
  /\ produced = 0 /\ ready = <<>> /\ deferred = <<>> /\ handled = <<>>

\* The steps each thread takes of its own accord once running.
MaintainerStep ==
  Enter(Maintainer) \/ Reacquire(Maintainer) \/ MaintainDeferred \/ MaintainLoop \/ MaintainExit
PollerStep == Enter(Poller) \/ Reacquire(Poller) \/ BackgroundPoll

Next ==
  \/ MaintainerStep
  \/ PollerStep
  \/ \E a \in Apps : Enter(a) \/ Reacquire(a) \/ AppExit(a)
  \/ \E t \in Threads : SpuriousWakeup(t)
  \/ Produce

\* The maintainer and the poller run forever and each thread that holds the
\* mutex or is woken runs on: their steps are weakly fair.  Application
\* calls, spurious wakeups and the server manager's events are not forced.
\* With FairMutex, a woken thread that infinitely often finds the section
\* free eventually enters it: the scheduler does not let the others win
\* every race for m_mtx.
Fairness ==
  /\ WF_vars(MaintainerStep)
  /\ WF_vars(PollerStep)
  /\ \A a \in Apps : WF_vars(Reacquire(a) \/ AppExit(a))
  /\ FairMutex => \A t \in Threads : SF_vars(Reacquire(t) /\ pc'[t] = "in")

Spec == Init /\ [][Next]_vars /\ Fairness

-----------------------------------------------------------------------------
(* Properties.                                                             *)

\* At most one thread is inside the section, whatever the order of
\* broadcasts, spurious wakeups and re-checks of the while loops.
MutualExclusion ==
  \A t, u \in Threads : pc[t] = "in" /\ pc[u] = "in" => t = u

\* maintain_link handles the events in the order the replicant client
\* produced them, none twice and none skipped, although some reach it
\* directly and some through the poller and m_deferred.
EventsInOrder ==
  \A i \in 1..Len(handled) : handled[i] = i

\* Every event the server manager produces is eventually handled by
\* maintain_link: the poller, which takes events off the client, never keeps
\* the maintainer out of the section for good.
EventsEventuallyHandled ==
  \A e \in 1..MaxEvents : produced >= e ~> Len(handled) >= e

-----------------------------------------------------------------------------
(* Refinement.  The owner of the client is the thread whose pc is "in"; an  *)
(* event is pending whether the poller has moved it to m_deferred or it is  *)
(* still in the client, and m_deferred is always older than what the client *)
(* still holds.  Blocked entries, waits and wakeups are stuttering steps;   *)
(* BackgroundPoll is a Release of the poller.                               *)

InSection == {t \in Threads : pc[t] = "in"}

Owner == IF InSection = {} THEN NoThread ELSE CHOOSE t \in InSection : TRUE

Section == INSTANCE LinkSection
  WITH holder <- Owner, pending <- deferred \o ready

\* The wrapper implements the abstract section: one owner at a time, the
\* events handled oldest first only by the maintainer while it owns the
\* client, every owner (the poller after each m_sm->loop included)
\* eventually gives it back, and the maintainer does not sit on pending
\* events; under the fairness the threads really have.
ImplementsLinkSection == Section!ASpec

=============================================================================
