------------------------------ MODULE LinkRpcs ------------------------------
(***************************************************************************)
(* The RPCs that server_manager_link_wrapper                               *)
(* (src/common/server_manager_link_wrapper.cc) keeps going to the server   *)
(* manager, and the loop of maintain_link that drives them.                *)
(*                                                                         *)
(* Every iteration of maintain_link calls ensure_available,               *)
(* ensure_config_ack and ensure_config_stable, each of which issues its    *)
(* RPC when it is needed and none is outstanding, and then handles one     *)
(* event of the replicant client: the completion of a registered RPC runs  *)
(* its callback and the loop continues; a timeout, interruption or error   *)
(* breaks the loop, and so does a new configuration.  Application threads  *)
(* call config_ack(version), config_stable(version) and request_shutdown.  *)
(*                                                                         *)
(* All of this runs inside the wrapper's critical section, modelled in     *)
(* SMLink: here the maintainer holds it from the top of maintain_link to   *)
(* the break (mpc # "out"), and an application's call is one step taken    *)
(* while it is out.  request_shutdown writes m_shutdown_requested before   *)
(* it enters the section (make_rpc), so that write is a step of its own.   *)
(*                                                                         *)
(* The server manager is the environment: it applies an RPC that succeeds  *)
(* (server_online makes us available unless we are shut down;             *)
(* server_shutdown shuts us down), may fail an RPC (MaxFails in all),      *)
(* runs server_suspect, the exit function of the defended server_online,   *)
(* when our session is lost (MaxSuspects times), and publishes             *)
(* configurations, which the client sees as the INT64_MAX event.           *)
(***************************************************************************)
EXTENDS Integers, FiniteSetsExt

CONSTANTS
  MaxVersion,    \* versions 1..MaxVersion are passed to config_ack/_stable
  MaxFails,      \* bound on the RPCs that fail to issue or complete
  MaxSuspects,   \* bound on the sessions the server manager suspects
  IssueMayFail   \* whether m_sm->rpc may fail to issue (return id < 0)

ASSUME /\ MaxVersion \in Nat \ {0} /\ MaxFails \in Nat /\ MaxSuspects \in Nat
       /\ IssueMayFail \in BOOLEAN

\* The two flag-and-version RPCs; the id, need flag and version of each are
\* m_config_ack_id / m_need_config_ack / m_config_ack and the same for
\* config_stable.
Flags == {"config_ack", "config_stable"}
Funcs == Flags \cup {"server_online", "server_shutdown"}

\* Our server's state in a configuration (get_state(m_us), with our address
\* taken to be m_loc throughout).
States == {"offline", "available", "shutdown"}

\* The points of maintain_link: out of the critical section, before each
\* ensure_* call, and before taking the event.
Phases == {"out", "available", "config_ack", "config_stable", "event"}

VARIABLES
  mpc,               \* where the maintainer is in maintain_link
  version,           \* [Flags -> Nat]: m_config_ack, m_config_stable
  need,              \* [Flags -> BOOLEAN]: m_need_config_ack, ...
  flagId,            \* [Flags -> rpc or NoRpc]: m_config_ack_id, ...
  onlineId,          \* m_online_id
  shutdownRequested, \* m_shutdown_requested
  shutdownPc,        \* request_shutdown: "idle", "flagged" or "done"
  rpcs,              \* m_rpcs: the registered, outstanding RPCs
  fails,             \* failed issues and completions so far
  suspects,          \* sessions suspected so far
  smState,           \* our state at the server manager
  cfgState,          \* our state in m_sm->config(), the last one delivered
  acked              \* [Flags -> Nat]: highest version the manager applied

vars == <<mpc, version, need, flagId, onlineId, shutdownRequested,
          shutdownPc, rpcs, fails, suspects, smState, cfgState, acked>>

\* An RPC is known by its function, the version it carries (0 for none) and
\* a tag telling apart outstanding RPCs with the same two.  The code uses
\* replicant's ids only to look RPCs up and to test m_*_id >= 0, and every
\* id it keeps names an outstanding RPC (TypeOK), so a tag may be reused
\* once its RPC has completed.  NoRpc is the id -1.
NoRpc == [func |-> "none", ver |-> 0, n |-> 0]

NewRpc(func, ver) ==
  LET used == {r.n : r \in {q \in rpcs : q.func = func /\ q.ver = ver}}
  IN  [func |-> func, ver |-> ver, n |-> Min((1..Cardinality(used) + 1) \ used)]

TypeOK ==
  /\ mpc \in Phases
  /\ version \in [Flags -> 0..MaxVersion]
  /\ need \in [Flags -> BOOLEAN]
  /\ \A r \in rpcs : r.func \in Funcs /\ r.ver \in 0..MaxVersion /\ r.n \in Nat \ {0}
  \* every id the wrapper keeps is -1 or names a registered RPC of its kind
  /\ \A f \in Flags : flagId[f] = NoRpc \/ (flagId[f] \in rpcs /\ flagId[f].func = f)
  /\ onlineId = NoRpc \/ (onlineId \in rpcs /\ onlineId.func = "server_online")
  /\ shutdownRequested \in BOOLEAN
  /\ shutdownPc \in {"idle", "flagged", "done"}
  /\ fails \in 0..MaxFails /\ suspects \in 0..MaxSuspects
  /\ smState \in States /\ cfgState \in States
  /\ acked \in [Flags -> 0..MaxVersion]

-----------------------------------------------------------------------------
(* Issuing an RPC.  The outcomes, as records of the id returned and the    *)
(* new m_rpcs and failure count: the RPC is issued and registered, or      *)
(* m_sm->rpc fails and the id is negative.                                 *)

\* make_rpc_nosync(func, ...).
MakeRpcNosync(func, ver) ==
  LET r == NewRpc(func, ver) IN
  {[id |-> r, rpcs |-> rpcs \cup {r}, fails |-> fails]}
  \cup IF IssueMayFail /\ fails < MaxFails
       THEN {[id |-> NoRpc, rpcs |-> rpcs, fails |-> fails + 1]}
       ELSE {}

\* make_rpc_defended(enter_func, ..., exit_func, ...): issued and registered
\* the same way; its exit function is the server manager's Suspect below.
MakeRpcDefended(func) == MakeRpcNosync(func, 0)

-----------------------------------------------------------------------------
(* The maintainer.                                                         *)

\* The step after the ensure_* call at phase p.
After(p) == CASE p = "available"  -> "config_ack"
              [] p = "config_ack" -> "config_stable"
              [] OTHER            -> "event"

\* maintain_link enters the critical section and starts its loop.
MaintainEnter ==
  /\ mpc = "out"
  /\ mpc' = "available"
  /\ UNCHANGED <<version, need, flagId, onlineId, shutdownRequested,
                 shutdownPc, rpcs, fails, suspects, smState, cfgState, acked>>

\* ensure_available: nothing while a server_online is outstanding, after a
\* shutdown request, or while the configuration shows us available at our
\* address; otherwise server_online is issued as a defended RPC.
EnsureAvailable ==
  /\ mpc = "available"
  /\ mpc' = After(mpc)
  /\ IF onlineId # NoRpc \/ shutdownRequested \/ cfgState = "available"
     THEN UNCHANGED <<onlineId, rpcs, fails>>
     ELSE \E o \in MakeRpcDefended("server_online") :
            onlineId' = o.id /\ rpcs' = o.rpcs /\ fails' = o.fails
  /\ UNCHANGED <<version, need, flagId, shutdownRequested, shutdownPc,
                 suspects, smState, cfgState, acked>>

\* ensure_config_ack and ensure_config_stable: nothing while an RPC is
\* outstanding or none is needed; otherwise the RPC for the recorded version
\* is issued and its id stored.
EnsureFlag(f) ==
  /\ mpc = f
  /\ mpc' = After(mpc)
  /\ IF flagId[f] # NoRpc \/ ~need[f]
     THEN UNCHANGED <<flagId, rpcs, fails>>
     ELSE \E o \in MakeRpcNosync(f, version[f]) :
            flagId' = [flagId EXCEPT ![f] = o.id] /\ rpcs' = o.rpcs /\ fails' = o.fails
  /\ UNCHANGED <<version, need, onlineId, shutdownRequested, shutdownPc,
                 suspects, smState, cfgState, acked>>

EnsureConfigAck == EnsureFlag("config_ack")
EnsureConfigStable == EnsureFlag("config_stable")

\* Variants with a plausible error each, for the callbacks below.
FlagCallbackKeepsId(f, ok) == [id |-> flagId[f], need |-> ~ok]
FlagCallbackIgnoresStatus(f, ok) == [id |-> NoRpc, need |-> FALSE]
AvailableCallbackKeepsId == onlineId

\* sm_rpc_config_ack::callback and sm_rpc_config_stable::callback: the new
\* id and need flag after an RPC of flag f completes, ok or not.
FlagCallback(f, ok) == [id |-> NoRpc, need |-> ~ok]

\* sm_rpc_available::callback: the new m_online_id, whatever the status.
AvailableCallback == NoRpc

\* The server manager's state after it applies a successful RPC r.
Applied(r) ==
  CASE r.func = "server_online"   -> IF smState = "shutdown" THEN smState ELSE "available"
    [] r.func = "server_shutdown" -> "shutdown"
    [] OTHER                      -> smState

\* m_sm->loop returns the completion of a registered RPC r: it is erased
\* from m_rpcs and its callback runs (sm_rpc::callback's logging and
\* back-off included); every callback returns false, so the loop goes on.
MaintainCompletion ==
  /\ mpc = "event"
  /\ \E r \in rpcs, ok \in BOOLEAN :
       /\ ok \/ fails < MaxFails
       /\ rpcs' = rpcs \ {r}
       /\ fails' = IF ok THEN fails ELSE fails + 1
       /\ smState' = IF ok THEN Applied(r) ELSE smState
       /\ IF r.func \in Flags
          THEN LET cb == FlagCallback(r.func, ok) IN
               /\ flagId' = [flagId EXCEPT ![r.func] = cb.id]
               /\ need' = [need EXCEPT ![r.func] = cb.need]
               /\ acked' = IF ok /\ r.ver > acked[r.func]
                           THEN [acked EXCEPT ![r.func] = r.ver] ELSE acked
               /\ UNCHANGED onlineId
          ELSE /\ onlineId' = IF r.func = "server_online" THEN AvailableCallback ELSE onlineId
               /\ UNCHANGED <<flagId, need, acked>>
  /\ mpc' = "available"
  /\ UNCHANGED <<version, shutdownRequested, shutdownPc, suspects, cfgState>>

\* m_sm->loop returns a negative id: a timeout or interruption, a
\* communication failure, a cluster jump or another error (the last three
\* after do_sleep).  The loop breaks and the section is left.
MaintainBreak ==
  /\ mpc = "event"
  /\ mpc' = "out"
  /\ UNCHANGED <<version, need, flagId, onlineId, shutdownRequested,
                 shutdownPc, rpcs, fails, suspects, smState, cfgState, acked>>

\* m_sm->loop returns INT64_MAX: a new configuration has been installed in
\* the client.  The loop breaks and the section is left.
MaintainConfigChange ==
  /\ mpc = "event"
  /\ cfgState # smState
  /\ cfgState' = smState
  /\ mpc' = "out"
  /\ UNCHANGED <<version, need, flagId, onlineId, shutdownRequested,
                 shutdownPc, rpcs, fails, suspects, smState, acked>>

-----------------------------------------------------------------------------
(* Application threads, each call inside the critical section.            *)

\* Variant with a plausible error: a newer version leaves the old id.
SetConfigVersionKeepsId(f, v) ==
  /\ mpc = "out"
  /\ version[f] < v
  /\ version' = [version EXCEPT ![f] = v]
  /\ need' = [need EXCEPT ![f] = TRUE]
  /\ IF flagId[f] # NoRpc
     THEN UNCHANGED <<flagId, rpcs, fails>>
     ELSE \E o \in MakeRpcNosync(f, v) :
            flagId' = [flagId EXCEPT ![f] = o.id] /\ rpcs' = o.rpcs /\ fails' = o.fails
  /\ UNCHANGED <<mpc, onlineId, shutdownRequested, shutdownPc, suspects,
                 smState, cfgState, acked>>

\* config_ack(version) and config_stable(version): a newer version is
\* recorded and needed, the id cleared, and the ensure_* call issues it.
SetConfigVersion(f, v) ==
  /\ mpc = "out"
  /\ version[f] < v
  /\ version' = [version EXCEPT ![f] = v]
  /\ need' = [need EXCEPT ![f] = TRUE]
  /\ \E o \in MakeRpcNosync(f, v) :
       flagId' = [flagId EXCEPT ![f] = o.id] /\ rpcs' = o.rpcs /\ fails' = o.fails
  /\ UNCHANGED <<mpc, onlineId, shutdownRequested, shutdownPc, suspects,
                 smState, cfgState, acked>>

ConfigAck(v) == SetConfigVersion("config_ack", v)
ConfigStable(v) == SetConfigVersion("config_stable", v)

\* request_shutdown, first statement: m_shutdown_requested is set without
\* the section.
RequestShutdownFlag ==
  /\ shutdownPc = "idle"
  /\ shutdownRequested' = TRUE
  /\ shutdownPc' = "flagged"
  /\ UNCHANGED <<mpc, version, need, flagId, onlineId, rpcs, fails,
                 suspects, smState, cfgState, acked>>

\* request_shutdown, then make_rpc("server_shutdown"): make_rpc_nosync
\* inside the section; the id is dropped and nothing retries it.
RequestShutdownRpc ==
  /\ shutdownPc = "flagged"
  /\ mpc = "out"
  /\ shutdownPc' = "done"
  /\ \E o \in MakeRpcNosync("server_shutdown", 0) : rpcs' = o.rpcs /\ fails' = o.fails
  /\ UNCHANGED <<mpc, version, need, flagId, onlineId, shutdownRequested,
                 suspects, smState, cfgState, acked>>

-----------------------------------------------------------------------------
(* The server manager.                                                     *)

\* Our session is lost and the server manager runs server_suspect.
Suspect ==
  /\ smState = "available"
  /\ suspects < MaxSuspects
  /\ smState' = "offline"
  /\ suspects' = suspects + 1
  /\ UNCHANGED <<mpc, version, need, flagId, onlineId, shutdownRequested,
                 shutdownPc, rpcs, fails, cfgState, acked>>

Init ==
  /\ mpc = "out"
  /\ version = [f \in Flags |-> 0]
  /\ need = [f \in Flags |-> FALSE]
  /\ flagId = [f \in Flags |-> NoRpc]
  /\ onlineId = NoRpc
  /\ shutdownRequested = FALSE
  /\ shutdownPc = "idle"
  /\ rpcs = {}
  /\ fails = 0
  /\ suspects = 0
  /\ smState = "offline"
  /\ cfgState = "offline"
  /\ acked = [f \in Flags |-> 0]

Next ==
  \/ MaintainEnter
  \/ EnsureAvailable
  \/ EnsureConfigAck
  \/ EnsureConfigStable
  \/ MaintainCompletion
  \/ MaintainBreak
  \/ MaintainConfigChange
  \/ \E v \in 1..MaxVersion : ConfigAck(v) \/ ConfigStable(v)
  \/ RequestShutdownFlag
  \/ RequestShutdownRpc
  \/ Suspect

\* The maintainer calls maintain_link forever and each of its steps
\* completes (weak fairness).  m_sm->loop returns every event within its
\* timeout, but a completion or configuration may lose the race to a
\* timeout any number of times; that the server manager does answer and
\* does publish is strong fairness on those events, which are enabled only
\* while the maintainer waits for one.  The thread in request_shutdown gets
\* the section when it is free infinitely often (strong fairness).
Spec ==
  /\ Init /\ [][Next]_vars
  /\ WF_vars(MaintainEnter) /\ WF_vars(EnsureAvailable)
  /\ WF_vars(EnsureConfigAck) /\ WF_vars(EnsureConfigStable)
  /\ WF_vars(MaintainCompletion \/ MaintainBreak \/ MaintainConfigChange)
  /\ SF_vars(MaintainCompletion) /\ SF_vars(MaintainConfigChange)
  /\ SF_vars(RequestShutdownRpc)

-----------------------------------------------------------------------------
(* Properties.                                                             *)

\* Whenever the latest version passed to config_ack (config_stable) is
\* neither applied by the server manager nor carried by an outstanding RPC,
\* its need flag is set, so that the next ensure_* call sends it.  It fails
\* if a callback or config_ack leaves the flags of an older request in
\* place of the newer version's.
NeedTracksVersion ==
  \A f \in Flags :
    (acked[f] < version[f] /\ \A r \in rpcs : ~(r.func = f /\ r.ver = version[f]))
      => need[f]

\* Every version passed to config_ack or config_stable is eventually
\* applied by the server manager (this or a later one), given that it
\* fails only finitely many RPCs.
VersionsEventuallyApplied ==
  \A f \in Flags, v \in 1..MaxVersion : version[f] = v ~> acked[f] >= v

\* Unless a shutdown is requested, a server that is not available in its
\* configuration (not yet online, or suspected) is eventually available
\* again: ensure_available re-issues server_online until the configuration
\* shows it.
OnlineEventuallyRestored ==
  (~shutdownRequested /\ cfgState # "available")
    ~> (shutdownRequested \/ cfgState = "available")

\* A shutdown that request_shutdown asked for eventually takes effect: the
\* configuration shows the server shut down, which is what should_exit
\* waits for.  request_shutdown sends server_shutdown once and drops its
\* id, and ensure_available stops going online once the flag is set.
ShutdownEventuallyTakesEffect ==
  shutdownRequested ~> cfgState = "shutdown"

=============================================================================
