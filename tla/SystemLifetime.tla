-------------------------- MODULE SystemLifetime --------------------------
(***************************************************************************)
(* Several HbmSystems attached to one EventQueue, and their destruction    *)
(* (src/src/hbm_system.cpp).  An event that a system schedules captures    *)
(* the system itself; its token is kept in pending_events_ until the event *)
(* runs, and the destructor cancels what is left there.  Between runs and  *)
(* inside callbacks the client may call a system, schedule or cancel       *)
(* events of its own, and destroy a system other than the one whose        *)
(* callback is on the stack (sim_scheduler.h:17-18).                       *)
(***************************************************************************)
EXTENDS EventQueue

CONSTANTS Systems,    \* the HbmSystems that are attached to the queue
          Client      \* the owner of all other events

ASSUME ClientAssumption == Client \notin Systems

VARIABLES live,        \* the systems whose destructor has not finished
          pending,     \* pending_events_ of each system
          closure,     \* token -> the owner that the pending callback captures
          running,     \* whose callback is on the stack; Client outside of one
          destroying   \* {}, or the system whose destructor is on the stack

lifetimeVars == <<live, pending, closure, running, destroying>>
allVars == <<vars, lifetimeVars>>

LifetimeInit ==
    /\ Init
    /\ live = Systems
    /\ pending = [system \in Systems |-> {}]
    /\ closure = [token \in {} |-> Client]
    /\ running = Client
    /\ destroying = {}

ClientControls == ClientRuns /\ destroying = {}

-----------------------------------------------------------------------------
\* pending_events_.erase(token) in the events of the one system that owns it.
Forget(owner, token) ==
    [system \in Systems |-> IF system = owner THEN pending[system] \ {token} ELSE pending[system]]

\* HbmSystem::schedule_event, from a call of the client or from a callback.
ScheduleEvent(system, when) ==
    /\ ClientControls /\ system \in live
    /\ ScheduleAt(when)
    /\ pending' = [pending EXCEPT ![system] = @ \cup {next_token}]
    /\ closure' = Put(closure, next_token, system)
    /\ UNCHANGED <<live, running, destroying>>

ClientSchedules(when) ==
    /\ ClientControls
    /\ ScheduleAt(when)
    /\ closure' = Put(closure, next_token, Client)
    /\ UNCHANGED <<live, pending, running, destroying>>

\* The client has no tokens but its own.
ClientCancels(token) ==
    /\ ClientControls
    /\ Cancel(token) /\ closure[token] = Client
    /\ closure' = Erase(closure, token)
    /\ UNCHANGED <<live, pending, running, destroying>>

ClientRunsQueue(kind, until) ==
    /\ CallRun(kind, until) /\ destroying = {}
    /\ UNCHANGED lifetimeVars

RunEvent_without_erase ==
    \E token \in DOMAIN tokens :
        /\ IsFirst(tokens[token]) /\ DispatchOne
        /\ running' = closure[token]
        /\ closure' = Erase(closure, token)
        /\ UNCHANGED <<pending, live, destroying>>

\* The wrapper that schedule_event made erases the token, then calls back.
RunEvent ==
    \E token \in DOMAIN tokens :
        /\ IsFirst(tokens[token]) /\ DispatchOne
        /\ running' = closure[token]
        /\ closure' = Erase(closure, token)
        /\ pending' = Forget(closure[token], token)
        /\ UNCHANGED <<live, destroying>>

EndOfCallback ==
    /\ CallbackReturns \/ CallbackThrows
    /\ destroying = {}
    /\ running' = Client
    /\ UNCHANGED <<live, pending, closure, destroying>>

EndOfRun == RunReturns /\ UNCHANGED lifetimeVars

\* A component must not destroy itself during its callback.
BeginDestroy(system) ==
    /\ ClientControls /\ system \in live /\ system # running
    /\ destroying' = {system}
    /\ UNCHANGED <<vars, live, pending, closure, running>>

\* ~HbmSystem cancels the tokens of an unordered set; cancel has no effect on one
\* that is not in the queue.
CancelPending ==
    \E system \in destroying : \E token \in pending[system] :
        /\ Cancel(token)
        /\ closure' = Erase(closure, token)
        /\ pending' = Forget(system, token)
        /\ UNCHANGED <<live, running, destroying>>

EndDestroy_without_cancel ==
    \E system \in destroying :
        /\ destroying' = {} /\ live' = live \ {system}
        /\ pending' = [pending EXCEPT ![system] = {}]
        /\ UNCHANGED <<vars, closure, running>>

EndDestroy ==
    \E system \in destroying :
        /\ pending[system] \cap DOMAIN tokens = {}
        /\ destroying' = {} /\ live' = live \ {system}
        /\ pending' = [pending EXCEPT ![system] = {}]
        /\ UNCHANGED <<vars, closure, running>>

LifetimeNext ==
    \/ \E when \in Time : (\E system \in Systems : ScheduleEvent(system, when)) \/ ClientSchedules(when)
    \/ \E token \in Token : ClientCancels(token)
    \/ ClientRunsQueue("run", now) \/ ClientRunsQueue("next", now)
    \/ \E until \in Time : ClientRunsQueue("until", until)
    \/ RunEvent \/ EndOfCallback \/ EndOfRun
    \/ \E system \in Systems : BeginDestroy(system)
    \/ CancelPending \/ EndDestroy

LifetimeSpec == LifetimeInit /\ [][LifetimeNext]_allVars

\* Code that has control goes on, or returns; whether the client acts is its choice.
LifetimeFairSpec ==
    /\ LifetimeSpec
    /\ WF_allVars(RunEvent) /\ WF_allVars(EndOfCallback) /\ WF_allVars(EndOfRun)
    /\ WF_allVars(CancelPending \/ EndDestroy)

-----------------------------------------------------------------------------
LifetimeTypeOK ==
    /\ live \subseteq Systems /\ destroying \subseteq live
    /\ pending \in [Systems -> SUBSET Token]
    /\ closure \in [DOMAIN tokens -> Systems \cup {Client}]
    /\ running \in Systems \cup {Client}
    /\ destroying # {} => ClientRuns /\ running \notin destroying

\* pending_events_ is exact: the token of every event that would call a system is
\* in that system's set, and no token stays there once its event has run, also
\* when the callback threw or destroyed other systems.
PendingEventsAgree ==
    \A system \in live : pending[system] = {token \in DOMAIN tokens : closure[token] = system}

\* No event is left that would call a destroyed system, and no callback of one is
\* on the stack.
NothingCallsDestroyedSystems ==
    /\ \A token \in DOMAIN tokens : closure[token] \in live \cup {Client}
    /\ running \in live \cup {Client}
=============================================================================
