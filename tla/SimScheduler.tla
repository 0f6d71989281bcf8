--------------------------- MODULE SimScheduler ---------------------------
(***************************************************************************)
(* What a component may rely on when it is attached to a scheduler         *)
(* (ISimScheduler, src/include/hbmsim/kernel/sim_scheduler.h, and the      *)
(* admission contract of docs/V0_7_6_ACCEPTANCE.md): simulated time, and   *)
(* an agenda of pending callbacks, kept in the order in which they will    *)
(* run.  A callback is identified by the token schedule_at returned.       *)
(***************************************************************************)
EXTENDS Naturals, FiniteSets, Sequences, SequencesExt

CONSTANTS Time,       \* the points of simulated time that are explored
          Token       \* the tokens that are explored

VARIABLES now,        \* ISimScheduler::now()
          agenda,     \* pending callbacks [time, token], in the order they run
          issued      \* every token schedule_at has returned so far

vars == <<now, agenda, issued>>

Callback == [time: Time, token: Token]

Init == now = 0 /\ agenda = <<>> /\ issued = {}

(***************************************************************************)
(* Stable FIFO same-time order: a new callback runs after every pending    *)
(* callback of the same or an earlier time, and before all later ones.     *)
(***************************************************************************)
Place(when) == Cardinality({i \in DOMAIN agenda : agenda[i].time <= when}) + 1

ScheduleAt(when, token) ==
    /\ when >= now
    /\ token \notin issued
    /\ agenda' = InsertAt(agenda, Place(when), [time |-> when, token |-> token])
    /\ issued' = issued \cup {token}
    /\ UNCHANGED now

\* A cancelled callback leaves the agenda at once and never runs.
Cancel(token) ==
    /\ \E i \in DOMAIN agenda : /\ agenda[i].token = token
                                /\ agenda' = RemoveAt(agenda, i)
    /\ UNCHANGED <<now, issued>>

\* The callback at the head of the agenda runs, at its own time.
Dispatch ==
    /\ agenda # <<>>
    /\ now' = Head(agenda).time
    /\ agenda' = Tail(agenda)
    /\ UNCHANGED issued

\* Time may also pass without a callback, but never beyond a pending one.
Advance(until) ==
    /\ until > now
    /\ \A i \in DOMAIN agenda : agenda[i].time > until
    /\ now' = until
    /\ UNCHANGED <<agenda, issued>>

Next == \/ \E when \in Time, token \in Token : ScheduleAt(when, token)
        \/ \E token \in Token : Cancel(token)
        \/ Dispatch
        \/ \E until \in Time : Advance(until)

Spec == Init /\ [][Next]_vars
=============================================================================
