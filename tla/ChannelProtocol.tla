-------------------------- MODULE ChannelProtocol --------------------------
(***************************************************************************)
(* How HbmSystem keeps one channel's controller driven                     *)
(* (src/src/hbm_system.cpp: schedule_controller_wake, schedule_refresh_due, *)
(* drive_controller, pump_admissions).  The controller holds two marks, the *)
(* time of its next wake-up and the due time of its claimed refresh event, *)
(* and an event is only scheduled when its mark says that none is there.   *)
(*                                                                         *)
(* What the controller does when driven is left open but for its promise:  *)
(* it asks to be driven again while it has work.  Times are relative to    *)
(* the clock, which moves by d in each step, up to the next event at most. *)
(***************************************************************************)
EXTENDS Integers

CONSTANTS RefreshInterval,     \* 0 for no refresh
          Delays,              \* how far ahead a controller asks for its wake-up,
                               \* and how far the clock moves in a step
          MaxOutstanding,      \* bound on the accesses admitted and not completed
          MaxOverdue,          \* bound on how long an idle channel's refresh is overdue
          None                 \* no time

ASSUME ProtocolAssumption ==
    /\ RefreshInterval \in Nat /\ MaxOutstanding \in Nat /\ MaxOverdue \in Nat
    /\ Delays \subseteq Nat /\ None \notin Int

VARIABLES work,               \* an access is queued, or maintenance is pending
          outstanding,        \* outstanding_accesses_
          wakeup_at,          \* wakeup_at_
          wakes,              \* times of the scheduled wake-up events
          next_refresh_due,   \* next_refresh_due_
          refresh_due_at,     \* refresh_due_at_: the claimed refresh event
          refreshes           \* times of the scheduled refresh events

vars == <<work, outstanding, wakeup_at, wakes, next_refresh_due, refresh_due_at, refreshes>>

Init == /\ work = FALSE /\ outstanding = 0
        /\ wakeup_at = None /\ wakes = {}
        /\ next_refresh_due = None /\ refresh_due_at = None /\ refreshes = {}

-----------------------------------------------------------------------------
\* The clock moves on by d.
Later(time, d)   == IF time = None THEN None ELSE time - d
AllLater(times, d) == {t - d : t \in times}
MayPass(d) ==
    /\ \A t \in wakes \cup refreshes : d <= t
    /\ next_refresh_due # None => next_refresh_due - d >= -MaxOverdue

\* (A definition named "..._with_..." is the next one with a plausible mistake;
\* the specification does not use it.)
RequestWake_with_any_event(mark, events, when) ==
    IF when # None /\ (mark = None \/ when < mark)
    THEN wakeup_at' = when /\ wakes' = IF events = {} THEN {when} ELSE events
    ELSE wakeup_at' = mark /\ wakes' = events

\* schedule_controller_wake at `when' (None: nobody asks): mark_wakeup takes
\* only a time sooner than the mark, and only then an event is scheduled.
RequestWake(mark, events, when) ==
    IF when # None /\ (mark = None \/ when < mark)
    THEN wakeup_at' = when /\ wakes' = events \cup {when}
    ELSE wakeup_at' = mark /\ wakes' = events

ArmRefresh_with_any_claim(due, claim, events) ==
    IF due # None /\ claim = None
    THEN refresh_due_at' = due /\ refreshes' = events \cup {due}
    ELSE refresh_due_at' = claim /\ refreshes' = events

\* schedule_refresh_due claims the due time unless it is claimed already.
ArmRefresh(due, claim, events) ==
    IF due # None /\ claim # due
    THEN refresh_due_at' = due /\ refreshes' = events \cup {due}
    ELSE refresh_due_at' = claim /\ refreshes' = events

CaughtUp_with_one_interval(due) ==
    IF RefreshInterval = 0 THEN due
    ELSE IF due = None THEN RefreshInterval
    ELSE IF due > 0 THEN due ELSE due + RefreshInterval

\* prepare_refresh_for_arrival: the first due time is an interval from now, and
\* an overdue one moves on by whole intervals until it lies ahead.
CaughtUp(due) ==
    IF RefreshInterval = 0 THEN due
    ELSE IF due = None THEN RefreshInterval
    ELSE IF due > 0 THEN due
    ELSE RefreshInterval - ((-due) % RefreshInterval)

\* The refresh state, d later, when k accesses are admitted.
RefreshOnAdmission(d, k) ==
    LET due    == Later(next_refresh_due, d)
        claim  == Later(refresh_due_at, d)
        events == AllLater(refreshes, d)
    IN  IF k = 0
        THEN next_refresh_due' = due /\ refresh_due_at' = claim /\ refreshes' = events
        ELSE next_refresh_due' = CaughtUp(due) /\ ArmRefresh(CaughtUp(due), claim, events)

-----------------------------------------------------------------------------
\* A submission, or an event that is neither the channel's wake-up nor its
\* refresh: `done' accesses complete, and k are admitted and wake the channel.
Elapse(d, done, k) ==
    /\ MayPass(d)
    /\ done <= outstanding
    /\ outstanding' = outstanding - done + k /\ outstanding' <= MaxOutstanding
    /\ work' = (work \/ k > 0)
    /\ RequestWake(Later(wakeup_at, d), AllLater(wakes, d), IF k > 0 THEN 0 ELSE None)
    /\ RefreshOnAdmission(d, k)

\* A wake-up event drives the controller, which asks to be driven again while it
\* has work or is busy.  Only a transfer, after which it asks for that at once,
\* frees slots that k accesses may take.  Of two events of one time one remains.
Drive(d, k, when) ==
    LET mark == Later(wakeup_at, d)
    IN  /\ MayPass(d) /\ d \in wakes
        /\ k > 0 => when = 0
        /\ outstanding' = outstanding + k /\ outstanding' <= MaxOutstanding
        /\ work' \in BOOLEAN
        /\ k > 0 => work'
        /\ work' => when # None
        /\ \E left \in {AllLater(wakes, d), AllLater(wakes, d) \ {0}} :
               RequestWake(IF mark = 0 THEN None ELSE mark, left, when)
        /\ RefreshOnAdmission(d, k)

\* A refresh event: one whose claim was replaced by a later one changes nothing.
\* A refresh that is due now is carried out if the channel is idle and pending
\* otherwise; the next one gets its event while accesses are outstanding.
FireRefresh(d) ==
    LET claim  == Later(refresh_due_at, d)
        due    == Later(next_refresh_due, d)
        falls  == claim = 0 /\ due = 0
        next   == IF falls THEN RefreshInterval ELSE due
        kept   == IF claim = 0 THEN None ELSE claim
        events == AllLater(refreshes, d) \ {0}
    IN  /\ MayPass(d) /\ d \in refreshes
        /\ UNCHANGED outstanding
        /\ work' \in (IF ~falls THEN {work} ELSE IF outstanding = 0 THEN {work, FALSE} ELSE {TRUE})
        /\ RequestWake(Later(wakeup_at, d), AllLater(wakes, d), 0)
        /\ next_refresh_due' = next
        /\ IF outstanding = 0 THEN refresh_due_at' = kept /\ refreshes' = events
                              ELSE ArmRefresh(next, kept, events)

Next == \/ \E d \in Delays, done \in 0 .. MaxOutstanding, k \in 0 .. MaxOutstanding : Elapse(d, done, k)
        \/ \E d \in Delays, k \in 0 .. MaxOutstanding, when \in Delays \cup {None} : Drive(d, k, when)
        \/ \E d \in Delays : FireRefresh(d)

Spec == Init /\ [][Next]_vars

-----------------------------------------------------------------------------
TypeOK ==
    /\ work \in BOOLEAN /\ outstanding \in Nat
    /\ wakeup_at \in Nat \cup {None} /\ wakes \subseteq Nat
    /\ next_refresh_due \in Int \cup {None}
    /\ refresh_due_at \in Nat \cup {None} /\ refreshes \subseteq Nat

\* No lost wake-up.  A controller with work is marked to be woken, and a mark
\* has its event: mark_wakeup refuses every later event on the mark's word, so a
\* mark without one would stop the channel for good (hbm_controller.cpp:181-189).
WorkIsWoken ==
    /\ work => wakeup_at # None
    /\ wakeup_at # None => wakeup_at \in wakes

\* While accesses are outstanding the next refresh is claimed and has its event,
\* although arrivals move the due time past events already scheduled.
RefreshIsArmed ==
    RefreshInterval # 0 /\ outstanding > 0 =>
        /\ refresh_due_at = next_refresh_due
        /\ next_refresh_due \in refreshes
=============================================================================
