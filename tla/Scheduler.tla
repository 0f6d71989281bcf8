----------------------------- MODULE Scheduler -----------------------------
(***************************************************************************)
(* The scheduling policies of src/src/controller/scheduler.cpp.  A         *)
(* candidate is the next command of one queued access:                     *)
(* [command, ready_at, sequence, row_hit, data_command, priority].         *)
(***************************************************************************)
EXTENDS Integers

CONSTANT SchedulerKind        \* "FrFcfs", "FrFcfsRowHit" or "Fifo"

ASSUME SchedulerAssumption == SchedulerKind \in {"FrFcfs", "FrFcfsRowHit", "Fifo"}

\* FR-FCFS: a ready data command before a ready row command, a row hit first.
Urgency(x) == IF x.data_command THEN (IF x.row_hit THEN 3 ELSE 2) ELSE 1

\* How two candidates of equal readiness and request priority compare.
FavouredByState(x, y) ==
    \/ SchedulerKind = "FrFcfs" /\ Urgency(x) > Urgency(y)
    \/ SchedulerKind = "FrFcfsRowHit" /\ x.row_hit /\ ~y.row_hit

\* The strict order whose least element the two FR-FCFS policies choose: ready
\* candidates first, then the one ready soonest, then the higher request
\* priority, then the state of its bank, then the older request.
ReadyFirst(x, y, now) ==
    LET ready(z) == z.ready_at <= now
    IN  IF ready(x) # ready(y) THEN ready(x)
        ELSE IF ~ready(x) /\ x.ready_at # y.ready_at THEN x.ready_at < y.ready_at
        ELSE IF x.priority # y.priority THEN x.priority > y.priority
        ELSE IF FavouredByState(x, y) \/ FavouredByState(y, x) THEN FavouredByState(x, y)
        ELSE x.sequence < y.sequence

Before(x, y, now) ==
    IF SchedulerKind = "Fifo" THEN x.sequence < y.sequence ELSE ReadyFirst(x, y, now)

\* IScheduler::choose over a non-empty set of candidates.
Choose(candidates, now) ==
    CHOOSE x \in candidates : \A y \in candidates \ {x} : Before(x, y, now)
=============================================================================
