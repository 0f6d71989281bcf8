----------------------------- MODULE HbmSystem -----------------------------
(***************************************************************************)
(* HbmSystem (src/src/hbm_system.cpp): admission of client transactions,   *)
(* their expansion into accesses of the channels' controllers, and the     *)
(* events that drive the controllers, attached to an ISimScheduler whose   *)
(* agenda is kept in the order it promises (module SimScheduler).          *)
(*                                                                         *)
(* Times are relative to scheduler_.now(): when the clock moves by d every *)
(* stored time is rebased by d, so that endless traffic has finitely many  *)
(* states.                                                                 *)
(***************************************************************************)
EXTENDS HbmController

CONSTANTS Channels,       \* flat channel numbers
          Ids,            \* transaction ids, each the slot of one client
          Transactions,   \* [op, priority, domain, accesses]; `accesses' is the
                          \* expansion next_access makes of the byte range, a
                          \* sequence of [ch, bank, row, col]
          MaxActive,      \* max_active_transactions
          NoTransaction,  \* a completion callback that submits nothing
          MaxGap          \* bound on the time that passes before a submission

ASSUME SystemAssumption ==
    /\ MaxActive \in Nat \ {0} /\ MaxGap \in Nat
    /\ Channels \subseteq Nat /\ IsFiniteSet(Channels)
    /\ NoTransaction \notin Transactions
    /\ \A t \in Transactions :
           /\ t.op \in {"Read", "Write"} /\ t.priority \in Nat
           /\ t.accesses \in Seq([ch : Channels, bank : Bank, row : Nat, col : Nat]) \ {<<>>}

VARIABLES ctl,        \* controllers_
          parents,    \* parents_: id -> [txn, admitted, remaining, arrival, stages]
          pending,    \* pending_admissions_
          agenda,     \* the scheduler's pending events, in the order they run
          waiting,    \* ids told Backpressure and not sent a capacity hint since
          stats,      \* stats_, and completions_, while KeepRecords
          exhausted,  \* the clients have nothing more to submit
          turn        \* parity of the events run: none is a stuttering step

vars == <<ctl, parents, pending, agenda, waiting, stats, exhausted, turn>>

\* Member functions map a state to the state they leave; an action stores it.
State == [ctl |-> ctl, parents |-> parents, pending |-> pending,
          agenda |-> agenda, waiting |-> waiting, stats |-> stats]
Become(s) == /\ ctl' = s.ctl /\ parents' = s.parents /\ pending' = s.pending
             /\ agenda' = s.agenda /\ waiting' = s.waiting /\ stats' = s.stats

Init == /\ ctl = [ch \in Channels |-> NewController]
        /\ parents = [id \in {} |-> 0]
        /\ pending = <<>> /\ agenda = <<>> /\ waiting = {}
        /\ stats = [submitted |-> 0, modeled |-> 0, physical |-> 0, merged |-> 0, completions |-> <<>>]
        /\ exhausted = FALSE /\ turn = 0

-----------------------------------------------------------------------------
(* The scheduler: events are [at, kind, ch, ids, stages].                   *)

NoAccess == [ids |-> <<>>, stages |-> <<>>]

\* `served' are the accesses that the event completes.
schedule_event(s, when, kind, ch, served) ==
    LET place == Cardinality({i \in DOMAIN s.agenda : s.agenda[i].at <= when}) + 1
    IN  [s EXCEPT !.agenda = InsertAt(@, place,
            [at |-> when, kind |-> kind, ch |-> ch, ids |-> served.ids, stages |-> served.stages])]

\* Time passes, up to the next event at most.
SinceArrival(table, d) ==
    IF KeepRecords THEN [id \in DOMAIN table |-> [table[id] EXCEPT !.arrival = @ - d]] ELSE table
UntilEvent(events, d) == [i \in DOMAIN events |-> [events[i] EXCEPT !.at = @ - d]]

Advance(s, d) ==
    [s EXCEPT !.ctl = [ch \in Channels |-> Rebase(@[ch], d)],
              !.parents = SinceArrival(@, d), !.agenda = UntilEvent(@, d)]

Counted(s, counter, n) == IF KeepRecords THEN [s EXCEPT !.stats[counter] = @ + n] ELSE s

-----------------------------------------------------------------------------
schedule_controller_wake(s, ch, when) ==
    LET at == Max({when, 0})
    IN  IF ~wakes_sooner(s.ctl[ch], at) THEN s
        ELSE schedule_event([s EXCEPT !.ctl[ch].wakeup_at = at], at, "wake", ch, NoAccess)

schedule_refresh_due(s, ch) ==
    LET due == s.ctl[ch].next_refresh_due
    IN  IF ~refresh_unclaimed(s.ctl[ch]) THEN s
        ELSE schedule_event([s EXCEPT !.ctl[ch].refresh_due_at = due], due, "refresh", ch, NoAccess)

\* The next access of a parent that is not fully admitted.
Unadmitted(parent) == parent.admitted < Len(parent.txn.accesses)
NextAccess(parent) == parent.txn.accesses[parent.admitted + 1]

\* One turn of the inner loop of pump_admissions, for parent id.
Access(id, txn, arrival, at) ==
    [id |-> id, op |-> txn.op, priority |-> txn.priority, domain |-> txn.domain,
     bank |-> at.bank, row |-> at.row, col |-> at.col, activated |-> FALSE,
     arrival |-> arrival, first_at |-> None]

Admit_with_late_arrival(s, id, parent, at) ==
    Counted([s EXCEPT !.parents[id].admitted = @ + 1, !.parents[id].remaining = @ + 1,
                      !.ctl[at.ch] = admit_reserved(@, Access(id, parent.txn, Recorded(0), at))],
            "modeled", 1)

\* Every access is enqueued_at its parent's arrival time.
Admit(s, id, parent, at) ==
    Counted([s EXCEPT !.parents[id].admitted = @ + 1, !.parents[id].remaining = @ + 1,
                      !.ctl[at.ch] = admit_reserved(@, Access(id, parent.txn, parent.arrival, at))],
            "modeled", 1)

AdmitNext(s, id) ==
    LET parent == s.parents[id]
    IN  IF Unadmitted(parent) /\ can_reserve(s.ctl[NextAccess(parent).ch], parent.txn.op)
        THEN Admit(s, id, parent, NextAccess(parent)) ELSE s

\* pump_admissions: every parent in FIFO order admits as many accesses as the
\* queues take; then each channel that got one is woken.
AdmitParent(s, id) == FoldLeft(AdmitNext, s, [i \in DOMAIN s.parents[id].txn.accesses |-> id])
AdmitAll(s) == FoldLeft(AdmitParent, s, s.pending)

DropAdmitted(s) ==
    [s EXCEPT !.pending = Picked(@, {i \in DOMAIN @ : Unadmitted(s.parents[@[i]])})]

WakeChannel(s, ch) == schedule_controller_wake(schedule_refresh_due(s, ch), ch, 0)
WakeTouched(s, touched) == FoldLeft(WakeChannel, DropAdmitted(s), Ascending(touched))

Admitted(before, after) ==
    WakeTouched(after, {ch \in Channels : Len(after.ctl[ch].queue) > Len(before.ctl[ch].queue)})

pump_admissions(s) == Admitted(s, AdmitAll(s))

\* try_submit_now of a transaction whose id is not active.
HasCredit(s, txn) == /\ Cardinality(DOMAIN s.parents) < MaxActive
                     /\ can_reserve(s.ctl[txn.accesses[1].ch], txn.op)

NewParent(txn, arrival) ==
    [txn |-> txn, admitted |-> 0, remaining |-> 0, arrival |-> Recorded(arrival), stages |-> None]

try_submit_now(s, id, txn, arrival) ==
    IF HasCredit(s, txn)
    THEN pump_admissions(Counted([s EXCEPT
             !.parents = [x \in DOMAIN @ \cup {id} |-> IF x = id THEN NewParent(txn, arrival) ELSE @[x]],
             !.pending = Append(@, id)], "submitted", 1))
    ELSE [s EXCEPT !.waiting = @ \cup {id}]

-----------------------------------------------------------------------------
(* The events' callbacks.                                                   *)

\* A transfer that was started frees slots, completes at done_at, and is
\* announced as a capacity hint at once.
TransferStarted(s, ch, step) ==
    schedule_event(schedule_event(s, step.done_at, "complete", ch, step),
                   0, "capacity", ch, NoAccess)

Driven(s, ch, step) == [s EXCEPT !.ctl[ch] = step.c]

Transferred_with_every_requester(s, step) ==
    Counted(Counted(s, "physical", 1), "merged", Len(step.ids))

\* One data command serves one access and those merged into it.
Transferred(s, step) == Counted(Counted(s, "physical", 1), "merged", Len(step.ids) - 1)

AskedWake(s, ch, when) == IF when = None THEN s ELSE schedule_controller_wake(s, ch, when)

DriveTo_without_admission(s, ch, step) ==
    AskedWake(IF step.ids = <<>> THEN Driven(s, ch, step)
              ELSE TransferStarted(Driven(s, ch, step), ch, step),
              ch, step.wake_at)

DriveTo(s, ch, step) ==
    AskedWake(IF step.ids = <<>> THEN Driven(s, ch, step)
              ELSE TransferStarted(pump_admissions(Transferred(Driven(s, ch, step), step)), ch, step),
              ch, step.wake_at)

drive_controller(s, ch) == DriveTo(s, ch, drive(s.ctl[ch]))

WakeCallback(s, ch) == drive_controller([s EXCEPT !.ctl[ch] = clear_wakeup(@, 0)], ch)

WakeAndRefresh_without_idle_stop(s, ch) ==
    schedule_refresh_due(schedule_controller_wake(s, ch, 0), ch)

\* After a refresh event the channel is driven; an idle one has no next event.
WakeAndRefresh(s, ch) ==
    IF s.ctl[ch].outstanding = 0 THEN schedule_controller_wake(s, ch, 0)
    ELSE schedule_refresh_due(schedule_controller_wake(s, ch, 0), ch)

RefreshCallback(s, ch) == WakeAndRefresh([s EXCEPT !.ctl[ch] = handle_refresh_event(@)], ch)

Freed(s, id) == [s EXCEPT !.parents = [x \in DOMAIN @ \ {id} |-> @[x]]]
Answered(s, id, reply) == IF reply = NoTransaction THEN s ELSE try_submit_now(s, id, reply, 0)

\* The completion has the latency since the arrival, and the stages of the access
\* that completed last.
Completed(s, id) ==
    IF ~KeepRecords THEN s
    ELSE [s EXCEPT !.stats.completions = Append(@,
            [id |-> id, latency |-> -s.parents[id].arrival, stages |-> s.parents[id].stages])]

\* The capacity callback may itself submit `retry', [id, txn], if the id is not active.
Hinted(s, retry) ==
    IF retry = NoTransaction \/ retry.id \in DOMAIN s.parents THEN s
    ELSE try_submit_now(s, retry.id, retry.txn, 0)

complete_parent_without_hint(s, id, reply, retry) == Answered(Freed(s, id), id, reply)

\* complete_parent: the id is free before the completion callback, which may
\* submit `reply' under it; the capacity callback then hints at the credit.
complete_parent(s, id, reply, retry) ==
    Hinted([Answered(Freed(Completed(s, id), id), id, reply) EXCEPT !.waiting = {}], retry)

CompleteIfLast(s, id, reply, retry) ==
    IF s.parents[id].remaining = 0 /\ ~Unadmitted(s.parents[id])
    THEN complete_parent(s, id, reply, retry) ELSE s

\* Accesses finish in the order of their completion times, so the latest one so
\* far is always this one.  `access' is [id, ch, stages], and the client's answers.
finish_access(s, access) ==
    CompleteIfLast([s EXCEPT !.ctl[access.ch] = complete_access(@),
                             !.parents[access.id].remaining = @ - 1,
                             !.parents[access.id].stages = access.stages],
                   access.id, access.reply, access.retry)

StagesAt(event, k) == IF KeepRecords THEN event.stages[k] ELSE None

CompletionCallback(s, event, replies, retry) ==
    FoldLeft(finish_access, s,
             [k \in DOMAIN event.ids |-> [id |-> event.ids[k], ch |-> event.ch, stages |-> StagesAt(event, k),
                                          reply |-> replies[k], retry |-> retry]])

-----------------------------------------------------------------------------
\* A client whose id is not active submits, d after the last thing that
\* happened; one that met Backpressure waits for a capacity hint first.  The
\* transaction's arrival, now or in the past, only matters to its records.
Submit(id, txn, d, arrival) ==
    /\ arrival <= 0
    /\ ~exhausted
    /\ id \notin DOMAIN parents \cup waiting
    /\ agenda # <<>> => d <= agenda[1].at
    /\ \A ch \in Channels :
           ctl[ch].next_refresh_due # None => ctl[ch].next_refresh_due - d >= -MaxIdle
    /\ Become(try_submit_now(Advance(State, d), id, txn, arrival))
    /\ UNCHANGED <<exhausted, turn>>

\* The clients reach the end of their work.
Exhaust == ~exhausted /\ exhausted' = TRUE /\ UNCHANGED <<ctl, parents, pending, agenda, waiting, stats, turn>>

\* The scheduler runs the event at the head of its agenda, at its time.
TakeTurn == agenda # <<>> /\ turn' = 1 - turn
Dispatch(kind) == TakeTurn /\ agenda[1].kind = kind /\ UNCHANGED exhausted
AtEvent == Advance([State EXCEPT !.agenda = Tail(@)], agenda[1].at)

RunWake     == Dispatch("wake") /\ Become(WakeCallback(AtEvent, agenda[1].ch))
RunRefresh  == Dispatch("refresh") /\ Become(RefreshCallback(AtEvent, agenda[1].ch))
RunCapacity == Dispatch("capacity") /\ Become([AtEvent EXCEPT !.waiting = {}])

\* The completion callback of each access answers with a submission or none, and
\* one client may retry in the capacity callback.  (One that submits in the callback
\* of a capacity event might as well Submit right after it.)
Offered == IF exhausted THEN {} ELSE Transactions
Replies(ids) == [DOMAIN ids -> {NoTransaction} \cup Offered]
Retries == {NoTransaction} \cup [id : Ids, txn : Offered]

RunCompletion ==
    /\ Dispatch("complete")
    /\ \E replies \in Replies(agenda[1].ids), retry \in Retries :
           Become(CompletionCallback(AtEvent, agenda[1], replies, retry))

Next == \/ \E id \in Ids, txn \in Transactions, d \in 0 .. MaxGap : Submit(id, txn, d, 0)
        \/ Exhaust
        \/ RunWake \/ RunRefresh \/ RunCapacity \/ RunCompletion

\* events.run() and run_until keep dispatching; clients need not submit.  (Only
\* events change turn, and one can run whenever the agenda is not empty.)
Spec == Init /\ [][Next]_vars /\ WF_turn(TakeTurn)
=============================================================================
