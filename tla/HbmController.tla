--------------------------- MODULE HbmController ---------------------------
(***************************************************************************)
(* One HbmController (src/src/controller/hbm_controller.cpp): the request  *)
(* queues, bank states, timing history, refresh state and command and data *)
(* buses of one channel.  The controller never advances time: each member  *)
(* function is an operator from a controller record `c' (and a time) to    *)
(* the record it leaves, and HbmSystem makes them actions.                 *)
(*                                                                         *)
(* All times are relative to the scheduler's clock, which reads 0.         *)
(*                                                                         *)
(* read_queue_ and write_queue_ are the reads and the writes of one        *)
(* sequence c.queue: accesses get increasing sequence numbers and only     *)
(* ever join at the back, so the position in c.queue is the sequence.      *)
(***************************************************************************)
EXTENDS TimingEngine, Scheduler

CONSTANTS RowPolicy,         \* "Open" or "Closed"
          RefreshPolicy,     \* "AllBank" or "PerBank"
          HighWatermark, LowWatermark,     \* write drain watermarks
          ReadCapacity, WriteCapacity,     \* queue capacities, 0 for unlimited
          MergeReads,        \* RequestMergePolicy::SameAddressRead
          RefreshInterval,   \* 0 for no refresh
          RfmThreshold,      \* activations that trigger RFM, 0 for no RFM
          BurstTime,         \* transfer time of one modelled access
          KeepRecords,       \* detailed_stats and retain_completions
          MaxIdle            \* bound on how long a refresh stays overdue

refresh_duration == IF RefreshPolicy = "AllBank" THEN Timing.t_rfc ELSE Timing.t_rfcpb

\* HbmConfig::validate accepts the controller's configuration.
validate == /\ LowWatermark <= HighWatermark
            /\ RefreshInterval # 0 => RefreshInterval >= refresh_duration
            /\ RfmThreshold # 0 => ~Custom /\ supports("RFMpb")

ASSUME ControllerAssumption ==
    /\ RowPolicy \in {"Open", "Closed"} /\ RefreshPolicy \in {"AllBank", "PerBank"}
    /\ {HighWatermark, LowWatermark, ReadCapacity, WriteCapacity,
        RefreshInterval, RfmThreshold, BurstTime, MaxIdle} \subseteq Nat
    /\ MergeReads \in BOOLEAN /\ KeepRecords \in BOOLEAN
    /\ validate

NewController ==
    [queue             |-> <<>>,     \* accesses of both queues, oldest first
     banks             |-> [b \in Bank |-> NewBank],
     history           |-> <<>>,     \* timing_engine_
     data_bus          |-> [p \in 0 .. PseudoChannels - 1 |-> 0],
     command_bus       |-> [bus \in {"unified", "row", "column"} |-> 0],
     busy_until        |-> 0,        \* refresh_busy_until_
     wakeup_at         |-> None,
     refresh_due_at    |-> None,     \* due time of the claimed refresh event
     next_refresh_due  |-> None,
     next_bank         |-> 0,        \* next_per_bank_refresh_
     refresh_pending   |-> FALSE,
     draining          |-> FALSE,    \* draining_writes_
     outstanding       |-> 0,        \* outstanding_accesses_
     fault             |-> FALSE]    \* a std::logic_error was thrown

Reads(c)  == {i \in DOMAIN c.queue : c.queue[i].op = "Read"}
Writes(c) == {i \in DOMAIN c.queue : c.queue[i].op = "Write"}

-----------------------------------------------------------------------------
(* Admission and wake-up marks.                                             *)

\* (A definition named "..._without_..." or "..._with_..." is the next one with a
\* plausible mistake; no specification uses it.  The runs' properties are tested
\* by putting each in place of the correct one.)
can_reserve_with_one_too_many(c, op) ==
    IF op = "Read" THEN ReadCapacity = 0 \/ Cardinality(Reads(c)) <= ReadCapacity
                   ELSE WriteCapacity = 0 \/ Cardinality(Writes(c)) <= WriteCapacity

\* can_reserve for one access.
can_reserve(c, op) ==
    IF op = "Read" THEN ReadCapacity = 0 \/ Cardinality(Reads(c)) < ReadCapacity
                   ELSE WriteCapacity = 0 \/ Cardinality(Writes(c)) < WriteCapacity

wakes_sooner_without_order(c, when) == c.wakeup_at = None
clear_wakeup_without_reset(c, when) == c

\* mark_wakeup succeeds only for a wake-up sooner than the one already marked.
wakes_sooner(c, when) == c.wakeup_at = None \/ when < c.wakeup_at
clear_wakeup(c, when) == IF c.wakeup_at = when THEN [c EXCEPT !.wakeup_at = None] ELSE c

refresh_unclaimed_without_due(c) == c.next_refresh_due # None /\ c.refresh_due_at = None

\* claim_refresh_event has something to claim.
refresh_unclaimed(c) == c.next_refresh_due # None /\ c.refresh_due_at # c.next_refresh_due

complete_access(c) ==
    IF c.outstanding = 0 THEN [c EXCEPT !.fault = TRUE]
                         ELSE [c EXCEPT !.outstanding = @ - 1]

-----------------------------------------------------------------------------
(* When a command may issue, and recording that it did.                     *)

AnyOpen(c) == \E b \in Bank : IsOpen(c.banks[b])

earliest_command_without_targets(c, command, bank, time) ==
    Max({earliest_issue(c.history, command, bank, time), c.command_bus[command_bus(command)]})

\* earliest_command; a standard's channel-scoped command waits for every bank.
earliest_command(c, command, bank, time) ==
    LET targets == IF ~Custom /\ command \in ChannelScoped THEN Bank ELSE {bank}
    IN  Max({earliest_issue(c.history, command, b, time) : b \in targets}
            \cup {c.command_bus[command_bus(command)]})

\* record_command and apply_transition, which every issue path calls in turn.
CommandIssued(c, command, row, bank, time) ==
    [c EXCEPT !.history = record(@, command, bank, time),
              !.command_bus[command_bus(command)] = time + command_duration(command),
              !.banks = apply_transition(command, row, @, bank)]

-----------------------------------------------------------------------------
(* Maintenance: refresh and refresh management (RFM).                       *)

MaintenanceBy(c, requested, command, bank, time) ==
    [requested |-> requested, command |-> command, bank |-> bank,
     ready_at |-> earliest_command(c, command, bank, time)]

MaintenanceFor(c, requested, bank, time) ==
    MaintenanceBy(c, requested, PlannedCommand(requested, 0, c.banks[bank], AnyOpen(c)), bank, time)

\* choose_maintenance: all-bank refresh first, then the bank that is ready
\* soonest, a bank's RFM before its refresh.
MaintenanceIsPending(c) ==
    c.refresh_pending \/ \E b \in Bank : c.banks[b].rfm_pending \/ c.banks[b].refresh_pending

ReadySoonest(candidates) ==
    CHOOSE m \in candidates : \A n \in candidates :
        m.ready_at < n.ready_at \/ (m.ready_at = n.ready_at /\ m.bank <= n.bank)

choose_maintenance(c, time) ==
    LET request(b) == IF c.refresh_pending THEN "REFab"
                      ELSE IF c.banks[b].rfm_pending THEN "RFMpb" ELSE "REFpb"
        targets == IF c.refresh_pending THEN {0}
                   ELSE {b \in Bank : c.banks[b].rfm_pending \/ c.banks[b].refresh_pending}
    IN  ReadySoonest({MaintenanceFor(c, request(b), b, time) : b \in targets})

IsFinal_with_prerequisites(m) == TRUE
IsFinal(m) == m.command = m.requested

\* issue_maintenance: the pending flags go with the final command only.
issue_maintenance(c, m, time) ==
    LET issued == CommandIssued(c, m.command, 0, m.bank, time)
        busy   == [issued EXCEPT !.busy_until = time + maintenance_duration(m.requested)]
    IN  IF ~IsFinal(m) THEN issued
        ELSE CASE m.requested = "REFab" ->
                    [busy EXCEPT !.refresh_pending = FALSE,
                                 !.banks = [b \in Bank |->
                                    [@[b] EXCEPT !.refresh_pending = FALSE,
                                                 !.activation_count = 0]]]
               [] m.requested = "REFpb" ->
                    [busy EXCEPT !.banks[m.bank].refresh_pending = FALSE,
                                 !.banks[m.bank].activation_count = 0]
               [] m.requested = "RFMpb" ->
                    [busy EXCEPT !.banks[m.bank].rfm_pending = FALSE,
                                 !.banks[m.bank].activation_count = 0]

\* A refresh falls due: of the whole channel, or of the next bank in rotation.
RefreshFallsDue(c) ==
    IF RefreshPolicy = "AllBank" THEN [c EXCEPT !.refresh_pending = TRUE]
    ELSE [c EXCEPT !.banks[c.next_bank].refresh_pending = TRUE,
                   !.next_bank = (@ + 1) % Cardinality(Bank)]

RefreshIsPending(c) == c.refresh_pending \/ \E b \in Bank : c.banks[b].refresh_pending

\* The loop of apply_idle_refresh runs at most this often: each bank takes at
\* most a PRE and the final command of an RFM and of a refresh.
IdleSteps == 4 * Cardinality(Bank)

\* apply_idle_refresh carries the due refresh out at once, on a time cursor of
\* its own that starts in the past when the channel was idle.
AfterIdle(c, m, at) ==
    [c |-> c, cursor |-> Max({at, c.command_bus[command_bus(m.command)]})]

IssueIdle(c, m, at) == AfterIdle(issue_maintenance(c, m, at), m, at)
IssueWhenReady(s, m) == IssueIdle(s.c, m, Max({s.cursor, m.ready_at}))

IdleStep(s, i) ==
    IF RefreshIsPending(s.c) THEN IssueWhenReady(s, choose_maintenance(s.c, s.cursor)) ELSE s

apply_idle_refresh(c, when) ==
    FoldLeft(IdleStep, [c |-> RefreshFallsDue(c), cursor |-> Max({when, c.busy_until})],
             [i \in 1 .. IdleSteps |-> i]).c

\* prepare_refresh_for_arrival: every refresh that fell due while the channel
\* was idle is carried out before the access is admitted.
CatchUp(c, i) ==
    [apply_idle_refresh(c, c.next_refresh_due) EXCEPT !.next_refresh_due = @ + RefreshInterval]

FirstDue(c) == [c EXCEPT !.next_refresh_due = IF @ = None THEN RefreshInterval ELSE @]
Overdue(due) == IF due > 0 THEN 0 ELSE (-due) \div RefreshInterval + 1

prepare_refresh_for_arrival(c) ==
    IF RefreshInterval = 0 THEN c
    ELSE FoldLeft(CatchUp, FirstDue(c), [i \in 1 .. Overdue(FirstDue(c).next_refresh_due) |-> i])

\* handle_refresh_event, called at the time the event was scheduled for.
handle_refresh_event(c) ==
    LET claimed == [c EXCEPT !.refresh_due_at = None]
        rearmed == [claimed EXCEPT !.next_refresh_due = RefreshInterval]
    IN  IF c.refresh_due_at # 0 THEN c
        ELSE IF c.next_refresh_due # 0 THEN claimed
        ELSE IF c.outstanding = 0 THEN apply_idle_refresh(rearmed, 0)
        ELSE RefreshFallsDue(rearmed)

Enqueued_without_count(c, access) == [c EXCEPT !.queue = Append(@, access)]
Enqueued(c, access) == [c EXCEPT !.queue = Append(@, access), !.outstanding = @ + 1]

\* admit_reserved, with the reservation it consumes.
admit_reserved(c, access) == Enqueued(prepare_refresh_for_arrival(c), access)

-----------------------------------------------------------------------------
(* Choosing and issuing the next command of a queued access.                *)

update_write_drain(c) ==
    LET depth == Cardinality(Writes(c))
    IN  IF c.draining /\ depth <= LowWatermark THEN [c EXCEPT !.draining = FALSE]
        ELSE IF ~c.draining /\ depth > 0 /\ depth >= HighWatermark
             THEN [c EXCEPT !.draining = TRUE] ELSE c

\* Only a standard's data commands precharge by themselves under Closed.
AutoPrecharge == ~Custom /\ RowPolicy = "Closed"
DataCommand(op) == IF op = "Read" THEN (IF AutoPrecharge THEN "RDA" ELSE "RD")
                                  ELSE (IF AutoPrecharge THEN "WRA" ELSE "WR")

NextCommand(c, access) ==
    PlannedCommand(DataCommand(access.op), access.row, c.banks[access.bank],
                   IsOpen(c.banks[access.bank]))

CandidateWith(c, i, command, time) ==
    [sequence |-> i, command |-> command, data_command |-> command \in DataCommands,
     row_hit |-> command \in DataCommands /\ ~c.queue[i].activated,
     priority |-> c.queue[i].priority,
     ready_at |-> earliest_command(c, command, c.queue[i].bank, time)]

CandidateOf(c, i, time) == CandidateWith(c, i, NextCommand(c, c.queue[i]), time)

\* The queue choose_next looks at: the preferred one unless it is empty.
ActiveQueue(c) ==
    LET preferred == IF c.draining THEN Writes(c) ELSE Reads(c)
    IN  IF preferred = {} THEN DOMAIN c.queue ELSE preferred

\* find_waiting: data commands, of either queue, for the row that a ready
\* precharge would close; the earliest of them, then the oldest, goes before it.
FirstWaiting(waiting) ==
    CHOOSE x \in waiting : \A y \in waiting :
        x.ready_at < y.ready_at \/ (x.ready_at = y.ready_at /\ x.sequence <= y.sequence)

WaitingData(c, bank, time) ==
    {x \in {CandidateOf(c, i, time) : i \in {j \in DOMAIN c.queue : c.queue[j].bank = bank}} :
        x.data_command}

PrechargeLast(c, chosen, time) ==
    LET beforePrecharge(waiting) == IF waiting = {} THEN chosen ELSE FirstWaiting(waiting)
    IN  IF chosen.ready_at > time \/ chosen.command # "PRE" THEN chosen
        ELSE beforePrecharge(WaitingData(c, c.queue[chosen.sequence].bank, time))

\* choose_next, for a channel with a queued access.
choose_next(c, time) ==
    PrechargeLast(c, Choose({CandidateOf(c, i, time) : i \in ActiveQueue(c)}, time), time)

SameAddress(a, b) == a.bank = b.bank /\ a.row = b.row /\ a.col = b.col
SameDomain(a, b)  == a.domain = b.domain

\* The accesses one data command serves: its own, and the reads merged into it.
Served(c, i) ==
    LET leader == c.queue[i]
        hazard == \E w \in Writes(c) : SameDomain(c.queue[w], leader) /\ SameAddress(c.queue[w], leader)
    IN  {i} \cup (IF MergeReads /\ leader.op = "Read" /\ ~hazard
                  THEN {r \in Reads(c) : SameAddress(c.queue[r], leader) /\ SameDomain(c.queue[r], leader)}
                  ELSE {})

Without(queue, positions) == Picked(queue, DOMAIN queue \ positions)

ServedIds_without_merged(c, i) == <<c.queue[i].id>>

\* The requesters served, in completion order: the leader, then by age.
ServedIds(c, i) ==
    LET rest == Ascending(Served(c, i) \ {i})
    IN  <<c.queue[i].id>> \o [k \in DOMAIN rest |-> c.queue[rest[k]].id]

-----------------------------------------------------------------------------
(* Records of latency: first_command_at, and the stages of a transfer.      *)

Recorded(time) == IF KeepRecords THEN time ELSE None

\* An access's first command ends its queue wait.
FirstAt(access, time) == IF access.first_at = None THEN Recorded(time) ELSE access.first_at

\* latency_breakdown of an access served by a data command at `time' whose
\* transfer begins at `start'.
Stages(access, time, latency, start) ==
    [queue_wait    |-> FirstAt(access, time) - access.arrival,
     command_phase |-> time - FirstAt(access, time),
     data_ready    |-> latency,
     data_bus_wait |-> start - (time + latency),
     data_service  |-> BurstTime]

StagesOfServed(c, i, time, latency, start) ==
    LET rest == Ascending(Served(c, i) \ {i})
        stages(k) == Stages(c.queue[k], time, latency, start)
    IN  IF KeepRecords THEN <<stages(i)>> \o [k \in DOMAIN rest |-> stages(rest[k])] ELSE <<>>

CasLatency(op) == IF op = "Write" /\ Timing.use_extended_hbm_timing THEN Timing.t_cwl ELSE Timing.t_cl

CountActivation_with_late_threshold(bank) ==
    LET count == bank.activation_count + 1
    IN  IF RfmThreshold # 0 /\ count > RfmThreshold
        THEN [bank EXCEPT !.activation_count = 0, !.rfm_pending = TRUE]
        ELSE [bank EXCEPT !.activation_count = IF RfmThreshold = 0 THEN 0 ELSE count]

CountActivation_with_early_threshold(bank) ==
    LET count == bank.activation_count + 1
    IN  IF RfmThreshold # 0 /\ count + 1 >= RfmThreshold
        THEN [bank EXCEPT !.activation_count = 0, !.rfm_pending = TRUE]
        ELSE [bank EXCEPT !.activation_count = IF RfmThreshold = 0 THEN 0 ELSE count]

\* The activation that reaches the threshold asks for an RFM.
CountActivation(bank) ==
    LET count == bank.activation_count + 1
    IN  IF RfmThreshold # 0 /\ count >= RfmThreshold
        THEN [bank EXCEPT !.activation_count = 0, !.rfm_pending = TRUE]
        ELSE [bank EXCEPT !.activation_count = IF RfmThreshold = 0 THEN 0 ELSE count]

\* The data transfer of access i: it leaves the queue, holds its data bus, and
\* completes at `done_at' for every requester in `ids'.
IssueData(c, command, i, time) ==
    LET access  == c.queue[i]
        bus     == PseudoChannelOf(access.bank)
        done_at == Max({time + CasLatency(access.op), c.data_bus[bus]}) + BurstTime
        issued  == CommandIssued(c, command, access.row, access.bank, time)
    IN  [c |-> [issued EXCEPT
                  !.queue = Without(@, Served(c, i)),
                  !.data_bus[bus] = done_at,
                  !.banks[access.bank].precharge_pending = @ \/ (Custom /\ RowPolicy = "Closed"),
                  !.fault = @ \/ c.banks[access.bank].row # access.row],
         ids |-> ServedIds(c, i), done_at |-> done_at, wake_at |-> None,
         stages |-> StagesOfServed(c, i, time, CasLatency(access.op), done_at - BurstTime)]

\* issue: `ids' is empty unless a data command started a transfer.
issue(c, candidate, time) ==
    LET i      == candidate.sequence
        access == c.queue[i]
        issued == CommandIssued(c, candidate.command, access.row, access.bank, time)
    IN  IF candidate.command \in DataCommands THEN IssueData(c, candidate.command, i, time)
        ELSE [c |-> IF candidate.command = "ACT"
                    THEN [issued EXCEPT !.banks[access.bank] = CountActivation(@),
                                        !.queue[i].activated = TRUE,
                                        !.queue[i].first_at = FirstAt(access, time)]
                    ELSE [issued EXCEPT !.queue[i].first_at = FirstAt(access, time)],
              ids |-> <<>>, stages |-> <<>>, done_at |-> None, wake_at |-> None]

-----------------------------------------------------------------------------
IsBusy_without_check(c) == FALSE
IsBusy(c) == 0 < c.busy_until

StepTo(c, wake) == [c |-> c, wake_at |-> wake, ids |-> <<>>, stages |-> <<>>, done_at |-> None]

DriveMaintenance(c, m) ==
    LET issued(next) == StepTo(next, IF IsFinal(m) THEN next.busy_until ELSE 0)
    IN  IF m.ready_at > 0 THEN StepTo(c, m.ready_at) ELSE issued(issue_maintenance(c, m, 0))

DriveRequest(c, candidate) ==
    LET issued(step) == [step EXCEPT !.wake_at = 0]
    IN  IF candidate.ready_at > 0 THEN StepTo(c, candidate.ready_at)
        ELSE issued(issue(c, candidate, 0))

\* drive, at the present: at most one command, and when to be driven again.
drive(c) ==
    LET request(drained) == IF c.queue = <<>> THEN StepTo(drained, None)
                            ELSE DriveRequest(drained, choose_next(drained, 0))
    IN  IF IsBusy(c) THEN StepTo(c, c.busy_until)
        ELSE IF MaintenanceIsPending(c) THEN DriveMaintenance(c, choose_maintenance(c, 0))
        ELSE request(update_write_drain(c))

-----------------------------------------------------------------------------
\* The clock moves on by d.  A time in the past only matters while it can still
\* delay something, which is until the oldest overdue refresh is carried out.
Later(time, d) == IF time = None THEN None ELSE time - d

Aged(queue, d) ==
    IF ~KeepRecords THEN queue
    ELSE [i \in DOMAIN queue |->
             [queue[i] EXCEPT !.arrival = @ - d, !.first_at = Later(@, d)]]

Rebase(c, d) ==
    LET due     == Later(c.next_refresh_due, d)
        oldest  == IF due # None /\ due < 0 THEN due ELSE 0
        recent == {i \in DOMAIN c.history : c.history[i].at - d + Reach(c.history[i].cmd) > oldest}
        move(t) == Max({t - d, oldest})
    IN  [c EXCEPT
           !.queue = Aged(@, d),
           !.history = LET kept == Picked(@, recent)
                       IN  [i \in DOMAIN kept |-> [kept[i] EXCEPT !.at = @ - d]],
           !.data_bus = [p \in DOMAIN @ |-> move(@[p])],
           !.command_bus = [b \in DOMAIN @ |-> move(@[b])],
           !.busy_until = move(@),
           !.wakeup_at = Later(@, d), !.refresh_due_at = Later(@, d), !.next_refresh_due = due]
=============================================================================
