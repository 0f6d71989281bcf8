# A verification of HBMSim's event-driven core

HBMSim is a transaction-level simulator of high-bandwidth memory. Clients submit
reads and writes of byte ranges; the simulator expands them into accesses, queues
them at per-channel controllers, issues DRAM commands when the timing constraints
allow, and reports completions. Nothing in it runs in parallel, but everything
happens inside callbacks of a discrete-event queue that schedule more callbacks,
which is where its hard behaviour lies: the order of simultaneous events, marks
that say whether an event is already scheduled, client code called back in the
middle of an update, refresh competing with requests, backpressure.

Paths below are relative to the repository.

## 1. Inventory

| Component | State | Operations | Called by |
|---|---|---|---|
| `ISimScheduler` (`include/hbmsim/kernel/sim_scheduler.h`) | simulated time, agenda | `now`, `schedule_at`, `cancel` | every component that is attached |
| `EventQueue` (`src/kernel`) | `now_`, two counters, `events_` by (time, sequence), `tokens_` by token | the above, `run`, `run_until`, `run_next` | `main`, tests; calls back into everything |
| `HbmSystem` (`src/hbm_system.cpp`) | `parents_`, `pending_admissions_`, `pending_events_`, callbacks | `try_submit_now`; event callbacks for wake-up, refresh, completion, capacity | clients; the scheduler |
| `HbmController` (`src/controller/hbm_controller.cpp`), one per channel | read and write queue, reservations, bank states, command and data bus times, refresh state, wake-up and refresh marks, write-drain flag, outstanding count | `can_reserve`, `reserve`, `admit_reserved`, `mark_wakeup`, `clear_wakeup`, `claim_refresh_event`, `handle_refresh_event`, `drive`, `complete_access` | `HbmSystem` |
| schedulers, row policy, refresh manager, coalescer (`src/controller`) | none | choose a candidate; policy questions | `HbmController` |
| command planner, standards (`src/controller/command_planner.cpp`, `src/dram`) | none (tables) | next command towards a goal, effect on a bank, bus, duration | `HbmController` |
| timing spec and engine (`src/timing`) | last four times of each command at each resource | `constraints`, `earliest_issue`, `record` | `HbmController` |
| address mapper, topology (`src/mapping`) | none | address to channel, bank, row, column; bank to resources | `HbmSystem`, `HbmController` |
| bandwidth rate (`src/resource`) | none | rounded-up transfer time | `HbmController` |
| configuration (`HbmConfig`, profiles) | immutable | `validate` | `HbmSystem` constructor |
| statistics (`stats.h`) | counters nothing reads back | | reports |
| command line (`src/main.cpp`) | none | replays a trace: submit, wait for a hint on backpressure, run to the end | user |

How they interact: `try_submit_now` creates a parent and calls `pump_admissions`,
which moves as many accesses as the queues take into controllers and schedules a
wake-up and a refresh event for each one touched. A wake-up event drives its
controller for at most one command; a data command frees a slot, so admissions are
pumped again, a completion event is scheduled for the end of the transfer and a
capacity event for now. Completion events count accesses down; the last one of a
parent frees its id, calls the client, which may submit under that id at once, and
hints at the freed credit. Refresh events mark a refresh pending, or carry it out
at once on an idle channel, and re-arm while accesses are outstanding.

What is hard, and what makes each part correct:

* **Event queue.** Callbacks change both maps while the loop that called them is on
  the stack. Correct: the maps index each other, events run in (time, sequence)
  order, the clock never passes a pending event, runs return.
* **Wake-ups and refresh events.** An event is scheduled only if a mark says there is
  none, and marks are overwritten by sooner ones, so an event can come back for a
  mark that is gone. Correct: work always has a wake-up coming; refresh is armed
  while it matters, and disarmed when it does not, or `run()` would never return.
* **Admission.** Transactions larger than any queue, freed slots, id reuse inside
  callbacks. Correct: every access is counted exactly once everywhere, queues stay
  within capacity, a free slot is never withheld from an accepted parent, a refused
  client is told when to retry.
* **Lifetime.** Events capture the system that scheduled them, and a system may be
  destroyed while the queue runs. Correct: `pending_events_` is exact, and after the
  destructor nothing is left that calls the system, whoever threw or destroyed what.
* **Expansion.** A byte range is split at bursts, interleave lines and rows and resumed
  where the last admission stopped. Correct: the accesses tile the range, each within
  one row and one group, and each address has a place of its own on the device.
* **Records.** An access may be refused, deferred and served by another's command.
  Correct: its latency stages partition its latency, and the counters account for
  what is queued.
* **Trace replay.** Correct: it submits only when it may, and reaches its end.
* **Commands.** Requests, refresh and RFM share banks and buses; idle refresh runs on
  a time cursor that is not the clock. Correct: every timing constraint holds on
  every bank a command reaches, no refresh is lost, RFM comes before the next
  activation, and every accepted request completes in the end.

`PROJECT.json` lists every hazard at its line with the properties that cover it.

## 2. Modules

| Module | Models | Built on |
|---|---|---|
| `SimScheduler` | the contract of `ISimScheduler`: an agenda in the order it will run | |
| `EventQueue` | `event_queue.cpp`, one action per operation, loop step and return | |
| `EventQueueRefinement` | reading the map in key order gives the agenda of `SimScheduler` | `EventQueue`, `SimScheduler` |
| `SystemLifetime` | several `HbmSystem`s on one queue: `schedule_event`, `pending_events_`, the destructor, one step per cancelled token | `EventQueue` |
| `EventQueueProofs` | theorems about `EventQueue`, the contract it keeps, and `SystemLifetime` | `EventQueueRefinement`, `SystemLifetime` |
| `MCLifetime` | the run of both with the queue's contract | `SystemLifetime`, `EventQueueRefinement` |
| `AddressMapper` | both address layouts, flat numbers, `bank_address`, `next_mapping_boundary` | |
| `BandwidthRate` | `transfer_time` on a word of any width | |
| `Expansion` | `next_access` burst by burst, under the loop of `pump_admissions` | `AddressMapper`, `BandwidthRate` |
| `ExpansionProofs` | theorems about it | `Expansion` |
| `MCExpansion` | small devices of every proportion, and the standards' organizations | `Expansion` |
| `HbmStandard` | standards' tables and the command planner | |
| `TimingEngine` | both constraint tables, `earliest_issue`, `record` | `HbmStandard` |
| `Scheduler` | the three request schedulers | |
| `HbmController` | one controller; a member function is an operator from a controller record to the record it leaves | `TimingEngine`, `Scheduler` |
| `HbmSystem` | the state machine: submissions and the four kinds of events | `HbmController` |
| `HbmProperties` | its invariants, action properties and liveness | `HbmSystem` |
| `OrderTheory` | facts about finite orders: minima, ranks, induction up to a bound | |
| `LoopTheory` | what `FoldLeft` computes, as the run of a loop | `OrderTheory` |
| `HbmControllerProofs` | lemmas about the member functions of a controller | `HbmProperties`, `LoopTheory` |
| `HbmSystemProofs` | theorems about `HbmSystem` | `HbmControllerProofs` |
| `ChannelProtocol` | an abstract channel: work, marks and events | |
| `ChannelProtocolProofs` | theorems about it | `ChannelProtocol` |
| `ChannelRefinement` | each channel of `HbmSystem` keeps to `ChannelProtocol` | `HbmProperties`, `ChannelProtocol` |
| `MCHbm` | timings and transactions of the small instances | `ChannelRefinement` |
| `TraceReplay` | the replay loop of `main.cpp`, which drives `HbmSystem` | `HbmProperties` |
| `MCReplay` | its traces | `TraceReplay`, `MCHbm` |
| `ReplayProofs` | theorems about the records of the replay | `TraceReplay`, `HbmSystemProofs` |

**State and actions of `HbmSystem`.** `ctl[ch]` is `controllers_[ch]`, `parents` is
`parents_`, `pending` is `pending_admissions_`, `agenda` holds the scheduler's events
in the order `SimScheduler` promises. `Submit` is one `try_submit_now` by a client at
a time before or at the next event; `RunWake`, `RunRefresh`, `RunCapacity` and
`RunCompletion` are the callbacks passed to `schedule_event`, each with all that it
calls, including the submissions clients make from their completion callback (the id
just freed) and from the capacity callback that follows it inside `complete_parent`.
`waiting` holds the ids of clients that met Backpressure and have not been sent a
hint since; `exhausted` says that clients have no more to submit (the end of a
trace); `turn` alternates at each event, so that running an event is never a
stuttering step. While `KeepRecords` holds, accesses carry their arrival and first
command, completions their latency and its stages, and `stats` its counters; no
decision reads them, and the runs that are not about them leave them out.

**`TraceReplay`** is `main` from the first line on. `phase` is where it stands,
`line` both the line number and the transaction's id, and `capacity_changed` is
`waiting = {}`. Its steps use `HbmSystem`'s own operators and event actions, and
`ReplayIsClient` shows that each is a step `HbmSystem` allows.

**`SystemLifetime`** adds to each action of `EventQueue` whose it is: `closure` is the
system that the callback captures, `running` the owner of the callback on the stack.
The client may destroy any system except, as `sim_scheduler.h:17-18` asks, the one
whose callback runs; the destructor cancels one token of an unordered set per step.
A callback may also throw, which unwinds the run function (`CallbackThrows`).

**`Expansion`** has the two callers of `next_access` around its scan (`StartGroup`,
`ExtendGroup`): `try_submit_now` asks for the first access to learn its channel (`Submit`)
and then queues the parent (`Accept`), and the loop of `pump_admissions` asks for it again
and for every later one (`CallNextAccess`, `ReturnAccess`). `MaxWord` stands for the
largest `std::uint64_t`, `Wrap` for its arithmetic. `InsideTopology` fails only for
the Brc layout on an organization its bit fields do not fit, which `validate` accepts:
`map` then throws (`MapThrows`), before the acceptance, when nothing is left behind and the
client may go on with another range, or in the middle of an admission, when the parent
stays and every later `pump_admissions` meets it again. The properties of layout are about
devices whose fields fit (`FieldsFit`).

**Conventions.** Read and write queue are the reads and writes of one sequence, as
accesses join both in increasing sequence number. The reservation that
`pump_admissions` makes and `admit_reserved` consumes in the next statement leaves no
trace. A timing list is selected from the sequence of a channel's recent commands.
Times are relative to the clock: when it moves by `d`, every stored time is rebased
by `d`, and a time so far in the past that no constraint looks at it any more is
dropped or moved up to the oldest time that still matters (`Rebase`). So the state
space is finite for clients that submit for ever, with no bound on time itself.
A thrown `std::logic_error` of the data path is the flag `fault`. With
`AccessesAreConserved` it is shown not to be set. A payload is left out; an access is
one unit of data, so overlapping means equal.

Operators named `..._with_...` or `..._without_...` stand before the operator they
resemble and contain one plausible mistake. No specification uses them; each
property is tested by putting one in place of its original and seeing TLC
report the property violated (`"mutants"` in `PROJECT.json`).

## 3. What TLC checks

Each configuration gives every constant a value; `FastTiming` and `CompactTiming` keep the
order and the sums of the real durations (tRC = tRAS + tRP, tFAW > 3 tRRD, tRFC the
longest) at a few ticks. `use_extended_hbm_timing`, a field of the timing record,
selects the table of constraints and the read latency: a standard's device has it exactly
with HBM2 and HBM3 (`TableAssumption`), a custom device with either value, since
`DeviceSpec::as_custom()` drops the standard and keeps the timing. So
`custom_precharge_all` has an `as_custom()` device with the extended table
(`FastTiming`), `custom_closed_page` a custom device with the compact one
(`CompactTiming`); the proofs cover both tables for all of them. One transaction holds up to
three accesses.

| Run | Distinct states | Shows |
|---|---|---|
| `event_queue` | 54 k | two systems and one other client on the queue: it implements the `ISimScheduler` contract; maps agree, order, clock; run functions return; `pending_events_` is exact and nothing calls a destroyed system. Times 0–2 and three events give simultaneous events, callbacks that schedule at the current time, cancel, throw, and destroy the other system before, between and after its events |
| `channel_protocol` | 737 | no lost wake-up and no unarmed refresh, whatever the controller does |
| `hbm2_admission` | 60 k | three clients, two active parents, two channels, one slot per queue: more clients than credits, transactions larger than the queues and spanning channels, reads of both kinds of parents at once; conservation, capacity, hints, draining, the channel protocol |
| `hbm2_refresh` | 79 k | all-bank refresh every 8 ticks, gaps of up to 10 between submissions, so a refresh comes before, with, after and long before an arrival; timing, no lost refresh, quiescence |
| `hbm4_rfm` | 85 k | compact timing table, four banks, so that the four-activate window delays a fifth activation, all-bank refresh and RFM after two activations, with auto-precharge, the row-hit scheduler, priority, write drain at its watermarks, merged reads and the write that forbids merging |
| `hbm3_per_bank` | 205 k | two pseudo-channels, rotating per-bank refresh; commands in time order although idle refresh has its own cursor |
| `expansion` | 4.4 k | fifteen devices: bursts smaller, larger and incommensurable with the interleave line, one column per row, several stacks, rates that round and overflow, the three standards at the edges of their bit fields, a Brc device that does not fit, so that the mapping throws before and after the acceptance; ranges at every alignment, over the whole device, and up to and beyond the last address of a 17-bit word |
| `trace_replay` | 45 k | all 1728 traces of three lines with four arrivals and three transactions, two active parents and queues of two reads and one write, refresh every 12 ticks: backpressure for want of slots and of credit, late lines, idle time with two overdue refreshes, lines out of order |

Deadlock is checked in `event_queue`, `channel_protocol` and `trace_replay`. In
`expansion` it is not, as an exception ends it, and in `HbmSystem` alone it is not:
with clients exhausted and the agenda empty the simulation is over, and
`DrainsWhenQuiet` says that it only stops like that with no transaction left behind.

Four runs find what the documentation, a test or a comment denies
(`"findings"` in `PROJECT.json`); the runs that pass stay clear of these
configurations.

| Run | What TLC finds |
|---|---|
| `custom_closed_page` | without a standard, `precharge_pending` is never cleared: endless PRE, the request never completes |
| `custom_precharge_all` | without a standard, here dropped by `as_custom()`, PREA ignores the timing of all banks but the first |
| `fifo_bypass` | a ready PRE gives way to a newer row hit under Fifo too |
| `rfm_and_refresh` | `apply_idle_refresh`, on an idle channel or called for an arrival at the due time, issues REFpb during the RFMpb of the same bank |

`hbm4_rfm` uses a threshold of two because one, which `validate` accepts as well, never
serves a request: the RFM that each activation triggers closes the row before the
data command. `CountActivation_with_early_threshold` puts the model there, and
`DrainsWhenQuiet` fails.

Nor do the runs use `refresh_interval` equal to the refresh duration, the least that
`validate` accepts: prerequisites take time too, so each refresh ends when the next is
due, and a request that meets a refresh is served only when one of them is not. With
`RefreshInterval` 4 instead of 8 in `hbm2_refresh.cfg`, `DrainsWhenQuiet` fails.

Brc (`address_mapper.cpp:25-34`) leaves address bit 10 out, as its comment says, so two
addresses that differ there share a column; `LocationsAreDistinct` is stated up to that
bit, and the linear layout up to the device's capacity, after which it starts again.
Brc starts again too: row, bank and column fields end below bit 30, and an address is
read back modulo `BrcReach`. TLC cannot tell on a 17-bit word; the proof found it.

The same diversion to waiting data (`hbm_controller.cpp:266-298`) may serve a read
while writes are drained; no document promises otherwise. `TimingIsLegal` is about
the constraint tables: the precharge inside RDA and WRA appears in no table and so
delays nothing, which `docs/H6_REFERENCE_VALIDATION.md` puts outside its baseline.

**Bounds.** `MaxGap` bounds the time between the last thing that happened and a
submission; longer gaps repeat shorter ones as soon as every constraint has lapsed,
except for the number of refresh intervals an idle channel falls behind, which
`MaxIdle` bounds: 10 is more than one interval of 8, so catching up by one and by two
refreshes both occur. `IdleSteps` bounds the loop of `apply_idle_refresh`: no bank
takes more than a PRE, an RFM and a REF in it. `LongestDelay` (20) exceeds every delay
between two events of these instances; a longer one would be reported as a violation
of `KeepsProtocol`. In `trace_replay` `MaxIdle` is 26, the last arrival of a trace, and
more than two intervals. `MaxWord` (17 bits) leaves room for every field of the HBM2
layout and lets products of sizes and rates overflow. `MaxTime`, `MaxEvents` bound the event queue's; `MaxOutstanding`
and `MaxOverdue` the channel protocol's state.

**Fairness.** `HbmSystem` assumes weak fairness of running the event at the head of the
agenda: `run`, `run_until` and the replay loop dispatch until nothing is left. Only
events change `turn`, so `WF_turn(TakeTurn)` speaks of no submission, and clients
are never assumed to submit, or to stop: `DrainsWhenQuiet` starts when they do
(`exhausted`). `EventQueue` assumes it of the loops' own steps (`FairSpec`), not of
clients; that callbacks stop scheduling is the bound `MaxEvents`. `SystemLifetime`
assumes it of the same steps and of a destructor that has begun. `Expansion` is
sequential code, fair in all steps but a client's next submission. So is `TraceReplay`,
whose every step changes `beat`: `WF_beat(Beat)` says that `main` goes on until it
returns, and checking for deadlock shows that it always can.

## 4. What is proved

TLAPS checks these for every value of the constants that satisfies the modules'
assumptions.

* `EventQueueProofs`: `TypeCorrect`, `MapsAlwaysAgree`, `TimeNeverPassesAnEvent`,
  `EventsRunInOrder`, `QueueKeepsContract`. The invariant adds to the four properties that sequence
  numbers and tokens in use are below the counters: a new key is then above every key
  of its time, and its token hits no other. Of run order it
  says that whatever is pending follows `last`, which a dispatch preserves because it
  takes the first key, and `ScheduleAt` because `when >= now`. `QueueKeepsContract`
  is the refinement of `SimScheduler`: the agenda is the map read in key order, so the
  place of an event is the number of keys up to its own (`Rank`). A finite set of
  keys in a total order is in bijection with its ranks (`OrderTheory`); putting a key
  in shifts the ranks above it by one (`RankAfterPut`), which is what `InsertAt` does
  to a sequence, and erasing it is the same read backwards.
* `ChannelProtocolProofs`: `TypeCorrect`, `WorkIsAlwaysWoken`, `RefreshIsAlwaysArmed`.
  The invariant adds that a claim, too, has its event (`refresh_due_at` is in
  `refreshes`) and that without refresh nothing is claimed. The two lemmas about
  `RequestWake` and `ArmRefresh` carry the argument: after either, a
  mark has its event, whatever the mark was before. TLC shows with `KeepsProtocol`
  that the channels of `HbmSystem` are instances of this protocol in all runs that
  list it; that step is checked and not proved.

* `ExpansionProofs`: `TypeCorrect`, `BytesAreAlwaysTiled`, `AccessesStayInOneRow`,
  `AccessesAreBounded`, `TransferTimesAreExact`, `LocationsAreAlwaysDistinct`, for all organizations, granularities,
  ranges and word widths. The invariant (`Invariance`) says of a group under
  construction that it ends where the scan stands, that all its bytes lie in one row
  at columns without a gap, and that the last burst begins at `previous`; of finished
  accesses the same. What
  carries it is `LineIsOneColumn`: the bytes of a burst that does not leave its
  interleave line have one location, by the uniqueness of quotients (`DivUnique`);
  `MapNeverThrows` bounds the digits, so that only a layout that does not fit can
  fault. Transfer times follow from the bounds of the ceiling (`RoundUp`). Locations
  are distinct because both layouts can be undone: the digits of a mixed-radix number
  put together again give the number modulo the product of the bases (`MixedRadix`,
  `LinearInverts`, `BrcInverts`), and a flat bank number gives back its digits
  (`BankAddressInverts`).
* `EventQueueProofs`, of `SystemLifetime`: `UsesQueue` (a behaviour of the systems and
  their destructors is a behaviour of `EventQueue`, whose theorems therefore hold of it),
  `PendingEventsAlwaysAgree`, `DestroyedSystemsStaySilent`. The invariant is the two
  properties, the types, and that whoever runs or is being destroyed is alive; tokens
  are new by the invariant of the queue, so a new event cannot take over the entry of
  an old one.

* `HbmSystemProofs`: `TypeCorrect`, `AccessesAlwaysConserved`, `CapacitiesAlwaysHold`,
  `NothingAdmissibleIsLeft`, `RfmAlwaysInTime`, `HistoryAlwaysOrdered`, for every standard, timing, geometry,
  policy, capacity, number of clients and workload, with and without records; and
  `TimingAlwaysLegal`, for every standard whose refresh of all banks takes no less than a
  precharge.
* `ReplayProofs`: `LatencyAlwaysPartitioned` and `StatsAlwaysAgree`, for every trace, and
  every system as above.

**The argument for `HbmSystem`.** Its properties look at the state between callbacks,
and one callback runs through loops that admit, issue and complete accesses and
call clients who submit again. Three things make that provable.

*Loops.* The model writes the loops of `pump_admissions`, `collect_coalesced`,
`apply_idle_refresh` and of completion as `FoldLeft`. `LoopTheory` shows that a fold ends
in the last state of a run that applies its body to one element after the other; each
loop instantiates it with its body, and its invariant is carried along by
`OrderTheory!UpTo`. Where the order of candidates decides
(`Choose`), `ReadyFirstIsOrder` shows that each scheduler's order is strict and total
on candidates with distinct sequence numbers, so there is one first.

*The inductive invariant* `IInv` is the conjunction of `Body`, `Awaited`, `Marked`,
`Armed` and `Settled`.
`Body` says that the state is well formed (types, and the times of each controller,
see below), that queues and parents fit, that `pending` names exactly the parents with accesses left to
admit, and that for each parent `remaining`, and for each channel `outstanding`, counts
what is in queues and in completion events. `Awaited` is why a completion that brings
`remaining` to zero may not end a parent that still waits for slots. `Marked` is why an
event found while a mark is set is the event of that mark; `Armed`, that an occupied
channel's next refresh is claimed and lies in the future, is what keeps
`apply_idle_refresh` off occupied channels; `Settled`, that no channel can take the
next access of a pending parent, is `NoAdmissibleAccessLeft`, and why one pump per
freed slot is enough.

*What is on its way.* In the middle of a callback the counts do not agree:
`drive` has taken an access from its queue and its completion event is not yet
scheduled. `Body` therefore takes an account (`Limbo`) of what each parent and channel
is owed. Every member function is a lemma from one account to another
(`HbmControllerProofs` for those of the controller), and a callback
is their composition, from the empty account to the empty account.

*The times of a controller* (`Timely`). `apply_idle_refresh` issues commands on a cursor
that starts when the refresh fell due, in the past, or when the channel is free again,
in the future; `drive` issues them at the present. That the history still is in time
order (`TimeOrdered`) takes three more facts. A command bus is held beyond every command
it carried (`BusesHeld`), so a maintenance command, ready no sooner than its bus, comes
after all row commands; data commands are in the past and before a refresh that is due
(`DataIsPast`), so it comes after those as well. Between calls, whatever was recorded
ahead of the clock ends no later than `busy_until` (`Ended`), until which `drive` does
nothing. The last fact holds because the idle loop is done within `IdleSteps`: what there
is to do (`Todo`: open banks, and flags of RFM and of refresh) shrinks with each step,
and the step after which no refresh is pending is the final command of a maintenance,
which sets `busy_until`.

*The legality of commands* (`Lawful`). A command is issued no sooner than `earliest_command`
allows, which for a rule that looks `n` commands back adds the delay to the `n`-th entry
from the end of one list. `IssueObeys` carries that over to every earlier entry, which
needs `TimeOrdered`; the list holds what reaches the bank (`SeenByEngine`), with one
exception: a precharge of all banks is entered for bank 0 alone and so does not delay the
others. `Spent` says why that does no harm under a standard. Until the time of a
precharge of all banks plus tRFC has passed on the row bus, all banks are closed, and
either the refresh it was issued for is still pending or it has been issued; in the first
case nothing is activated, and in the second no activation is legal before the refresh,
and with it the precharge, is over. That a refresh
for a single bank never meets such a precharge takes `ByPolicy`: pending flags are only
those of the configured policy. `Rebase` keeps what is left of the history legal
(`LegalThinned`), and forgets a refresh only when it has ended on the row bus.

The two hypotheses of `TimingAlwaysLegal` are needed. Custom devices break constraints
(runs `custom_*`). `RefreshDominates` (tRP and tPPD no longer than tRFC) is not checked
by `validate`; the timings of the repository have it (14 against 260 ns,
`timing_spec.h:26,35`; 16.5 against 450 ns, `timing_spec.cpp:76,85`), and `MCHbm` assumes
it, so that TLC evaluates it for the instances. Under `hbm4`, whose table has no rule from a
precharge to a refresh of all banks, a tRP longer than tRFC lets TLC activate bank 1 after
a short refresh while the precharge of all banks still goes on.

**The argument for the replay.** What `completions_` and the counters say is only as good
as what was noted on the way there, so `ReplayInvariant` adds to `IInv` three things.
*Dated*: a queued access has the arrival of its parent, and the time of the first command
for it is not before that arrival and not in the future; an event has, for each access that
it completes, five nonnegative stages that add up to the time from that access's arrival to
the event. *Tallied*: `modeled` is `physical` plus `merged` plus the accesses in the
queues, `submitted` the completions plus the active parents, and each completion that was
recorded partitions its latency. *Replaying*: only the present line waits for capacity,
only earlier lines are active, and a line is submitted at or after its arrival, for else
the first stage could be negative. The stages enter with `drive`: all accesses that are
merged into a transfer share its bus and data times and have their own arrivals
(`TransferIsDated`). They survive `Advance`, which moves arrivals and events by as much
(`HeldAdvance`). In `CompletionCallback` one finished access after the other overwrites the
parent's stages, and the last of them is the one with the parent's latency
(`HeldCompletionCallback`).
Every member function of `HbmSystem` has a lemma that it keeps the records and adds no
parent but the one submitted (`Registers`, `Upholds`, `Persists`).

TLC checked `IInv` as an invariant of `hbm2_admission`, `hbm2_refresh`, `hbm4_rfm` and
`hbm3_per_bank`, and `ReplayInvariant` (all of it but `IInv`) of `trace_replay`, before
they were proved.

Only checked by TLC:

* liveness, which is out of the prover's reach: `RunFunctionsReturn`, `ExpansionEnds`,
  `ReplayCompletes`, `BackpressureIsHinted`, `DrainsWhenQuiet`;
* `KeepsProtocol`: `ChannelRefinement` instantiates `ChannelProtocol` once per channel,
  and the prover substitutes wrongly in an instance with a parameter;
* `NoRefreshIsLost`, which holds of these instances and not of every `RefreshInterval`
  (section 3);
* `ReplayIsClient` of `TraceReplay`: `Submit` does not let a channel go unused for longer
  than `MaxIdle`, a bound of the instances that a trace need not keep.

## 5. Not modelled

* Returns of `try_submit_now` that change nothing (arrival in the future, duplicate
  id): guards of `Submit`, and clients here do not make such calls.
* Inside `HbmSystem` an access is its location and a transaction the sequence of them;
  that this is what `next_access` makes of a byte range is the subject of `Expansion`.
* Counters and reports that no decision reads: bytes, commands, busy times, row classes,
  starvation, the tables `main` prints.
* Overflow of 64-bit times and event counters, which takes longer than any simulation.
* The cycle counts and geometry of the standards as data (the geometry is used by
  `MCExpansion`), `DeviceSpec`'s edit rules, parsing of arguments and of traces.
* `cancel_reservation`, which nothing calls.

## 6. Plan

1. *Done*: event kernel and its contract; standards, timing, schedulers, controller,
   system; channel protocol; expansion, address layouts and transfer times; lifetime of
   systems on a shared queue; records of latency; trace replay; their runs; the proofs
   of section 4.
2. More instances where they ask a new question: per-bank refresh with RFM under load,
   merging across parents under backpressure, custom devices with an open page.
