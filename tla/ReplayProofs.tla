---------------------------- MODULE ReplayProofs ----------------------------
(***************************************************************************)
(* The trace replay: the records that it keeps are those of what happened. *)
(*                                                                         *)
(* LatencyIsPartitioned is about completions that are recorded, StatsAgree *)
(* about counters.  What they rest on is what the code carries from an     *)
(* access's admission to the completion of its transaction:                *)
(*   Dated    a queued access has the arrival of its parent and, once a    *)
(*            command was issued for it, the time of the first one, both   *)
(*            in the past; an event has for each access that it completes  *)
(*            a partition of the time from that arrival to its own;        *)
(*   Tallied  every counted occurrence is one of an access or transaction  *)
(*            that is in the system, or has left it.                       *)
(* Both are kept by every member function, under the invariant of          *)
(* HbmSystemProofs.  Where main is in the trace (Replaying) is why no line *)
(* is submitted before its arrival.                                        *)
(***************************************************************************)
EXTENDS TraceReplay, HbmSystemProofs

\* The replay keeps the records.
LEMMA RecordsAreKept == KeepRecords
BY ReplayAssumption

-----------------------------------------------------------------------------
(* The records.                                                            *)

Past == {t \in Int : t <= 0}

\* The arrival and the first command of an access lie in the past, in this order.
Noted(a) == /\ a.arrival \in Past
            /\ a.first_at # None => a.first_at \in Past /\ a.arrival <= a.first_at

\* The stages partition a time t.
Breakdown(stages, t) ==
    /\ stages \in Stage /\ Total(stages) = t
    /\ stages.queue_wait >= 0 /\ stages.command_phase >= 0 /\ stages.data_ready >= 0
    /\ stages.data_bus_wait >= 0 /\ stages.data_service >= 0

\* The accesses of a queue have the arrivals of their parents.
QueueDated(table, q) == \A i \in 1 .. Len(q) : Noted(q[i]) /\ q[i].arrival = table[q[i].id].arrival

\* Accesses that complete at a time with these stages.
IdsDated(table, ids, stages, at) ==
    /\ Len(stages) = Len(ids)
    /\ \A k \in 1 .. Len(ids) : Breakdown(stages[k], at - table[ids[k]].arrival)

Dated(s) ==
    /\ \A id \in DOMAIN s.parents : s.parents[id].arrival \in Past
    /\ \A ch \in Channels : QueueDated(s.parents, s.ctl[ch].queue)
    /\ \A i \in 1 .. Len(s.agenda) :
           IdsDated(s.parents, s.agenda[i].ids, s.agenda[i].stages, s.agenda[i].at)

Completion == [id : Ids, latency : Int, stages : Stage]
Tally == [submitted : Int, modeled : Int, physical : Int, merged : Int, completions : Seq(Completion)]

Tallied(s) ==
    /\ s.stats \in Tally
    /\ \A i \in 1 .. Len(s.stats.completions) :
           Breakdown(s.stats.completions[i].stages, s.stats.completions[i].latency)
    /\ s.stats.modeled = s.stats.physical + s.stats.merged + Cardinality(Queued(s))
    /\ s.stats.submitted = Len(s.stats.completions) + Cardinality(DOMAIN s.parents)

Held(s) == Dated(s) /\ Tallied(s)

\* A transfer of an access that starts when its data and the bus are ready partitions
\* the time from its arrival.
LEMMA StagesPartition ==
  ASSUME NEW a \in QueuedAccess, Noted(a), NEW latency \in Nat, NEW start \in Int, start >= latency
  PROVE  Breakdown(Stages(a, 0, latency, start), start + BurstTime - a.arrival)
<1> DEFINE first == FirstAt(a, 0)
           stages == Stages(a, 0, latency, start)
<1>1. first \in Past /\ a.arrival \in Past /\ a.arrival <= first
  <2>1. CASE a.first_at = None
    <3>1. first = 0
      BY <2>1, RecordsAreKept DEF FirstAt, Recorded
    <3> QED BY <3>1 DEF Noted, Past
  <2>2. CASE a.first_at # None
    BY <2>2 DEF FirstAt, Noted
  <2> QED BY <2>1, <2>2
<1>2. BurstTime \in Nat
  BY ControllerAssumption
<1>3. /\ stages.queue_wait = first - a.arrival /\ stages.command_phase = 0 - first
      /\ stages.data_ready = latency /\ stages.data_bus_wait = start - (0 + latency)
      /\ stages.data_service = BurstTime
  BY DEF Stages
<1>4. stages \in Stage
  BY RecordsAreKept, StagesFacts
<1> HIDE DEF first, stages
<1>5. /\ stages.queue_wait >= 0 /\ stages.command_phase >= 0 /\ stages.data_ready >= 0
      /\ stages.data_bus_wait >= 0 /\ stages.data_service >= 0
  BY <1>1, <1>2, <1>3 DEF Past
<1>6. Total(stages) = start + BurstTime - a.arrival
  BY <1>1, <1>2, <1>3 DEF Past, Total
<1>7. Breakdown(stages, start + BurstTime - a.arrival)
  BY <1>4, <1>5, <1>6 DEF Breakdown
<1> QED BY <1>7 DEF stages

-----------------------------------------------------------------------------
(* Counting the queued accesses.                                           *)

\* When one channel's queue changes, as many accesses are queued more or less as it
\* gained or lost.
LEMMA QueuedChange ==
  ASSUME NEW s, s.ctl \in [Channels -> TimedController], NEW t, t.ctl \in [Channels -> TimedController],
         NEW ch \in Channels, \A k \in Channels \ {ch} : Len(t.ctl[k].queue) = Len(s.ctl[k].queue)
  PROVE  /\ Cardinality(Queued(s)) \in Nat /\ Cardinality(Queued(t)) \in Nat
         /\ Cardinality(Queued(t)) + Len(s.ctl[ch].queue) = Cardinality(Queued(s)) + Len(t.ctl[ch].queue)
<1> DEFINE X == Queued(s)
           Y == Queued(t)
           n == Len(s.ctl[ch].queue)
           m == Len(t.ctl[ch].queue)
<1>1. /\ X \in SUBSET (Channels \X Nat) /\ Y \in SUBSET (Channels \X Nat)
      /\ IsFiniteSet(X) /\ IsFiniteSet(Y) /\ n \in Nat /\ m \in Nat
  BY QueuedFacts, QueueOnCount
<1>2. ASSUME NEW k \in Channels \ {ch}, NEW i \in Nat PROVE <<k, i>> \in X <=> <<k, i>> \in Y
  BY QueuedFacts
<1>3. ASSUME NEW i \in Nat PROVE (<<ch, i>> \in X <=> i \in 1 .. n) /\ (<<ch, i>> \in Y <=> i \in 1 .. m)
  BY QueuedFacts
<1> HIDE DEF X, Y, n, m
<1>4. /\ 1 .. n \in SUBSET Nat /\ 1 .. m \in SUBSET Nat /\ IsFiniteSet(1 .. n) /\ IsFiniteSet(1 .. m)
      /\ Cardinality(1 .. n) = n /\ Cardinality(1 .. m) = m
  BY <1>1, FS_Interval
<1>5. Cardinality(Y) + Cardinality(1 .. n) = Cardinality(X) + Cardinality(1 .. m)
  BY <1>1, <1>2, <1>3, <1>4, SlicedPairs
<1>6. Cardinality(X) \in Nat /\ Cardinality(Y) \in Nat
  BY <1>1, FS_CardinalityType
<1> QED BY <1>4, <1>5, <1>6 DEF X, Y, n, m

\* Queues that are as long have as many accesses.
LEMMA SameQueued ==
  ASSUME NEW s, s.ctl \in [Channels -> TimedController], NEW t, t.ctl \in [Channels -> TimedController],
         \A k \in Channels : Len(t.ctl[k].queue) = Len(s.ctl[k].queue)
  PROVE  Queued(t) = Queued(s) /\ Cardinality(Queued(s)) \in Nat
<1>1. Queued(s) \in SUBSET (Channels \X Nat) /\ Queued(t) \in SUBSET (Channels \X Nat) /\ IsFiniteSet(Queued(s))
  BY QueuedFacts
<1>2. ASSUME NEW k \in Channels, NEW i \in Nat PROVE <<k, i>> \in Queued(s) <=> <<k, i>> \in Queued(t)
  BY QueuedFacts
<1>3. \A x \in Channels \X Nat : x \in Queued(s) <=> x \in Queued(t)
  <2> SUFFICES ASSUME NEW x \in Channels \X Nat PROVE x \in Queued(s) <=> x \in Queued(t)
    OBVIOUS
  <2>1. PICK k \in Channels, i \in Nat : x = <<k, i>>
    OBVIOUS
  <2> QED BY <1>2, <2>1
<1> QED BY <1>1, <1>3, FS_CardinalityType

-----------------------------------------------------------------------------
(* Scheduling and waking.                                                  *)

\* What the records need to know of the types.
Typed(s) == /\ IsState(s) /\ s.ctl \in [Channels -> TimedController]
            /\ s.agenda \in Seq(Event) /\ Sorted(s.agenda)

\* t comes after s in an action that moves no access; its records hold.
Upholds(s, t) == Typed(t) /\ Held(t) /\ t.parents = s.parents /\ t.waiting = s.waiting

\* The records depend on the accesses alone.
LEMMA HeldSame ==
  ASSUME NEW s, Typed(s), Held(s), NEW t, t.ctl \in [Channels -> TimedController],
         t.parents = s.parents, t.stats = s.stats, t.agenda = s.agenda,
         \A k \in Channels : t.ctl[k].queue = s.ctl[k].queue
  PROVE  Held(t)
<1>1. Dated(t)
  BY DEF Held, Dated
<1>2. Queued(t) = Queued(s)
  BY SameQueued DEF Typed
<1>3. Tallied(t)
  BY <1>2 DEF Held, Tallied
<1> QED BY <1>1, <1>3 DEF Held

\* A controller with the same accesses takes the place of channel ch's.
LEMMA HeldRemarked ==
  ASSUME NEW s, Typed(s), Held(s), NEW ch \in Channels, NEW d \in TimedController, d.queue = s.ctl[ch].queue
  PROVE  LET t == [s EXCEPT !.ctl[ch] = d]
         IN  Upholds(s, t) /\ t.agenda = s.agenda /\ t.ctl[ch] = d
<1> DEFINE t == [s EXCEPT !.ctl[ch] = d]
<1>1. /\ t.ctl = [s.ctl EXCEPT ![ch] = d] /\ t.parents = s.parents /\ t.stats = s.stats
      /\ t.agenda = s.agenda /\ t.waiting = s.waiting /\ IsState(t)
  BY DEF IsState, Typed
<1> HIDE DEF t
<1>2. t.ctl \in [Channels -> TimedController] /\ \A k \in Channels : t.ctl[k].queue = s.ctl[k].queue
  BY <1>1 DEF Typed
<1>3. Held(t) /\ Typed(t)
  BY <1>1, <1>2, HeldSame DEF Typed
<1>4. t.ctl[ch] = d
  BY <1>1 DEF Typed
<1> QED BY <1>1, <1>3, <1>4 DEF Upholds, t

\* An event is scheduled with the stages of the accesses that it completes.
LEMMA HeldScheduled ==
  ASSUME NEW s, Typed(s), Held(s), NEW when \in Nat, NEW kind \in Kind, NEW ch \in Channels,
         NEW served, Carries(s, kind, served), IdsDated(s.parents, served.ids, served.stages, when)
  PROVE  Upholds(s, schedule_event(s, when, kind, ch, served))
<1> DEFINE e == [at |-> when, kind |-> kind, ch |-> ch, ids |-> served.ids, stages |-> served.stages]
           p == Cardinality({i \in DOMAIN s.agenda : s.agenda[i].at <= when}) + 1
           b == InsertAt(s.agenda, p, e)
           t == schedule_event(s, when, kind, ch, served)
<1>1. e \in Event /\ e.at = when /\ e.ids = served.ids /\ e.stages = served.stages
  BY DEF Event, EventRecord, Carries
<1>2. s.agenda \in Seq(Event) /\ Sorted(s.agenda)
  BY DEF Typed
<1>3. t = [s EXCEPT !.agenda = b]
  BY DEF schedule_event
<1>4. p = Cardinality({i \in DOMAIN s.agenda : s.agenda[i].at <= e.at}) + 1
  BY <1>1
<1> HIDE DEF e, p
<1>5. b \in Seq(Event) /\ Inserted(s.agenda, p, e, b) /\ Sorted(b)
  BY <1>1, <1>2, <1>4, SortedInsertion
<1> HIDE DEF b, t
<1>6. /\ t.ctl = s.ctl /\ t.parents = s.parents /\ t.stats = s.stats
      /\ t.agenda = b /\ t.waiting = s.waiting /\ IsState(t)
  BY <1>3 DEF IsState, Typed
<1>7. ASSUME NEW i \in 1 .. Len(b) PROVE IdsDated(s.parents, b[i].ids, b[i].stages, b[i].at)
  <2>1. i \in Nat /\ p \in Nat /\ (i < p \/ i = p \/ i > p)
    BY <1>2, <1>5, InsertedEntry
  <2>2. CASE i < p
    <3>1. i \in 1 .. Len(s.agenda) /\ b[i] = s.agenda[i]
      BY <1>2, <1>5, <1>7, <2>1, <2>2, InsertedEntry
    <3> QED BY <3>1 DEF Held, Dated
  <2>3. CASE i > p
    <3>1. i - 1 \in 1 .. Len(s.agenda) /\ b[i] = s.agenda[i - 1]
      BY <1>2, <1>5, <1>7, <2>1, <2>3, InsertedEntry
    <3> QED BY <3>1 DEF Held, Dated
  <2>4. CASE i = p
    <3>1. b[i] = e
      BY <1>2, <1>5, <2>1, <2>4, InsertedEntry
    <3> QED BY <1>1, <3>1
  <2> QED BY <2>1, <2>2, <2>3, <2>4
<1>8. Dated(t)
  BY <1>6, <1>7 DEF Held, Dated
<1>9. Tallied(t)
  BY <1>6 DEF Held, Tallied, Queued
<1> QED BY <1>5, <1>6, <1>8, <1>9 DEF Held, Typed, Upholds, t

\* An event without accesses completes none.
LEMMA HeldPlain ==
  ASSUME NEW s, Typed(s), Held(s), NEW when \in Nat, NEW kind \in Kind, NEW ch \in Channels
  PROVE  Upholds(s, schedule_event(s, when, kind, ch, NoAccess))
<1>1. Carries(s, kind, NoAccess)
  BY NoAccessCarried
<1>2. NoAccess.ids = <<>> /\ NoAccess.stages = <<>>
  BY DEF NoAccess
<1>3. IdsDated(s.parents, NoAccess.ids, NoAccess.stages, when)
  BY <1>2 DEF IdsDated
<1> QED BY <1>1, <1>3, HeldScheduled

\* schedule_controller_wake leaves the records as they are.
LEMMA HeldWake ==
  ASSUME NEW s, Typed(s), Held(s), NEW ch \in Channels, NEW when \in Int
  PROVE  Upholds(s, schedule_controller_wake(s, ch, when))
<1> DEFINE t == schedule_controller_wake(s, ch, when)
           at == Max({when, 0})
           d == [s.ctl[ch] EXCEPT !.wakeup_at = at]
           u == [s EXCEPT !.ctl[ch] = d]
<1>1. at \in Nat
  <2>1. 0 \in Int
    OBVIOUS
  <2>2. Max({when, 0}) \in Int /\ Max({when, 0}) >= 0
    BY <2>1, MaxOfTwo
  <2> HIDE DEF at
  <2>3. at \in Int /\ at >= 0
    BY <2>2 DEF at
  <2> QED BY <2>3
<1>2. t = IF ~wakes_sooner(s.ctl[ch], at) THEN s ELSE schedule_event(u, at, "wake", ch, NoAccess)
  BY DEF schedule_controller_wake
<1>3. s.ctl[ch] \in TimedController
  BY DEF Typed
<1> HIDE DEF at, t
<1>4. d \in TimedController /\ d.queue = s.ctl[ch].queue
  <2>1. at \in Optional(Int) /\ 0 \in Nat /\ None \in Optional(Int)
    BY <1>1 DEF Optional
  <2>2. d \in TimedController
    BY <1>3, <2>1, MarksAreTimed
  <2> QED BY <1>3, <2>2 DEF TimedController, Controller
<1> HIDE DEF d
<1>5. Upholds(s, u)
  BY <1>4, HeldRemarked
<1> HIDE DEF u
<1>6. CASE ~wakes_sooner(s.ctl[ch], at)
  BY <1>2, <1>6 DEF t, Upholds
<1>7. CASE wakes_sooner(s.ctl[ch], at)
  <2>1. "wake" \in Kind
    BY DEF Kind
  <2>2. Upholds(u, schedule_event(u, at, "wake", ch, NoAccess))
    BY <1>1, <1>5, <2>1, HeldPlain DEF Upholds
  <2> QED BY <1>2, <1>5, <1>7, <2>2 DEF t, Upholds
<1> QED BY <1>6, <1>7

\* schedule_refresh_due does, too.
LEMMA HeldRefresh ==
  ASSUME NEW s, Typed(s), Held(s), NEW ch \in Channels, Claimable(s.ctl[ch])
  PROVE  Upholds(s, schedule_refresh_due(s, ch))
<1> DEFINE t == schedule_refresh_due(s, ch)
           due == s.ctl[ch].next_refresh_due
           d == [s.ctl[ch] EXCEPT !.refresh_due_at = due]
           u == [s EXCEPT !.ctl[ch] = d]
<1>2. t = IF ~refresh_unclaimed(s.ctl[ch]) THEN s ELSE schedule_event(u, due, "refresh", ch, NoAccess)
  BY DEF schedule_refresh_due
<1>3. s.ctl[ch] \in TimedController
  BY DEF Typed
<1> HIDE DEF t
<1>6. CASE ~refresh_unclaimed(s.ctl[ch])
  BY <1>2, <1>6 DEF t, Upholds
<1>7. CASE refresh_unclaimed(s.ctl[ch])
  <2>0. due \in Nat
    BY <1>7 DEF refresh_unclaimed, Claimable
  <2> HIDE DEF due
  <2>1. d \in TimedController /\ d.queue = s.ctl[ch].queue
    <3>1. due \in Optional(Int) /\ 0 \in Nat /\ None \in Optional(Int)
      BY <2>0 DEF Optional
    <3>2. d \in TimedController
      BY <1>3, <3>1, MarksAreTimed
    <3> QED BY <1>3, <3>2 DEF TimedController, Controller
  <2> HIDE DEF d
  <2>2. Upholds(s, u)
    BY <2>1, HeldRemarked
  <2> HIDE DEF u
  <2>3. "refresh" \in Kind
    BY DEF Kind
  <2>4. Upholds(u, schedule_event(u, due, "refresh", ch, NoAccess))
    BY <2>0, <2>2, <2>3, HeldPlain DEF Upholds
  <2> QED BY <1>2, <1>7, <2>2, <2>4 DEF t, Upholds
<1> QED BY <1>6, <1>7

\* So does waking a channel that got an access.
LEMMA HeldWakeChannel ==
  ASSUME NEW s, Typed(s), Held(s), NEW limbo, Body(s, limbo), NEW ch \in Channels, Rearmed(s.ctl[ch])
  PROVE  Upholds(s, WakeChannel(s, ch))
<1> DEFINE u == schedule_refresh_due(s, ch)
<1>1. Claimable(s.ctl[ch])
  <2>1. NoDue(s.ctl[ch])
    BY BodyTypes
  <2> QED BY <2>1 DEF Claimable, Rearmed, NoDue
<1>2. Upholds(s, u)
  BY <1>1, HeldRefresh
<1> HIDE DEF u
<1>3. 0 \in Int
  OBVIOUS
<1>4. Upholds(u, schedule_controller_wake(u, ch, 0))
  BY <1>2, <1>3, HeldWake DEF Upholds
<1> QED BY <1>2, <1>4 DEF WakeChannel, Upholds, u

\* Body says so of the types.
LEMMA BodyIsTyped ==
  ASSUME NEW s, NEW limbo, Body(s, limbo)
  PROVE  Typed(s)
BY BodyTypes DEF Typed

\* All of them.
LEMMA HeldWakeLoop ==
  ASSUME NEW s, NEW limbo, Body(s, limbo), Marked(s), Held(s), NEW touched \in SUBSET Channels,
         \A ch \in touched : Rearmed(s.ctl[ch])
  PROVE  Upholds(s, FoldLeft(WakeChannel, s, Ascending(touched)))
<1> DEFINE seq == Ascending(touched)
           n == Len(seq)
<1>1. seq \in Seq(touched)
  <2>1. IsFiniteSet(Channels) /\ Channels \subseteq Nat
    BY SystemAssumption
  <2>2. IsFiniteSet(touched)
    BY <2>1, FS_Subset
  <2>3. touched \in SUBSET Int
    BY <2>1
  <2> QED BY <2>2, <2>3, AscendingFacts
<1>2. n \in Nat /\ \A i \in 1 .. n : seq[i] \in touched
  BY <1>1
<1>3. FoldLeft(WakeChannel, s, seq) = Woken!Looped(s, seq)
  BY DEF FoldLeft, MapThenFoldSet, Max, Woken!Looped
<1> HIDE DEF seq
<1>4. PICK run : /\ run[0] = s
                 /\ \A k \in 1 .. n : run[k] = WakeChannel(run[k - 1], seq[k])
                 /\ run[n] = Woken!Looped(s, seq)
  BY <1>1, Woken!LoopRuns
<1> DEFINE S == {k \in 0 .. n : Body(run[k], limbo) /\ Marked(run[k]) /\ SameWorkload(s, run[k]) /\ Upholds(s, run[k])}
<1>5. 0 \in S
  <2>1. Typed(s)
    BY BodyIsTyped
  <2> QED BY <1>2, <1>4, <2>1 DEF SameWorkload, Upholds
<1>6. ASSUME NEW k \in 0 .. n - 1, k \in S PROVE k + 1 \in S
  <2>1. k + 1 \in 1 .. n /\ (k + 1) - 1 = k /\ k + 1 \in 0 .. n
    BY <1>2
  <2> DEFINE u == run[k]
             v == run[k + 1]
             ch == seq[k + 1]
  <2>2. v = WakeChannel(u, ch) /\ ch \in Channels /\ ch \in touched
    BY <1>2, <1>4, <2>1
  <2>3. Body(u, limbo) /\ Marked(u) /\ SameWorkload(s, u) /\ Upholds(s, u)
    BY <1>6
  <2> HIDE DEF u, v, ch
  <2>4. Rearmed(u.ctl[ch])
    BY <2>2, <2>3 DEF Rearmed, SameWorkload
  <2>5. Body(v, limbo) /\ Marked(v) /\ SameWorkload(u, v)
    BY <2>2, <2>3, <2>4, WakeChannelFacts
  <2>6. Upholds(u, v)
    BY <2>2, <2>3, <2>4, HeldWakeChannel DEF Upholds
  <2>7. SameWorkload(s, v) /\ Upholds(s, v)
    BY <2>3, <2>5, <2>6 DEF SameWorkload, Upholds
  <2> QED BY <2>1, <2>5, <2>7 DEF v
<1>7. n \in S
  <2> HIDE DEF S, n
  <2>1. \A k \in 0 .. n : k \in S
    BY <1>2, <1>5, <1>6, UpTo
  <2> QED BY <1>2, <2>1
<1> QED BY <1>3, <1>4, <1>7 DEF seq

-----------------------------------------------------------------------------
(* Admission.                                                              *)

\* The arrivals of the parents that are left.
SameArrivals(s, t) == /\ DOMAIN t.parents \in SUBSET DOMAIN s.parents
                      /\ \A id \in DOMAIN t.parents : t.parents[id].arrival = s.parents[id].arrival

\* Counting an occurrence changes its counter.
LEMMA CountedStats ==
  ASSUME NEW s, IsState(s), s.stats \in Tally, NEW counter \in {"submitted", "modeled", "physical", "merged"}, NEW n \in Int
  PROVE  LET t == Counted(s, counter, n)
         IN  /\ IsState(t) /\ t.ctl = s.ctl /\ t.parents = s.parents /\ t.pending = s.pending
             /\ t.agenda = s.agenda /\ t.waiting = s.waiting
             /\ t.stats \in Tally /\ t.stats = [s.stats EXCEPT ![counter] = s.stats[counter] + n]
<1> DEFINE t == [s EXCEPT !.stats[counter] = @ + n]
<1>1. Counted(s, counter, n) = t
  BY RecordsAreKept DEF Counted
<1>2. /\ IsState(t) /\ t.ctl = s.ctl /\ t.parents = s.parents /\ t.pending = s.pending
      /\ t.agenda = s.agenda /\ t.waiting = s.waiting
      /\ t.stats = [s.stats EXCEPT ![counter] = s.stats[counter] + n]
  BY DEF IsState
<1> HIDE DEF t
<1>3. [s.stats EXCEPT ![counter] = s.stats[counter] + n] \in Tally
  BY DEF Tally
<1> QED BY <1>1, <1>2, <1>3

\* An admitted access has its parent's arrival, and no command yet.
LEMMA AccessIsNoted ==
  ASSUME NEW id, NEW txn, NEW arrival \in Past, NEW at
  PROVE  LET a == Access(id, txn, arrival, at)
         IN  Noted(a) /\ a.arrival = arrival /\ a.id = id
BY DEF Access, Noted

\* Nobody else has accesses that are queued or in flight.
OnlyOf(s, D) ==
    /\ \A ch \in Channels : \A i \in 1 .. Len(s.ctl[ch].queue) : s.ctl[ch].queue[i].id \in D
    /\ \A i \in 1 .. Len(s.agenda) : \A k \in 1 .. Len(s.agenda[i].ids) : s.agenda[i].ids[k] \in D

\* Parents whose arrivals stay date the same accesses.
LEMMA DatedAgain ==
  ASSUME NEW s, Dated(s), NEW t, NEW D, OnlyOf(t, D), t.agenda = s.agenda,
         \A id \in D : t.parents[id].arrival = s.parents[id].arrival,
         \A id \in DOMAIN t.parents : t.parents[id].arrival \in Past,
         \A k \in Channels : QueueDated(s.parents, t.ctl[k].queue)
  PROVE  Dated(t)
<1>1. ASSUME NEW k \in Channels PROVE QueueDated(t.parents, t.ctl[k].queue)
  <2> DEFINE q == t.ctl[k].queue
  <2>1. QueueDated(s.parents, q) /\ \A i \in 1 .. Len(q) : q[i].id \in D
    BY DEF OnlyOf
  <2> HIDE DEF q
  <2>2. \A i \in 1 .. Len(q) : t.parents[q[i].id].arrival = s.parents[q[i].id].arrival
    BY <2>1
  <2>3. QueueDated(t.parents, q)
    BY <2>1, <2>2 DEF QueueDated
  <2> QED BY <2>3 DEF q
<1>2. ASSUME NEW i \in 1 .. Len(t.agenda)
      PROVE  IdsDated(t.parents, t.agenda[i].ids, t.agenda[i].stages, t.agenda[i].at)
  <2> DEFINE e == t.agenda[i]
  <2>1. IdsDated(s.parents, e.ids, e.stages, e.at) /\ \A k \in 1 .. Len(e.ids) : e.ids[k] \in D
    BY DEF Dated, OnlyOf
  <2> HIDE DEF e
  <2>2. \A k \in 1 .. Len(e.ids) : t.parents[e.ids[k]].arrival = s.parents[e.ids[k]].arrival
    BY <2>1
  <2>3. IdsDated(t.parents, e.ids, e.stages, e.at)
    BY <2>1, <2>2 DEF IdsDated
  <2> QED BY <2>3 DEF e
<1> QED BY <1>1, <1>2 DEF Dated

\* Admission keeps the records and the arrivals.
Registers(s, t, limbo) == Admits(s, t, limbo) /\ Held(t) /\ SameArrivals(s, t)

\* One access is admitted.
LEMMA HeldAdmit ==
  ASSUME NEW s, NEW limbo, Body(s, limbo), Awaited(s), limbo \in Owing, Held(s), NEW id \in DOMAIN s.parents,
         Unadmitted(s.parents[id]), can_reserve(s.ctl[NextAccess(s.parents[id]).ch], s.parents[id].txn.op)
  PROVE  Registers(s, Admit(s, id, s.parents[id], NextAccess(s.parents[id])), limbo)
<1> DEFINE p  == s.parents[id]
           at == NextAccess(p)
           ch == at.ch
           c  == s.ctl[ch]
           a  == Access(id, p.txn, p.arrival, at)
           d  == admit_reserved(c, a)
           w  == [s EXCEPT !.parents[id].admitted = @ + 1, !.parents[id].remaining = @ + 1,
                           !.ctl[ch] = admit_reserved(@, a)]
           t  == Counted(w, "modeled", 1)
<1>0. Admit(s, id, s.parents[id], NextAccess(s.parents[id])) = t
  BY DEF Admit
<1>1. Admits(s, t, limbo)
  <2> HIDE DEF t
  <2> QED BY <1>0, AdmitFacts
<1>2. /\ IsState(s) /\ s.ctl \in [Channels -> TimedController] /\ id \in Ids /\ IsParent(p)
      /\ s.parents = [x \in DOMAIN s.parents |-> s.parents[x]]
  BY BodyTypes DEF Body, WellFormed
<1>3. ch \in Channels
  BY <1>2, NextAccessFacts
<1>4. a \in QueuedAccess
  BY <1>2, AccessFacts
<1>5. Noted(a) /\ a.arrival = p.arrival /\ a.id = id
  <2>1. p.arrival \in Past
    BY DEF Held, Dated
  <2> HIDE DEF p, at
  <2> QED BY <2>1, AccessIsNoted
<1>6. c \in TimedController /\ c \in Controller /\ c.queue \in Seq(QueuedAccess)
  <2>1. c \in TimedController
    BY <1>2, <1>3
  <2> HIDE DEF c
  <2> QED BY <2>1, TimedIsController DEF Controller
<1>7. d.queue = Append(c.queue, a)
  <2> HIDE DEF c, a
  <2> QED BY <1>4, <1>6, AdmitReservedFacts
<1> HIDE DEF a
<1>8. /\ Len(d.queue) = Len(c.queue) + 1 /\ Len(c.queue) \in Nat /\ d.queue[Len(c.queue) + 1] = a
      /\ \A i \in 1 .. Len(c.queue) : d.queue[i] = c.queue[i]
  <2> HIDE DEF c, d
  <2> QED BY <1>4, <1>6, <1>7, AppendedFacts
<1>9. w.ctl = [s.ctl EXCEPT ![ch] = d] /\ w.agenda = s.agenda /\ w.stats = s.stats
  BY <1>2, <1>3 DEF IsState, d
<1>10. DOMAIN w.parents = DOMAIN s.parents /\ \A x \in DOMAIN s.parents : w.parents[x].arrival = s.parents[x].arrival
  <2>1. w.parents = [s.parents EXCEPT ![id].admitted = @ + 1, ![id].remaining = @ + 1]
    BY <1>2 DEF IsState
  <2> HIDE DEF w
  <2>2. p = [txn |-> p.txn, admitted |-> p.admitted, remaining |-> p.remaining,
             arrival |-> p.arrival, stages |-> p.stages]
    BY <1>2 DEF IsParent
  <2> DEFINE q == [p EXCEPT !.admitted = @ + 1, !.remaining = @ + 1]
  <2>3. q.arrival = p.arrival
    BY <2>2
  <2>4. w.parents = [s.parents EXCEPT ![id] = q]
    BY <1>2, <2>1
  <2> HIDE DEF q
  <2> QED BY <1>2, <2>3, <2>4
<1>11. /\ t.ctl = w.ctl /\ t.parents = w.parents /\ t.agenda = w.agenda
       /\ t.stats = [w.stats EXCEPT !.modeled = w.stats.modeled + 1]
  BY RecordsAreKept DEF Counted
<1> HIDE DEF d, w, t, c, ch, at, p
<1>12. SameArrivals(s, t)
  BY <1>10, <1>11 DEF SameArrivals
<1>13. Body(t, limbo) /\ t.ctl \in [Channels -> TimedController]
  BY <1>1, BodyTypes DEF Admits
<1>14. t.ctl[ch] = d /\ c = s.ctl[ch] /\ \A k \in Channels \ {ch} : t.ctl[k] = s.ctl[k]
  BY <1>2, <1>3, <1>9, <1>11 DEF c
<1>15. QueueDated(s.parents, d.queue)
  <2>1. QueueDated(s.parents, c.queue)
    BY <1>3, <1>14 DEF Held, Dated
  <2>2. ASSUME NEW i \in 1 .. Len(d.queue) PROVE Noted(d.queue[i]) /\ d.queue[i].arrival = s.parents[d.queue[i].id].arrival
    <3>1. CASE i = Len(c.queue) + 1
      <4>1. d.queue[Len(c.queue) + 1] = a
        BY <1>8
      <4>2. d.queue[i] = a
        BY <3>1, <4>1
      <4> QED BY <1>5, <4>2 DEF p
    <3>2. CASE i # Len(c.queue) + 1
      <4>1. i \in 1 .. Len(c.queue)
        BY <1>8, <3>2
      <4>2. d.queue[i] = c.queue[i]
        BY <1>8, <4>1
      <4>3. Noted(c.queue[i]) /\ c.queue[i].arrival = s.parents[c.queue[i].id].arrival
        BY <2>1, <4>1 DEF QueueDated
      <4> QED BY <4>2, <4>3
    <3> QED BY <3>1, <3>2
  <2> QED BY <2>2 DEF QueueDated
<1>16. ASSUME NEW k \in Channels PROVE QueueDated(s.parents, t.ctl[k].queue)
  <2>1. CASE k = ch
    BY <1>14, <1>15, <2>1
  <2>2. CASE k # ch
    BY <1>14, <2>2 DEF Held, Dated
  <2> QED BY <2>1, <2>2
<1>17. Dated(t)
  <2> DEFINE D == DOMAIN t.parents
  <2>1. OnlyOf(t, D) /\ Dated(s) /\ t.agenda = s.agenda
    BY <1>9, <1>11, <1>13 DEF Body, Known, OnlyOf, Held
  <2>2. \A x \in D : t.parents[x].arrival = s.parents[x].arrival /\ t.parents[x].arrival \in Past
    BY <1>12, <2>1 DEF SameArrivals, Dated
  <2> HIDE DEF D
  <2>3. \A x \in DOMAIN t.parents : t.parents[x].arrival \in Past
    BY <2>2 DEF D
  <2> QED BY <1>16, <2>1, <2>2, <2>3, DatedAgain
<1>18. Tallied(t)
  <2> DEFINE r == s.stats
             x == t.stats
             m == Cardinality(Queued(s))
             n == Cardinality(Queued(t))
             l == Len(c.queue)
  <2>1. r \in Tally /\ Tallied(s)
    BY DEF Held, Tallied
  <2>2. x = [r EXCEPT !.modeled = r.modeled + 1]
    BY <1>9, <1>11
  <2>3. DOMAIN t.parents = DOMAIN s.parents
    BY <1>10, <1>11
  <2>4. m \in Nat /\ n \in Nat /\ n + l = m + Len(t.ctl[ch].queue)
    <3>1. \A k \in Channels \ {ch} : Len(t.ctl[k].queue) = Len(s.ctl[k].queue)
      BY <1>14
    <3>2. /\ Cardinality(Queued(s)) \in Nat /\ Cardinality(Queued(t)) \in Nat
          /\ Cardinality(Queued(t)) + Len(s.ctl[ch].queue) = Cardinality(Queued(s)) + Len(t.ctl[ch].queue)
      BY <1>2, <1>3, <1>13, <3>1, QueuedChange
    <3> QED BY <1>14, <3>2
  <2>5. l \in Nat /\ Len(t.ctl[ch].queue) = l + 1
    BY <1>8, <1>14
  <2>6. r.modeled = r.physical + r.merged + m
    BY <2>1 DEF Tallied
  <2> HIDE DEF r, x, m, n, l
  <2>7. n = m + 1
    BY <2>4, <2>5
  <2>8. /\ x \in Tally /\ x.modeled = r.modeled + 1 /\ x.physical = r.physical
        /\ x.merged = r.merged /\ x.completions = r.completions /\ x.submitted = r.submitted
        /\ r.physical \in Int /\ r.merged \in Int
    BY <2>1, <2>2 DEF Tally
  <2>9. x.modeled = x.physical + x.merged + n
    <3>1. \A a1, a2, a3 \in Int : (a1 + a2 + a3) + 1 = a1 + a2 + (a3 + 1)
      OBVIOUS
    <3>2. (r.physical + r.merged + m) + 1 = r.physical + r.merged + (m + 1)
      BY <2>4, <2>8, <3>1
    <3> QED BY <2>6, <2>7, <2>8, <3>2
  <2> QED BY <2>1, <2>3, <2>8, <2>9 DEF Tallied, r, x, n
<1> QED BY <1>0, <1>1, <1>12, <1>17, <1>18 DEF Registers, Held

\* Admission after admission.
LEMMA RegistersTransitive ==
  ASSUME NEW s, NEW t, NEW u, NEW limbo, Body(s, limbo), Registers(s, t, limbo), Registers(t, u, limbo)
  PROVE  Registers(s, u, limbo)
<1>1. Admits(s, u, limbo)
  BY AdmitsTransitive DEF Registers
<1>2. SameArrivals(s, u)
  BY DEF Registers, SameArrivals
<1> QED BY <1>1, <1>2 DEF Registers

\* No admission at all.
LEMMA RegistersReflexive ==
  ASSUME NEW s, NEW limbo, Body(s, limbo), Awaited(s), Held(s)
  PROVE  Registers(s, s, limbo)
<1>1. Admits(s, s, limbo)
  BY AdmitsReflexive
<1>2. SameArrivals(s, s)
  BY DEF SameArrivals
<1> QED BY <1>1, <1>2 DEF Registers

\* One turn of the inner loop.
LEMMA HeldAdmitNext ==
  ASSUME NEW s, NEW limbo, Body(s, limbo), Awaited(s), limbo \in Owing, Held(s), NEW id \in DOMAIN s.parents
  PROVE  Registers(s, AdmitNext(s, id), limbo)
<1> DEFINE p == s.parents[id]
           at == NextAccess(p)
<1>1. CASE Unadmitted(p) /\ can_reserve(s.ctl[at.ch], p.txn.op)
  <2>1. AdmitNext(s, id) = Admit(s, id, p, at)
    BY <1>1 DEF AdmitNext
  <2> QED BY <1>1, <2>1, HeldAdmit
<1>2. CASE ~(Unadmitted(p) /\ can_reserve(s.ctl[at.ch], p.txn.op))
  <2>1. AdmitNext(s, id) = s
    BY <1>2 DEF AdmitNext
  <2> QED BY <2>1, RegistersReflexive
<1> QED BY <1>1, <1>2

\* The inner loop.
LEMMA HeldAdmitParent ==
  ASSUME NEW s, NEW limbo, Body(s, limbo), Awaited(s), limbo \in Owing, Held(s), NEW id \in DOMAIN s.parents
  PROVE  Registers(s, AdmitParent(s, id), limbo)
<1> DEFINE accesses == s.parents[id].txn.accesses
           seq == [i \in DOMAIN accesses |-> id]
           n == Len(accesses)
<1>1. n \in Nat /\ DOMAIN accesses = 1 .. n
  <2>1. IsParent(s.parents[id])
    BY BodyTypes
  <2>2. s.parents[id].txn \in Transactions
    BY <2>1 DEF IsParent
  <2> DEFINE A == [ch : Channels, bank : Bank, row : Nat, col : Nat]
  <2>3. accesses \in Seq(A)
    BY <2>2, SystemAssumption
  <2> HIDE DEF A, accesses
  <2> QED BY <2>3
<1> HIDE DEF accesses, n
<1>2. seq \in Seq({id}) /\ Len(seq) = n /\ \A i \in 1 .. n : seq[i] = id
  BY <1>1
<1>3. AdmitParent(s, id) = Nexts!Looped(s, seq)
  BY DEF AdmitParent, FoldLeft, MapThenFoldSet, Max, Nexts!Looped, accesses
<1> HIDE DEF seq
<1>4. PICK run : /\ run[0] = s
                 /\ \A k \in 1 .. n : run[k] = AdmitNext(run[k - 1], seq[k])
                 /\ run[n] = Nexts!Looped(s, seq)
  BY <1>2, Nexts!LoopRuns
<1> DEFINE S == {k \in 0 .. n : Registers(s, run[k], limbo)}
<1>5. 0 \in S
  BY <1>1, <1>4, RegistersReflexive
<1>6. ASSUME NEW k \in 0 .. n - 1, k \in S PROVE k + 1 \in S
  <2>1. k + 1 \in 1 .. n /\ (k + 1) - 1 = k /\ k + 1 \in 0 .. n
    BY <1>1
  <2> DEFINE u == run[k]
             v == run[k + 1]
  <2>2. v = AdmitNext(u, id) /\ Registers(s, u, limbo)
    BY <1>2, <1>4, <1>6, <2>1
  <2> HIDE DEF u, v
  <2>3. Body(u, limbo) /\ Awaited(u) /\ Held(u) /\ id \in DOMAIN u.parents
    BY <2>2 DEF Registers, Admits
  <2>4. Registers(u, v, limbo)
    BY <2>2, <2>3, HeldAdmitNext
  <2>5. Registers(s, v, limbo)
    BY <2>2, <2>4, RegistersTransitive
  <2> QED BY <2>1, <2>5 DEF v
<1>7. n \in S
  <2> HIDE DEF S
  <2>1. \A k \in 0 .. n : k \in S
    BY <1>1, <1>5, <1>6, UpTo
  <2> QED BY <1>1, <2>1
<1> QED BY <1>3, <1>4, <1>7

\* The outer loop.
LEMMA HeldAdmitAll ==
  ASSUME NEW s, NEW limbo, Body(s, limbo), Awaited(s), limbo \in Owing, Held(s)
  PROVE  Registers(s, AdmitAll(s), limbo)
<1> DEFINE seq == s.pending
           n == Len(seq)
<1>1. seq \in Seq(Ids) /\ n \in Nat /\ \A i \in 1 .. n : seq[i] \in DOMAIN s.parents
  BY BodyTypes
<1>2. AdmitAll(s) = Parents!Looped(s, seq)
  BY DEF AdmitAll, FoldLeft, MapThenFoldSet, Max, Parents!Looped
<1> HIDE DEF seq
<1>3. PICK run : /\ run[0] = s
                 /\ \A k \in 1 .. n : run[k] = AdmitParent(run[k - 1], seq[k])
                 /\ run[n] = Parents!Looped(s, seq)
  BY <1>1, Parents!LoopRuns
<1> DEFINE S == {k \in 0 .. n : Registers(s, run[k], limbo)}
<1>4. 0 \in S
  BY <1>1, <1>3, RegistersReflexive
<1>5. ASSUME NEW k \in 0 .. n - 1, k \in S PROVE k + 1 \in S
  <2>1. k + 1 \in 1 .. n /\ (k + 1) - 1 = k /\ k + 1 \in 0 .. n
    BY <1>1
  <2> DEFINE u == run[k]
             v == run[k + 1]
             id == seq[k + 1]
  <2>2. v = AdmitParent(u, id) /\ id \in DOMAIN s.parents /\ Registers(s, u, limbo)
    BY <1>1, <1>3, <1>5, <2>1
  <2> HIDE DEF u, v, id
  <2>3. Body(u, limbo) /\ Awaited(u) /\ Held(u) /\ id \in DOMAIN u.parents
    BY <2>2 DEF Registers, Admits
  <2>4. Registers(u, v, limbo)
    BY <2>2, <2>3, HeldAdmitParent
  <2>5. Registers(s, v, limbo)
    BY <2>2, <2>4, RegistersTransitive
  <2> QED BY <2>1, <2>5 DEF v
<1>6. n \in S
  <2> HIDE DEF S, n
  <2>1. \A k \in 0 .. n : k \in S
    BY <1>1, <1>4, <1>5, UpTo
  <2> QED BY <1>1, <2>1
<1> QED BY <1>2, <1>3, <1>6

\* pump_admissions keeps the records and the arrivals.
LEMMA HeldPump ==
  ASSUME NEW s, NEW limbo, Body(s, limbo), Awaited(s), Marked(s), limbo \in Owing, Held(s)
  PROVE  LET t == pump_admissions(s)
         IN  Held(t) /\ SameArrivals(s, t)
<1> DEFINE a == AdmitAll(s)
           b == DropAdmitted(a)
           touched == {ch \in Channels : Len(a.ctl[ch].queue) > Len(s.ctl[ch].queue)}
           t == FoldLeft(WakeChannel, b, Ascending(touched))
<1>1. pump_admissions(s) = t
  BY DEF pump_admissions, Admitted, WakeTouched
<1>2. \A i \in 1 .. Len(s.pending) : Done(a, s.pending[i])
  BY AdmitAllFacts
<1>3. Registers(s, a, limbo)
  BY HeldAdmitAll
<1>4. b = [a EXCEPT !.pending = Picked(@, {i \in DOMAIN @ : Unadmitted(a.parents[@[i]])})]
  BY DEF DropAdmitted
<1> HIDE DEF a
<1>5. /\ Body(a, limbo) /\ a.pending = s.pending /\ a.agenda = s.agenda /\ Held(a) /\ SameArrivals(s, a)
      /\ \A k \in Channels : Grown(s.ctl[k], a.ctl[k])
  BY <1>3 DEF Registers, Admits
<1>6. /\ Body(b, limbo) /\ b.ctl = a.ctl /\ b.parents = a.parents /\ b.agenda = a.agenda
  BY <1>2, <1>5, DropAdmittedFacts
<1>7. b.stats = a.stats
  <2>1. IsState(a)
    BY <1>5, BodyTypes
  <2> HIDE DEF b
  <2> QED BY <1>4, <2>1 DEF IsState
<1> HIDE DEF b
<1>8. Held(b)
  <2>1. Typed(a) /\ b.ctl \in [Channels -> TimedController]
    BY <1>5, <1>6, BodyIsTyped, BodyTypes
  <2> QED BY <1>5, <1>6, <1>7, <2>1, HeldSame
<1>9. Marked(b)
  <2> SUFFICES ASSUME NEW k \in Channels
               PROVE  /\ a.ctl[k].wakeup_at = s.ctl[k].wakeup_at
                      /\ a.ctl[k].refresh_due_at = s.ctl[k].refresh_due_at
    BY <1>5, <1>6 DEF Marked
  <2> QED BY <1>5 DEF Grown
<1>10. touched \in SUBSET Channels /\ \A ch \in touched : Rearmed(b.ctl[ch])
  BY <1>5, <1>6 DEF Grown
<1> HIDE DEF touched
<1>11. Upholds(b, t)
  BY <1>6, <1>8, <1>9, <1>10, HeldWakeLoop
<1> HIDE DEF t
<1> QED BY <1>1, <1>5, <1>6, <1>11 DEF Upholds, SameArrivals

\* A transaction that arrived in the past enters with its arrival, or waits.
LEMMA HeldSubmit ==
  ASSUME NEW s, NEW limbo, Steady(s, limbo), Held(s), NEW id \in Ids, id \notin DOMAIN s.parents, id \notin s.waiting,
         NEW txn \in Transactions, NEW arrival \in Past
  PROVE  LET t == try_submit_now(s, id, txn, arrival)
         IN  /\ Held(t)
             /\ \/ DOMAIN t.parents = DOMAIN s.parents \cup {id} /\ t.waiting = s.waiting
                \/ DOMAIN t.parents = DOMAIN s.parents /\ t.waiting = s.waiting \cup {id}
<1>0. Body(s, limbo) /\ Awaited(s) /\ Marked(s) /\ Armed(s) /\ Settled(s) /\ limbo \in Owing /\ arrival \in Int
  BY DEF Steady, Past
<1>1. CASE HasCredit(s, txn)
  <2> DEFINE p == NewParent(txn, arrival)
             e == Entered(s, id, p)
             c == Counted(e, "submitted", 1)
             t == pump_admissions(c)
  <2>1. try_submit_now(s, id, txn, arrival) = t
    <3> HIDE DEF p
    <3>1. e = [s EXCEPT !.parents = [x \in DOMAIN @ \cup {id} |-> IF x = id THEN p ELSE @[x]],
                        !.pending = Append(@, id)]
      BY DEF Entered
    <3> HIDE DEF e
    <3> QED BY <1>1, <3>1 DEF try_submit_now, p
  <2>2. IsParent(p) /\ p.remaining = 0 /\ Unadmitted(p) /\ p.arrival = arrival
    <3>1. p.arrival = arrival
      BY RecordsAreKept DEF NewParent, Recorded
    <3> HIDE DEF p
    <3> QED BY <1>0, <3>1, NewParentFacts DEF p
  <2> HIDE DEF p
  <2>3. /\ Body(e, limbo) /\ DOMAIN e.parents = DOMAIN s.parents \cup {id} /\ e.ctl = s.ctl
        /\ e.parents[id] = p
        /\ \A x \in DOMAIN s.parents : e.parents[x] = s.parents[x]
        /\ e.agenda = s.agenda /\ e.waiting = s.waiting
    BY <1>0, <1>1, <2>2, ParentEntered DEF HasCredit
  <2>4. e.stats = s.stats
    <3>1. IsState(s)
      BY <1>0, BodyTypes
    <3> QED BY <3>1 DEF Entered, IsState
  <2> HIDE DEF e
  <2>5. /\ Body(c, limbo) /\ c.ctl = e.ctl /\ c.parents = e.parents /\ c.agenda = e.agenda /\ c.waiting = e.waiting
    BY <2>3, CountedFacts
  <2>6. s.stats \in Tally
    BY DEF Held, Tallied
  <2>7. c.stats = [s.stats EXCEPT !.submitted = s.stats.submitted + 1]
    <3>1. IsState(e)
      BY <2>3, BodyTypes
    <3> QED BY <2>4, <2>6, <3>1, CountedStats
  <2> HIDE DEF c
  <2>8. Awaited(c)
    BY <1>0, <2>2, <2>3, <2>5 DEF Awaited
  <2>9. Marked(c) /\ Armed(c)
    BY <1>0, <2>3, <2>5 DEF Marked, Armed
  <2>10. Dated(c)
    <3> DEFINE D == DOMAIN s.parents
    <3>1. OnlyOf(c, D) /\ c.agenda = s.agenda /\ Dated(s)
      BY <1>0, <2>3, <2>5 DEF Body, Known, OnlyOf, Held
    <3>2. \A x \in D : c.parents[x].arrival = s.parents[x].arrival
      BY <2>3, <2>5
    <3>3. \A x \in DOMAIN c.parents : c.parents[x].arrival \in Past
      BY <2>2, <2>3, <2>5, <3>1 DEF Dated
    <3>4. \A k \in Channels : QueueDated(s.parents, c.ctl[k].queue)
      BY <2>3, <2>5, <3>1 DEF Dated
    <3> HIDE DEF D
    <3> QED BY <3>1, <3>2, <3>3, <3>4, DatedAgain
  <2>11. Tallied(c)
    <3>1. Cardinality(DOMAIN c.parents) = Cardinality(DOMAIN s.parents) + 1 /\ Cardinality(DOMAIN s.parents) \in Nat
      <4>1. IsFiniteSet(DOMAIN s.parents)
        BY <1>0 DEF Body, WellFormed
      <4> QED BY <2>3, <2>5, <4>1, FS_AddElement, FS_CardinalityType
    <3>2. /\ c.stats \in Tally /\ c.stats.submitted = s.stats.submitted + 1 /\ c.stats.modeled = s.stats.modeled
          /\ c.stats.physical = s.stats.physical /\ c.stats.merged = s.stats.merged
          /\ c.stats.completions = s.stats.completions /\ s.stats.submitted \in Int
          /\ s.stats.completions \in Seq(Completion)
      BY <2>6, <2>7 DEF Tally
    <3>3. Queued(c) = Queued(s)
      BY <2>3, <2>5 DEF Queued
    <3>4. Len(s.stats.completions) \in Nat
      BY <3>2
    <3>5. c.stats.submitted = Len(c.stats.completions) + Cardinality(DOMAIN c.parents)
      <4>1. s.stats.submitted = Len(s.stats.completions) + Cardinality(DOMAIN s.parents)
        BY DEF Held, Tallied
      <4>2. \A m, n \in Nat : (m + n) + 1 = m + (n + 1)
        OBVIOUS
      <4> QED BY <3>1, <3>2, <3>4, <4>1, <4>2
    <3> QED BY <3>2, <3>3, <3>5 DEF Held, Tallied
  <2>12. DOMAIN t.parents = DOMAIN c.parents /\ t.waiting = c.waiting
    BY <1>0, <2>5, <2>8, <2>9, PumpFacts
  <2>13. Held(t)
    BY <1>0, <2>5, <2>8, <2>9, <2>10, <2>11, HeldPump DEF Held
  <2> HIDE DEF t
  <2> QED BY <2>1, <2>3, <2>5, <2>12, <2>13
<1>2. CASE ~HasCredit(s, txn)
  <2> DEFINE t == [s EXCEPT !.waiting = @ \cup {id}]
  <2>1. try_submit_now(s, id, txn, arrival) = t
    BY <1>2 DEF try_submit_now
  <2>2. Typed(s)
    BY <1>0, BodyIsTyped
  <2>3. /\ t.ctl = s.ctl /\ t.parents = s.parents /\ t.stats = s.stats /\ t.agenda = s.agenda
        /\ t.waiting = s.waiting \cup {id}
    BY <2>2 DEF Typed, IsState
  <2> HIDE DEF t
  <2>4. Held(t)
    BY <2>2, <2>3, HeldSame DEF Typed
  <2> QED BY <2>1, <2>3, <2>4
<1> QED BY <1>1, <1>2

-----------------------------------------------------------------------------
(* Driving a channel.                                                      *)

\* A command that is the first of an access is noted at the present.
LEMMA NotedQueue ==
  ASSUME NEW table, NEW q, NEW r, SameEntries(q, r), Noting(q, r), QueueDated(table, q)
  PROVE  QueueDated(table, r)
<1> SUFFICES ASSUME NEW j \in 1 .. Len(r)
             PROVE  Noted(r[j]) /\ r[j].arrival = table[r[j].id].arrival
  BY DEF QueueDated
<1> DEFINE a == q[j]
           b == r[j]
<1>1. j \in 1 .. Len(q)
  BY DEF SameEntries
<1>2. Noted(a) /\ a.arrival = table[a.id].arrival
  BY <1>1 DEF QueueDated
<1>3. b.id = a.id /\ b.arrival = a.arrival /\ (b.first_at = a.first_at \/ b.first_at = FirstAt(a, 0))
  BY <1>1 DEF SameEntries, Noting
<1> HIDE DEF a, b
<1>4. Noted(b)
  <2>1. CASE b.first_at = a.first_at
    BY <1>2, <1>3, <2>1 DEF Noted
  <2>2. CASE b.first_at = FirstAt(a, 0)
    <3>1. CASE a.first_at = None
      <4>1. b.first_at = 0
        BY <2>2, <3>1, RecordsAreKept DEF FirstAt, Recorded
      <4> QED BY <1>2, <1>3, <4>1 DEF Noted, Past
    <3>2. CASE a.first_at # None
      <4>1. b.first_at = a.first_at
        BY <2>2, <3>2 DEF FirstAt
      <4> QED BY <1>2, <1>3, <4>1 DEF Noted
    <3> QED BY <3>1, <3>2
  <2> QED BY <1>3, <2>1, <2>2
<1> QED BY <1>2, <1>3, <1>4 DEF b

\* A channel's controller with a queue that is dated takes the place of another.
LEMMA DatedRequeued ==
  ASSUME NEW s, Typed(s), Dated(s), NEW ch \in Channels, NEW d \in TimedController, QueueDated(s.parents, d.queue)
  PROVE  LET t == [s EXCEPT !.ctl[ch] = d]
         IN  /\ Typed(t) /\ Dated(t) /\ t.ctl[ch] = d /\ \A k \in Channels \ {ch} : t.ctl[k] = s.ctl[k]
             /\ t.parents = s.parents /\ t.stats = s.stats /\ t.agenda = s.agenda /\ t.waiting = s.waiting
<1> DEFINE t == [s EXCEPT !.ctl[ch] = d]
<1>1. /\ t.ctl = [s.ctl EXCEPT ![ch] = d] /\ t.parents = s.parents /\ t.stats = s.stats
      /\ t.agenda = s.agenda /\ t.waiting = s.waiting /\ IsState(t)
  BY DEF IsState, Typed
<1> HIDE DEF t
<1>2. t.ctl[ch] = d /\ \A k \in Channels \ {ch} : t.ctl[k] = s.ctl[k]
  BY <1>1 DEF Typed
<1>3. Typed(t)
  BY <1>1 DEF Typed
<1>4. ASSUME NEW k \in Channels PROVE QueueDated(s.parents, t.ctl[k].queue)
  <2>1. CASE k = ch
    BY <1>2, <2>1
  <2>2. CASE k # ch
    BY <1>2, <2>2 DEF Dated
  <2> QED BY <2>1, <2>2
<1>5. Dated(t)
  BY <1>1, <1>4 DEF Dated
<1> QED BY <1>1, <1>2, <1>3, <1>5 DEF t

\* Without a transfer no access moves.
LEMMA HeldIdle ==
  ASSUME NEW s, Typed(s), Held(s), NEW ch \in Channels, NEW step, Drives(s.ctl[ch], step),
         Notes(s.ctl[ch].queue, step), step.c \in TimedController, step.ids = <<>>
  PROVE  Upholds(s, Driven(s, ch, step))
<1> DEFINE t == Driven(s, ch, step)
           d == step.c
<1>1. t = [s EXCEPT !.ctl[ch] = d]
  BY DEF Driven
<1>2. SameEntries(s.ctl[ch].queue, d.queue)
  BY DEF Drives
<1>3. QueueDated(s.parents, d.queue)
  <2>1. QueueDated(s.parents, s.ctl[ch].queue)
    BY DEF Held, Dated
  <2>2. Noting(s.ctl[ch].queue, d.queue)
    BY DEF Notes
  <2> QED BY <1>2, <2>1, <2>2, NotedQueue
<1>4. d \in TimedController /\ Dated(s) /\ Tallied(s)
  BY DEF Held
<1> HIDE DEF d, t
<1>5. /\ Typed(t) /\ Dated(t) /\ t.ctl[ch] = d /\ \A k \in Channels \ {ch} : t.ctl[k] = s.ctl[k]
      /\ t.parents = s.parents /\ t.stats = s.stats /\ t.agenda = s.agenda /\ t.waiting = s.waiting
  BY <1>1, <1>3, <1>4, DatedRequeued
<1>6. \A k \in Channels : Len(t.ctl[k].queue) = Len(s.ctl[k].queue)
  <2> SUFFICES ASSUME NEW k \in Channels PROVE Len(t.ctl[k].queue) = Len(s.ctl[k].queue)
    OBVIOUS
  <2>1. CASE k = ch
    BY <1>2, <1>5, <2>1 DEF SameEntries
  <2>2. CASE k # ch
    BY <1>5, <2>2
  <2> QED BY <2>1, <2>2
<1>7. Queued(t) = Queued(s)
  BY <1>5, <1>6, SameQueued DEF Typed
<1>8. Tallied(t)
  BY <1>4, <1>5, <1>7 DEF Tallied
<1> QED BY <1>5, <1>8 DEF Upholds, Held, t

\* What a transfer records partitions the time from each arrival to its end.
LEMMA TransferIsDated ==
  ASSUME NEW table, NEW q \in Seq(QueuedAccess), NEW step, Recording(q, step), QueueDated(table, q)
  PROVE  QueueDated(table, step.c.queue) /\ IdsDated(table, step.ids, step.stages, step.done_at)
<1>1. QueueDated(table, step.c.queue)
  <2> DEFINE r == step.c.queue
  <2>1. \A j \in 1 .. Len(r) : \E i \in 1 .. Len(q) : r[j] = q[i]
    BY DEF Recording
  <2> HIDE DEF r
  <2>2. QueueDated(table, r)
    BY <2>1 DEF QueueDated
  <2> QED BY <2>2 DEF r
<1>2. PICK latency \in Nat, start \in Int : Serving(q, step, latency, start)
  BY DEF Recording
<1>3. start >= latency /\ step.done_at = start + BurstTime /\ Len(step.stages) = Len(step.ids)
  BY <1>2 DEF Serving
<1>4. ASSUME NEW k \in 1 .. Len(step.ids)
      PROVE  Breakdown(step.stages[k], step.done_at - table[step.ids[k]].arrival)
  <2>1. PICK j \in 1 .. Len(q) : step.ids[k] = q[j].id /\ step.stages[k] = Stages(q[j], 0, latency, start)
    BY <1>2 DEF Serving
  <2> DEFINE a == q[j]
  <2>2. a \in QueuedAccess /\ Noted(a) /\ a.arrival = table[a.id].arrival
    BY DEF QueueDated
  <2>3. step.ids[k] = a.id /\ step.stages[k] = Stages(a, 0, latency, start)
    BY <2>1
  <2> HIDE DEF a
  <2>4. Breakdown(Stages(a, 0, latency, start), start + BurstTime - a.arrival)
    BY <1>3, <2>2, StagesPartition
  <2>5. table[step.ids[k]].arrival = a.arrival
    BY <2>2, <2>3
  <2>6. step.done_at - table[step.ids[k]].arrival = start + BurstTime - a.arrival
    <3>1. BurstTime \in Int /\ a.arrival \in Int
      BY <2>2, ControllerAssumption DEF Noted, Past
    <3> DEFINE x == table[step.ids[k]].arrival
               y == a.arrival
               z == step.done_at
    <3>2. x = y /\ z = start + BurstTime /\ y \in Int
      BY <1>3, <2>5, <3>1
    <3> HIDE DEF x, y, z
    <3>3. z - x = start + BurstTime - y
      BY <3>1, <3>2
    <3> QED BY <3>3 DEF x, y, z
  <2> QED BY <2>3, <2>4, <2>6
<1> QED BY <1>1, <1>3, <1>4 DEF IdsDated

\* A transfer that starts is counted, and so are those merged into it.
LEMMA HeldTransfer ==
  ASSUME NEW s, Typed(s), Held(s), NEW ch \in Channels, NEW step, Drives(s.ctl[ch], step),
         Notes(s.ctl[ch].queue, step), step.c \in TimedController, step.ids # <<>>
  PROVE  LET t == Transferred(Driven(s, ch, step), step)
         IN  Held(t) /\ t.parents = s.parents /\ IdsDated(s.parents, step.ids, step.stages, step.done_at)
<1> DEFINE q == s.ctl[ch].queue
           d == step.c
           ids == step.ids
           a == Driven(s, ch, step)
           b == Counted(a, "physical", 1)
           t == Counted(b, "merged", Len(step.ids) - 1)
<1>1. Transferred(a, step) = t /\ a = [s EXCEPT !.ctl[ch] = d]
  BY DEF Transferred, Driven
<1>2. q \in Seq(QueuedAccess)
  <2>1. s.ctl[ch] \in TimedController
    BY DEF Typed
  <2> QED BY <2>1, ControllerCounts
<1>3. QueueDated(s.parents, d.queue) /\ IdsDated(s.parents, step.ids, step.stages, step.done_at)
  <2>1. QueueDated(s.parents, q)
    BY DEF Held, Dated
  <2>2. Recording(q, step)
    BY RecordsAreKept DEF Notes
  <2> HIDE DEF q
  <2> QED BY <1>2, <2>1, <2>2, TransferIsDated
<1>4. Len(q) = Len(d.queue) + Len(ids) /\ Len(ids) \in Nat /\ Len(q) \in Nat /\ Len(d.queue) \in Nat
  <2>1. GivesUp(q, ids, d.queue) /\ ids \in Seq(Ids)
    BY DEF Drives
  <2> HIDE DEF q, d, ids
  <2>2. Len(q) = Len(d.queue) + Len(ids) /\ d.queue \in Seq(QueuedAccess)
    BY <2>1 DEF GivesUp
  <2> QED BY <1>2, <2>1, <2>2
<1>5. d \in TimedController /\ Dated(s) /\ Tallied(s)
  BY DEF Held
<1> HIDE DEF a, b, t
<1>6. /\ Typed(a) /\ Dated(a) /\ a.ctl[ch] = d /\ \A k \in Channels \ {ch} : a.ctl[k] = s.ctl[k]
      /\ a.parents = s.parents /\ a.stats = s.stats
  BY <1>1, <1>3, <1>5, DatedRequeued
<1> DEFINE r == s.stats
           x == t.stats
           m == Cardinality(Queued(s))
           n == Cardinality(Queued(t))
<1>7. r \in Tally /\ r.modeled = r.physical + r.merged + m
      /\ r.submitted = Len(r.completions) + Cardinality(DOMAIN s.parents)
  BY <1>5 DEF Tallied
<1>8. /\ IsState(b) /\ b.ctl = a.ctl /\ b.parents = a.parents /\ b.agenda = a.agenda
      /\ b.stats \in Tally /\ b.stats = [r EXCEPT !.physical = r.physical + 1]
  <2>1. IsState(a) /\ a.stats \in Tally
    BY <1>6, <1>7 DEF Typed
  <2> QED BY <1>6, <2>1, CountedStats DEF b
<1>9. /\ t.ctl = a.ctl /\ t.parents = s.parents /\ t.agenda = a.agenda
      /\ x \in Tally /\ x = [b.stats EXCEPT !.merged = b.stats.merged + (Len(ids) - 1)]
  <2> DEFINE m1 == Len(ids) - 1
  <2>1. m1 \in Int /\ t = Counted(b, "merged", m1)
    BY <1>4 DEF t
  <2> HIDE DEF r, m1
  <2>2. /\ t.ctl = b.ctl /\ t.parents = b.parents /\ t.agenda = b.agenda
        /\ x \in Tally /\ x = [b.stats EXCEPT !.merged = b.stats.merged + m1]
    <3>1. IsState(b) /\ b.stats \in Tally
      BY <1>8
    <3> QED BY <2>1, <3>1, CountedStats
  <2>3. t.ctl = a.ctl /\ t.parents = s.parents /\ t.agenda = a.agenda
    BY <1>6, <1>8, <2>2
  <2> QED BY <2>2, <2>3 DEF m1
<1>10. /\ x.modeled = r.modeled /\ x.physical = r.physical + 1 /\ x.merged = r.merged + (Len(ids) - 1)
       /\ x.completions = r.completions /\ x.submitted = r.submitted
       /\ r.physical \in Int /\ r.merged \in Int
  <2> HIDE DEF r, x, ids
  <2> QED BY <1>7, <1>8, <1>9 DEF Tally
<1>11. m \in Nat /\ n \in Nat /\ n + Len(q) = m + Len(d.queue)
  <2>1. \A k \in Channels \ {ch} : Len(t.ctl[k].queue) = Len(s.ctl[k].queue)
    BY <1>6, <1>9
  <2>2. s.ctl \in [Channels -> TimedController] /\ t.ctl \in [Channels -> TimedController]
    BY <1>6, <1>9 DEF Typed
  <2>3. n + Len(s.ctl[ch].queue) = m + Len(t.ctl[ch].queue) /\ m \in Nat /\ n \in Nat
    BY <2>1, <2>2, QueuedChange
  <2> QED BY <1>6, <1>9, <2>3
<1>12. Dated(t)
  <2>1. /\ \A id \in DOMAIN t.parents : t.parents[id].arrival \in Past
        /\ \A k \in Channels : QueueDated(t.parents, t.ctl[k].queue)
        /\ \A i \in 1 .. Len(t.agenda) :
               IdsDated(t.parents, t.agenda[i].ids, t.agenda[i].stages, t.agenda[i].at)
    BY <1>6, <1>9 DEF Dated
  <2> QED BY <2>1 DEF Dated
<1>13. Tallied(t)
  <2> DEFINE l == Len(ids)
             v == Len(q)
             w == Len(d.queue)
  <2>1. v = w + l /\ l \in Nat /\ v \in Nat /\ w \in Nat
    BY <1>4
  <2> HIDE DEF r, x, m, n, l, v, w
  <2>2. n = m - l
    BY <1>11, <2>1 DEF v, w
  <2>3. x.modeled = x.physical + x.merged + n
    <3>1. \A a1, a2, a3, a4 \in Int : a1 + a2 + a3 = (a1 + 1) + (a2 + (a4 - 1)) + (a3 - a4)
      OBVIOUS
    <3> HIDE DEF x
    <3>2. r.physical + r.merged + m = (r.physical + 1) + (r.merged + (l - 1)) + (m - l)
      <4>1. r.physical \in Int /\ r.merged \in Int /\ m \in Int /\ l \in Int
        BY <1>10, <1>11, <2>1
      <4> QED BY <3>1, <4>1
    <3> QED BY <1>7, <1>10, <2>2, <3>2 DEF l
  <2>4. x.submitted = Len(x.completions) + Cardinality(DOMAIN t.parents)
    BY <1>7, <1>9, <1>10
  <2>5. \A i \in 1 .. Len(x.completions) : Breakdown(x.completions[i].stages, x.completions[i].latency)
    BY <1>5, <1>10 DEF Tallied, r
  <2> QED BY <1>9, <2>3, <2>4, <2>5 DEF Tallied, x, n
<1> QED BY <1>1, <1>3, <1>9, <1>12, <1>13 DEF Held, a

\* The records hold after a callback; it neither adds a parent nor makes a client wait.
Persists(s, t) == /\ Held(t) /\ DOMAIN t.parents \in SUBSET DOMAIN s.parents
                  /\ t.waiting \in SUBSET s.waiting

\* drive_controller keeps the records.
LEMMA HeldDrive ==
  ASSUME NEW s, Steady(s, Nobody), Held(s), NEW ch \in Channels
  PROVE  Persists(s, drive_controller(s, ch))
<1> DEFINE step == drive(s.ctl[ch])
           t == IF step.ids = <<>> THEN Driven(s, ch, step)
                ELSE TransferStarted(pump_admissions(Transferred(Driven(s, ch, step), step)), ch, step)
<1>1. drive_controller(s, ch) = AskedWake(t, ch, step.wake_at)
  BY DEF drive_controller, DriveTo
<1>0. Typed(s) /\ s.ctl[ch] \in TimedController
  BY BodyIsTyped, BodyTypes DEF Steady
<1>2. Drives(s.ctl[ch], step) /\ Notes(s.ctl[ch].queue, step)
  BY <1>0, TimedIsController, DriveFacts
<1>c. step.c \in TimedController
  <2>1. s.ctl[ch].queue # <<>> => s.ctl[ch].next_refresh_due = None \/ s.ctl[ch].next_refresh_due >= 0
    BY RefreshIsAhead
  <2> QED BY <1>0, <2>1, DriveIsTimed
<1> HIDE DEF step
<1>3. Typed(t) /\ Persists(s, t)
  <2>1. CASE step.ids = <<>>
    <3>1. t = Driven(s, ch, step)
      BY <2>1
    <3> HIDE DEF t
    <3>2. Upholds(s, t)
      BY <1>0, <1>2, <1>c, <2>1, <3>1, HeldIdle
    <3> QED BY <3>2 DEF Upholds, Persists
  <2>2. CASE step.ids # <<>>
    <3> DEFINE limbo == InLimbo(step.ids, ch)
               a == Driven(s, ch, step)
               b == Counted(a, "physical", 1)
               c == Counted(b, "merged", Len(step.ids) - 1)
               p == pump_admissions(c)
               e == schedule_event(p, step.done_at, "complete", ch, step)
               f == schedule_event(e, 0, "capacity", ch, NoAccess)
    <3>1. t = f
      BY <2>2 DEF TransferStarted, Transferred
    <3>2. /\ Body(a, limbo) /\ Awaited(a) /\ Marked(a) /\ Armed(a) /\ a.parents = s.parents
          /\ \A k \in 1 .. Len(step.ids) : step.ids[k] \in DOMAIN s.parents
      BY <1>2, <1>c, <2>2, TransferDrive
    <3>3. limbo \in Owing
      BY <1>2, InLimboFacts DEF Drives
    <3>w. a.waiting = s.waiting
      BY <1>0 DEF Driven, Typed, IsState
    <3>h. Held(c) /\ c.parents = s.parents /\ IdsDated(s.parents, step.ids, step.stages, step.done_at)
      <4>1. c = Transferred(a, step)
        BY DEF Transferred
      <4> HIDE DEF c
      <4> QED BY <1>0, <1>2, <1>c, <2>2, <4>1, HeldTransfer
    <3> HIDE DEF a, limbo, t
    <3>4. Body(b, limbo) /\ b.ctl = a.ctl /\ b.parents = a.parents /\ b.agenda = a.agenda /\ b.waiting = s.waiting
      BY <3>2, <3>w, CountedFacts
    <3> HIDE DEF b
    <3>5. Body(c, limbo) /\ c.ctl = b.ctl /\ c.parents = b.parents /\ c.agenda = b.agenda /\ c.waiting = s.waiting
      BY <3>4, CountedFacts
    <3> HIDE DEF c
    <3>6. Awaited(c) /\ Marked(c) /\ Armed(c)
      BY <3>2, <3>4, <3>5 DEF Awaited, Marked, Armed
    <3>7. /\ Body(p, limbo) /\ DOMAIN p.parents = DOMAIN s.parents /\ p.waiting = s.waiting
      BY <3>3, <3>5, <3>6, <3>h, PumpFacts
    <3>8. Held(p) /\ SameArrivals(c, p)
      BY <3>3, <3>5, <3>6, <3>h, HeldPump
    <3> HIDE DEF p
    <3>9. Carries(p, "complete", step)
      BY <1>2, <2>2, <3>2, <3>7 DEF Carries, Drives
    <3>10. IdsDated(p.parents, step.ids, step.stages, step.done_at)
      <4>1. \A k \in 1 .. Len(step.ids) : p.parents[step.ids[k]].arrival = s.parents[step.ids[k]].arrival
        BY <3>2, <3>7, <3>8, <3>h DEF SameArrivals
      <4> QED BY <3>h, <4>1 DEF IdsDated
    <3>11. step.done_at \in Nat /\ "complete" \in Kind /\ 0 \in Nat /\ "capacity" \in Kind /\ Typed(p)
      BY <1>2, <2>2, <3>7, BodyIsTyped DEF Drives, Kind
    <3>12. Upholds(p, e)
      BY <3>8, <3>9, <3>10, <3>11, HeldScheduled
    <3> HIDE DEF e
    <3>13. Upholds(e, f)
      BY <3>11, <3>12, HeldPlain DEF Upholds
    <3> HIDE DEF f
    <3> QED BY <3>1, <3>7, <3>12, <3>13 DEF Upholds, Persists
  <2> QED BY <2>1, <2>2
<1> HIDE DEF t
<1>4. CASE step.wake_at = None
  BY <1>1, <1>3, <1>4 DEF AskedWake
<1>5. CASE step.wake_at # None
  <2>1. step.wake_at \in Int
    BY <1>2, <1>5 DEF Drives, Optional
  <2> DEFINE u == schedule_controller_wake(t, ch, step.wake_at)
  <2>2. AskedWake(t, ch, step.wake_at) = u
    BY <1>5 DEF AskedWake
  <2>3. Upholds(t, u)
    BY <1>3, <2>1, HeldWake DEF Persists
  <2> HIDE DEF u
  <2> QED BY <1>1, <1>3, <2>2, <2>3 DEF Upholds, Persists
<1> QED BY <1>4, <1>5

-----------------------------------------------------------------------------
(* The callbacks of wakeups, refreshes and returned capacity.              *)

\* Persistence over two steps.
LEMMA PersistsOn ==
  ASSUME NEW s, NEW t, NEW u, t.parents = s.parents, t.waiting = s.waiting, Persists(t, u)
  PROVE  Persists(s, u)
BY DEF Persists

\* A wake-up.
LEMMA HeldWakeCallback ==
  ASSUME NEW s, NEW e, AtEventOf(s, e), e.kind = "wake", Held(s)
  PROVE  Persists(s, WakeCallback(s, e.ch))
<1> DEFINE ch == e.ch
           c == s.ctl[ch]
           d == clear_wakeup(c, 0)
           t == [s EXCEPT !.ctl[ch] = d]
<1>0. Body(s, Nobody) /\ ch \in Channels
  BY PlainEvent
<1> HIDE DEF ch
<1>1. c \in TimedController /\ s.ctl \in [Channels -> TimedController] /\ Typed(s)
  BY <1>0, BodyTypes, BodyIsTyped
<1>2. WakeCallback(s, ch) = drive_controller(t, ch)
  BY <1>0, <1>1 DEF WakeCallback
<1>3. d \in TimedController /\ d.queue = c.queue
  <2>1. d = IF c.wakeup_at = 0 THEN [c EXCEPT !.wakeup_at = None] ELSE c
    BY DEF clear_wakeup
  <2>2. None \in Optional(Int) /\ 0 \in Nat
    BY DEF Optional
  <2>3. [c EXCEPT !.wakeup_at = None] \in TimedController
    BY <1>1, <2>2, MarksAreTimed
  <2>4. [c EXCEPT !.wakeup_at = None].queue = c.queue
    BY <1>1 DEF TimedController, Controller
  <2> QED BY <1>1, <2>1, <2>3, <2>4
<1>4. Steady(t, Nobody)
  BY WakeIsCleared DEF ch, c, d
<1> HIDE DEF d
<1>5. Upholds(s, t)
  BY <1>0, <1>1, <1>3, HeldRemarked DEF c
<1> HIDE DEF t
<1>6. Persists(t, drive_controller(t, ch))
  BY <1>0, <1>4, <1>5, HeldDrive DEF Upholds
<1> QED BY <1>2, <1>5, <1>6, PersistsOn DEF Upholds, ch

\* Asking for a wake-up leaves a channel's refresh as it is.
LEMMA WakeLeavesRefresh ==
  ASSUME NEW s, Typed(s), NEW ch \in Channels, NEW when
  PROVE  LET c == s.ctl[ch]
             d == schedule_controller_wake(s, ch, when).ctl[ch]
         IN  d.refresh_due_at = c.refresh_due_at /\ d.next_refresh_due = c.next_refresh_due
<1> DEFINE c == s.ctl[ch]
           at == Max({when, 0})
           t == [s EXCEPT !.ctl[ch].wakeup_at = at]
           u == schedule_event(t, at, "wake", ch, NoAccess)
           z == schedule_controller_wake(s, ch, when)
<1>1. z = IF ~wakes_sooner(c, at) THEN s ELSE u
  BY DEF schedule_controller_wake
<1> HIDE DEF at
<1>2. t.ctl = [s.ctl EXCEPT ![ch] = [c EXCEPT !.wakeup_at = at]] /\ IsState(t)
  BY DEF Typed, IsState
<1> HIDE DEF t
<1>3. u.ctl = t.ctl
  BY <1>2 DEF schedule_event, IsState
<1> HIDE DEF z, u
<1>4. c \in Controller
  BY TimedIsController DEF Typed
<1> DEFINE d == [c EXCEPT !.wakeup_at = at]
<1>5. d.refresh_due_at = c.refresh_due_at /\ d.next_refresh_due = c.next_refresh_due
  BY <1>4 DEF Controller
<1> HIDE DEF c
<1>6. u.ctl[ch] = d
  BY <1>2, <1>3 DEF Typed
<1> HIDE DEF d
<1> QED BY <1>1, <1>5, <1>6 DEF z, c

\* A refresh event.
LEMMA HeldRefreshCallback ==
  ASSUME NEW s, NEW e, AtEventOf(s, e), e.kind = "refresh", Held(s)
  PROVE  Persists(s, RefreshCallback(s, e.ch))
<1> DEFINE ch == e.ch
           c == s.ctl[ch]
           d == handle_refresh_event(c)
           t == [s EXCEPT !.ctl[ch] = d]
           w == schedule_controller_wake(t, ch, 0)
           x == schedule_refresh_due(w, ch)
           z == RefreshCallback(s, ch)
<1>0. Body(s, Nobody) /\ Armed(s) /\ ch \in Channels
  BY PlainEvent
<1> HIDE DEF ch
<1>1. /\ c \in TimedController /\ s.ctl \in [Channels -> TimedController] /\ Typed(s)
      /\ c.outstanding \in Nat
  BY <1>0, BodyTypes, BodyIsTyped, ControllerCounts
<1>2. z = IF t.ctl[ch].outstanding = 0 THEN w ELSE x
  BY <1>0, <1>1 DEF RefreshCallback, WakeAndRefresh
<1>3. /\ d \in TimedController /\ d.queue = c.queue /\ d.outstanding = c.outstanding
      /\ c.refresh_due_at # 0 => d = c
      /\ c.refresh_due_at = 0 => /\ d.refresh_due_at = None
                                 /\ d.next_refresh_due = IF c.next_refresh_due = 0 THEN RefreshInterval
                                                         ELSE c.next_refresh_due
  <2>1. c \in Controller /\ d \in TimedController
    BY <1>1, TimedIsController, RefreshEventIsTimed
  <2> HIDE DEF c, d
  <2> QED BY <2>1, HandleRefreshFacts DEF d
<1>4. None \notin Int /\ RefreshInterval \in Nat
  BY StandardAssumption, ControllerAssumption
<1> HIDE DEF c, d, z
<1>5. Upholds(s, t) /\ t.ctl[ch] = d
  BY <1>0, <1>1, <1>3, HeldRemarked DEF c
<1> HIDE DEF t
<1>6. Upholds(t, w)
  <2>1. 0 \in Int
    OBVIOUS
  <2> QED BY <1>0, <1>5, <2>1, HeldWake DEF Upholds
<1>7. w.ctl[ch].refresh_due_at = d.refresh_due_at /\ w.ctl[ch].next_refresh_due = d.next_refresh_due
  BY <1>0, <1>5, WakeLeavesRefresh DEF Upholds
<1> HIDE DEF w
<1>8. Upholds(s, w)
  BY <1>5, <1>6 DEF Upholds
<1>9. CASE c.outstanding = 0
  <2>1. z = w
    BY <1>2, <1>3, <1>5, <1>9
  <2> QED BY <1>8, <2>1 DEF Upholds, Persists, z, ch
<1>10. CASE c.outstanding # 0
  <2>1. z = x
    BY <1>2, <1>3, <1>5, <1>10
  <2>2. c.refresh_due_at = c.next_refresh_due
    <3>1. c.outstanding > 0
      BY <1>1, <1>10
    <3> QED BY <1>0, <3>1 DEF Armed, IsArmed, c
  <2>3. \/ d.refresh_due_at = d.next_refresh_due
        \/ d.next_refresh_due \in Nat
    BY <1>3, <1>4, <2>2
  <2>4. Claimable(w.ctl[ch])
    BY <1>7, <2>3 DEF Claimable
  <2>5. Upholds(w, x)
    BY <1>0, <1>8, <2>4, HeldRefresh DEF Upholds
  <2> HIDE DEF x
  <2> QED BY <1>8, <2>1, <2>5 DEF Upholds, Persists, z, ch
<1> QED BY <1>9, <1>10

\* The clients that wait are hinted at.
LEMMA HeldHint ==
  ASSUME NEW s, Typed(s), Held(s)
  PROVE  LET t == [s EXCEPT !.waiting = {}]
         IN  Persists(s, t) /\ t.parents = s.parents /\ t.waiting = {}
<1> DEFINE t == [s EXCEPT !.waiting = {}]
<1>1. /\ t.ctl = s.ctl /\ t.parents = s.parents /\ t.stats = s.stats /\ t.agenda = s.agenda /\ t.waiting = {}
  BY DEF Typed, IsState
<1> HIDE DEF t
<1>2. Held(t)
  BY <1>1, HeldSame DEF Typed
<1> QED BY <1>1, <1>2 DEF Persists, t

\* A capacity event.
LEMMA HeldCapacityCallback ==
  ASSUME NEW s, NEW e, AtEventOf(s, e), e.kind = "capacity", Held(s)
  PROVE  Persists(s, [s EXCEPT !.waiting = {}])
<1>1. Typed(s)
  BY PlainEvent, BodyIsTyped
<1> QED BY <1>1, HeldHint

-----------------------------------------------------------------------------
(* Completions.                                                            *)

\* Controller and parent count one access less, and the parent has its stages.
LEMMA HeldFinished ==
  ASSUME NEW s, NEW limbo, Steady(s, limbo), Held(s), NEW access, access.id \in Ids, access.ch \in Channels,
         NEW after \in Owing, Finishes(limbo, access.id, access.ch, after)
  PROVE  LET t == Finished(s, access)
         IN  Held(t) /\ SameArrivals(s, t) /\ t.parents[access.id].stages = access.stages
<1> DEFINE id == access.id
           ch == access.ch
           c == s.ctl[ch]
           d == complete_access(c)
           p == s.parents[id]
           q == [p EXCEPT !.remaining = p.remaining - 1, !.stages = access.stages]
           t == Finished(s, access)
<1>0. Body(s, limbo) /\ Typed(s) /\ id \in Ids /\ ch \in Channels
  BY BodyIsTyped DEF Steady
<1>1. /\ Body(t, after) /\ DOMAIN t.parents = DOMAIN s.parents /\ id \in DOMAIN s.parents
      /\ t.ctl \in [Channels -> TimedController]
  <2>1. SteadyBut(t, id, after) /\ id \in DOMAIN t.parents /\ DOMAIN t.parents = DOMAIN s.parents
    BY FinishedFacts
  <2> HIDE DEF t, id
  <2>2. Body(t, after)
    BY <2>1 DEF SteadyBut
  <2> QED BY <2>1, <2>2, BodyTypes
<1>2. IsParent(p) /\ s.parents = [x \in DOMAIN s.parents |-> s.parents[x]]
  BY <1>0, <1>1, BodyTypes DEF Body, WellFormed
<1>3. /\ t.ctl = [s.ctl EXCEPT ![ch] = d] /\ t.stats = s.stats /\ t.agenda = s.agenda
      /\ t.parents = [s.parents EXCEPT ![id].remaining = @ - 1, ![id].stages = access.stages]
  BY <1>0 DEF Finished, Typed, IsState
<1> HIDE DEF t
<1>4. t.parents = [s.parents EXCEPT ![id] = q]
  <2> HIDE DEF id
  <2> QED BY <1>1, <1>2, <1>3
<1>5. q.arrival = p.arrival /\ q.stages = access.stages
  <2>1. p = [txn |-> p.txn, admitted |-> p.admitted, remaining |-> p.remaining,
             arrival |-> p.arrival, stages |-> p.stages]
    BY <1>2 DEF IsParent
  <2> HIDE DEF p
  <2> QED BY <2>1
<1>6. d.queue = c.queue
  <2>1. c \in Controller
    BY <1>0, TimedIsController DEF Typed
  <2> HIDE DEF c
  <2> QED BY <2>1 DEF complete_access, Controller
<1> HIDE DEF q, d, id, ch
<1>7. \A x \in DOMAIN s.parents : t.parents[x].arrival = s.parents[x].arrival
  <2> SUFFICES ASSUME NEW x \in DOMAIN s.parents PROVE t.parents[x].arrival = s.parents[x].arrival
    OBVIOUS
  <2>1. CASE x = id
    BY <1>1, <1>4, <1>5, <2>1
  <2>2. CASE x # id
    BY <1>1, <1>4, <2>2
  <2> QED BY <2>1, <2>2
<1>8. \A k \in Channels : t.ctl[k].queue = s.ctl[k].queue
  <2> SUFFICES ASSUME NEW k \in Channels PROVE t.ctl[k].queue = s.ctl[k].queue
    OBVIOUS
  <2>0. s.ctl \in [Channels -> TimedController]
    BY <1>0 DEF Typed
  <2>1. CASE k = ch
    BY <1>0, <1>3, <1>6, <2>0, <2>1 DEF c
  <2>2. CASE k # ch
    BY <1>0, <1>3, <2>0, <2>2
  <2> QED BY <2>1, <2>2
<1>9. Dated(t)
  <2> DEFINE D == DOMAIN s.parents
  <2>1. OnlyOf(t, D) /\ Dated(s)
    BY <1>1 DEF Body, Known, OnlyOf, Held
  <2>2. \A x \in D : t.parents[x].arrival = s.parents[x].arrival
    BY <1>7
  <2>3. \A x \in DOMAIN t.parents : t.parents[x].arrival \in Past
    BY <1>1, <1>7, <2>1 DEF Dated
  <2>4. \A k \in Channels : QueueDated(s.parents, t.ctl[k].queue)
    BY <1>8, <2>1 DEF Dated
  <2> HIDE DEF D
  <2> QED BY <1>3, <2>1, <2>2, <2>3, <2>4, DatedAgain
<1>10. Tallied(t)
  <2>1. Queued(t) = Queued(s)
    <3>1. \A k \in Channels : Len(t.ctl[k].queue) = Len(s.ctl[k].queue)
      BY <1>8
    <3> QED BY <1>0, <1>1, <3>1, SameQueued DEF Typed
  <2> QED BY <1>1, <1>3, <2>1 DEF Held, Tallied
<1>11. t.parents[id].stages = access.stages
  BY <1>1, <1>4, <1>5
<1> QED BY <1>1, <1>7, <1>9, <1>10, <1>11 DEF Held, SameArrivals, id, t

\* A parent that leaves is recorded.
LEMMA HeldCompleted ==
  ASSUME NEW s, NEW id \in Ids, NEW limbo, SteadyBut(s, id, limbo), id \in DOMAIN s.parents,
         s.parents[id].remaining = 0, ~Unadmitted(s.parents[id]), Held(s),
         Breakdown(s.parents[id].stages, -s.parents[id].arrival)
  PROVE  LET t == Freed(Completed(s, id), id)
         IN  Body(t, limbo) /\ Held(t) /\ SameArrivals(s, t) /\ t.waiting = s.waiting
<1> DEFINE r == s.stats
           p == s.parents[id]
           entry == [id |-> id, latency |-> -p.arrival, stages |-> p.stages]
           x == [r EXCEPT !.completions = Append(r.completions, entry)]
           c == [s EXCEPT !.stats = x]
           t == Freed(c, id)
           n == Len(r.completions)
<1>0. Body(s, limbo) /\ Settled(s) /\ limbo \in Owing /\ Dated(s) /\ Tallied(s)
  BY DEF SteadyBut, Held
<1>1. Completed(s, id) = c
  BY RecordsAreKept DEF Completed
<1>2. p.arrival \in Int /\ Breakdown(p.stages, -p.arrival)
  BY <1>0 DEF Dated, Past
<1> HIDE DEF p
<1>3. entry \in Completion /\ entry.stages = p.stages /\ entry.latency = -p.arrival
  BY <1>2 DEF Completion, Breakdown
<1> HIDE DEF entry
<1>4. r \in Tally /\ r.completions \in Seq(Completion) /\ n \in Nat
  BY <1>0 DEF Tallied, Tally
<1>5. /\ x \in Tally /\ x.completions = Append(r.completions, entry) /\ x.modeled = r.modeled
      /\ x.physical = r.physical /\ x.merged = r.merged /\ x.submitted = r.submitted
  <2>1. Append(r.completions, entry) \in Seq(Completion)
    BY <1>3, <1>4
  <2> HIDE DEF r
  <2> QED BY <1>4, <2>1 DEF Tally
<1> HIDE DEF x, n
<1>6. /\ Body(c, limbo) /\ c.ctl = s.ctl /\ c.parents = s.parents /\ c.pending = s.pending
      /\ c.agenda = s.agenda /\ c.waiting = s.waiting
  BY <1>0, StatsReplaced
<1>7. c.stats = x
  BY <1>0, BodyTypes DEF IsState
<1> HIDE DEF c
<1>8. Settled(c)
  BY <1>0, <1>6 DEF Settled, Done
<1>9. /\ Body(t, limbo) /\ DOMAIN t.parents = DOMAIN s.parents \ {id} /\ t.ctl = s.ctl
      /\ \A y \in DOMAIN t.parents : t.parents[y] = s.parents[y]
      /\ t.agenda = s.agenda /\ t.waiting = s.waiting
  BY <1>0, <1>6, <1>8, ParentFreed
<1>10. t.stats = x
  BY <1>6, <1>7, BodyTypes DEF Freed, IsState
<1> HIDE DEF t
<1>11. SameArrivals(s, t)
  BY <1>9 DEF SameArrivals
<1>12. Dated(t)
  <2> DEFINE D == DOMAIN t.parents
  <2>1. OnlyOf(t, D)
    BY <1>9 DEF Body, Known, OnlyOf
  <2>2. \A y \in D : t.parents[y].arrival = s.parents[y].arrival /\ t.parents[y].arrival \in Past
    BY <1>0, <1>9 DEF Dated
  <2>3. \A k \in Channels : QueueDated(s.parents, t.ctl[k].queue)
    BY <1>0, <1>9 DEF Dated
  <2> HIDE DEF D
  <2>4. \A y \in DOMAIN t.parents : t.parents[y].arrival \in Past
    BY <2>2 DEF D
  <2> QED BY <1>0, <1>9, <2>1, <2>2, <2>3, <2>4, DatedAgain
<1>13. Tallied(t)
  <2>1. Queued(t) = Queued(s)
    BY <1>9 DEF Queued
  <2>2. x.modeled = x.physical + x.merged + Cardinality(Queued(t))
    BY <1>0, <1>5, <2>1 DEF Tallied
  <2>3. x.submitted = Len(x.completions) + Cardinality(DOMAIN t.parents)
    <3> DEFINE m == Cardinality(DOMAIN s.parents)
               k == Cardinality(DOMAIN t.parents)
    <3>1. IsFiniteSet(DOMAIN s.parents)
      BY <1>0 DEF Body, WellFormed
    <3>2. m \in Nat /\ k = m - 1
      BY <1>9, <3>1, FS_RemoveElement, FS_CardinalityType
    <3>3. r.submitted = n + m
      BY <1>0 DEF Tallied, n
    <3>4. Len(x.completions) = n + 1
      BY <1>3, <1>4, <1>5 DEF n
    <3> HIDE DEF m, k, r
    <3>5. x.submitted = Len(x.completions) + k
      BY <1>4, <1>5, <3>2, <3>3, <3>4
    <3> QED BY <3>5 DEF k
  <2>4. \A i \in 1 .. Len(x.completions) : Breakdown(x.completions[i].stages, x.completions[i].latency)
    <3> SUFFICES ASSUME NEW i \in 1 .. Len(x.completions)
                 PROVE  Breakdown(x.completions[i].stages, x.completions[i].latency)
      OBVIOUS
    <3>1. Len(x.completions) = n + 1 /\ x.completions[n + 1] = entry
          /\ \A j \in 1 .. n : x.completions[j] = r.completions[j]
      BY <1>3, <1>4, <1>5 DEF n
    <3>2. CASE i = n + 1
      <4>1. x.completions[i] = entry
        BY <3>1, <3>2
      <4> QED BY <1>2, <1>3, <4>1
    <3>3. CASE i # n + 1
      <4>1. i \in 1 .. n
        BY <1>4, <3>1, <3>3
      <4>2. x.completions[i] = r.completions[i]
        BY <3>1, <4>1
      <4>3. Breakdown(r.completions[i].stages, r.completions[i].latency)
        BY <1>0, <4>1 DEF Tallied, n
      <4> QED BY <4>2, <4>3
    <3> QED BY <3>2, <3>3
  <2> QED BY <1>5, <1>10, <2>2, <2>3, <2>4 DEF Tallied
<1> QED BY <1>1, <1>9, <1>11, <1>12, <1>13 DEF Held, t

\* An access finishes, and nobody answers.
LEMMA HeldFinish ==
  ASSUME NEW s, NEW limbo, Steady(s, limbo), Held(s), NEW access, IsFinish(access),
         access.reply = NoTransaction, access.retry = NoTransaction,
         NEW after \in Owing, Finishes(limbo, access.id, access.ch, after),
         Breakdown(access.stages, -s.parents[access.id].arrival)
  PROVE  LET t == finish_access(s, access)
         IN  Held(t) /\ SameArrivals(s, t) /\ t.waiting \in SUBSET s.waiting
<1> DEFINE id == access.id
           t == Finished(s, access)
           f == Freed(Completed(t, id), id)
           h == [f EXCEPT !.waiting = {}]
           z == finish_access(s, access)
<1>1. id \in Ids /\ access.ch \in Channels
  BY DEF IsFinish
<1>2. z = CompleteIfLast(t, id, NoTransaction, NoTransaction)
  BY DEF finish_access, Finished
<1>3. SteadyBut(t, id, after) /\ id \in DOMAIN t.parents /\ t.waiting = s.waiting
  BY <1>1, FinishedFacts
<1>4. Held(t) /\ SameArrivals(s, t) /\ t.parents[id].stages = access.stages
  BY <1>1, HeldFinished
<1> HIDE DEF t, z
<1>5. Breakdown(t.parents[id].stages, -t.parents[id].arrival)
  BY <1>3, <1>4 DEF SameArrivals
<1>6. CASE t.parents[id].remaining = 0 /\ ~Unadmitted(t.parents[id])
  <2>1. z = h
    BY <1>2, <1>6 DEF CompleteIfLast, complete_parent, Answered, Hinted
  <2> HIDE DEF id
  <2>2. Body(f, after) /\ Held(f) /\ SameArrivals(t, f)
    BY <1>1, <1>3, <1>4, <1>5, <1>6, HeldCompleted
  <2> HIDE DEF f
  <2>3. Persists(f, h) /\ h.parents = f.parents /\ h.waiting = {}
    BY <2>2, HeldHint, BodyIsTyped
  <2> HIDE DEF h
  <2> QED BY <1>4, <2>1, <2>2, <2>3 DEF Persists, SameArrivals, z
<1>7. CASE ~(t.parents[id].remaining = 0 /\ ~Unadmitted(t.parents[id]))
  <2>1. z = t
    BY <1>2, <1>7 DEF CompleteIfLast
  <2> QED BY <1>3, <1>4, <2>1 DEF z
<1> QED BY <1>6, <1>7

\* A completion event, whose accesses have the stages of the time to its own.
LEMMA HeldCompletionCallback ==
  ASSUME NEW s, NEW e, AtEventOf(s, e), e.kind = "complete", Held(s), IdsDated(s.parents, e.ids, e.stages, 0)
  PROVE  Persists(s, CompletionCallback(s, e, [k \in DOMAIN e.ids |-> NoTransaction], NoTransaction))
<1> DEFINE ids == e.ids
           ch == e.ch
           n == Len(ids)
           replies == [k \in DOMAIN ids |-> NoTransaction]
           seq == [k \in DOMAIN ids |-> [id |-> ids[k], ch |-> ch, stages |-> StagesAt(e, k),
                                         reply |-> replies[k], retry |-> NoTransaction]]
           X == {seq[k] : k \in DOMAIN ids}
<1>0. /\ e \in Event /\ InLimbo(ids, ch) \in Owing /\ Body(s, InLimbo(ids, ch))
      /\ Awaited(s) /\ Armed(s) /\ Settled(s) /\ MarkedBut(s, "complete", ch, 0)
  BY DEF AtEventOf
<1>1. ids \in Seq(Ids) /\ ch \in Channels /\ n \in Nat /\ DOMAIN ids = 1 .. n
  BY <1>0, EventTypes
<1>2. Steady(s, Left(ids, ch, 0))
  <2>1. Marked(s)
    BY <1>0, MarkedAll
  <2>2. Left(ids, ch, 0) = InLimbo(ids, ch)
    BY <1>1, LeftEnds
  <2> QED BY <1>0, <2>1, <2>2 DEF Steady
<1>3. CompletionCallback(s, e, replies, NoTransaction) = Finishing!Looped(s, seq)
  BY DEF CompletionCallback, FoldLeft, MapThenFoldSet, Max, Finishing!Looped
<1>d. \A k \in 1 .. n : Breakdown(e.stages[k], 0 - s.parents[ids[k]].arrival)
  BY DEF IdsDated
<1> HIDE DEF ids, ch
<1>4. /\ DOMAIN seq = 1 .. n /\ seq = [k \in 1 .. n |-> seq[k]]
      /\ \A k \in 1 .. n : /\ seq[k] \in X /\ seq[k].id = ids[k] /\ seq[k].ch = ch
                           /\ seq[k].stages = e.stages[k]
                           /\ seq[k].reply = NoTransaction /\ seq[k].retry = NoTransaction
  BY <1>1, RecordsAreKept DEF StagesAt
<1>5. \A k \in 1 .. n : ids[k] \in Ids
  BY <1>1
<1>6. \A k \in 1 .. n : IsFinish(seq[k])
  BY <1>1, <1>4, <1>5 DEF IsFinish, Reply, Resubmission
<1>7. seq \in Seq(X) /\ Len(seq) = n
  <2> HIDE DEF seq, X, n
  <2> QED BY <1>1, <1>4
<1> HIDE DEF seq, X
<1>8. PICK run : /\ run[0] = s
                 /\ \A k \in 1 .. n : run[k] = finish_access(run[k - 1], seq[k])
                 /\ run[n] = Finishing!Looped(s, seq)
  BY <1>7, Finishing!LoopRuns
<1> DEFINE S == {k \in 0 .. n : /\ Steady(run[k], Left(ids, ch, k)) /\ Held(run[k])
                                /\ SameArrivals(s, run[k]) /\ run[k].waiting \in SUBSET s.waiting}
<1>9. 0 \in S
  BY <1>1, <1>2, <1>8 DEF SameArrivals
<1>10. ASSUME NEW k \in 0 .. n - 1, k \in S PROVE k + 1 \in S
  <2>1. k + 1 \in 1 .. n /\ (k + 1) - 1 = k /\ k + 1 \in 0 .. n
    BY <1>1
  <2> DEFINE u == run[k]
             v == run[k + 1]
             id == ids[k + 1]
             access == seq[k + 1]
             before == Left(ids, ch, k)
             after == Left(ids, ch, k + 1)
  <2>2. v = finish_access(u, access)
    BY <1>8, <2>1
  <2>3. Steady(u, before) /\ Held(u) /\ SameArrivals(s, u) /\ u.waiting \in SUBSET s.waiting
    BY <1>10
  <2>4. /\ IsFinish(access) /\ access.id = id /\ access.ch = ch /\ access.stages = e.stages[k + 1]
        /\ access.reply = NoTransaction /\ access.retry = NoTransaction
    BY <1>4, <1>6, <2>1
  <2>5. after \in Owing /\ Finishes(before, id, ch, after) /\ id \in Ids
    BY <1>1, LeftFacts
  <2>6. Breakdown(e.stages[k + 1], 0 - s.parents[id].arrival)
    BY <1>d, <2>1
  <2> HIDE DEF u, v, id, access, before, after
  <2>7. id \in DOMAIN u.parents
    <3>1. before.owed[id] > 0
      <4>1. before.owed[id] = after.owed[id] + 1 /\ after.owed[id] \in Nat
        BY <2>5, OwingFacts DEF Finishes
      <4> QED BY <4>1
    <3> QED BY <2>3, <2>5, <3>1 DEF Steady, Body, Known
  <2>8. Breakdown(access.stages, -u.parents[access.id].arrival)
    <3> DEFINE x == s.parents[id].arrival
               y == u.parents[id].arrival
    <3>1. y = x /\ y \in Int
      BY <2>3, <2>7 DEF SameArrivals, Held, Dated, Past
    <3>2. Breakdown(e.stages[k + 1], 0 - x)
      BY <2>6
    <3> HIDE DEF x, y
    <3>3. 0 - x = -y
      BY <3>1
    <3>4. Breakdown(e.stages[k + 1], -y)
      BY <3>2, <3>3
    <3> QED BY <2>4, <3>4 DEF y
  <2>9. Steady(v, after)
    BY <2>2, <2>3, <2>4, <2>5, FinishAccessFacts
  <2>10. Held(v) /\ SameArrivals(u, v) /\ v.waiting \in SUBSET u.waiting
    BY <2>2, <2>3, <2>4, <2>5, <2>8, HeldFinish
  <2>11. SameArrivals(s, v) /\ v.waiting \in SUBSET s.waiting
    BY <2>3, <2>10 DEF SameArrivals
  <2> QED BY <2>1, <2>9, <2>10, <2>11 DEF v, after
<1>11. n \in S
  <2> HIDE DEF S, n
  <2>1. \A k \in 0 .. n : k \in S
    BY <1>1, <1>9, <1>10, UpTo
  <2> QED BY <1>1, <2>1
<1>12. Persists(s, run[n])
  BY <1>11 DEF Persists, SameArrivals
<1> QED BY <1>3, <1>8, <1>12 DEF ids, replies

-----------------------------------------------------------------------------
(* The clock.                                                              *)

\* A queue moves with the clock, and so do the arrivals of its parents.
LEMMA MovedQueue ==
  ASSUME NEW table, NEW later, NEW q, NEW r, NEW d \in Nat, SameEntries(q, r), Postponed(q, r, d), QueueDated(table, q),
         \A i \in 1 .. Len(q) : later[q[i].id].arrival = table[q[i].id].arrival - d
  PROVE  QueueDated(later, r)
<1> SUFFICES ASSUME NEW j \in 1 .. Len(r)
             PROVE  Noted(r[j]) /\ r[j].arrival = later[r[j].id].arrival
  BY DEF QueueDated
<1> DEFINE a == q[j]
           b == r[j]
<1>1. j \in 1 .. Len(q)
  BY DEF SameEntries
<1>2. Noted(a) /\ a.arrival = table[a.id].arrival /\ later[a.id].arrival = table[a.id].arrival - d
  BY <1>1 DEF QueueDated
<1>3. b.id = a.id /\ b.arrival = a.arrival - d /\ b.first_at = Later(a.first_at, d)
  BY <1>1 DEF SameEntries, Postponed
<1> HIDE DEF a, b
<1>4. b.arrival = later[b.id].arrival
  BY <1>2, <1>3
<1>5. Noted(b)
  <2>1. CASE a.first_at = None
    <3>1. b.first_at = None
      BY <1>3, <2>1 DEF Later
    <3> QED BY <1>2, <1>3, <3>1 DEF Noted, Past
  <2>2. CASE a.first_at # None
    <3>1. b.first_at = a.first_at - d
      BY <1>3, <2>2 DEF Later
    <3>2. a.first_at \in Past /\ a.arrival \in Past /\ a.arrival <= a.first_at
      BY <1>2, <2>2 DEF Noted
    <3> QED BY <1>3, <3>1, <3>2 DEF Noted, Past
  <2> QED BY <2>1, <2>2
<1> QED BY <1>4, <1>5 DEF b

\* The time from an arrival to an event is the same on every clock.
LEMMA MovedIds ==
  ASSUME NEW table, NEW later, NEW ids, NEW stages, NEW at \in Int, NEW d \in Int, IdsDated(table, ids, stages, at),
         \A k \in 1 .. Len(ids) : /\ table[ids[k]].arrival \in Int
                                  /\ later[ids[k]].arrival = table[ids[k]].arrival - d
  PROVE  IdsDated(later, ids, stages, at - d)
<1>1. ASSUME NEW k \in 1 .. Len(ids) PROVE Breakdown(stages[k], (at - d) - later[ids[k]].arrival)
  <2> DEFINE x == table[ids[k]].arrival
             y == later[ids[k]].arrival
  <2>1. x \in Int /\ y = x - d /\ Breakdown(stages[k], at - x)
    BY DEF IdsDated
  <2> HIDE DEF x, y
  <2>2. (at - d) - y = at - x
    BY <2>1
  <2>3. Breakdown(stages[k], (at - d) - y)
    BY <2>1, <2>2
  <2> QED BY <2>3 DEF y
<1> QED BY <1>1 DEF IdsDated

\* The arrivals move with the clock.
Aging(s, t, d) == /\ DOMAIN t.parents = DOMAIN s.parents
                  /\ \A id \in DOMAIN s.parents : t.parents[id].arrival = s.parents[id].arrival - d

\* Advance keeps the records.
LEMMA HeldAdvance ==
  ASSUME NEW s, NEW limbo, Body(s, limbo), NEW d \in Nat, \A i \in 1 .. Len(s.agenda) : d <= s.agenda[i].at, Held(s)
  PROVE  LET t == Advance(s, d)
         IN  Held(t) /\ Aging(s, t, d) /\ t.waiting = s.waiting
<1> DEFINE t == Advance(s, d)
           ctls == [ch \in Channels |-> Rebase(s.ctl[ch], d)]
           table == SinceArrival(s.parents, d)
           events == UntilEvent(s.agenda, d)
<1>0. /\ IsState(s) /\ s.ctl \in [Channels -> TimedController] /\ s.agenda \in Seq(Event)
      /\ \A id \in DOMAIN s.parents : IsParent(s.parents[id])
      /\ \A i \in 1 .. Len(s.agenda) : s.agenda[i] \in Event
  BY BodyTypes
<1>1. Dated(s) /\ Tallied(s)
  BY DEF Held
<1>2. Moved(s, t, d)
  BY AdvanceMoves
<1>3. t = [s EXCEPT !.ctl = ctls, !.parents = table, !.agenda = events]
  BY DEF Advance
<1>4. Aging(s, [parents |-> table], d)
  <2>1. table = [id \in DOMAIN s.parents |-> [s.parents[id] EXCEPT !.arrival = s.parents[id].arrival - d]]
    BY RecordsAreKept DEF SinceArrival
  <2> HIDE DEF table
  <2>2. ASSUME NEW id \in DOMAIN s.parents PROVE table[id].arrival = s.parents[id].arrival - d
    <3> DEFINE p == s.parents[id]
               late == p.arrival - d
               q == [p EXCEPT !.arrival = late]
    <3>1. table[id] = q
      BY <2>1
    <3>2. IsParent(p)
      BY <1>0
    <3> HIDE DEF p, late
    <3>3. q.arrival = late
      BY <3>2 DEF IsParent
    <3> HIDE DEF q
    <3> QED BY <3>1, <3>3 DEF late, p
  <2> QED BY <2>1, <2>2 DEF Aging
<1>5. /\ Len(t.agenda) = Len(s.agenda) /\ DOMAIN s.agenda = 1 .. Len(s.agenda)
      /\ \A ch \in Channels : SameEntries(s.ctl[ch].queue, t.ctl[ch].queue)
  BY <1>0, <1>2 DEF Moved, SameEvents, SameChannel
<1> HIDE DEF ctls, table, events, t
<1>6. /\ t.ctl = ctls /\ t.parents = table /\ t.agenda = events
      /\ t.stats = s.stats /\ t.waiting = s.waiting
  BY <1>0, <1>3 DEF IsState
<1>7. Aging(s, t, d)
  BY <1>4, <1>6 DEF Aging
<1>8. Known(s, limbo)
  BY DEF Body
<1>9. ASSUME NEW ch \in Channels PROVE QueueDated(t.parents, t.ctl[ch].queue)
  <2> DEFINE q == s.ctl[ch].queue
             r == t.ctl[ch].queue
  <2>1. SameEntries(q, r) /\ QueueDated(s.parents, q)
    BY <1>1, <1>5 DEF Dated
  <2>2. Postponed(q, r, d)
    <3>1. s.ctl[ch] \in Controller /\ d \in Int
      BY <1>0, TimedIsController
    <3>2. Postponed(q, Rebase(s.ctl[ch], d).queue, d)
      BY <3>1, RecordsAreKept, RebaseFacts
    <3>3. t.ctl[ch] = Rebase(s.ctl[ch], d)
      BY <1>6 DEF ctls
    <3> QED BY <3>2, <3>3
  <2>3. \A i \in 1 .. Len(q) : q[i].id \in DOMAIN s.parents
    BY <1>8 DEF Known
  <2> HIDE DEF q, r
  <2>4. \A i \in 1 .. Len(q) : t.parents[q[i].id].arrival = s.parents[q[i].id].arrival - d
    BY <1>7, <2>3 DEF Aging
  <2>5. QueueDated(t.parents, r)
    BY <2>1, <2>2, <2>4, MovedQueue
  <2> QED BY <2>5 DEF r
<1>10. ASSUME NEW i \in 1 .. Len(t.agenda)
       PROVE  IdsDated(t.parents, t.agenda[i].ids, t.agenda[i].stages, t.agenda[i].at)
  <2> DEFINE e == s.agenda[i]
             f == t.agenda[i]
             late == e.at - d
  <2>1. i \in 1 .. Len(s.agenda) /\ e \in Event
    BY <1>0, <1>5
  <2>2. f = [e EXCEPT !.at = late]
    BY <1>5, <1>6, <2>1 DEF events, UntilEvent
  <2>3. IdsDated(s.parents, e.ids, e.stages, e.at) /\ \A k \in 1 .. Len(e.ids) : e.ids[k] \in DOMAIN s.parents
    BY <1>1, <1>8, <2>1 DEF Dated, Known
  <2> HIDE DEF e, f, late
  <2>4. f.ids = e.ids /\ f.stages = e.stages /\ f.at = late
    BY <2>1, <2>2 DEF Event, EventRecord
  <2>5. e.at \in Int /\ d \in Int
    BY <2>1, EventTypes
  <2>6. \A k \in 1 .. Len(e.ids) : /\ s.parents[e.ids[k]].arrival \in Int
                                   /\ t.parents[e.ids[k]].arrival = s.parents[e.ids[k]].arrival - d
    BY <1>1, <1>7, <2>3 DEF Aging, Dated, Past
  <2>7. IdsDated(t.parents, e.ids, e.stages, e.at - d)
    BY <2>3, <2>5, <2>6, MovedIds
  <2> QED BY <2>4, <2>7 DEF f, late
<1>11. ASSUME NEW id \in DOMAIN t.parents PROVE t.parents[id].arrival \in Past
  <2>1. s.parents[id].arrival \in Past /\ t.parents[id].arrival = s.parents[id].arrival - d
    BY <1>1, <1>7 DEF Aging, Dated
  <2> QED BY <2>1 DEF Past
<1>12. Dated(t)
  BY <1>9, <1>10, <1>11 DEF Dated
<1>13. Tallied(t)
  <2>1. Queued(t) = Queued(s)
    <3>1. \A k \in Channels : Len(t.ctl[k].queue) = Len(s.ctl[k].queue)
      BY <1>5 DEF SameEntries
    <3>2. t.ctl \in [Channels -> TimedController]
      BY <1>2 DEF Moved
    <3> QED BY <1>0, <3>1, <3>2, SameQueued
  <2>2. DOMAIN t.parents = DOMAIN s.parents
    BY <1>7 DEF Aging
  <2> QED BY <1>1, <1>6, <2>1, <2>2 DEF Tallied
<1> QED BY <1>6, <1>7, <1>12, <1>13 DEF Held, t

\* When an event has been taken, what it completes is dated.
LEMMA HeldAtEvent ==
  ASSUME IInv, agenda # <<>>, Held(State)
  PROVE  LET t == AtEvent
             e == agenda[1]
         IN  /\ Held(t) /\ IdsDated(t.parents, e.ids, e.stages, 0)
             /\ DOMAIN t.parents = DOMAIN parents /\ t.waiting = waiting
<1> DEFINE e == agenda[1]
           d == e.at
           limbo == InLimbo(e.ids, e.ch)
           s == [State EXCEPT !.agenda = Tail(@)]
           t == Advance(s, d)
<1>0. /\ agenda \in Seq(Event) /\ Sorted(agenda) /\ e \in Event
      /\ Tail(agenda) \in Seq(Event) /\ Len(agenda) \in Nat /\ Len(agenda) > 0 /\ Len(Tail(agenda)) = Len(agenda) - 1
      /\ \A k \in 1 .. Len(Tail(agenda)) : Tail(agenda)[k] = agenda[k + 1]
  BY Invariant, TailInserts
<1>1. d \in Nat /\ e.ids \in Seq(Ids)
  BY <1>0, EventTypes
<1>2. limbo \in Limbo /\ Delivers(limbo, e.ids, e.ch, Nobody)
  BY <1>1, InLimboFacts, OwingFacts
<1>3. Body(s, limbo) /\ SameBut(State, s) /\ s.agenda = Tail(agenda)
  BY <1>2, Invariant, EventTaken
<1>4. s.stats = State.stats
  BY DEF State
<1> HIDE DEF s, limbo, d
<1>5. \A i \in 1 .. Len(s.agenda) : /\ s.agenda[i] = agenda[i + 1] /\ i + 1 \in 1 .. Len(agenda)
                                    /\ d <= s.agenda[i].at
  <2> SUFFICES ASSUME NEW i \in 1 .. Len(s.agenda)
               PROVE  s.agenda[i] = agenda[i + 1] /\ i + 1 \in 1 .. Len(agenda) /\ d <= s.agenda[i].at
    OBVIOUS
  <2>1. /\ s.agenda[i] = agenda[i + 1] /\ i + 1 \in 1 .. Len(agenda) /\ 1 \in 1 .. Len(agenda) /\ 1 < i + 1
    BY <1>0, <1>3
  <2>2. agenda[1].at <= agenda[i + 1].at
    BY <1>0, <2>1 DEF Sorted
  <2> QED BY <2>1, <2>2 DEF d
<1>6. Dated(State) /\ Tallied(State) /\ State.agenda = agenda /\ State.parents = parents /\ State.waiting = waiting
  BY Invariant DEF Held
<1>7. Held(s)
  <2>1. \A i \in 1 .. Len(s.agenda) : IdsDated(State.parents, s.agenda[i].ids, s.agenda[i].stages, s.agenda[i].at)
    BY <1>5, <1>6 DEF Dated
  <2>2. Dated(s)
    BY <1>3, <1>6, <2>1 DEF Dated, SameBut
  <2>3. Tallied(s)
    BY <1>3, <1>4, <1>6 DEF Tallied, SameBut, Queued
  <2> QED BY <2>2, <2>3 DEF Held
<1>8. Held(t) /\ Aging(s, t, d) /\ t.waiting = s.waiting
  BY <1>1, <1>3, <1>5, <1>7, HeldAdvance
<1>9. AtEvent = t
  BY DEF AtEvent, s, d
<1>10. IdsDated(s.parents, e.ids, e.stages, d) /\ \A k \in 1 .. Len(e.ids) : e.ids[k] \in DOMAIN s.parents
  <2>1. 1 \in 1 .. Len(agenda) /\ s.parents = State.parents
    BY <1>0, <1>3 DEF SameBut
  <2>2. Known(State, Nobody)
    BY Invariant DEF Body
  <2> QED BY <1>6, <2>1, <2>2 DEF Dated, Known, d
<1> HIDE DEF t, e
<1>11. IdsDated(t.parents, e.ids, e.stages, 0)
  <2>1. \A k \in 1 .. Len(e.ids) : /\ s.parents[e.ids[k]].arrival \in Int
                                   /\ t.parents[e.ids[k]].arrival = s.parents[e.ids[k]].arrival - d
    BY <1>7, <1>8, <1>10 DEF Aging, Held, Dated, Past
  <2>2. d \in Int /\ d - d = 0
    BY <1>1
  <2>3. IdsDated(t.parents, e.ids, e.stages, d - d)
    BY <1>10, <2>1, <2>2, MovedIds
  <2> QED BY <2>2, <2>3
<1>12. DOMAIN t.parents = DOMAIN parents /\ t.waiting = waiting
  BY <1>3, <1>6, <1>8 DEF Aging, SameBut
<1> QED BY <1>8, <1>9, <1>11, <1>12 DEF e

-----------------------------------------------------------------------------
(* Every step keeps the records.                                           *)

\* A record of the state that the step stores has the records.
LEMMA HeldStored ==
  ASSUME NEW t, IsState(t), Held(t), Become(t)
  PROVE  Held(State)'
<1>1. State' = t
  BY DEF Become, State, IsState
<1>2. Held(State)' <=> Held(State')
  OBVIOUS
<1> QED BY <1>1, <1>2

\* One event of any kind.
LEMMA EventKeepsRecords ==
  ASSUME IInv, Held(State), RunWake \/ RunRefresh \/ RunCapacity \/ RunCompletionOfReplay
  PROVE  /\ IInv' /\ Held(State)' /\ agenda # <<>>
         /\ DOMAIN parents' \in SUBSET DOMAIN parents /\ waiting' \in SUBSET waiting
<1> DEFINE e == agenda[1]
           replies == [k \in DOMAIN e.ids |-> NoTransaction]
           Ran(t) == Steady(t, Nobody) /\ Persists(AtEvent, t) /\ Become(t)
<1>0. agenda # <<>>
  BY DEF RunWake, RunRefresh, RunCapacity, RunCompletionOfReplay, Dispatch, TakeTurn
<1>1. /\ Held(AtEvent) /\ IdsDated(AtEvent.parents, e.ids, e.stages, 0)
      /\ DOMAIN AtEvent.parents = DOMAIN parents /\ AtEvent.waiting = waiting
  BY <1>0, HeldAtEvent
<1>2. ASSUME NEW t, Ran(t)
      PROVE  /\ IInv' /\ Held(State)'
             /\ DOMAIN parents' \in SUBSET DOMAIN parents /\ waiting' \in SUBSET waiting
  <2>1. IsState(t)
    BY <1>2, BodyTypes DEF Steady
  <2>2. IInv'
    BY <1>2, Stored
  <2>3. Held(t)
    BY <1>2 DEF Persists
  <2>4. Held(State)'
    BY <1>2, <2>1, <2>3, HeldStored
  <2>5. parents' = t.parents /\ waiting' = t.waiting
    BY <1>2 DEF Become
  <2> QED BY <1>1, <1>2, <2>2, <2>4, <2>5 DEF Persists
<1> HIDE DEF e
<1>3. CASE RunWake
  <2>1. AtEventOf(AtEvent, e) /\ e.kind = "wake" /\ Become(WakeCallback(AtEvent, e.ch))
    BY <1>3, DispatchFacts DEF RunWake, e
  <2>2. Ran(WakeCallback(AtEvent, e.ch))
    BY <1>1, <2>1, WakeCallbackFacts, HeldWakeCallback
  <2> HIDE DEF Ran
  <2> QED BY <1>0, <1>2, <2>2
<1>4. CASE RunRefresh
  <2>1. AtEventOf(AtEvent, e) /\ e.kind = "refresh" /\ Become(RefreshCallback(AtEvent, e.ch))
    BY <1>4, DispatchFacts DEF RunRefresh, e
  <2>2. Ran(RefreshCallback(AtEvent, e.ch))
    BY <1>1, <2>1, RefreshCallbackFacts, HeldRefreshCallback
  <2> HIDE DEF Ran
  <2> QED BY <1>0, <1>2, <2>2
<1>5. CASE RunCapacity
  <2>1. AtEventOf(AtEvent, e) /\ e.kind = "capacity" /\ Become([AtEvent EXCEPT !.waiting = {}])
    BY <1>5, DispatchFacts DEF RunCapacity, e
  <2>2. Ran([AtEvent EXCEPT !.waiting = {}])
    BY <1>1, <2>1, CapacityCallbackFacts, HeldCapacityCallback
  <2> HIDE DEF Ran
  <2> QED BY <1>0, <1>2, <2>2
<1>6. CASE RunCompletionOfReplay
  <2>1. AtEventOf(AtEvent, e) /\ e.kind = "complete" /\ Become(CompletionCallback(AtEvent, e, replies, NoTransaction))
    BY <1>6, DispatchFacts DEF RunCompletionOfReplay, e
  <2>2. replies \in [DOMAIN e.ids -> Reply] /\ NoTransaction \in Resubmission
    BY DEF Reply, Resubmission
  <2>3. Steady(CompletionCallback(AtEvent, e, replies, NoTransaction), Nobody)
    <3> HIDE DEF replies
    <3> QED BY <2>1, <2>2, CompletionCallbackFacts
  <2>4. Persists(AtEvent, CompletionCallback(AtEvent, e, replies, NoTransaction))
    BY <1>1, <2>1, HeldCompletionCallback
  <2>5. Ran(CompletionCallback(AtEvent, e, replies, NoTransaction))
    BY <2>1, <2>3, <2>4
  <2> HIDE DEF Ran, replies
  <2> QED BY <1>0, <1>2, <2>5
<1> QED BY <1>3, <1>4, <1>5, <1>6

-----------------------------------------------------------------------------
(* The replay.                                                             *)

\* The active transactions are of lines that were read, and only the present line
\* waits.  No line is submitted before its arrival.
Replaying ==
    /\ trace \in Traces /\ line \in Nat /\ clock \in Nat
    /\ DOMAIN parents \in SUBSET (1 .. line - 1)
    /\ waiting \in SUBSET {line}
    /\ waiting # {} => phase \in {"wait", "error"}
    /\ phase \in {"run_until", "wait"} => line \in DOMAIN trace
    /\ phase = "run_until" => clock <= Arrival
    /\ phase = "wait" => Arrival <= clock

ReplayInvariant == IInv /\ Held(State) /\ Replaying

\* Nothing has arrived, waits or is counted at first.
LEMMA ReplayInitFacts ==
  ASSUME ReplayInit
  PROVE  ReplayInvariant
<1> DEFINE s == State
<1>1. /\ s.ctl = [ch \in Channels |-> NewController] /\ s.parents = [id \in {} |-> 0]
      /\ s.agenda = <<>>
      /\ s.stats = [submitted |-> 0, modeled |-> 0, physical |-> 0, merged |-> 0, completions |-> <<>>]
      /\ parents = [id \in {} |-> 0] /\ waiting = {} /\ trace \in Traces /\ line = 1 /\ phase = "read" /\ clock = 0
  BY DEF ReplayInit, Init, State
<1>2. IInv
  BY InitFacts DEF ReplayInit
<1> HIDE DEF s
<1>3. DOMAIN s.parents = {} /\ Len(s.agenda) = 0 /\ \A ch \in Channels : s.ctl[ch].queue = <<>>
  BY <1>1, NewControllerFacts
<1>4. Len(<<>>) = 0 /\ 1 .. 0 = {} /\ Cardinality({}) = 0
  BY FS_EmptySet
<1>5. Dated(s)
  BY <1>3, <1>4 DEF Dated, QueueDated
<1>6. Queued(s) = {}
  BY <1>3 DEF Queued
<1>7. s.stats \in Tally
  <2>1. <<>> \in Seq(Completion)
    OBVIOUS
  <2> QED BY <1>1, <2>1 DEF Tally
<1>8. Tallied(s)
  BY <1>1, <1>3, <1>4, <1>6, <1>7 DEF Tallied
<1>9. Replaying
  BY <1>1 DEF Replaying
<1> QED BY <1>2, <1>5, <1>8, <1>9 DEF ReplayInvariant, Held, s

\* Submitting the line, d after the last event and at or after its arrival.
LEMMA SubmitLineKeeps ==
  ASSUME ReplayInvariant, NEW d \in Nat, SubmitLine(d), waiting = {}, line \in DOMAIN trace,
         agenda # <<>> => d <= agenda[1].at, Arrival <= clock + d
  PROVE  ReplayInvariant'
<1> DEFINE s == Advance(State, d)
           txn == trace[line].txn
           arrival == Arrival - (clock + d)
           t == try_submit_now(s, line, txn, arrival)
<1>0. /\ IInv /\ Held(State) /\ trace \in Traces /\ line \in Nat /\ clock \in Nat
      /\ DOMAIN parents \in SUBSET (1 .. line - 1)
  BY DEF ReplayInvariant, Replaying
<1>1. line \in Ids /\ txn \in Transactions /\ Arrival \in Nat
  BY <1>0, ReplayAssumption DEF Arrival
<1>2. arrival \in Past
  BY <1>0, <1>1 DEF Past
<1>3. /\ Become(t) /\ clock' = clock + d /\ trace' = trace
      /\ IF line \in waiting' THEN phase' = "wait" /\ line' = line ELSE phase' = "read" /\ line' = line + 1
  BY DEF SubmitLine
<1> HIDE DEF txn, arrival
<1>4. /\ Steady(s, Nobody) /\ DOMAIN s.parents = DOMAIN parents /\ s.waiting = {}
  BY <1>0, SubmitTimeFacts DEF Steady, Sound, Owing
<1>5. Held(s)
  <2>1. Body(State, Nobody) /\ State.agenda = agenda /\ agenda \in Seq(Event) /\ Sorted(agenda)
    BY <1>0, Invariant
  <2>2. \A i \in 1 .. Len(State.agenda) : d <= State.agenda[i].at
    <3> SUFFICES ASSUME NEW i \in 1 .. Len(agenda) PROVE d <= agenda[i].at
      BY <2>1
    <3>1. 1 \in 1 .. Len(agenda) /\ agenda # <<>> /\ i \in Nat
      BY <2>1
    <3>2. agenda[1].at \in Nat /\ agenda[i].at \in Nat
      BY <2>1, <3>1, EventTypes
    <3>3. CASE i = 1
      BY <3>1, <3>3
    <3>4. CASE i # 1
      <4>1. 1 < i
        BY <3>4
      <4>2. agenda[1].at <= agenda[i].at
        BY <2>1, <3>1, <4>1 DEF Sorted
      <4> QED BY <3>1, <3>2, <4>2
    <3> QED BY <3>3, <3>4
  <2> QED BY <1>0, <2>1, <2>2, HeldAdvance
<1> HIDE DEF s
<1>6. line \notin DOMAIN s.parents /\ line \notin s.waiting
  BY <1>0, <1>4
<1>7. /\ Held(t)
      /\ \/ DOMAIN t.parents = DOMAIN s.parents \cup {line} /\ t.waiting = s.waiting
         \/ DOMAIN t.parents = DOMAIN s.parents /\ t.waiting = s.waiting \cup {line}
  BY <1>1, <1>2, <1>4, <1>5, <1>6, HeldSubmit
<1>8. Steady(t, Nobody)
  <2>1. arrival \in Int
    BY <1>2 DEF Past
  <2> QED BY <1>1, <1>4, <1>6, <2>1, SubmitNowFacts
<1> HIDE DEF t
<1>9. IInv' /\ Held(State)'
  <2>1. IsState(t)
    BY <1>8, BodyTypes DEF Steady
  <2> QED BY <1>3, <1>7, <1>8, <2>1, Stored, HeldStored
<1>10. parents' = t.parents /\ waiting' = t.waiting
  BY <1>3 DEF Become
<1>11. CASE DOMAIN t.parents = DOMAIN s.parents \cup {line} /\ t.waiting = s.waiting
  <2>1. waiting' = {} /\ DOMAIN parents' = DOMAIN parents \cup {line}
    BY <1>4, <1>10, <1>11
  <2>2. phase' = "read" /\ line' = line + 1
    BY <1>3, <2>1
  <2>3. DOMAIN parents' \in SUBSET (1 .. line' - 1)
    BY <1>0, <2>1, <2>2, ReplayAssumption
  <2>4. clock' \in Nat /\ line' \in Nat /\ trace' \in Traces
    BY <1>0, <1>3, <2>2
  <2> QED BY <1>9, <2>1, <2>2, <2>3, <2>4 DEF ReplayInvariant, Replaying
<1>12. CASE DOMAIN t.parents = DOMAIN s.parents /\ t.waiting = s.waiting \cup {line}
  <2>1. waiting' = {line} /\ DOMAIN parents' = DOMAIN parents
    BY <1>4, <1>10, <1>12
  <2>2. phase' = "wait" /\ line' = line
    BY <1>3, <2>1
  <2>3. Arrival' = Arrival /\ clock' \in Nat
    BY <1>0, <1>3, <2>2 DEF Arrival
  <2> QED BY <1>0, <1>3, <1>9, <2>1, <2>2, <2>3 DEF ReplayInvariant, Replaying
<1> QED BY <1>7, <1>11, <1>12

\* An event that runs: run_until runs none later than the arrival, and a hint ends the wait.
LEMMA RunEventKeeps ==
  ASSUME ReplayInvariant, RunEvent, phase \in {"run_until", "wait", "run"}, phase = "run_until" => EventIsDue
  PROVE  ReplayInvariant'
<1>0. /\ IInv /\ Held(State) /\ trace \in Traces /\ line \in Nat /\ clock \in Nat
      /\ DOMAIN parents \in SUBSET (1 .. line - 1) /\ waiting \in SUBSET {line}
      /\ waiting # {} => phase \in {"wait", "error"}
      /\ phase \in {"run_until", "wait"} => line \in DOMAIN trace
      /\ phase = "wait" => Arrival <= clock
  BY DEF ReplayInvariant, Replaying
<1>1. clock' = clock + agenda[1].at /\ trace' = trace /\ line' = line /\ phase' = phase /\ Arrival' = Arrival
  BY DEF RunEvent, Arrival
<1>2. /\ IInv' /\ Held(State)' /\ agenda # <<>>
      /\ DOMAIN parents' \in SUBSET DOMAIN parents /\ waiting' \in SUBSET waiting
  BY <1>0, EventKeepsRecords DEF RunEvent
<1>3. agenda[1].at \in Nat
  <2>1. agenda \in Seq(Event)
    BY <1>0, Invariant
  <2> QED BY <1>2, <2>1, EventTypes
<1>4. clock' \in Nat
  BY <1>0, <1>1, <1>3
<1>5. phase = "run_until" => clock' <= Arrival
  BY <1>1 DEF EventIsDue
<1>6. phase = "wait" => Arrival <= clock'
  <2>1. phase = "wait" => Arrival \in Nat
    BY <1>0, ReplayAssumption DEF Arrival
  <2> QED BY <1>0, <1>1, <1>3, <2>1
<1>7. DOMAIN parents' \in SUBSET (1 .. line - 1) /\ waiting' \in SUBSET {line}
      /\ (waiting' # {} => phase \in {"wait", "error"})
  BY <1>0, <1>2
<1> QED BY <1>0, <1>1, <1>2, <1>4, <1>5, <1>6, <1>7 DEF ReplayInvariant, Replaying

\* A step of main that leaves the system as it is.
LEMMA PhaseKeeps ==
  ASSUME ReplayInvariant, UNCHANGED <<vars, trace, line, clock>>, waiting # {} => phase' = "error" \/ phase' = phase,
         phase' \in {"run_until", "wait"} => line \in DOMAIN trace,
         phase' = "run_until" => clock <= Arrival, phase' = "wait" => Arrival <= clock
  PROVE  ReplayInvariant'
<1>1. State' = State /\ Arrival' = Arrival /\ parents' = parents /\ waiting' = waiting
      /\ UNCHANGED <<trace, line, clock>> /\ UNCHANGED <<ctl, parents, pending, agenda, waiting, stats>>
  BY DEF vars, State, Arrival
<1>2. IInv'
  BY <1>1, StateKeeps DEF ReplayInvariant
<1>3. Held(State)'
  BY <1>1 DEF ReplayInvariant
<1> QED BY <1>1, <1>2, <1>3 DEF ReplayInvariant, Replaying

\* Every step of the replay keeps the records and its own place.
THEOREM ReplayInvariantKept ==
  ASSUME ReplayInvariant, [ReplayNext]_<<vars, replayVars>>
  PROVE  ReplayInvariant'
<1>0. /\ IInv /\ trace \in Traces /\ line \in Nat /\ clock \in Nat
      /\ waiting # {} => phase \in {"wait", "error"}
      /\ phase \in {"run_until", "wait"} => line \in DOMAIN trace
      /\ phase = "run_until" => clock <= Arrival
      /\ phase = "wait" => Arrival <= clock
  BY DEF ReplayInvariant, Replaying
<1>1. line \in DOMAIN trace => Arrival \in Nat
  BY <1>0, ReplayAssumption DEF Arrival
<1>2. agenda # <<>> => 0 <= agenda[1].at /\ agenda[1].at \in Nat
  <2>1. agenda \in Seq(Event)
    BY <1>0, Invariant
  <2> QED BY <2>1, EventTypes
<1>3. CASE ReadLine
  BY <1>0, <1>1, <1>3, PhaseKeeps DEF ReadLine
<1>4. CASE ReadLateLine
  <2>1. waiting = {} /\ line \in DOMAIN trace /\ Arrival <= clock + 0 /\ SubmitLine(0)
    BY <1>0, <1>1, <1>4 DEF ReadLateLine
  <2> QED BY <1>2, <2>1, SubmitLineKeeps
<1>5. CASE RunUntilArrival
  BY <1>5, RunEventKeeps DEF RunUntilArrival
<1>6. CASE SubmitAtArrival
  <2> DEFINE d == Arrival - clock
  <2>1. waiting = {} /\ line \in DOMAIN trace /\ clock <= Arrival /\ Arrival \in Nat /\ SubmitLine(d) /\ ~EventIsDue
    BY <1>0, <1>1, <1>6 DEF SubmitAtArrival
  <2>2. d \in Nat /\ Arrival <= clock + d
    BY <1>0, <2>1
  <2>3. agenda # <<>> => d <= agenda[1].at
    BY <1>0, <1>2, <2>1 DEF EventIsDue
  <2> HIDE DEF d
  <2> QED BY <2>1, <2>2, <2>3, SubmitLineKeeps
<1>7. CASE RunForCapacity
  BY <1>7, RunEventKeeps DEF RunForCapacity
<1>8. CASE Retry
  <2>1. waiting = {} /\ line \in DOMAIN trace /\ Arrival <= clock + 0 /\ SubmitLine(0)
    BY <1>0, <1>1, <1>8 DEF Retry
  <2> QED BY <1>2, <2>1, SubmitLineKeeps
<1>9. CASE Throw
  BY <1>9, PhaseKeeps DEF Throw
<1>10. CASE RunToTheEnd
  BY <1>0, <1>10, PhaseKeeps DEF RunToTheEnd
<1>11. CASE RunLast
  BY <1>11, RunEventKeeps DEF RunLast
<1>12. CASE Exit
  BY <1>0, <1>12, PhaseKeeps DEF Exit
<1>13. CASE UNCHANGED <<vars, replayVars>>
  BY <1>0, <1>13, PhaseKeeps DEF replayVars
<1> QED BY <1>3, <1>4, <1>5, <1>6, <1>7, <1>8, <1>9, <1>10, <1>11, <1>12, <1>13 DEF ReplayNext, Returned

\* The records and the replay's place in the trace are right in every state it reaches.
THEOREM ReplayInvariantHolds == ReplaySpec => []ReplayInvariant
<1>1. ReplayInit => ReplayInvariant
  BY ReplayInitFacts
<1>2. ReplayInvariant /\ [ReplayNext]_<<vars, replayVars>> => ReplayInvariant'
  BY ReplayInvariantKept
<1> QED BY <1>1, <1>2, PTL DEF ReplaySpec

-----------------------------------------------------------------------------
(* The theorems.                                                           *)

\* A stage is one of five.
LEMMA StageFields ==
  ASSUME NEW stages \in Stage
  PROVE  DOMAIN stages = {"queue_wait", "command_phase", "data_ready", "data_bus_wait", "data_service"}
BY DEF Stage

\* The stages of a completion partition its latency: its wait in the queue until the first
\* command for it, the commands, the device's latency, the wait for the bus and the
\* transfer (completion of the access that finished last, hbm_system.cpp), however often the
\* line was refused and whichever access's transfer it was merged into.
THEOREM LatencyAlwaysPartitioned == ReplaySpec => []LatencyIsPartitioned
<1>1. ReplayInvariant => LatencyIsPartitioned
  <2> SUFFICES ASSUME ReplayInvariant, NEW i \in DOMAIN stats.completions
               PROVE  LET completion == stats.completions[i]
                      IN  /\ Total(completion.stages) = completion.latency
                          /\ \A stage \in DOMAIN completion.stages : completion.stages[stage] >= 0
    BY DEF LatencyIsPartitioned
  <2>1. Tallied(State) /\ State.stats = stats
    BY DEF ReplayInvariant, Held, State
  <2>2. stats.completions \in Seq(Completion)
    BY <2>1 DEF Tallied, Tally
  <2>3. Breakdown(stats.completions[i].stages, stats.completions[i].latency)
    BY <2>1, <2>2 DEF Tallied
  <2> QED BY <2>3, StageFields DEF Breakdown
<1> QED BY <1>1, ReplayInvariantHolds, PTL

\* The counters account for every access and transaction: a modeled access is a physical
\* transfer, was merged into one, or is queued; a submitted transaction is completed or
\* active (they are counted in different functions).
THEOREM StatsAlwaysAgree == ReplaySpec => []StatsAgree
<1>1. ReplayInvariant => StatsAgree
  BY DEF ReplayInvariant, Held, Tallied, StatsAgree, State
<1> QED BY <1>1, ReplayInvariantHolds, PTL

=============================================================================
