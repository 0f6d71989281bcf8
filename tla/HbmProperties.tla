--------------------------- MODULE HbmProperties ---------------------------
(***************************************************************************)
(* What makes HbmSystem and its controllers correct.                       *)
(***************************************************************************)
EXTENDS HbmSystem

TypeOK ==
    /\ DOMAIN parents \subseteq Ids /\ waiting \subseteq Ids \ DOMAIN parents
    /\ \A id \in DOMAIN parents :
           /\ parents[id].txn \in Transactions
           /\ parents[id].admitted \in 0 .. Len(parents[id].txn.accesses)
    /\ \A ch \in Channels :
           /\ ctl[ch].wakeup_at \in Nat \cup {None}
           /\ ctl[ch].refresh_due_at \in Nat \cup {None}
    /\ \A i \in DOMAIN agenda : agenda[i].at \in Nat

-----------------------------------------------------------------------------
(* Admission and completion.                                                *)

\* The accesses that are queued, and those in flight to their completion event, as
\* their places in the queues and in the agenda.
Queued(s)   == UNION {{<<ch, i>> : i \in DOMAIN s.ctl[ch].queue} : ch \in Channels}
InFlight(s) == UNION {{<<i, k>> : k \in DOMAIN s.agenda[i].ids} : i \in DOMAIN s.agenda}
IdQueued(s, x)   == s.ctl[x[1]].queue[x[2]].id
IdInFlight(s, x) == s.agenda[x[1]].ids[x[2]]

\* How many accesses a parent has, and a channel, that are queued or in flight.
LiveOf(s, id) == Cardinality({x \in Queued(s) : IdQueued(s, x) = id})
                 + Cardinality({x \in InFlight(s) : IdInFlight(s, x) = id})
LiveOn(s, ch) == Cardinality({x \in Queued(s) : x[1] = ch})
                 + Cardinality({x \in InFlight(s) : s.agenda[x[1]].ch = ch})

\* Every admitted access is queued or in flight exactly once, through merging
\* and id reuse from callbacks, until its completion is counted: the parent's
\* and the channel's counters agree with the accesses there are, so none of
\* finish_access's and complete_access's logic errors can be thrown
\* (hbm_system.cpp:350-357, hbm_controller.cpp:690).
AccessesAreConserved ==
    /\ \A id \in DOMAIN parents :
           /\ parents[id].remaining = LiveOf(State, id)
           /\ parents[id].remaining = 0 => Unadmitted(parents[id])
    /\ \A ch \in Channels :
           /\ ctl[ch].outstanding = LiveOn(State, ch)
           /\ \A i \in DOMAIN ctl[ch].queue : ctl[ch].queue[i].id \in DOMAIN parents
           /\ ~ctl[ch].fault

\* A slot is never left free for an access that an accepted parent could admit:
\* between events every parent of pending_admissions_ is stopped by a full
\* queue, so it progresses without external resubmission.
NoAdmissibleAccessLeft ==
    /\ ToSet(pending) = {id \in DOMAIN parents : Unadmitted(parents[id])}
    /\ \A id \in ToSet(pending) :
           ~can_reserve(ctl[NextAccess(parents[id]).ch], parents[id].txn.op)

\* The queues and the table of active parents never outgrow their configured
\* capacities, although one transaction can be larger than any of them.
CapacitiesHold ==
    /\ Cardinality(DOMAIN parents) <= MaxActive
    /\ \A ch \in Channels :
           /\ ReadCapacity # 0 => Cardinality(Reads(ctl[ch])) <= ReadCapacity
           /\ WriteCapacity # 0 => Cardinality(Writes(ctl[ch])) <= WriteCapacity

-----------------------------------------------------------------------------
(* Wake-ups and refresh events.                                             *)

\* Something for the controller to be driven for.
HasWork(c) == c.queue # <<>> \/ MaintenanceIsPending(c)

\* The step runs the refresh event of a channel that is due now.
RunRefreshOf(ch) == /\ Dispatch("refresh") /\ agenda[1].ch = ch
                    /\ ctl[ch].next_refresh_due = agenda[1].at

\* A refresh is carried out before the next one (of the same bank) falls due, as
\* setting a flag that is still set would lose it, and the flag goes only with
\* its refresh command, whatever prerequisites and RFM come before that.
NoRefreshIsLost ==
    [][ \A ch \in Channels :
          /\ RunRefreshOf(ch) => IF RefreshPolicy = "AllBank" THEN ~ctl[ch].refresh_pending
                                 ELSE ~ctl[ch].banks[ctl[ch].next_bank].refresh_pending
          /\ RefreshIsPending(ctl[ch]) /\ ~RefreshIsPending(ctl'[ch])
                => ctl'[ch].history # <<>> /\ Last(ctl'[ch].history).cmd \in {"REFab", "REFpb"} ]_vars

-----------------------------------------------------------------------------
(* What the device sees.                                                    *)

\* The banks a command reaches: a channel-scoped one reaches every bank, even
\* though record_command enters it for the addressed bank alone.
Reached(h) == IF h.cmd \in ChannelScoped THEN Bank ELSE {h.bank}

\* The positions, before n, of commands of a kind that reach a bank's resource.
Preceding(history, n, command, scope, bank) ==
    {m \in 1 .. n - 1 : /\ timing_command(history[m].cmd) = command
                        /\ \E b \in Reached(history[m]) : SameResource(scope, b, bank)}

\* Every command keeps every constraint of the table on every resource of every
\* bank it reaches, against the distance-th command of the preceding kind.
TimingIsLegal ==
    \A ch \in Channels :
        LET history == ctl[ch].history
        IN  \A n \in DOMAIN history : \A bank \in Reached(history[n]) :
                \A rule \in {r \in Constraints : r[2] = timing_command(history[n].cmd)} :
                    LET before == Preceding(history, n, rule[1], rule[3], bank)
                    IN  \A m \in before :
                            Cardinality({k \in before : k >= m}) >= rule[4]
                                => history[n].at >= history[m].at + rule[5]

\* A refresh of all banks takes no less than a precharge, as in every shipped profile
\* (14 against 260 ns by default, timing_spec.h:26,35).
RefreshDominates == Timing.t_rp <= Timing.t_rfc /\ Timing.t_ppd <= Timing.t_rfc

\* Commands are recorded in time order, although idle refresh runs on a time
\* cursor of its own, in the past or the future of the clock; the engine reads
\* the last entries of each list as the latest ones.
HistoryIsOrdered ==
    \A ch \in Channels :
        LET history == ctl[ch].history
        IN  \A n \in 2 .. Len(history) : history[n - 1].at <= history[n].at

\* A bank under maintenance gets no command until the maintenance has ended.
MaintenanceIsUndisturbed ==
    \A ch \in Channels :
        LET history == ctl[ch].history
        IN  \A n \in DOMAIN history : \A m \in 1 .. n - 1 :
                history[m].cmd \in Maintenance /\ Reached(history[m]) \cap Reached(history[n]) # {}
                    => history[n].at >= history[m].at + maintenance_duration(history[m].cmd)

\* A bank that reached the activation threshold is not activated again before
\* its RFM (the count restarts when RFM becomes pending).
RfmBeforeActivation ==
    \A ch \in Channels, b \in Bank :
        /\ ctl[ch].banks[b].rfm_pending => ctl[ch].banks[b].activation_count = 0
        /\ RfmThreshold # 0 => ctl[ch].banks[b].activation_count < RfmThreshold

\* Under Fifo the access served is the oldest of the queue that the controller
\* is serving: a newer row hit never bypasses it.
FifoServesOldest ==
    [][ \A ch \in Channels :
          SchedulerKind = "Fifo" /\ Dispatch("wake") /\ agenda[1].ch = ch =>
              LET c    == clear_wakeup(AtEvent.ctl[ch], 0)
                  step == drive(c)
              IN  step.ids # <<>> =>
                      Head(step.ids) = c.queue[Min(ActiveQueue(update_write_drain(c)))].id ]_vars

-----------------------------------------------------------------------------
(* Progress.                                                                *)

\* A client that was refused is sent a capacity hint: main.cpp's replay never
\* meets "backpressure without a future capacity event".
BackpressureIsHinted == \A id \in Ids : id \in waiting ~> id \notin waiting

\* Once clients stop submitting, every accepted transaction completes and
\* events.run() returns: wake-ups and refresh do not keep each other alive.
DrainsWhenQuiet == exhausted ~> (agenda = <<>> /\ DOMAIN parents = {})
=============================================================================
