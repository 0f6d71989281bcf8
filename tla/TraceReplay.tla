---------------------------- MODULE TraceReplay ----------------------------
(***************************************************************************)
(* The trace replay of the command line (src/src/main.cpp): a client that  *)
(* runs the event queue up to each line's arrival, submits the line,       *)
(* retries after a capacity hint while it meets Backpressure, and finally  *)
(* runs the queue empty.  Nothing but the trace is left to choice.         *)
(*                                                                         *)
(* capacity_changed is waiting = {}: try_submit_now is always called with  *)
(* it reset, a refusal puts the line's id in `waiting', and the capacity   *)
(* callback, which would set it, empties `waiting'.                        *)
(***************************************************************************)
EXTENDS HbmProperties

CONSTANTS Traces      \* sequences of lines [arrival, txn]

ASSUME ReplayAssumption ==
    /\ KeepRecords
    /\ \A trace \in Traces : Ids = DOMAIN trace
    /\ \A trace \in Traces : \A n \in DOMAIN trace :
           trace[n].arrival \in Nat /\ trace[n].txn \in Transactions

VARIABLES trace,      \* the trace file
          line,       \* line_number, which is also the id of its transaction
          phase,      \* where main is: "read", "run_until", "wait", "run"
                      \* (events.run()), "exit" or "error" (return 2)
          clock,      \* events.now()
          beat        \* parity of main's steps

replayVars == <<trace, line, phase, clock, beat>>

ReplayInit == /\ Init
              /\ trace \in Traces /\ line = 1 /\ phase = "read" /\ clock = 0 /\ beat = 0

Arrival == trace[line].arrival

\* The next event lies at or before the arrival of the line.
EventIsDue == agenda # <<>> /\ clock + agenda[1].at <= Arrival

\* A sequential program: until it returns it takes its next step.  (Every step
\* changes beat, and checking for deadlock shows that there is one to take.)
Beat == phase \notin {"exit", "error"} /\ beat' = 1 - beat

-----------------------------------------------------------------------------
\* One event; the completion callback only writes the completion's record.
RunCompletionOfReplay ==
    /\ Dispatch("complete")
    /\ Become(CompletionCallback(AtEvent, agenda[1],
                                 [k \in DOMAIN agenda[1].ids |-> NoTransaction], NoTransaction))

RunEvent == /\ Beat
            /\ RunWake \/ RunRefresh \/ RunCapacity \/ RunCompletionOfReplay
            /\ clock' = clock + agenda[1].at
            /\ UNCHANGED <<trace, line, phase>>

\* The line is submitted d after the last thing that happened.
SubmitLine(d) ==
    /\ Beat
    /\ Become(try_submit_now(Advance(State, d), line, trace[line].txn, Arrival - (clock + d)))
    /\ clock' = clock + d
    /\ IF line \in waiting' THEN phase' = "wait" /\ UNCHANGED line
                            ELSE phase' = "read" /\ line' = line + 1
    /\ UNCHANGED <<trace, exhausted, turn>>

OutOfOrder == line > 1 /\ Arrival < trace[line - 1].arrival

\* Lines that arrive later than now are preceded by run_until.
ReadLine ==
    /\ phase = "read" /\ line \in DOMAIN trace /\ ~OutOfOrder /\ Arrival >= clock
    /\ Beat /\ phase' = "run_until"
    /\ UNCHANGED <<vars, trace, line, clock>>

ReadLateLine ==
    /\ phase = "read" /\ line \in DOMAIN trace /\ ~OutOfOrder /\ Arrival < clock
    /\ SubmitLine(0)

RunUntilArrival == phase = "run_until" /\ EventIsDue /\ RunEvent

\* run_until sets the clock to the arrival and returns.
SubmitAtArrival == phase = "run_until" /\ ~EventIsDue /\ SubmitLine(Arrival - clock)

RunForCapacity == phase = "wait" /\ waiting # {} /\ RunEvent
Retry_without_hint == phase = "wait" /\ SubmitLine(0)
Retry == phase = "wait" /\ waiting = {} /\ SubmitLine(0)

\* runtime_error: "trace arrivals must be nondecreasing", or "backpressure without
\* a future capacity event".
LineThrows == IF phase = "read" THEN line \in DOMAIN trace /\ OutOfOrder
              ELSE phase = "wait" /\ waiting # {} /\ agenda = <<>>

Throw == LineThrows /\ Beat /\ phase' = "error" /\ UNCHANGED <<vars, trace, line, clock>>

RunToTheEnd == /\ phase = "read" /\ line \notin DOMAIN trace
               /\ Beat /\ phase' = "run" /\ UNCHANGED <<vars, trace, line, clock>>
RunLast == phase = "run" /\ RunEvent
Exit == phase = "run" /\ agenda = <<>> /\ Beat /\ phase' = "exit" /\ UNCHANGED <<vars, trace, line, clock>>

Returned == phase \in {"exit", "error"} /\ UNCHANGED <<vars, replayVars>>

ReplayNext == \/ ReadLine \/ ReadLateLine \/ RunUntilArrival \/ SubmitAtArrival
              \/ RunForCapacity \/ Retry \/ Throw
              \/ RunToTheEnd \/ RunLast \/ Exit \/ Returned

ReplaySpec == ReplayInit /\ [][ReplayNext]_<<vars, replayVars>> /\ WF_beat(Beat)

-----------------------------------------------------------------------------
\* The replay is one of HbmSystem's clients: it submits only ids that are not
\* active, a refused one only after a hint, and never later than an event.
ReplayIsClient ==
    /\ Init
    /\ [][ \/ line \in DOMAIN trace /\ Submit(line, trace[line].txn, clock' - clock, Arrival - clock')
           \/ RunWake \/ RunRefresh \/ RunCapacity \/ RunCompletionOfReplay ]_vars

\* A trace in order is replayed to its end: no line is given up for lack of a
\* capacity event (main.cpp:145), and every line's transaction completes once.
ReplayCompletes ==
    <>\/ phase = "exit" /\ Len(stats.completions) = Len(trace)
         /\ {stats.completions[i].id : i \in DOMAIN stats.completions} = DOMAIN trace
      \/ phase = "error" /\ OutOfOrder

Total(stages) == stages.queue_wait + stages.command_phase + stages.data_ready
                 + stages.data_bus_wait + stages.data_service

\* "Their sum is exactly the access completion time minus enqueue time"
\* (stats.h:44-45), and for the access that completed last the whole latency of
\* its parent (hbm_system.cpp:385-387): however often the line was refused, its
\* later accesses deferred, or an access merged into another's transfer.
LatencyIsPartitioned ==
    \A i \in DOMAIN stats.completions :
        LET completion == stats.completions[i]
        IN  /\ Total(completion.stages) = completion.latency
            /\ \A stage \in DOMAIN completion.stages : completion.stages[stage] >= 0

\* "every logical completion is represented by exactly one physical data command
\* or a declared same-address merge" (docs/H6_REFERENCE_VALIDATION.md:47): the
\* counters tell the accesses that are still queued and the active transactions.
StatsAgree ==
    /\ stats.modeled = stats.physical + stats.merged + Cardinality(Queued(State))
    /\ stats.submitted = Len(stats.completions) + Cardinality(DOMAIN parents)
=============================================================================
