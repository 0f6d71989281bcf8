---------------------------- MODULE EventQueue ----------------------------
(***************************************************************************)
(* The discrete-event kernel, EventQueue (src/src/kernel/event_queue.cpp). *)
(* Pending events live in a map ordered by (time, sequence); a second map  *)
(* finds an event's key from its token.  Callbacks run inside run(),       *)
(* run_until() or run_next() and may themselves schedule and cancel, but   *)
(* must not run the queue recursively: `mode' says which of the three is   *)
(* on the stack and `callback' whether it is inside a callback.            *)
(***************************************************************************)
EXTENDS Integers

CONSTANTS MaxTime,    \* bound on the times that are scheduled or run to
          MaxEvents   \* bound on the number of schedule_at calls

ASSUME BoundsAssumption == MaxTime \in Nat /\ MaxEvents \in Nat

VARIABLES now,            \* now_
          next_sequence,  \* next_sequence_
          next_token,     \* next_token_
          events,         \* events_: key <<time, sequence>> -> token
          tokens,         \* tokens_: token -> key
          mode,           \* which public run function is on the stack
          horizon,        \* the argument of the run_until on the stack
          callback,       \* TRUE while an event's callback runs
          last            \* key of the last dispatched event (history)

vars == <<now, next_sequence, next_token, events, tokens, mode, horizon,
          callback, last>>

Time  == 0 .. MaxTime
Token == 1 .. MaxEvents
Key   == Time \X (0 .. MaxEvents)
NoKey == <<0, -1>>                 \* below every key

\* std::pair's order on (time, sequence).
Precedes(a, b) == a[1] < b[1] \/ (a[1] = b[1] /\ a[2] < b[2])

Put(f, x, v) == [y \in DOMAIN f \cup {x} |-> IF y = x THEN v ELSE f[y]]
Erase(f, x)  == [y \in DOMAIN f \ {x} |-> f[y]]

\* (A definition named "..._without_..." or "..._with_..." is the next one with a
\* plausible mistake; the specification does not use it.)
IsFirst_with_newest(key) ==
    /\ key \in DOMAIN events
    /\ \A other \in DOMAIN events : key[1] < other[1] \/ (key[1] = other[1] /\ key[2] >= other[2])

\* events_.begin()
IsFirst(key) == /\ key \in DOMAIN events
                /\ \A other \in DOMAIN events : other = key \/ Precedes(key, other)

Init == /\ now = 0 /\ next_sequence = 0 /\ next_token = 1
        /\ events = [key \in {} |-> 0]
        /\ tokens = [token \in {} |-> NoKey]
        /\ mode = "idle" /\ horizon = 0 /\ callback = FALSE
        /\ last = NoKey

\* Client code has control: between runs, or inside a callback.
ClientRuns == mode = "idle" \/ callback

-----------------------------------------------------------------------------
ScheduleAt_without_sequence(when) ==
    /\ ClientRuns /\ when >= now /\ next_token <= MaxEvents
    /\ events' = Put(events, <<when, next_sequence>>, next_token)
    /\ tokens' = Put(tokens, next_token, <<when, next_sequence>>)
    /\ next_token' = next_token + 1
    /\ UNCHANGED <<now, next_sequence, mode, horizon, callback, last>>

ScheduleAt_without_check(when) ==
    /\ ClientRuns /\ next_token <= MaxEvents
    /\ events' = Put(events, <<when, next_sequence>>, next_token)
    /\ tokens' = Put(tokens, next_token, <<when, next_sequence>>)
    /\ next_token' = next_token + 1 /\ next_sequence' = next_sequence + 1
    /\ UNCHANGED <<now, mode, horizon, callback, last>>

ScheduleAt(when) ==
    /\ ClientRuns
    /\ when >= now                                  \* else invalid_argument
    /\ next_token <= MaxEvents
    /\ events' = Put(events, <<when, next_sequence>>, next_token)
    /\ tokens' = Put(tokens, next_token, <<when, next_sequence>>)
    /\ next_token' = next_token + 1
    /\ next_sequence' = next_sequence + 1
    /\ UNCHANGED <<now, mode, horizon, callback, last>>

Cancel_without_token(token) ==
    /\ ClientRuns
    /\ token \in DOMAIN tokens
    /\ events' = Erase(events, tokens[token])
    /\ UNCHANGED <<now, next_sequence, next_token, tokens, mode, horizon, callback, last>>

\* An unknown, cancelled or dispatched token is not in tokens_: no effect.
Cancel(token) ==
    /\ ClientRuns
    /\ token \in DOMAIN tokens
    /\ events' = Erase(events, tokens[token])
    /\ tokens' = Erase(tokens, token)
    /\ UNCHANGED <<now, next_sequence, next_token, mode, horizon, callback, last>>

CallRun(kind, until) ==
    /\ mode = "idle"
    /\ until >= now                                 \* else invalid_argument
    /\ mode' = kind /\ horizon' = until
    /\ UNCHANGED <<now, next_sequence, next_token, events, tokens, callback, last>>

\* The condition of the loop on the stack, for the event at events_.begin().
LoopTakes(key) == mode \in {"run", "next"} \/ (mode = "until" /\ key[1] <= horizon)

\* dispatch_one: the event leaves both maps before its callback runs.
DispatchOne ==
    \E key \in DOMAIN events :
        /\ ~callback /\ mode # "idle"
        /\ IsFirst(key) /\ LoopTakes(key)
        /\ events' = Erase(events, key)
        /\ tokens' = Erase(tokens, events[key])
        /\ now' = key[1]
        /\ callback' = TRUE
        /\ last' = key
        /\ UNCHANGED <<next_sequence, next_token, mode, horizon>>

\* The callback returns; run_next returns with it, the other two loop.
CallbackReturns ==
    /\ callback
    /\ callback' = FALSE
    /\ mode' = IF mode = "next" THEN "idle" ELSE mode
    /\ UNCHANGED <<now, next_sequence, next_token, events, tokens, horizon, last>>

\* An exception leaves the callback and unwinds the run function with it:
\* run_until does not advance now_ to its argument.
CallbackThrows ==
    /\ callback
    /\ callback' = FALSE /\ mode' = "idle"
    /\ UNCHANGED <<now, next_sequence, next_token, events, tokens, horizon, last>>

RunReturns_with_empty_queue ==
    /\ ~callback /\ mode # "idle"
    /\ DOMAIN events = {}
    /\ mode' = "idle"
    /\ now' = IF mode = "until" THEN horizon ELSE now
    /\ UNCHANGED <<next_sequence, next_token, events, tokens, horizon, callback, last>>

\* The loop ends: nothing is left that it takes.
RunReturns ==
    /\ ~callback /\ mode # "idle"
    /\ \A key \in DOMAIN events : ~LoopTakes(key)
    /\ mode' = "idle"
    /\ now' = IF mode = "until" THEN horizon ELSE now
    /\ UNCHANGED <<next_sequence, next_token, events, tokens, horizon, callback, last>>

Next == \/ \E when \in Time : ScheduleAt(when)
        \/ \E token \in Token : Cancel(token)
        \/ CallRun("run", now) \/ CallRun("next", now)
        \/ \E until \in Time : CallRun("until", until)
        \/ DispatchOne \/ CallbackReturns \/ CallbackThrows \/ RunReturns

Spec == Init /\ [][Next]_vars
FairSpec == Spec /\ WF_vars(DispatchOne) /\ WF_vars(CallbackReturns) /\ WF_vars(RunReturns)

-----------------------------------------------------------------------------
TypeOK ==
    /\ now \in Time /\ horizon \in Time
    /\ next_sequence \in 0 .. MaxEvents /\ next_token = next_sequence + 1
    /\ DOMAIN events \subseteq Key /\ DOMAIN tokens \subseteq Token
    /\ events \in [DOMAIN events -> Token] /\ tokens \in [DOMAIN tokens -> Key]
    /\ mode \in {"idle", "run", "until", "next"}
    /\ callback \in BOOLEAN
    /\ callback => mode # "idle"
    /\ last \in Key \cup {NoKey}

\* events_ and tokens_ index each other: no event without a way to cancel it,
\* no token whose cancel would miss its event or hit another one's.
MapsAgree ==
    /\ \A key \in DOMAIN events : /\ events[key] \in DOMAIN tokens
                                  /\ tokens[events[key]] = key
    /\ \A token \in DOMAIN tokens : /\ tokens[token] \in DOMAIN events
                                    /\ events[tokens[token]] = token

\* Simulated time never overtakes a pending event: neither a dispatch nor the
\* final `now_ = until' of run_until leaves one behind.
NothingInThePast == \A key \in DOMAIN events : key[1] >= now

\* Events run in strictly increasing (time, sequence) order even when
\* callbacks schedule at the current time: whatever is pending, or is
\* scheduled from here on, runs after everything that has already run.
RunsInOrder == /\ \A key \in DOMAIN events : Precedes(last, key)
               /\ Precedes(last, <<now, next_sequence>>)

\* Every run function returns: once client callbacks stop scheduling (here, when
\* the bound on events is reached) the loop finds nothing left that it takes.
RunFunctionsReturn == mode # "idle" ~> mode = "idle"
=============================================================================
