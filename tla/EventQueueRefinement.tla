----------------------- MODULE EventQueueRefinement -----------------------
(***************************************************************************)
(* EventQueue keeps the promises of ISimScheduler: reading the map in key  *)
(* order gives the agenda of module SimScheduler, and each operation of    *)
(* the queue is an operation, or a stuttering step, of the contract.       *)
(***************************************************************************)
EXTENDS EventQueue, FiniteSets

\* The keys of a map in order, by the number of keys before each.
Ahead(keys, key) == {other \in keys : Precedes(other, key)}
Rank(keys, key)  == Cardinality(Ahead(keys, key)) + 1
KeyAt(keys, i)   == CHOOSE key \in keys : Rank(keys, key) = i
InOrder(map)     == [i \in 1 .. Cardinality(DOMAIN map) |->
                        [time  |-> KeyAt(DOMAIN map, i)[1],
                         token |-> map[KeyAt(DOMAIN map, i)]]]
Agenda           == InOrder(events)

Contract == INSTANCE SimScheduler
                WITH agenda <- Agenda, issued <- 1 .. next_token - 1

\* schedule_at inserts behind the callbacks of the same time, cancel removes
\* exactly one, the dispatch loops take the head at its own time, and run_until
\* ends without passing a pending callback (sim_scheduler.h:13-18).
KeepsContract == Contract!Spec
=============================================================================
