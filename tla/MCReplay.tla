------------------------------ MODULE MCReplay ------------------------------
(***************************************************************************)
(* Every trace of a few lines at a few arrival times: in order and out of  *)
(* order, faster than the queues take them, and after idle periods with    *)
(* overdue refreshes.                                                      *)
(***************************************************************************)
EXTENDS TraceReplay, MCHbm

\* Reads that merge; a read of more accesses than the read queue holds; a write.
ReplayTransactions ==
    {Txn("Read",  <<At(0, 0, 0, 0), At(0, 0, 0, 0)>>),
     Txn("Read",  <<At(0, 1, 0, 0), At(0, 0, 1, 0), At(0, 0, 0, 0)>>),
     Txn("Write", <<At(0, 0, 0, 0), At(0, 1, 1, 0)>>)}

Lines == [arrival : {0, 3, 14, 26}, txn : ReplayTransactions]
AllTraces == [1 .. 3 -> Lines]
=============================================================================
