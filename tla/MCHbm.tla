------------------------------- MODULE MCHbm -------------------------------
(***************************************************************************)
(* Small instances of HbmSystem.  Durations keep the order and the sums of *)
(* the real ones (tRC = tRAS + tRP, tFAW > 3 tRRD, tRFC the longest) at a  *)
(* few ticks each.                                                         *)
(***************************************************************************)
EXTENDS ChannelRefinement

FastBin ==
    [tck |-> 1, n_bl |-> 1, n_cl |-> 1, n_rcd_rd |-> 1, n_rcd_wr |-> 1, n_rp |-> 1, n_ras |-> 2,
     n_wr |-> 1, n_rtp |-> 1, n_cwl |-> 1, n_ccd_s |-> 1, n_ccd_l |-> 2, n_rrd_s |-> 1, n_rrd_l |-> 2,
     n_wtr_s |-> 1, n_wtr_l |-> 2, n_rtw |-> 2, n_faw |-> 5, n_ppd |-> 1, n_rrefd |-> 2,
     t_rfc |-> 4, t_rfcpb |-> 3]

\* The same durations under either constraint table.
FastTiming    == resolve(FastBin)
CompactTiming == [FastTiming EXCEPT !.t_command = 1, !.use_extended_hbm_timing = FALSE]

\* The instances meet a hypothesis of TimingAlwaysLegal.
ASSUME RefreshDominates

At(ch, bank, row, col) == [ch |-> ch, bank |-> bank, row |-> row, col |-> col]
Txn(op, accesses) == [op |-> op, priority |-> 0, domain |-> 0, accesses |-> accesses]

\* Two channels; a transaction that spans both and one that queues twice on one.
SpanningTransactions ==
    {Txn("Write", <<At(0, 0, 0, 0), At(1, 0, 0, 0), At(0, 0, 1, 0)>>),
     Txn("Read",  <<At(1, 0, 0, 0), At(0, 0, 0, 0)>>)}

\* One channel, two banks: row conflicts on one bank, and writes to the other.
ConflictingTransactions ==
    {Txn("Read",  <<At(0, 0, 0, 0)>>),
     Txn("Read",  <<At(0, 0, 1, 0)>>),
     Txn("Write", <<At(0, 1, 0, 0)>>)}

\* One channel, four banks: reads of one address that may merge, urgent reads of the
\* other banks, and writes that fill the write queue to its high watermark.  Together
\* they take five activations, which tFAW keeps apart.
MergingTransactions ==
    {Txn("Read",  <<At(0, 0, 0, 0), At(0, 0, 0, 0)>>),
     [Txn("Read", <<At(0, 1, 0, 0), At(0, 2, 0, 0), At(0, 3, 0, 0)>>) EXCEPT !.priority = 1],
     Txn("Write", <<At(0, 0, 0, 0), At(0, 1, 1, 0)>>)}
=============================================================================
