---------------------------- MODULE TimingEngine ----------------------------
(***************************************************************************)
(* HbmTimingSpec::constraints and HbmTimingEngine                          *)
(* (src/src/timing/timing_spec.cpp, timing_engine.cpp).  The engine keeps, *)
(* per resource and command, the times of the last four occurrences.  Here *)
(* one controller's history is the sequence of its recent commands         *)
(* [cmd, bank, at], from which each of those lists is selected; a command  *)
(* is dropped once no constraint on it can still be pending.               *)
(***************************************************************************)
EXTENDS HbmStandard, Sequences, SequencesExt

CONSTANTS PseudoChannels,     \* pseudo_channels_per_channel
          BankGroups,         \* bank_groups_per_pseudo_channel
          BanksPerGroup       \* banks_per_bank_group

ASSUME TopologyAssumption == {PseudoChannels, BankGroups, BanksPerGroup} \subseteq Nat \ {0}

\* Local bank numbers, and the resources HbmAddressMapper::bank_address gives them.
Bank == 0 .. PseudoChannels * BankGroups * BanksPerGroup - 1
GroupOf(bank)         == bank \div BanksPerGroup
PseudoChannelOf(bank) == GroupOf(bank) \div BankGroups

\* resource_key: one engine serves one channel, which lies in one stack (Sid).
SameResource(scope, a, b) ==
    \/ scope \in {"Channel", "Sid"}
    \/ scope = "Bank" /\ a = b
    \/ scope = "BankGroup" /\ GroupOf(a) = GroupOf(b)
    \/ scope = "PseudoChannel" /\ PseudoChannelOf(a) = PseudoChannelOf(b)

-----------------------------------------------------------------------------
\* <<preceding, following, scope, distance, delay>>
ExtendedConstraints ==
    LET T == Timing
        writeBurst == T.t_cwl + T.t_bl
    IN {<<"ACT", "RD", "Bank", 1, T.t_rcd_rd>>,
        <<"ACT", "WR", "Bank", 1, T.t_rcd_wr>>,
        <<"PRE", "ACT", "Bank", 1, T.t_rp>>,
        <<"ACT", "PRE", "Bank", 1, T.t_ras>>,
        <<"ACT", "ACT", "Bank", 1, T.t_rc>>,
        <<"RD", "PRE", "Bank", 1, T.t_rtp>>,
        <<"WR", "PRE", "Bank", 1, writeBurst + T.t_wr>>,
        <<"RD", "WR", "PseudoChannel", 1, T.t_rtw>>,
        <<"WR", "RD", "PseudoChannel", 1, writeBurst + T.t_wtr_s>>,
        <<"WR", "RD", "BankGroup", 1, writeBurst + T.t_wtr_l>>,
        <<"ACT", "ACT", "BankGroup", 1, T.t_rrd_l>>,
        <<"ACT", "ACT", "PseudoChannel", 1, T.t_rrd_s>>,
        <<"ACT", "ACT", "PseudoChannel", 4, T.t_faw>>,
        <<"PRE", "PRE", "PseudoChannel", 1, T.t_ppd>>,
        <<"REFab", "ACT", "Channel", 1, T.t_rfc>>,
        <<"REFpb", "ACT", "Bank", 1, T.t_rfcpb>>,
        <<"REFpb", "ACT", "PseudoChannel", 1, T.t_rrefd>>,
        <<"REFpb", "REFpb", "PseudoChannel", 1, T.t_rrefd>>,
        <<"RFMab", "ACT", "Channel", 1, T.t_rfmab>>,
        <<"RFMpb", "ACT", "Bank", 1, T.t_rfmpb>>,
        <<"ACT", "REFpb", "Bank", 1, T.t_rc>>,
        <<"PRE", "REFpb", "Bank", 1, T.t_rp>>,
        <<"ACT", "REFab", "PseudoChannel", 1, T.t_rc>>,
        <<"PRE", "REFab", "PseudoChannel", 1, T.t_rp>>,
        <<"REFpb", "REFab", "PseudoChannel", 1, T.t_rfcpb>>,
        <<"ACT", "RFMpb", "Bank", 1, T.t_rc>>}
       \cup {<<c, c, scope, 1, T.t_ccd_s>> : c \in {"RD", "WR"}, scope \in {"PseudoChannel", "Sid"}}
       \cup {<<c, c, "BankGroup", 1, T.t_ccd_l>> : c \in {"RD", "WR"}}

CompactConstraints ==
    LET T == Timing
    IN {<<"PRE", "ACT", "Bank", 1, T.t_rp>>,
        <<"ACT", "PRE", "Bank", 1, T.t_ras>>,
        <<"ACT", "ACT", "Bank", 1, T.t_rc>>,
        <<"RD", "WR", "PseudoChannel", 1, T.t_rtw>>,
        <<"WR", "RD", "PseudoChannel", 1, T.t_wtr>>,
        <<"ACT", "ACT", "BankGroup", 1, T.t_rrd>>,
        <<"ACT", "ACT", "PseudoChannel", 1, T.t_rrd>>,
        <<"ACT", "ACT", "PseudoChannel", 4, T.t_faw>>,
        <<"REFab", "ACT", "Channel", 1, T.t_rfc>>,
        <<"REFpb", "ACT", "Bank", 1, T.t_rfcpb>>,
        <<"RFMab", "ACT", "Channel", 1, T.t_rfmab>>,
        <<"RFMpb", "ACT", "Bank", 1, T.t_rfmpb>>,
        <<"ACT", "REFpb", "Bank", 1, T.t_rc>>,
        <<"ACT", "RFMpb", "Bank", 1, T.t_rc>>}
       \cup {<<"ACT", c, "Bank", 1, T.t_rcd>> : c \in {"RD", "WR"}}
       \cup {<<c, c, "PseudoChannel", 1, T.t_ccd>> : c \in {"RD", "WR"}}

Constraints == IF Timing.use_extended_hbm_timing THEN ExtendedConstraints ELSE CompactConstraints

-----------------------------------------------------------------------------
timing_command(command) ==
    CASE command = "PREA" -> "PRE" [] command = "RDA" -> "RD" [] command = "WRA" -> "WR"
      [] OTHER -> command

\* A set of integers in ascending order, and the elements at chosen positions.
Ascending(S) == [k \in 1 .. Cardinality(S) |-> CHOOSE x \in S : Cardinality({y \in S : y <= x}) = k]
Picked(seq, positions) == [k \in 1 .. Cardinality(positions) |-> seq[Ascending(positions)[k]]]

\* The positions in the history of the entries of the deque at
\* history_[resource of bank at scope][command], and the n-th of them from the back.
HistoryOf(history, command, scope, bank) ==
    {i \in DOMAIN history : /\ timing_command(history[i].cmd) = command
                            /\ SameResource(scope, history[i].bank, bank)}
FromBack(positions, n) == CHOOSE i \in positions : Cardinality({j \in positions : j >= i}) = n

\* (Definitions with a mistake, for testing the properties.)
earliest_issue_with_first_entry(history, command, bank, time) ==
    LET legal(rule) ==
            LET past == HistoryOf(history, rule[1], rule[3], bank)
            IN  IF Cardinality(past) < rule[4] THEN time ELSE history[Min(past)].at + rule[5]
    IN  Max({time} \cup {legal(rule) : rule \in {r \in Constraints : r[2] = timing_command(command)}})

earliest_issue_with_three_entries(history, command, bank, time) ==
    LET legal(rule) ==
            LET past == HistoryOf(history, rule[1], rule[3], bank)
                kept == {i \in past : Cardinality({j \in past : j >= i}) <= 3}
            IN  IF Cardinality(kept) < rule[4] THEN time
                ELSE history[FromBack(kept, rule[4])].at + rule[5]
    IN  Max({time} \cup {legal(rule) : rule \in {r \in Constraints : r[2] = timing_command(command)}})

earliest_issue(history, command, bank, time) ==
    LET legal(rule) ==
            LET past == HistoryOf(history, rule[1], rule[3], bank)
            IN  IF Cardinality(past) < rule[4] THEN time
                ELSE history[FromBack(past, rule[4])].at + rule[5]
    IN  Max({time} \cup {legal(rule) : rule \in {r \in Constraints : r[2] = timing_command(command)}})

record(history, command, bank, time) ==
    Append(history, [cmd |-> command, bank |-> bank, at |-> time])

\* The longest that a recorded command still delays another one.
Reach(command) == Max({0} \cup {rule[5] : rule \in {r \in Constraints : r[1] = timing_command(command)}})
=============================================================================
