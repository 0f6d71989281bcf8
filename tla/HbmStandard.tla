---------------------------- MODULE HbmStandard ----------------------------
(***************************************************************************)
(* What a DRAM command needs and does: the command tables of the standards *)
(* (src/src/dram/hbm_standard.cpp) and HbmCommandPlanner, which consults   *)
(* them or, for a device without a standard, applies the custom rules.     *)
(***************************************************************************)
EXTENDS Integers

CONSTANTS Standard,    \* "hbm2", "hbm3", "hbm4", or "custom" (no standard)
          Timing,      \* HbmTimingSpec: parameter name -> duration, and which table
          None         \* an empty std::optional: no row, no time

ASSUME StandardAssumption == /\ Standard \in {"hbm2", "hbm3", "hbm4", "custom"}
                             /\ None \notin Int

\* Every parameter is a std::uint64_t.
Parameters == {"tck", "t_command", "t_cl", "t_rcd", "t_rcd_rd", "t_rcd_wr", "t_rp", "t_ras", "t_rc",
               "t_wr", "t_rtp", "t_cwl", "t_bl", "t_ccd_s", "t_ccd_l", "t_ccd", "t_rrd_s", "t_rrd_l",
               "t_rrd", "t_faw", "t_wtr_s", "t_wtr_l", "t_wtr", "t_rtw", "t_ppd", "t_rrefd",
               "t_rfc", "t_rfcpb", "t_rfmab", "t_rfmpb"}

ASSUME TimingAssumption == Parameters \subseteq DOMAIN Timing /\ \A p \in Parameters : Timing[p] \in Nat

Custom == Standard = "custom"

\* Which constraint table holds is a parameter, too.  The standards have theirs; a
\* device without one may have either, as as_custom() keeps what it was made from.
ASSUME TableAssumption ==
    /\ Timing.use_extended_hbm_timing \in BOOLEAN
    /\ ~Custom => (Timing.use_extended_hbm_timing <=> Standard \in {"hbm2", "hbm3"})

DataCommands   == {"RD", "WR", "RDA", "WRA"}
ChannelScoped  == {"PREA", "REFab", "RFMab"}
BankScoped     == {"ACT", "PRE", "REFpb", "RFMpb"} \cup DataCommands
Maintenance    == {"REFab", "REFpb", "RFMab", "RFMpb"}
Command        == BankScoped \cup ChannelScoped

\* HbmBankState
NewBank == [row |-> None, precharge_pending |-> FALSE, refresh_pending |-> FALSE,
            rfm_pending |-> FALSE, activation_count |-> 0]
IsOpen(bank) == bank.row # None

supports(command) == command \notin {"RFMab", "RFMpb"} \/ Standard \in {"hbm3", "hbm4"}

-----------------------------------------------------------------------------
\* kHbm2Prerequisites / kHbm3Prerequisites: <<requested, condition, prerequisite>>.
\* At most one condition of a command holds of a bank.
Prerequisites ==
    {<<c, "DifferentRow", "PRE">> : c \in DataCommands}
    \cup {<<c, "TargetClosed", "ACT">> : c \in DataCommands}
    \cup {<<"REFpb", "TargetOpen", "PRE">>, <<"REFab", "AnyOpen", "PREA">>}
    \cup (IF Standard \in {"hbm3", "hbm4"}
          THEN {<<"RFMpb", "TargetOpen", "PRE">>, <<"RFMab", "AnyOpen", "PREA">>}
          ELSE {})

Meets(condition, row, bank, anyOpen) ==
    \/ condition = "TargetClosed" /\ ~IsOpen(bank)
    \/ condition = "DifferentRow" /\ IsOpen(bank) /\ bank.row # row
    \/ condition = "TargetOpen" /\ IsOpen(bank)
    \/ condition = "AnyOpen" /\ anyOpen

resolve_prerequisite(requested, row, bank, anyOpen) ==
    LET matching == {rule \in Prerequisites : /\ rule[1] = requested
                                              /\ Meets(rule[2], row, bank, anyOpen)}
    IN  IF matching = {} THEN requested ELSE (CHOOSE rule \in matching : TRUE)[3]

CustomDecision(requested, row, bank, anyOpen) ==
    CASE requested \in {"REFab", "RFMab"} -> IF anyOpen THEN "PREA" ELSE requested
      [] requested \in {"REFpb", "RFMpb"} -> IF IsOpen(bank) THEN "PRE" ELSE requested
      [] OTHER -> IF bank.precharge_pending \/ (IsOpen(bank) /\ bank.row # row)
                  THEN "PRE"
                  ELSE IF IsOpen(bank) THEN requested ELSE "ACT"

\* HbmCommandPlanner::next: the command to issue now on the way to `requested';
\* the decision is final when that is `requested' itself.
PlannedCommand(requested, row, bank, anyOpen) ==
    IF Custom THEN CustomDecision(requested, row, bank, anyOpen)
              ELSE resolve_prerequisite(requested, row, bank, anyOpen)

-----------------------------------------------------------------------------
\* The effect of a command on one bank in its scope.
BankAfter(command, row, bank) ==
    CASE command = "ACT" ->
             [bank EXCEPT !.row = row,
                          !.precharge_pending = Custom /\ bank.precharge_pending]
      [] command \in {"RD", "WR"} \/ (Custom /\ command \in DataCommands) -> bank
      [] OTHER -> [bank EXCEPT !.row = None,
                               !.precharge_pending = Custom /\ bank.precharge_pending]

\* HbmController::apply_transition: channel-scoped commands reach every bank.
apply_transition(command, row, banks, target) ==
    [b \in DOMAIN banks |->
        IF command \in ChannelScoped \/ b = target
        THEN BankAfter(command, row, banks[b]) ELSE banks[b]]

\* Which command bus a command occupies, and for how long.
command_bus(command) ==
    IF Custom THEN "unified" ELSE IF command \in DataCommands THEN "column" ELSE "row"

\* HbmSpeedBin::resolve: the timing of a standard whose table counts clock cycles.
\* (t_command keeps its default.)
resolve(bin) ==
    LET cycles(count) == count * bin.tck
        t_ras == cycles(bin.n_ras)
        t_rp  == cycles(bin.n_rp)
        t_cwl == cycles(bin.n_cwl)
        t_bl  == cycles(bin.n_bl)
    IN  [use_extended_hbm_timing |-> TRUE, tck |-> bin.tck, t_command |-> 0,
         t_cl |-> cycles(bin.n_cl), t_rcd |-> cycles(bin.n_rcd_rd),
         t_rcd_rd |-> cycles(bin.n_rcd_rd), t_rcd_wr |-> cycles(bin.n_rcd_wr),
         t_rp |-> t_rp, t_ras |-> t_ras, t_rc |-> t_ras + t_rp,
         t_wr |-> cycles(bin.n_wr), t_rtp |-> cycles(bin.n_rtp), t_cwl |-> t_cwl, t_bl |-> t_bl,
         t_ccd_s |-> cycles(bin.n_ccd_s), t_ccd_l |-> cycles(bin.n_ccd_l), t_ccd |-> cycles(bin.n_ccd_s),
         t_rrd_s |-> cycles(bin.n_rrd_s), t_rrd_l |-> cycles(bin.n_rrd_l), t_rrd |-> cycles(bin.n_rrd_s),
         t_faw |-> cycles(bin.n_faw),
         t_wtr_s |-> cycles(bin.n_wtr_s), t_wtr_l |-> cycles(bin.n_wtr_l),
         t_wtr |-> t_cwl + t_bl + cycles(bin.n_wtr_s), t_rtw |-> cycles(bin.n_rtw),
         t_ppd |-> cycles(bin.n_ppd), t_rrefd |-> cycles(bin.n_rrefd),
         t_rfc |-> bin.t_rfc, t_rfcpb |-> bin.t_rfcpb,
         t_rfmab |-> bin.t_rfc, t_rfmpb |-> bin.t_rfcpb]

HalfUp(n) == (n + 1) \div 2

command_duration(command) ==
    CASE Standard = "hbm2" -> IF command = "ACT" THEN 2 * Timing.tck ELSE Timing.tck
      [] Standard = "hbm3" -> IF command = "ACT" THEN HalfUp(3 * Timing.tck)
                              ELSE IF command \in DataCommands THEN Timing.tck
                              ELSE HalfUp(Timing.tck)
      [] OTHER -> Timing.t_command

maintenance_duration(command) ==
    CASE command = "REFab" -> Timing.t_rfc   [] command = "REFpb" -> Timing.t_rfcpb
      [] command = "RFMab" -> Timing.t_rfmab [] command = "RFMpb" -> Timing.t_rfmpb
=============================================================================
