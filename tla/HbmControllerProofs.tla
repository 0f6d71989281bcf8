-------------------- MODULE HbmControllerProofs --------------------
(***************************************************************************)
(* HbmController: every member function keeps a well-formed controller     *)
(* well-formed, and what it does to the accesses it holds and to the marks *)
(* of its events.  HbmSystemProofs rests on these facts.                   *)
(*                                                                         *)
(* The last sections are about the times of recorded commands (Timely) and *)
(* the timing constraints between them (Lawful).                           *)
(*                                                                         *)
(* The type Controller includes what RFM depends on: a bank's activation   *)
(* count is below the threshold, and 0 while RFM is pending (SoundBank).   *)
(*                                                                         *)
(* What a step notes of the first command for an access, and the stages it *)
(* records of a transfer (Noting, Recording), is for ReplayProofs.         *)
(***************************************************************************)
EXTENDS HbmProperties, OrderTheory, SequenceTheorems, FiniteSetTheorems, TLAPS

-----------------------------------------------------------------------------
(* Arithmetic.                                                              *)

\* Division rounds towards the group or the channel that a bank belongs to.
LEMMA DivBound ==
  ASSUME NEW a \in Nat, NEW n \in Nat, n # 0, NEW m \in Nat, a < m * n
  PROVE  a \div n \in 0 .. m - 1
<1> DEFINE q == a \div n
<1>1. q \in Nat /\ q * n <= a
  BY SMT
<1> HIDE DEF q
<1>2. ~ (q >= m)
  <2> SUFFICES ASSUME q >= m PROVE FALSE
    OBVIOUS
  <2>1. PICK e \in Nat : q = m + e
    <3>1. q - m \in Nat /\ q = m + (q - m)
      BY <1>1
    <3> QED BY <3>1
  <2>2. q * n = m * n + e * n
    BY <2>1
  <2>3. e * n \in Nat /\ m * n \in Nat
    OBVIOUS
  <2> QED BY <1>1, <2>2, <2>3
<1>3. q \in 0 .. m - 1
  BY <1>1, <1>2
<1> QED BY <1>3 DEF q

\* The number of banks, a product of the topology's counts, is positive.
LEMMA PositiveProduct ==
  ASSUME NEW a \in Nat \ {0}, NEW b \in Nat \ {0}
  PROVE  a * b \in Nat \ {0}
  BY SMT

\* One catch-up per interval, and one more, brings an overdue refresh into the future.
LEMMA CatchesUp ==
  ASSUME NEW due \in Int, due <= 0, NEW n \in Nat \ {0}
  PROVE  (-due) \div n + 1 \in Nat /\ due + ((-due) \div n + 1) * n > 0
<1> DEFINE a == -due
           q == a \div n
<1>1. a \in Nat
  OBVIOUS
<1> HIDE DEF a
<1>2. q \in Nat /\ a < (q + 1) * n
  BY <1>1, SMT
<1> HIDE DEF q
<1>3. (q + 1) * n \in Int /\ q + 1 \in Nat
  BY <1>2
<1>4. due = -a
  BY DEF a
<1>5. due + (q + 1) * n > 0
  BY <1>1, <1>2, <1>3, <1>4
<1> QED BY <1>3, <1>5 DEF q, a

-----------------------------------------------------------------------------
(* The constants.                                                           *)

\* The banks of a channel are numbered from 0.
LEMMA BankFacts ==
  /\ Bank \in SUBSET Nat /\ IsFiniteSet(Bank) /\ 0 \in Bank
  /\ Cardinality(Bank) \in Nat \ {0} /\ Bank = 0 .. Cardinality(Bank) - 1
  /\ \A b \in Bank : PseudoChannelOf(b) \in 0 .. PseudoChannels - 1
<1> DEFINE perChannel == PseudoChannels * BankGroups
           n == perChannel * BanksPerGroup
<1>1. PseudoChannels \in Nat \ {0} /\ BankGroups \in Nat \ {0} /\ BanksPerGroup \in Nat \ {0}
  BY TopologyAssumption
<1>2. perChannel \in Nat \ {0}
  BY <1>1, PositiveProduct
<1> HIDE DEF perChannel
<1>3. n \in Nat \ {0}
  BY <1>1, <1>2, PositiveProduct
<1> HIDE DEF n
<1>4. Bank = 0 .. n - 1
  BY DEF Bank, n, perChannel
<1>5. IsFiniteSet(0 .. n - 1) /\ Cardinality(0 .. n - 1) = n
  BY <1>3, FS_Interval
<1>6. ASSUME NEW b \in Bank PROVE PseudoChannelOf(b) \in 0 .. PseudoChannels - 1
  <2>1. b \in Nat /\ b < n
    BY <1>3, <1>4
  <2>2. b \div BanksPerGroup \in 0 .. perChannel - 1
    BY <1>1, <1>2, <2>1, DivBound DEF n
  <2> DEFINE g == b \div BanksPerGroup
  <2> HIDE DEF g
  <2>3. g \in Nat /\ g < perChannel
    BY <1>2, <2>2 DEF g
  <2>4. g \div BankGroups \in 0 .. PseudoChannels - 1
    BY <1>1, <2>3, DivBound DEF perChannel
  <2> QED BY <2>4 DEF PseudoChannelOf, GroupOf, g
<1> QED BY <1>3, <1>4, <1>5, <1>6

\* Every timing parameter is a natural number of ticks.
LEMMA TimingIsNat == \A p \in Parameters : Timing[p] \in Nat
  BY TimingAssumption

\* A constraint looks a positive number of commands back, and its delay is bounded.
LEMMA ConstraintFacts ==
  \E bound \in Nat : \A r \in Constraints : r[4] \in Nat \ {0} /\ r[5] \in 0 .. bound
<1> DEFINE T == Timing
           rcd == T.t_rcd + T.t_rcd_rd + T.t_rcd_wr
           bank == T.t_rp + T.t_ras + T.t_rc + T.t_rtp
           data == T.t_cwl + T.t_bl + T.t_wr + T.t_ccd_s + T.t_ccd_l + T.t_ccd
           turns == T.t_rtw + T.t_wtr_s + T.t_wtr_l + T.t_wtr
           act == T.t_rrd_s + T.t_rrd_l + T.t_rrd + T.t_faw + T.t_ppd + T.t_rrefd
           maint == T.t_rfc + T.t_rfcpb + T.t_rfmab + T.t_rfmpb
           bound == rcd + bank + data + turns + act + maint
<1>1. /\ T.t_rcd \in Nat /\ T.t_rcd_rd \in Nat /\ T.t_rcd_wr \in Nat
      /\ T.t_rp \in Nat /\ T.t_ras \in Nat /\ T.t_rc \in Nat /\ T.t_rtp \in Nat
      /\ T.t_cwl \in Nat /\ T.t_bl \in Nat /\ T.t_wr \in Nat
      /\ T.t_ccd_s \in Nat /\ T.t_ccd_l \in Nat /\ T.t_ccd \in Nat
      /\ T.t_rtw \in Nat /\ T.t_wtr_s \in Nat /\ T.t_wtr_l \in Nat /\ T.t_wtr \in Nat
      /\ T.t_rrd_s \in Nat /\ T.t_rrd_l \in Nat /\ T.t_rrd \in Nat
      /\ T.t_faw \in Nat /\ T.t_ppd \in Nat /\ T.t_rrefd \in Nat
      /\ T.t_rfc \in Nat /\ T.t_rfcpb \in Nat /\ T.t_rfmab \in Nat /\ T.t_rfmpb \in Nat
  BY TimingIsNat DEF Parameters
<1>2. rcd \in Nat /\ bank \in Nat /\ data \in Nat /\ turns \in Nat /\ act \in Nat /\ maint \in Nat
  BY <1>1
<1>3. /\ T.t_rcd <= rcd /\ T.t_rcd_rd <= rcd /\ T.t_rcd_wr <= rcd
      /\ T.t_rp <= bank /\ T.t_ras <= bank /\ T.t_rc <= bank /\ T.t_rtp <= bank
      /\ T.t_cwl + T.t_bl <= data /\ T.t_cwl + T.t_bl + T.t_wr <= data
      /\ T.t_ccd_s <= data /\ T.t_ccd_l <= data /\ T.t_ccd <= data
      /\ T.t_rtw <= turns /\ T.t_wtr_s <= turns /\ T.t_wtr_l <= turns /\ T.t_wtr <= turns
      /\ T.t_rrd_s <= act /\ T.t_rrd_l <= act /\ T.t_rrd <= act
      /\ T.t_faw <= act /\ T.t_ppd <= act /\ T.t_rrefd <= act
      /\ T.t_rfc <= maint /\ T.t_rfcpb <= maint /\ T.t_rfmab <= maint /\ T.t_rfmpb <= maint
  BY <1>1
<1>4. (T.t_cwl + T.t_bl) \in Nat /\ (T.t_cwl + T.t_bl + T.t_wr) \in Nat
  BY <1>1
<1> HIDE DEF rcd, bank, data, turns, act, maint
<1>5. bound \in Nat /\ rcd <= bound /\ bank <= bound /\ data <= bound /\ turns <= bound
      /\ act <= bound /\ maint <= bound /\ data + turns <= bound
  BY <1>2
<1>6. ASSUME NEW r \in ExtendedConstraints PROVE r[4] \in Nat \ {0} /\ r[5] \in 0 .. bound
  <2> HIDE DEF bound
  <2>1. /\ (T.t_cwl + T.t_bl) + T.t_wr \in 0 .. bound
        /\ (T.t_cwl + T.t_bl) + T.t_wtr_s \in 0 .. bound
        /\ (T.t_cwl + T.t_bl) + T.t_wtr_l \in 0 .. bound
    BY <1>1, <1>2, <1>3, <1>4, <1>5
  <2>2. /\ T.t_rcd_rd \in 0 .. bound /\ T.t_rcd_wr \in 0 .. bound /\ T.t_rp \in 0 .. bound
        /\ T.t_ras \in 0 .. bound /\ T.t_rc \in 0 .. bound /\ T.t_rtp \in 0 .. bound
        /\ T.t_rtw \in 0 .. bound /\ T.t_rrd_l \in 0 .. bound /\ T.t_rrd_s \in 0 .. bound
        /\ T.t_faw \in 0 .. bound /\ T.t_ppd \in 0 .. bound /\ T.t_rfc \in 0 .. bound
        /\ T.t_rfcpb \in 0 .. bound /\ T.t_rrefd \in 0 .. bound /\ T.t_rfmab \in 0 .. bound
        /\ T.t_rfmpb \in 0 .. bound /\ T.t_ccd_s \in 0 .. bound /\ T.t_ccd_l \in 0 .. bound
    BY <1>1, <1>2, <1>3, <1>5
  <2> HIDE DEF T
  <2> QED BY <2>1, <2>2 DEF ExtendedConstraints, T
<1>7. ASSUME NEW r \in CompactConstraints PROVE r[4] \in Nat \ {0} /\ r[5] \in 0 .. bound
  <2> HIDE DEF bound
  <2>1. /\ T.t_rp \in 0 .. bound /\ T.t_ras \in 0 .. bound /\ T.t_rc \in 0 .. bound
        /\ T.t_rtw \in 0 .. bound /\ T.t_wtr \in 0 .. bound /\ T.t_rrd \in 0 .. bound
        /\ T.t_faw \in 0 .. bound /\ T.t_rfc \in 0 .. bound /\ T.t_rfcpb \in 0 .. bound
        /\ T.t_rfmab \in 0 .. bound /\ T.t_rfmpb \in 0 .. bound /\ T.t_rcd \in 0 .. bound
        /\ T.t_ccd \in 0 .. bound
    BY <1>1, <1>2, <1>3, <1>5
  <2> HIDE DEF T
  <2> QED BY <2>1 DEF CompactConstraints, T
<1> HIDE DEF bound
<1>8. \A r \in Constraints : r[4] \in Nat \ {0} /\ r[5] \in 0 .. bound
  BY <1>6, <1>7 DEF Constraints
<1> QED BY <1>5, <1>8

-----------------------------------------------------------------------------
(* The timing engine.                                                       *)

Entry == [cmd : Command, bank : Bank, at : Int]

\* The values of a function on a finite set.
LEMMA FiniteImage ==
  ASSUME NEW S, IsFiniteSet(S), NEW f, DOMAIN f = S
  PROVE  IsFiniteSet({f[x] : x \in S})
<1> DEFINE T == {f[x] : x \in S}
           g == [x \in S |-> f[x]]
<1>1. g \in Surjection(S, T)
  BY DEF Surjection
<1> HIDE DEF g
<1> QED BY <1>1, FS_Surjection

\* The n-th element from the back is there when there are n elements.
LEMMA FromBackFacts ==
  ASSUME NEW S \in SUBSET Int, IsFiniteSet(S), NEW n \in 1 .. Cardinality(S)
  PROVE  FromBack(S, n) \in S /\ Cardinality({j \in S : j >= FromBack(S, n)}) = n
<1> DEFINE f == [x \in S |-> -x]
           M == {f[x] : x \in S}
<1>1. M \in SUBSET Int
  OBVIOUS
<1>2. IsFiniteSet(M) /\ Cardinality(M) = Cardinality(S)
  <2>1. f \in Bijection(S, M)
    <3>1. f \in [S -> M]
      OBVIOUS
    <3>2. ASSUME NEW x \in S, NEW y \in S, f[x] = f[y] PROVE x = y
      <4>1. x \in Int /\ y \in Int /\ -x = -y
        BY <3>2
      <4> QED BY <4>1
    <3> HIDE DEF f
    <3> QED BY <3>1, <3>2 DEF Bijection, Injection, Surjection, IsInjective
  <2>2. ExistsBijection(S, M)
    BY <2>1 DEF ExistsBijection
  <2> HIDE DEF M
  <2> QED BY <2>2, FS_Bijection
<1>3. PICK z \in M : Cardinality({w \in M : w <= z}) = n
  <2> HIDE DEF M
  <2> QED BY <1>1, <1>2, RankExists
<1>4. PICK x \in S : z = -x
  OBVIOUS
<1> DEFINE A == {y \in S : y >= x}
           B == {w \in M : w <= z}
           g == [y \in A |-> -y]
<1>5. ExistsBijection(A, B)
  <2>1. g \in [A -> B]
    <3> SUFFICES ASSUME NEW y \in A PROVE -y \in B
      OBVIOUS
    <3>1. y \in S /\ y \in Int /\ x \in Int /\ y >= x
      OBVIOUS
    <3>2. -y \in M /\ -y <= z
      BY <1>4, <3>1
    <3> QED BY <3>2
  <2>2. ASSUME NEW p \in A, NEW q \in A, g[p] = g[q] PROVE p = q
    <3>1. p \in Int /\ q \in Int /\ -p = -q
      BY <2>2
    <3> QED BY <3>1
  <2>3. ASSUME NEW w \in B PROVE \E y \in A : g[y] = w
    <3>1. PICK y \in S : w = -y
      OBVIOUS
    <3>2. y \in Int /\ x \in Int /\ -y <= -x
      BY <1>4, <3>1
    <3>3. y \in A
      BY <3>2
    <3> QED BY <3>1, <3>3
  <2> HIDE DEF A, B, g
  <2>4. g \in Bijection(A, B)
    BY <2>1, <2>2, <2>3 DEF Bijection, Injection, Surjection, IsInjective
  <2> QED BY <2>4 DEF ExistsBijection
<1>6. IsFiniteSet(A)
  BY FS_Subset
<1>7. Cardinality(A) = n
  <2> HIDE DEF A, M
  <2> QED BY <1>3, <1>5, <1>6, FS_Bijection
<1> QED BY <1>7 DEF FromBack

\* The recorded times, and a given one, have an upper bound.
LEMMA HistoryTimes ==
  ASSUME NEW history \in Seq(Entry), NEW time \in Int
  PROVE  \E latest \in Int : latest >= time /\ \A i \in DOMAIN history : latest >= history[i].at
<1> DEFINE n == Len(history)
           f == [i \in 1 .. n |-> history[i].at]
           S == {f[i] : i \in 1 .. n} \cup {time}
<1>1. n \in Nat /\ DOMAIN history = 1 .. n /\ \A i \in 1 .. n : history[i].at \in Int
  <2>1. \A i \in 1 .. n : history[i] \in Entry
    OBVIOUS
  <2> QED BY <2>1 DEF Entry
<1>2. S \in SUBSET Int /\ S # {}
  BY <1>1
<1>3. IsFiniteSet(S)
  <2>1. IsFiniteSet(1 .. n) /\ DOMAIN f = 1 .. n
    BY <1>1, FS_Interval
  <2> HIDE DEF f
  <2>2. IsFiniteSet({f[i] : i \in 1 .. n})
    BY <2>1, FiniteImage
  <2> QED BY <2>2, FS_AddElement
<1>4. \A i \in 1 .. n : history[i].at \in S
  OBVIOUS
<1>5. time \in S
  OBVIOUS
<1> HIDE DEF S
<1>6. Max(S) \in S /\ \A x \in S : Max(S) >= x
  BY <1>2, <1>3, MaxOf
<1> QED BY <1>1, <1>2, <1>4, <1>5, <1>6

\* The earliest legal time is a time, not in the past, and after the delay of every
\* constraint whose list is long enough.
LEMMA EarliestIssueFacts ==
  ASSUME NEW history \in Seq(Entry), NEW command, NEW bank \in Bank, NEW time \in Int
  PROVE  /\ earliest_issue(history, command, bank, time) \in Int
         /\ earliest_issue(history, command, bank, time) >= time
         /\ \A rule \in {r \in Constraints : r[2] = timing_command(command)} :
                LET past == HistoryOf(history, rule[1], rule[3], bank)
                IN  ~ (Cardinality(past) < rule[4]) =>
                        earliest_issue(history, command, bank, time)
                            >= history[FromBack(past, rule[4])].at + rule[5]
<1> DEFINE past(rule) == HistoryOf(history, rule[1], rule[3], bank)
           legal(rule) == IF Cardinality(past(rule)) < rule[4] THEN time
                          ELSE history[FromBack(past(rule), rule[4])].at + rule[5]
           rules == {r \in Constraints : r[2] = timing_command(command)}
           S == {time} \cup {legal(rule) : rule \in rules}
<1>1. PICK delay \in Nat : \A r \in Constraints : r[4] \in Nat \ {0} /\ r[5] \in 0 .. delay
  BY ConstraintFacts
<1>2. PICK latest \in Int : latest >= time /\ \A i \in DOMAIN history : latest >= history[i].at
  BY HistoryTimes
<1>3. ASSUME NEW rule \in rules PROVE legal(rule) \in Int /\ legal(rule) <= latest + delay
  <2>1. rule[4] \in Nat \ {0} /\ rule[5] \in 0 .. delay
    BY <1>1
  <2>2. past(rule) \in SUBSET DOMAIN history /\ DOMAIN history = 1 .. Len(history) /\ Len(history) \in Nat
    BY DEF HistoryOf
  <2>3. IsFiniteSet(past(rule)) /\ past(rule) \in SUBSET Int
    <3>1. IsFiniteSet(1 .. Len(history))
      BY <2>2, FS_Interval
    <3>2. past(rule) \in SUBSET (1 .. Len(history))
      BY <2>2
    <3>3. IsFiniteSet(past(rule))
      BY <3>1, <3>2, FS_Subset
    <3> QED BY <3>2, <3>3
  <2> DEFINE S1 == past(rule)
  <2>4. S1 \in SUBSET DOMAIN history /\ IsFiniteSet(S1) /\ S1 \in SUBSET Int
    BY <2>2, <2>3
  <2> HIDE DEF S1
  <2>5. Cardinality(S1) \in Nat
    BY <2>4, FS_CardinalityType
  <2>6. CASE Cardinality(S1) < rule[4]
    <3>1. legal(rule) = time
      BY <2>6 DEF S1
    <3> QED BY <1>1, <1>2, <3>1
  <2>7. CASE ~ (Cardinality(S1) < rule[4])
    <3>1. rule[4] \in 1 .. Cardinality(S1)
      BY <2>1, <2>5, <2>7
    <3>2. FromBack(S1, rule[4]) \in S1
      BY <2>4, <3>1, FromBackFacts
    <3> DEFINE i == FromBack(S1, rule[4])
    <3>3. legal(rule) = history[i].at + rule[5]
      BY <2>7 DEF S1
    <3>4. i \in DOMAIN history
      BY <2>4, <3>2
    <3> HIDE DEF i
    <3>5. history[i] \in Entry
      BY <3>4
    <3>6. history[i].at \in Int /\ latest >= history[i].at
      BY <1>2, <3>4, <3>5 DEF Entry
    <3> HIDE DEF legal
    <3> QED BY <1>1, <1>2, <2>1, <3>3, <3>6
  <2> QED BY <2>6, <2>7
<1>4. earliest_issue(history, command, bank, time) = Max(S)
  BY DEF earliest_issue
<1>8. \A rule \in rules : ~ (Cardinality(past(rule)) < rule[4]) =>
          legal(rule) = history[FromBack(past(rule), rule[4])].at + rule[5]
  OBVIOUS
<1> HIDE DEF legal, rules
<1>5. S \in SUBSET Int /\ S # {} /\ time \in S /\ \A x \in S : x <= latest + delay
  <2>1. ASSUME NEW x \in S PROVE x \in Int /\ x <= latest + delay
    <3>1. CASE x = time
      BY <1>1, <1>2, <3>1
    <3>2. CASE x # time
      <4>1. PICK rule \in rules : x = legal(rule)
        BY <3>2
      <4> QED BY <1>3, <4>1
    <3> QED BY <3>1, <3>2
  <2> QED BY <2>1
<1>6. latest + delay \in Int
  OBVIOUS
<1>9. \A rule \in rules : legal(rule) \in S
  OBVIOUS
<1> HIDE DEF S
<1>7. Max(S) \in S /\ \A x \in S : Max(S) >= x
  BY <1>5, <1>6, MaxBelow
<1>10. ASSUME NEW rule \in rules, ~ (Cardinality(past(rule)) < rule[4])
       PROVE  Max(S) >= history[FromBack(past(rule), rule[4])].at + rule[5]
  BY <1>7, <1>8, <1>9, <1>10
<1> QED BY <1>4, <1>5, <1>7, <1>10 DEF rules

-----------------------------------------------------------------------------
(* The controller's type.                                                   *)

Optional(S) == S \cup {None}

BankState == [row : Optional(Nat), precharge_pending : BOOLEAN, refresh_pending : BOOLEAN,
              rfm_pending : BOOLEAN, activation_count : Nat]

\* The activation count restarts when RFM becomes pending, and stays below the threshold.
WithinThreshold(bank) == /\ bank.rfm_pending => bank.activation_count = 0
                         /\ RfmThreshold # 0 => bank.activation_count < RfmThreshold

SoundBank == {bank \in BankState : WithinThreshold(bank)}

QueuedAccess == [id : Ids, op : {"Read", "Write"}, priority : Nat, domain : {t.domain : t \in Transactions},
                 bank : Bank, row : Nat, col : Nat, activated : BOOLEAN,
                 arrival : IF KeepRecords THEN Int ELSE {None}, first_at : Optional(Int)]

Controller == [queue : Seq(QueuedAccess), banks : [Bank -> SoundBank], history : Seq(Entry),
               data_bus : [0 .. PseudoChannels - 1 -> Int],
               command_bus : [{"unified", "row", "column"} -> Int],
               busy_until : Int, wakeup_at : Optional(Int), refresh_due_at : Optional(Int),
               next_refresh_due : Optional(Int), next_bank : Bank, refresh_pending : BOOLEAN,
               draining : BOOLEAN, outstanding : Nat, fault : BOOLEAN]

-----------------------------------------------------------------------------
(* Issuing a command.                                                       *)

\* Every command occupies one of the three command buses.
LEMMA CommandBusFacts ==
  ASSUME NEW command
  PROVE  command_bus(command) \in {"unified", "row", "column"}
  BY DEF command_bus

\* A command holds its bus for a time that is not negative.
LEMMA DurationFacts ==
  ASSUME NEW command
  PROVE  command_duration(command) \in Nat
<1>1. Timing.tck \in Nat
  BY TimingIsNat DEF Parameters
<1>2. Standard \in {"hbm2", "hbm3"} \/ Timing.t_command \in Nat
  BY TimingIsNat DEF Parameters
<1>3. 2 * Timing.tck \in Nat /\ HalfUp(3 * Timing.tck) \in Nat /\ HalfUp(Timing.tck) \in Nat
  BY <1>1 DEF HalfUp
<1> QED BY <1>1, <1>2, <1>3 DEF command_duration

\* So does a maintenance command hold its banks.
LEMMA MaintenanceDurationFacts ==
  ASSUME NEW command \in Maintenance
  PROVE  maintenance_duration(command) \in Nat
<1>1. Timing.t_rfc \in Nat /\ Timing.t_rfcpb \in Nat /\ Timing.t_rfmab \in Nat /\ Timing.t_rfmpb \in Nat
  BY TimingIsNat DEF Parameters
<1> QED BY <1>1 DEF maintenance_duration, Maintenance

\* A command is legal at a time that is not in the past, with its bus free and its
\* banks ready.
LEMMA EarliestCommandFacts ==
  ASSUME NEW c \in Controller, NEW command, NEW bank \in Bank, NEW time \in Int
  PROVE  /\ earliest_command(c, command, bank, time) \in Int /\ earliest_command(c, command, bank, time) >= time
         /\ earliest_command(c, command, bank, time) >= c.command_bus[command_bus(command)]
         /\ \A b \in IF ~Custom /\ command \in ChannelScoped THEN Bank ELSE {bank} :
                earliest_command(c, command, bank, time) >= earliest_issue(c.history, command, b, time)
<1> DEFINE targets == IF ~Custom /\ command \in ChannelScoped THEN Bank ELSE {bank}
           f == [b \in targets |-> earliest_issue(c.history, command, b, time)]
           images == {f[b] : b \in targets}
           busy == c.command_bus[command_bus(command)]
           S == images \cup {busy}
<1>1. c.history \in Seq(Entry) /\ busy \in Int
  BY CommandBusFacts DEF Controller
<1>2. targets \in SUBSET Bank /\ IsFiniteSet(targets) /\ bank \in targets
  BY BankFacts, FS_Singleton
<1>3. \A b \in targets : f[b] \in Int /\ f[b] >= time
  BY <1>1, <1>2, EarliestIssueFacts
<1>4. DOMAIN f = targets
  OBVIOUS
<1>5. earliest_command(c, command, bank, time) = Max(S)
  BY DEF earliest_command
<1> HIDE DEF f, targets, busy
<1>6. images \in SUBSET Int /\ f[bank] \in images /\ IsFiniteSet(images)
  BY <1>2, <1>3, <1>4, FiniteImage
<1> HIDE DEF images
<1>7. S \in SUBSET Int /\ f[bank] \in S /\ S # {} /\ IsFiniteSet(S)
  BY <1>1, <1>6, FS_AddElement
<1> HIDE DEF S
<1>8. Max(S) \in S /\ \A x \in S : Max(S) >= x
  BY <1>7, MaxOf
<1>9. Max(S) \in Int /\ Max(S) >= f[bank] /\ f[bank] \in Int /\ f[bank] >= time
  BY <1>2, <1>3, <1>7, <1>8
<1>10. Max(S) >= busy /\ \A b \in targets : Max(S) >= f[b]
  BY <1>8 DEF S, images
<1>11. \A b \in targets : f[b] = earliest_issue(c.history, command, b, time)
  BY DEF f
<1>12. Max(S) >= time
  BY <1>9
<1> DEFINE ready == Max(S)
<1> HIDE DEF ready
<1>13. /\ ready \in Int /\ ready >= time /\ ready >= busy
       /\ \A b \in targets : ready >= earliest_issue(c.history, command, b, time)
  BY <1>9, <1>10, <1>11, <1>12 DEF ready
<1>14. earliest_command(c, command, bank, time) = ready
  BY <1>5 DEF ready
<1> QED BY <1>13, <1>14 DEF targets, busy

\* The new state of a bank: only its row and its closed-page flag may change.
LEMMA BankAfterFacts ==
  ASSUME NEW command \in Command, NEW row \in Nat, NEW bank \in SoundBank
  PROVE  LET b == BankAfter(command, row, bank)
         IN  /\ b \in SoundBank
             /\ b.rfm_pending = bank.rfm_pending /\ b.refresh_pending = bank.refresh_pending
             /\ b.activation_count = bank.activation_count
<1> DEFINE b == BankAfter(command, row, bank)
<1>1. bank \in BankState /\ WithinThreshold(bank)
  BY DEF SoundBank
<1>2. /\ b \in BankState
      /\ b.rfm_pending = bank.rfm_pending /\ b.refresh_pending = bank.refresh_pending
      /\ b.activation_count = bank.activation_count
  <2> DEFINE flag == Custom /\ bank.precharge_pending
  <2>1. flag \in BOOLEAN
    BY <1>1 DEF BankState
  <2>2. b = bank \/ b = [bank EXCEPT !.row = row, !.precharge_pending = flag]
        \/ b = [bank EXCEPT !.row = None, !.precharge_pending = flag]
    BY DEF BankAfter
  <2> HIDE DEF flag, b
  <2>3. row \in Optional(Nat) /\ None \in Optional(Nat)
    BY DEF Optional
  <2> QED BY <1>1, <2>1, <2>2, <2>3 DEF BankState
<1> HIDE DEF b
<1>3. WithinThreshold(b)
  BY <1>1, <1>2 DEF WithinThreshold
<1>4. b \in SoundBank
  BY <1>2, <1>3 DEF SoundBank
<1> QED BY <1>2, <1>4 DEF b

\* The accesses and the marks that a controller has.
SameWork(c, d) == /\ d.queue = c.queue /\ d.outstanding = c.outstanding /\ d.fault = c.fault
                  /\ d.wakeup_at = c.wakeup_at /\ d.refresh_due_at = c.refresh_due_at

\* A command that is issued changes the banks, the history and a command bus only.
LEMMA CommandIssuedFacts ==
  ASSUME NEW c \in Controller, NEW command \in Command, NEW row \in Nat, NEW bank \in Bank, NEW time \in Int
  PROVE  LET d == CommandIssued(c, command, row, bank, time)
         IN  /\ d \in Controller /\ SameWork(c, d)
             /\ d.next_refresh_due = c.next_refresh_due /\ d.busy_until = c.busy_until
             /\ d.refresh_pending = c.refresh_pending /\ d.next_bank = c.next_bank
             /\ d.data_bus = c.data_bus /\ d.draining = c.draining
             /\ d.banks = apply_transition(command, row, c.banks, bank)
<1> DEFINE past == record(c.history, command, bank, time)
           bus == command_bus(command)
           until == time + command_duration(command)
           buses == [c.command_bus EXCEPT ![bus] = until]
           banks == apply_transition(command, row, c.banks, bank)
           d == CommandIssued(c, command, row, bank, time)
<1>1. c.history \in Seq(Entry) /\ c.command_bus \in [{"unified", "row", "column"} -> Int]
      /\ c.banks \in [Bank -> SoundBank]
  BY DEF Controller
<1>2. past \in Seq(Entry)
  <2>1. [cmd |-> command, bank |-> bank, at |-> time] \in Entry
    BY DEF Entry
  <2> QED BY <1>1, <2>1, AppendProperties DEF record
<1>3. buses \in [{"unified", "row", "column"} -> Int]
  <2>1. until \in Int
    BY DurationFacts
  <2> HIDE DEF until
  <2> QED BY <1>1, <2>1
<1>4. banks \in [Bank -> SoundBank]
  <2>1. DOMAIN c.banks = Bank
    BY <1>1
  <2>2. ASSUME NEW b \in Bank
        PROVE  (IF command \in ChannelScoped \/ b = bank THEN BankAfter(command, row, c.banks[b])
                                                         ELSE c.banks[b]) \in SoundBank
    <3>1. c.banks[b] \in SoundBank
      BY <1>1
    <3>2. BankAfter(command, row, c.banks[b]) \in SoundBank
      BY <3>1, BankAfterFacts
    <3> QED BY <3>1, <3>2
  <2> QED BY <2>1, <2>2 DEF apply_transition
<1>5. d = [c EXCEPT !.history = past, !.command_bus = buses, !.banks = banks]
  BY DEF CommandIssued
<1> HIDE DEF past, buses, banks, d
<1>6. d \in Controller
  BY <1>2, <1>3, <1>4, <1>5 DEF Controller
<1>7. /\ SameWork(c, d) /\ d.banks = banks
      /\ d.next_refresh_due = c.next_refresh_due /\ d.busy_until = c.busy_until
      /\ d.refresh_pending = c.refresh_pending /\ d.next_bank = c.next_bank
      /\ d.data_bus = c.data_bus /\ d.draining = c.draining
  BY <1>5 DEF SameWork, Controller
<1> QED BY <1>6, <1>7 DEF d, banks

-----------------------------------------------------------------------------
(* Maintenance.                                                             *)

\* On the way to a maintenance command there are only precharges.
LEMMA PlannedMaintenance ==
  ASSUME NEW requested \in {"REFab", "REFpb", "RFMpb"}, NEW row, NEW bank, NEW anyOpen \in BOOLEAN
  PROVE  PlannedCommand(requested, row, bank, anyOpen) \in {requested, "PRE", "PREA"}
<1>1. CASE Custom
  BY <1>1 DEF PlannedCommand, CustomDecision
<1>2. CASE ~Custom
  <2> DEFINE matching == {rule \in Prerequisites : /\ rule[1] = requested
                                                   /\ Meets(rule[2], row, bank, anyOpen)}
  <2>1. PlannedCommand(requested, row, bank, anyOpen) =
           IF matching = {} THEN requested ELSE (CHOOSE rule \in matching : TRUE)[3]
    BY <1>2 DEF PlannedCommand, resolve_prerequisite
  <2>2. ASSUME NEW rule \in matching PROVE rule[3] \in {"PRE", "PREA"}
    BY DEF Prerequisites, DataCommands
  <2> HIDE DEF matching
  <2>3. CASE matching = {}
    BY <2>1, <2>3
  <2>4. CASE matching # {}
    <3>1. (CHOOSE rule \in matching : TRUE) \in matching
      BY <2>4
    <3> QED BY <2>1, <2>2, <2>4, <3>1
  <2> QED BY <2>3, <2>4
<1> QED BY <1>1, <1>2

MaintenanceStep == [requested : {"REFab", "REFpb", "RFMpb"}, command : Command, bank : Bank, ready_at : Int]

\* The next step of a maintenance request: its bank's own command or a precharge.
LEMMA MaintenanceForFacts ==
  ASSUME NEW c \in Controller, NEW requested \in {"REFab", "REFpb", "RFMpb"}, NEW bank \in Bank, NEW time \in Int
  PROVE  LET m == MaintenanceFor(c, requested, bank, time)
         IN  /\ m \in MaintenanceStep /\ m.ready_at >= time /\ m.command \in {requested, "PRE", "PREA"}
             /\ m.requested = requested /\ m.bank = bank
<1> DEFINE command == PlannedCommand(requested, 0, c.banks[bank], AnyOpen(c))
           at == earliest_command(c, command, bank, time)
           m == MaintenanceFor(c, requested, bank, time)
<1>1. command \in {requested, "PRE", "PREA"}
  <2>1. AnyOpen(c) \in BOOLEAN
    BY DEF AnyOpen
  <2> QED BY <2>1, PlannedMaintenance
<1>2. m = [requested |-> requested, command |-> command, bank |-> bank, ready_at |-> at]
  BY DEF MaintenanceFor, MaintenanceBy
<1> HIDE DEF command, m
<1>3. command \in Command
  BY <1>1 DEF Command, BankScoped, ChannelScoped
<1>4. at \in Int /\ at >= time
  BY EarliestCommandFacts
<1> HIDE DEF at
<1>5. m \in MaintenanceStep
  BY <1>2, <1>3, <1>4 DEF MaintenanceStep
<1>6. m.ready_at = at /\ m.command = command /\ m.requested = requested /\ m.bank = bank
  BY <1>2
<1> QED BY <1>1, <1>4, <1>5, <1>6 DEF m

\* The step chosen is one of the pending ones, for its bank's RFM before its refresh.
LEMMA ChosenMaintenance ==
  ASSUME NEW c \in Controller, NEW time \in Int, MaintenanceIsPending(c)
  PROVE  LET m == choose_maintenance(c, time)
         IN  /\ m \in MaintenanceStep /\ m.ready_at >= time /\ m.command \in {m.requested, "PRE", "PREA"}
             /\ m.requested = IF c.refresh_pending THEN "REFab"
                              ELSE IF c.banks[m.bank].rfm_pending THEN "RFMpb" ELSE "REFpb"
             /\ c.refresh_pending \/ c.banks[m.bank].rfm_pending \/ c.banks[m.bank].refresh_pending
             /\ m = MaintenanceFor(c, m.requested, m.bank, time)
<1> DEFINE request(b) == IF c.refresh_pending THEN "REFab"
                         ELSE IF c.banks[b].rfm_pending THEN "RFMpb" ELSE "REFpb"
           targets == IF c.refresh_pending THEN {0}
                      ELSE {b \in Bank : c.banks[b].rfm_pending \/ c.banks[b].refresh_pending}
           f == [b \in targets |-> MaintenanceFor(c, request(b), b, time)]
           S == {f[b] : b \in targets}
           R == {x \in MaintenanceStep \X MaintenanceStep :
                    \/ x[1].ready_at < x[2].ready_at
                    \/ x[1].ready_at = x[2].ready_at /\ x[1].bank <= x[2].bank}
           least(m) == \A n \in S : m.ready_at < n.ready_at \/ (m.ready_at = n.ready_at /\ m.bank <= n.bank)
<1>1. targets \in SUBSET Bank /\ IsFiniteSet(targets)
  BY BankFacts, FS_Singleton, FS_Subset
<1>2. targets # {}
  BY DEF MaintenanceIsPending
<1>3. ASSUME NEW b \in targets
      PROVE  /\ f[b] \in MaintenanceStep /\ f[b].ready_at >= time /\ f[b].command \in {f[b].requested, "PRE", "PREA"}
             /\ f[b].requested = request(b) /\ f[b].bank = b
             /\ f[b] = MaintenanceFor(c, f[b].requested, f[b].bank, time)
  <2>1. request(b) \in {"REFab", "REFpb", "RFMpb"} /\ b \in Bank
    BY <1>1
  <2> DEFINE r == request(b)
  <2> HIDE DEF request
  <2>2. f[b] = MaintenanceFor(c, r, b, time)
    OBVIOUS
  <2> HIDE DEF f
  <2>3. /\ f[b] \in MaintenanceStep /\ f[b].ready_at >= time /\ f[b].command \in {r, "PRE", "PREA"}
        /\ f[b].requested = r /\ f[b].bank = b
    BY <2>1, <2>2, MaintenanceForFacts
  <2> QED BY <2>2, <2>3
<1>4. choose_maintenance(c, time) = CHOOSE m \in S : least(m)
  <2>1. S = {MaintenanceFor(c, request(b), b, time) : b \in targets}
    OBVIOUS
  <2> QED BY <2>1 DEF choose_maintenance, ReadySoonest
<1>5. \A b \in targets : c.refresh_pending \/ c.banks[b].rfm_pending \/ c.banks[b].refresh_pending
  OBVIOUS
<1>d. DOMAIN f = targets
  OBVIOUS
<1> HIDE DEF f, request, targets
<1>6. IsFiniteSet(S) /\ S # {}
  BY <1>1, <1>2, <1>d, FiniteImage
<1>7. S \in SUBSET MaintenanceStep
  BY <1>3
<1>8. \A x \in MaintenanceStep : x.ready_at \in Int /\ x.bank \in Int
  BY BankFacts DEF MaintenanceStep
<1>9. \E m \in S : least(m)
  <2>1. \A x, y \in S : x # y => <<x, y>> \in R \/ <<y, x>> \in R
    <3> HIDE DEF S
    <3> QED BY <1>7, <1>8
  <2>2. \A x, y, z \in S : <<x, y>> \in R /\ <<y, z>> \in R => <<x, z>> \in R
    <3> SUFFICES ASSUME NEW x \in MaintenanceStep, NEW y \in MaintenanceStep, NEW z \in MaintenanceStep,
                        <<x, y>> \in R, <<y, z>> \in R
                 PROVE  <<x, z>> \in R
      BY <1>7
    <3>1. x.ready_at \in Int /\ x.bank \in Int /\ y.ready_at \in Int /\ y.bank \in Int
          /\ z.ready_at \in Int /\ z.bank \in Int
      BY <1>8
    <3>2. x.ready_at < y.ready_at \/ (x.ready_at = y.ready_at /\ x.bank <= y.bank)
      OBVIOUS
    <3>3. y.ready_at < z.ready_at \/ (y.ready_at = z.ready_at /\ y.bank <= z.bank)
      OBVIOUS
    <3>4. x.ready_at < z.ready_at \/ (x.ready_at = z.ready_at /\ x.bank <= z.bank)
      BY <3>1, <3>2, <3>3
    <3> QED BY <3>4
  <2> HIDE DEF S, R
  <2>3. PICK m \in S : \A n \in S \ {m} : <<m, n>> \in R
    BY <1>6, <2>1, <2>2, LeastOf
  <2>4. ASSUME NEW n \in S PROVE m.ready_at < n.ready_at \/ (m.ready_at = n.ready_at /\ m.bank <= n.bank)
    <3>1. CASE n = m
      BY <1>7, <1>8, <3>1
    <3>2. CASE n # m
      <4>1. <<m, n>> \in R
        BY <2>3, <3>2
      <4> QED BY <4>1 DEF R
    <3> QED BY <3>1, <3>2
  <2> QED BY <2>4
<1> HIDE DEF least
<1>10. choose_maintenance(c, time) \in S
  BY <1>4, <1>9
<1>11. PICK b \in targets : choose_maintenance(c, time) = f[b]
  BY <1>10
<1> DEFINE m == choose_maintenance(c, time)
<1> HIDE DEF m
<1>12. m = f[b]
  BY <1>11 DEF m
<1>13. m.bank = b /\ m.requested = request(b)
  BY <1>3, <1>12
<1>14. /\ m \in MaintenanceStep /\ m.ready_at >= time /\ m.command \in {m.requested, "PRE", "PREA"}
       /\ m = MaintenanceFor(c, m.requested, m.bank, time)
  BY <1>3, <1>12
<1> QED BY <1>5, <1>13, <1>14 DEF m, request

Idle     == INSTANCE LoopTheory WITH Op <- IdleStep
CaughtUp == INSTANCE LoopTheory WITH Op <- CatchUp

\* Two fields of one bank assigned in turn are assigned at once.
LEMMA RefreshedBank ==
  ASSUME NEW r, NEW b, "banks" \in DOMAIN r, b \in DOMAIN r.banks
  PROVE  [r EXCEPT !.banks[b].refresh_pending = FALSE, !.banks[b].activation_count = 0]
           = [r EXCEPT !.banks =
                [r.banks EXCEPT ![b] = [r.banks[b] EXCEPT !.refresh_pending = FALSE, !.activation_count = 0]]]
<1> DEFINE x == r.banks[b]
           y == [x EXCEPT !.refresh_pending = FALSE]
           z == [y EXCEPT !.activation_count = 0]
           g == [r EXCEPT !.banks = [r.banks EXCEPT ![b] = y]]
<1>1. g.banks = [r.banks EXCEPT ![b] = y]
  OBVIOUS
<1>2. g.banks[b] = y
  <2> HIDE DEF x, y, g
  <2> QED BY <1>1
<1>3. [g.banks EXCEPT ![b] = z] = [r.banks EXCEPT ![b] = z]
  <2> HIDE DEF x, y, z, g
  <2> QED BY <1>1
<1>4. [g EXCEPT !.banks = [r.banks EXCEPT ![b] = z]] = [r EXCEPT !.banks = [r.banks EXCEPT ![b] = z]]
  <2> DEFINE new == [r.banks EXCEPT ![b] = z]
             old == [r.banks EXCEPT ![b] = y]
  <2> HIDE DEF new, old, x, y, z
  <2> QED BY DEF g
<1>5. [g EXCEPT !.banks[b].activation_count = 0] = [g EXCEPT !.banks = [g.banks EXCEPT ![b] = z]]
  <2> HIDE DEF g, y
  <2> QED BY <1>2
<1> HIDE DEF g
<1>6. [g EXCEPT !.banks[b].activation_count = 0] = [r EXCEPT !.banks = [r.banks EXCEPT ![b] = z]]
  <2> HIDE DEF z
  <2> QED BY <1>3, <1>4, <1>5
<1> QED BY <1>6 DEF g

LEMMA RelievedBank ==
  ASSUME NEW r, NEW b, "banks" \in DOMAIN r, b \in DOMAIN r.banks
  PROVE  [r EXCEPT !.banks[b].rfm_pending = FALSE, !.banks[b].activation_count = 0]
           = [r EXCEPT !.banks =
                [r.banks EXCEPT ![b] = [r.banks[b] EXCEPT !.rfm_pending = FALSE, !.activation_count = 0]]]
<1> DEFINE x == r.banks[b]
           y == [x EXCEPT !.rfm_pending = FALSE]
           z == [y EXCEPT !.activation_count = 0]
           g == [r EXCEPT !.banks = [r.banks EXCEPT ![b] = y]]
<1>1. g.banks = [r.banks EXCEPT ![b] = y]
  OBVIOUS
<1>2. g.banks[b] = y
  <2> HIDE DEF x, y, g
  <2> QED BY <1>1
<1>3. [g.banks EXCEPT ![b] = z] = [r.banks EXCEPT ![b] = z]
  <2> HIDE DEF x, y, z, g
  <2> QED BY <1>1
<1>4. [g EXCEPT !.banks = [r.banks EXCEPT ![b] = z]] = [r EXCEPT !.banks = [r.banks EXCEPT ![b] = z]]
  <2> DEFINE new == [r.banks EXCEPT ![b] = z]
             old == [r.banks EXCEPT ![b] = y]
  <2> HIDE DEF new, old, x, y, z
  <2> QED BY DEF g
<1>5. [g EXCEPT !.banks[b].activation_count = 0] = [g EXCEPT !.banks = [g.banks EXCEPT ![b] = z]]
  <2> HIDE DEF g, y
  <2> QED BY <1>2
<1> HIDE DEF g
<1>6. [g EXCEPT !.banks[b].activation_count = 0] = [r EXCEPT !.banks = [r.banks EXCEPT ![b] = z]]
  <2> HIDE DEF z
  <2> QED BY <1>3, <1>4, <1>5
<1> QED BY <1>6 DEF g

\* The maintenance command that is issued changes the banks' flags with the final command only.
LEMMA MaintenanceIssued ==
  ASSUME NEW c \in Controller, NEW m \in MaintenanceStep, m.command \in {m.requested, "PRE", "PREA"}, NEW time \in Int
  PROVE  LET d == issue_maintenance(c, m, time)
         IN  /\ d \in Controller /\ SameWork(c, d) /\ d.next_refresh_due = c.next_refresh_due
             /\ d.busy_until = IF IsFinal(m) THEN time + maintenance_duration(m.requested) ELSE c.busy_until
<1> DEFINE i == CommandIssued(c, m.command, 0, m.bank, time)
           until == time + maintenance_duration(m.requested)
           busy == [i EXCEPT !.busy_until = until]
           d == issue_maintenance(c, m, time)
           done(b) == [b EXCEPT !.refresh_pending = FALSE, !.activation_count = 0]
           managed(b) == [b EXCEPT !.rfm_pending = FALSE, !.activation_count = 0]
           all == [b \in Bank |-> done(i.banks[b])]
           refreshed == [i.banks EXCEPT ![m.bank] = done(i.banks[m.bank])]
           relieved == [i.banks EXCEPT ![m.bank] = managed(i.banks[m.bank])]
<1>1. m.command \in Command /\ m.bank \in Bank /\ m.requested \in {"REFab", "REFpb", "RFMpb"}
  BY DEF MaintenanceStep
<1>2. i \in Controller /\ SameWork(c, i) /\ i.next_refresh_due = c.next_refresh_due /\ i.busy_until = c.busy_until
  BY <1>1, CommandIssuedFacts
<1>3. until \in Int
  <2>1. m.requested \in Maintenance
    BY <1>1 DEF Maintenance
  <2> QED BY <2>1, MaintenanceDurationFacts
<1>4. ASSUME NEW b \in SoundBank PROVE done(b) \in SoundBank /\ managed(b) \in SoundBank
  <2>1. b \in BankState /\ WithinThreshold(b)
    BY DEF SoundBank
  <2>2. done(b) \in BankState /\ managed(b) \in BankState
    BY <2>1 DEF BankState
  <2>3. RfmThreshold \in Nat
    BY ControllerAssumption
  <2>4. done(b).activation_count = 0 /\ managed(b).activation_count = 0
    BY <2>1 DEF BankState
  <2> HIDE DEF done, managed
  <2>5. WithinThreshold(done(b)) /\ WithinThreshold(managed(b))
    BY <2>3, <2>4 DEF WithinThreshold
  <2> QED BY <2>2, <2>5 DEF SoundBank
<1>5. i.banks \in [Bank -> SoundBank]
  BY <1>2 DEF Controller
<1>6. all \in [Bank -> SoundBank] /\ refreshed \in [Bank -> SoundBank] /\ relieved \in [Bank -> SoundBank]
  <2> HIDE DEF done, managed
  <2> QED BY <1>1, <1>4, <1>5
<1>7. CASE ~IsFinal(m)
  <2>1. d = i
    BY <1>7 DEF issue_maintenance
  <2> QED BY <1>2, <1>7, <2>1
<1>8. CASE IsFinal(m)
  <2>1. CASE m.requested = "REFab"
    <3>1. d = [i EXCEPT !.busy_until = until, !.refresh_pending = FALSE, !.banks = all]
      <4>1. d = [busy EXCEPT !.refresh_pending = FALSE, !.banks = all]
        BY <1>2, <1>8, <2>1 DEF issue_maintenance, Controller
      <4> HIDE DEF i, all, d, until
      <4> QED BY <1>2, <4>1 DEF Controller
    <3> HIDE DEF i, all, d, until
    <3>2. d \in Controller
      BY <1>2, <1>3, <1>6, <3>1 DEF Controller
    <3>3. SameWork(c, d) /\ d.next_refresh_due = c.next_refresh_due /\ d.busy_until = until
      BY <1>2, <3>1 DEF Controller, SameWork
    <3> QED BY <1>8, <3>2, <3>3 DEF d, until
  <2>2. CASE m.requested = "REFpb"
    <3>1. d = [i EXCEPT !.busy_until = until, !.banks = refreshed]
      <4>1. d = [busy EXCEPT !.banks[m.bank].refresh_pending = FALSE, !.banks[m.bank].activation_count = 0]
        BY <1>8, <2>2 DEF issue_maintenance
      <4> HIDE DEF i, d, until
      <4>2. "banks" \in DOMAIN busy /\ busy.banks = i.banks /\ m.bank \in DOMAIN busy.banks
        BY <1>1, <1>2, <1>5 DEF Controller
      <4> HIDE DEF busy
      <4>3. d = [busy EXCEPT !.banks =
                   [busy.banks EXCEPT ![m.bank] =
                      [busy.banks[m.bank] EXCEPT !.refresh_pending = FALSE, !.activation_count = 0]]]
        BY <4>1, <4>2, RefreshedBank, Zenon
      <4>4. d = [busy EXCEPT !.banks = refreshed]
        BY <4>2, <4>3, Zenon
      <4> QED BY <4>4 DEF busy
    <3> HIDE DEF i, refreshed, d, until
    <3>2. d \in Controller
      BY <1>2, <1>3, <1>6, <3>1 DEF Controller
    <3>3. SameWork(c, d) /\ d.next_refresh_due = c.next_refresh_due /\ d.busy_until = until
      BY <1>2, <3>1 DEF Controller, SameWork
    <3> QED BY <1>8, <3>2, <3>3 DEF d, until
  <2>3. CASE m.requested = "RFMpb"
    <3>1. d = [i EXCEPT !.busy_until = until, !.banks = relieved]
      <4>1. d = [busy EXCEPT !.banks[m.bank].rfm_pending = FALSE, !.banks[m.bank].activation_count = 0]
        BY <1>8, <2>3 DEF issue_maintenance
      <4> HIDE DEF i, d, until
      <4>2. "banks" \in DOMAIN busy /\ busy.banks = i.banks /\ m.bank \in DOMAIN busy.banks
        BY <1>1, <1>2, <1>5 DEF Controller
      <4> HIDE DEF busy
      <4>3. d = [busy EXCEPT !.banks =
                   [busy.banks EXCEPT ![m.bank] =
                      [busy.banks[m.bank] EXCEPT !.rfm_pending = FALSE, !.activation_count = 0]]]
        BY <4>1, <4>2, RelievedBank, Zenon
      <4>4. d = [busy EXCEPT !.banks = relieved]
        BY <4>2, <4>3, Zenon
      <4> QED BY <4>4 DEF busy
    <3> HIDE DEF i, relieved, d, until
    <3>2. d \in Controller
      BY <1>2, <1>3, <1>6, <3>1 DEF Controller
    <3>3. SameWork(c, d) /\ d.next_refresh_due = c.next_refresh_due /\ d.busy_until = until
      BY <1>2, <3>1 DEF Controller, SameWork
    <3> QED BY <1>8, <3>2, <3>3 DEF d, until
  <2> QED BY <1>1, <2>1, <2>2, <2>3
<1> QED BY <1>7, <1>8

\* The later of two times.
LEMMA MaxOfTwo ==
  ASSUME NEW a \in Int, NEW b \in Int
  PROVE  Max({a, b}) \in {a, b} /\ Max({a, b}) \in Int /\ Max({a, b}) >= a /\ Max({a, b}) >= b
<1>1. {a, b} \in SUBSET Int /\ {a, b} # {} /\ IsFiniteSet({a, b})
  <2>1. IsFiniteSet({a} \cup {b})
    BY FS_Singleton, FS_AddElement
  <2>2. {a} \cup {b} = {a, b}
    OBVIOUS
  <2> QED BY <2>1, <2>2
<1> DEFINE S == {a, b}
<1> HIDE DEF S
<1>2. Max(S) \in S /\ \A x \in S : Max(S) >= x
  BY <1>1, MaxOf DEF S
<1> QED BY <1>2 DEF S

\* What a refresh leaves alone.
SameRefresh(c, d) == SameWork(c, d) /\ d.next_refresh_due = c.next_refresh_due

\* A refresh that falls due sets a flag, and moves the rotation on.
LEMMA RefreshFallsDueFacts ==
  ASSUME NEW c \in Controller
  PROVE  RefreshFallsDue(c) \in Controller /\ SameRefresh(c, RefreshFallsDue(c))
<1> DEFINE d == RefreshFallsDue(c)
           flagged == [c.banks[c.next_bank] EXCEPT !.refresh_pending = TRUE]
           banks == [c.banks EXCEPT ![c.next_bank] = flagged]
           next == (c.next_bank + 1) % Cardinality(Bank)
<1>1. c.banks \in [Bank -> SoundBank] /\ c.next_bank \in Bank
  BY DEF Controller
<1>2. next \in Bank
  <2>1. Cardinality(Bank) \in Nat \ {0} /\ c.next_bank \in Nat /\ Bank = 0 .. Cardinality(Bank) - 1
    BY <1>1, BankFacts
  <2> DEFINE n == Cardinality(Bank)
  <2>2. n \in Nat \ {0} /\ Bank = 0 .. n - 1
    BY <2>1
  <2> HIDE DEF n
  <2>3. (c.next_bank + 1) % n \in 0 .. n - 1
    BY <2>1, <2>2
  <2> QED BY <2>2, <2>3 DEF n
<1>3. flagged \in SoundBank
  <2>1. c.banks[c.next_bank] \in BankState /\ WithinThreshold(c.banks[c.next_bank])
    BY <1>1 DEF SoundBank
  <2> DEFINE b == c.banks[c.next_bank]
  <2> HIDE DEF b
  <2>2. b \in BankState /\ WithinThreshold(b)
    BY <2>1 DEF b
  <2>3. [b EXCEPT !.refresh_pending = TRUE] \in BankState /\ WithinThreshold([b EXCEPT !.refresh_pending = TRUE])
    BY <2>2 DEF BankState, WithinThreshold
  <2>4. [b EXCEPT !.refresh_pending = TRUE] \in SoundBank
    BY <2>3 DEF SoundBank
  <2> QED BY <2>4 DEF b
<1>4. banks \in [Bank -> SoundBank]
  <2> HIDE DEF flagged
  <2> QED BY <1>1, <1>3
<1>5. d = [c EXCEPT !.refresh_pending = TRUE] \/ d = [c EXCEPT !.banks = banks, !.next_bank = next]
  <2>1. CASE RefreshPolicy = "AllBank"
    BY <2>1 DEF RefreshFallsDue
  <2>2. CASE RefreshPolicy # "AllBank"
    BY <2>2 DEF RefreshFallsDue, Controller
  <2> QED BY <2>1, <2>2
<1> HIDE DEF d, banks, next
<1>6. d \in Controller
  <2>1. [c EXCEPT !.refresh_pending = TRUE] \in Controller
    BY DEF Controller
  <2>2. [c EXCEPT !.banks = banks, !.next_bank = next] \in Controller
    BY <1>2, <1>4 DEF Controller
  <2> QED BY <1>5, <2>1, <2>2
<1>7. SameRefresh(c, d)
  BY <1>5 DEF Controller, SameRefresh, SameWork
<1> QED BY <1>6, <1>7 DEF d

\* One turn of the loop of apply_idle_refresh.
LEMMA IdleStepFacts ==
  ASSUME NEW s, s.c \in Controller, s.cursor \in Int, NEW i
  PROVE  /\ IdleStep(s, i).c \in Controller /\ IdleStep(s, i).cursor \in Int
         /\ SameRefresh(s.c, IdleStep(s, i).c)
<1>1. CASE ~RefreshIsPending(s.c)
  BY <1>1 DEF IdleStep, SameRefresh, SameWork
<1>2. CASE RefreshIsPending(s.c)
  <2> DEFINE m == choose_maintenance(s.c, s.cursor)
             at == Max({s.cursor, m.ready_at})
             d == issue_maintenance(s.c, m, at)
             later == Max({at, d.command_bus[command_bus(m.command)]})
  <2>1. MaintenanceIsPending(s.c)
    BY <1>2 DEF RefreshIsPending, MaintenanceIsPending
  <2>2. m \in MaintenanceStep /\ m.command \in {m.requested, "PRE", "PREA"}
    BY <2>1, ChosenMaintenance
  <2>3. IdleStep(s, i) = [c |-> d, cursor |-> later]
    BY <1>2 DEF IdleStep, IssueWhenReady, IssueIdle, AfterIdle
  <2> HIDE DEF m
  <2>4. m.ready_at \in Int
    BY <2>2 DEF MaintenanceStep
  <2>5. at \in Int
    BY <2>4, MaxOfTwo
  <2> HIDE DEF at
  <2>6. d \in Controller /\ SameWork(s.c, d) /\ d.next_refresh_due = s.c.next_refresh_due
    BY <2>2, <2>5, MaintenanceIssued
  <2> HIDE DEF d
  <2>7. d.command_bus[command_bus(m.command)] \in Int
    BY <2>6, CommandBusFacts DEF Controller
  <2>8. later \in Int
    BY <2>5, <2>7, MaxOfTwo
  <2> HIDE DEF later
  <2> QED BY <2>3, <2>6, <2>8 DEF SameRefresh
<1> QED BY <1>1, <1>2

\* The whole loop.
LEMMA ApplyIdleFacts ==
  ASSUME NEW c \in Controller, NEW when \in Int
  PROVE  apply_idle_refresh(c, when) \in Controller /\ SameRefresh(c, apply_idle_refresh(c, when))
<1> DEFINE first == RefreshFallsDue(c)
           base == [c |-> first, cursor |-> Max({when, c.busy_until})]
           seq == [i \in 1 .. IdleSteps |-> i]
           n == Len(seq)
<1>1. first \in Controller /\ SameRefresh(c, first)
  BY RefreshFallsDueFacts
<1>2. base.c = first /\ base.cursor \in Int
  <2>1. c.busy_until \in Int
    BY DEF Controller
  <2> QED BY <2>1, MaxOfTwo
<1>3. seq \in Seq(Nat)
  <2>1. IdleSteps \in Nat
    BY BankFacts DEF IdleSteps
  <2> QED BY <2>1
<1>4. apply_idle_refresh(c, when) = Idle!Looped(base, seq).c
  BY DEF apply_idle_refresh, FoldLeft, MapThenFoldSet, Max, Idle!Looped
<1> HIDE DEF base, seq, first
<1>5. PICK run : /\ run[0] = base
                 /\ \A k \in 1 .. n : run[k] = IdleStep(run[k - 1], seq[k])
                 /\ run[n] = Idle!Looped(base, seq)
  BY <1>3, Idle!LoopRuns
<1>6. n \in Nat
  BY <1>3
<1> DEFINE S == {k \in 0 .. n : run[k].c \in Controller /\ run[k].cursor \in Int /\ SameRefresh(c, run[k].c)}
<1>7. 0 \in S
  BY <1>1, <1>2, <1>5, <1>6
<1>8. ASSUME NEW k \in 0 .. n - 1, k \in S PROVE k + 1 \in S
  <2>1. k + 1 \in 1 .. n /\ (k + 1) - 1 = k
    BY <1>6
  <2>2. run[k + 1] = IdleStep(run[k], seq[k + 1])
    BY <1>5, <2>1
  <2>3. run[k].c \in Controller /\ run[k].cursor \in Int /\ SameRefresh(c, run[k].c)
    BY <1>8
  <2> DEFINE s == run[k]
             t == IdleStep(s, seq[k + 1])
  <2> HIDE DEF s
  <2>4. t.c \in Controller /\ t.cursor \in Int /\ SameRefresh(s.c, t.c)
    BY <2>3, IdleStepFacts DEF s
  <2> HIDE DEF t
  <2>5. SameRefresh(c, t.c)
    BY <2>3, <2>4 DEF SameRefresh, SameWork, s
  <2> QED BY <1>6, <2>2, <2>4, <2>5 DEF s, t
<1>9. n \in S
  <2> HIDE DEF S, n
  <2>1. \A k \in 0 .. n : k \in S
    BY <1>6, <1>7, <1>8, UpTo
  <2> QED BY <1>6, <2>1
<1> QED BY <1>4, <1>5, <1>9

-----------------------------------------------------------------------------
(* Arrival of an access, and of a refresh event.                            *)

\* A refresh that fell due while the channel was idle is carried out first.
LEMMA PrepareFacts ==
  ASSUME NEW c \in Controller
  PROVE  LET d == prepare_refresh_for_arrival(c)
         IN  /\ d \in Controller /\ SameWork(c, d)
             /\ IF RefreshInterval = 0 THEN d.next_refresh_due = c.next_refresh_due
                                       ELSE d.next_refresh_due \in Int /\ d.next_refresh_due > 0
<1> DEFINE d == prepare_refresh_for_arrival(c)
<1>1. CASE RefreshInterval = 0
  <2>1. d = c
    BY <1>1 DEF prepare_refresh_for_arrival
  <2> QED BY <1>1, <2>1 DEF SameWork
<1>2. CASE RefreshInterval # 0
  <2> DEFINE base == FirstDue(c)
             due == base.next_refresh_due
             count == Overdue(due)
             seq == [i \in 1 .. count |-> i]
             n == Len(seq)
  <2>1. RefreshInterval \in Nat \ {0}
    BY <1>2, ControllerAssumption
  <2>2. base \in Controller /\ SameWork(c, base) /\ due \in Int
    <3> DEFINE first == IF c.next_refresh_due = None THEN RefreshInterval ELSE c.next_refresh_due
    <3>1. first \in Int /\ first \in Optional(Int)
      BY <2>1 DEF Controller, Optional
    <3>2. base = [c EXCEPT !.next_refresh_due = first]
      BY DEF FirstDue, Controller
    <3> HIDE DEF first, base
    <3> QED BY <3>1, <3>2 DEF Controller, SameWork
  <2> HIDE DEF base
  <2>3. count \in Nat /\ due + count * RefreshInterval > 0 /\ due \in Int
    <3> HIDE DEF due
    <3>1. CASE due > 0
      BY <2>1, <2>2, <3>1 DEF Overdue
    <3>2. CASE ~ (due > 0)
      BY <2>1, <2>2, <3>2, CatchesUp DEF Overdue
    <3> QED BY <2>2, <3>1, <3>2
  <2> HIDE DEF count
  <2>4. seq \in Seq(Nat) /\ n = count
    BY <2>3
  <2>5. d = CaughtUp!Looped(base, seq)
    BY <1>2 DEF prepare_refresh_for_arrival, FoldLeft, MapThenFoldSet, Max, CaughtUp!Looped, count, base
  <2> HIDE DEF seq, due
  <2>6. PICK run : /\ run[0] = base
                   /\ \A k \in 1 .. n : run[k] = CatchUp(run[k - 1], seq[k])
                   /\ run[n] = CaughtUp!Looped(base, seq)
    BY <2>4, CaughtUp!LoopRuns
  <2> HIDE DEF n
  <2> DEFINE S == {k \in 0 .. n : /\ run[k] \in Controller /\ SameWork(c, run[k])
                                  /\ run[k].next_refresh_due = due + k * RefreshInterval}
  <2>7. 0 \in S
    BY <2>1, <2>2, <2>3, <2>4, <2>6 DEF due
  <2>8. ASSUME NEW k \in 0 .. n - 1, k \in S PROVE k + 1 \in S
    <3>1. k + 1 \in 1 .. n /\ (k + 1) - 1 = k
      BY <2>3, <2>4
    <3>2. run[k + 1] = CatchUp(run[k], seq[k + 1])
      BY <2>6, <3>1
    <3>3. run[k] \in Controller /\ SameWork(c, run[k]) /\ run[k].next_refresh_due = due + k * RefreshInterval
      BY <2>8
    <3> DEFINE s == run[k]
               idle == apply_idle_refresh(s, s.next_refresh_due)
               t == CatchUp(s, seq[k + 1])
               later == s.next_refresh_due + RefreshInterval
    <3>4. s.next_refresh_due \in Int /\ later \in Int /\ later = due + (k + 1) * RefreshInterval
      BY <2>1, <2>3, <2>4, <3>3
    <3>5. s \in Controller
      BY <3>3
    <3> HIDE DEF s
    <3>6. idle \in Controller /\ SameRefresh(s, idle)
      BY <3>4, <3>5, ApplyIdleFacts
    <3>7. t = [idle EXCEPT !.next_refresh_due = idle.next_refresh_due + RefreshInterval]
      BY <3>6 DEF CatchUp, Controller
    <3>8. idle.next_refresh_due + RefreshInterval = later
      BY <3>6 DEF SameRefresh
    <3> HIDE DEF idle, t, later
    <3>9. t = [idle EXCEPT !.next_refresh_due = later]
      BY <3>7, <3>8
    <3>10. t \in Controller /\ SameWork(s, t) /\ t.next_refresh_due = later
      BY <3>4, <3>6, <3>9 DEF Controller, SameRefresh, SameWork, Optional
    <3>11. SameWork(c, t)
      BY <3>3, <3>10 DEF SameWork, s
    <3>12. k + 1 \in 0 .. n
      BY <2>3, <2>4
    <3> QED BY <3>2, <3>4, <3>10, <3>11, <3>12 DEF s, t
  <2>9. n \in S
    <3> HIDE DEF S
    <3>1. n \in Nat
      BY <2>3, <2>4
    <3>2. \A k \in 0 .. n : k \in S
      BY <2>7, <2>8, <3>1, UpTo
    <3> QED BY <3>1, <3>2
  <2>10. d \in Controller /\ SameWork(c, d) /\ d.next_refresh_due = due + count * RefreshInterval
    <3> HIDE DEF d
    <3> QED BY <2>4, <2>5, <2>6, <2>9
  <2> HIDE DEF d
  <2>11. due + count * RefreshInterval \in Int
    BY <2>1, <2>3
  <2>12. d.next_refresh_due \in Int /\ d.next_refresh_due > 0
    BY <2>3, <2>10, <2>11
  <2> QED BY <1>2, <2>10, <2>12 DEF d
<1> QED BY <1>1, <1>2

\* A refresh event clears the mark of its own time, and the refresh it is for falls due.
LEMMA HandleRefreshFacts ==
  ASSUME NEW c \in Controller
  PROVE  LET d == handle_refresh_event(c)
         IN  /\ d \in Controller /\ d.queue = c.queue /\ d.outstanding = c.outstanding
             /\ d.fault = c.fault /\ d.wakeup_at = c.wakeup_at
             /\ IF c.refresh_due_at # 0 THEN d = c
                ELSE /\ d.refresh_due_at = None
                     /\ d.next_refresh_due = IF c.next_refresh_due = 0 THEN RefreshInterval
                                             ELSE c.next_refresh_due
<1> DEFINE claimed == [c EXCEPT !.refresh_due_at = None]
           rearmed == [claimed EXCEPT !.next_refresh_due = RefreshInterval]
           d == handle_refresh_event(c)
<1>0. RefreshInterval \in Int
  BY ControllerAssumption
<1>1. claimed \in Controller /\ claimed.queue = c.queue /\ claimed.outstanding = c.outstanding
      /\ claimed.fault = c.fault /\ claimed.wakeup_at = c.wakeup_at /\ claimed.refresh_due_at = None
      /\ claimed.next_refresh_due = c.next_refresh_due
  BY DEF Controller, Optional
<1>d. d = IF c.refresh_due_at # 0 THEN c
          ELSE IF c.next_refresh_due # 0 THEN claimed
          ELSE IF c.outstanding = 0 THEN apply_idle_refresh(rearmed, 0)
          ELSE RefreshFallsDue(rearmed)
  BY DEF handle_refresh_event
<1> HIDE DEF claimed
<1>2. rearmed \in Controller /\ rearmed.queue = c.queue /\ rearmed.outstanding = c.outstanding
      /\ rearmed.fault = c.fault /\ rearmed.wakeup_at = c.wakeup_at /\ rearmed.refresh_due_at = None
      /\ rearmed.next_refresh_due = RefreshInterval
  BY <1>0, <1>1 DEF Controller, Optional
<1> HIDE DEF rearmed, d
<1>3. CASE c.refresh_due_at # 0
  BY <1>3, <1>d DEF d
<1>4. CASE c.refresh_due_at = 0 /\ c.next_refresh_due # 0
  BY <1>1, <1>4, <1>d DEF d
<1>5. CASE c.refresh_due_at = 0 /\ c.next_refresh_due = 0
  <2>1. d \in Controller /\ SameRefresh(rearmed, d)
    <3>1. CASE c.outstanding = 0
      BY <1>2, <1>5, <1>d, <3>1, ApplyIdleFacts
    <3>2. CASE c.outstanding # 0
      BY <1>2, <1>5, <1>d, <3>2, RefreshFallsDueFacts
    <3> QED BY <3>1, <3>2
  <2> QED BY <1>2, <1>5, <2>1 DEF SameRefresh, SameWork, d
<1> QED BY <1>3, <1>4, <1>5

\* Admission puts the access last in the queue and counts it.
LEMMA AdmitReservedFacts ==
  ASSUME NEW c \in Controller, NEW access \in QueuedAccess
  PROVE  LET d == admit_reserved(c, access)
         IN  /\ d \in Controller /\ d.queue = Append(c.queue, access) /\ d.outstanding = c.outstanding + 1
             /\ d.fault = c.fault /\ d.wakeup_at = c.wakeup_at /\ d.refresh_due_at = c.refresh_due_at
             /\ IF RefreshInterval = 0 THEN d.next_refresh_due = c.next_refresh_due
                                       ELSE d.next_refresh_due \in Int /\ d.next_refresh_due > 0
<1> DEFINE p == prepare_refresh_for_arrival(c)
           longer == Append(p.queue, access)
           d == admit_reserved(c, access)
<1>1. /\ p \in Controller /\ SameWork(c, p)
      /\ IF RefreshInterval = 0 THEN p.next_refresh_due = c.next_refresh_due
                                ELSE p.next_refresh_due \in Int /\ p.next_refresh_due > 0
  BY PrepareFacts
<1>2. d = [p EXCEPT !.queue = longer, !.outstanding = p.outstanding + 1]
  BY <1>1 DEF admit_reserved, Enqueued, Controller
<1> HIDE DEF p
<1>3. longer \in Seq(QueuedAccess) /\ longer = Append(c.queue, access)
  BY <1>1, AppendProperties DEF Controller, SameWork
<1>4. p.outstanding \in Nat /\ p.outstanding = c.outstanding
  BY <1>1 DEF Controller, SameWork
<1> HIDE DEF longer, d
<1>5. d \in Controller /\ d.queue = longer /\ d.outstanding = c.outstanding + 1
  <2> DEFINE count == p.outstanding + 1
  <2>1. count \in Nat /\ count = c.outstanding + 1
    BY <1>4
  <2>2. d = [p EXCEPT !.queue = longer, !.outstanding = count]
    BY <1>2
  <2> HIDE DEF count
  <2>3. d \in Controller
    BY <1>1, <1>3, <2>1, <2>2 DEF Controller
  <2>4. d.queue = longer /\ d.outstanding = count
    BY <1>1, <2>2 DEF Controller
  <2> QED BY <2>1, <2>3, <2>4
<1>6. d.fault = c.fault /\ d.wakeup_at = c.wakeup_at /\ d.refresh_due_at = c.refresh_due_at
      /\ d.next_refresh_due = p.next_refresh_due
  BY <1>1, <1>2 DEF Controller, SameWork
<1> QED BY <1>1, <1>3, <1>5, <1>6 DEF d

-----------------------------------------------------------------------------
(* Chosen positions of a sequence.                                          *)

\* f numbers the elements of P from 1 to n, each once.
Numbers(f, n, P) == /\ \A k \in 1 .. n : f[k] \in P
                    /\ \A i, j \in 1 .. n : f[i] = f[j] => i = j
                    /\ \A p \in P : \E k \in 1 .. n : f[k] = p

\* Ascending lists a set, each element once.
LEMMA AscendingFacts ==
  ASSUME NEW S \in SUBSET Int, IsFiniteSet(S)
  PROVE  /\ Cardinality(S) \in Nat /\ Ascending(S) \in Seq(S) /\ Len(Ascending(S)) = Cardinality(S)
         /\ DOMAIN Ascending(S) = 1 .. Cardinality(S)
         /\ Numbers(Ascending(S), Cardinality(S), S)
<1> DEFINE n == Cardinality(S)
           rank(x) == Cardinality({y \in S : y <= x})
           f == [k \in 1 .. n |-> CHOOSE x \in S : rank(x) = k]
<1>1. n \in Nat
  BY FS_CardinalityType
<1>2. \A k \in 1 .. n : \E x \in S : rank(x) = k
  BY RankExists
<1>3. \A x, z \in S : rank(x) = rank(z) => x = z
  BY RankUnique
<1>4. ASSUME NEW x \in S PROVE rank(x) \in 1 .. n
  <2> DEFINE A == {y \in S : y <= x}
  <2>1. A \in SUBSET S /\ x \in A
    <3>1. x \in Int /\ x <= x
      OBVIOUS
    <3> QED BY <3>1
  <2> HIDE DEF A
  <2>2. IsFiniteSet(A) /\ Cardinality(A) <= n
    BY <2>1, FS_Subset
  <2>3. Cardinality(A) \in Nat /\ Cardinality(A) # 0
    BY <2>1, <2>2, FS_CardinalityType, FS_EmptySet
  <2>4. Cardinality(A) \in 1 .. n
    BY <1>1, <2>2, <2>3
  <2> QED BY <2>4 DEF A
<1>5. Ascending(S) = f
  BY DEF Ascending
<1> HIDE DEF rank, n
<1>6. \A k \in 1 .. n : f[k] \in S /\ rank(f[k]) = k
  BY <1>2
<1>7. f \in [1 .. n -> S] /\ DOMAIN f = 1 .. n
  BY <1>6
<1> HIDE DEF f
<1>8. f \in Seq(S) /\ Len(f) = n
  BY <1>1, <1>7
<1>9. Numbers(f, n, S)
  <2>1. \A i, j \in 1 .. n : f[i] = f[j] => i = j
    BY <1>6
  <2>2. ASSUME NEW p \in S PROVE \E k \in 1 .. n : f[k] = p
    <3>1. rank(p) \in 1 .. n /\ rank(f[rank(p)]) = rank(p) /\ f[rank(p)] \in S
      BY <1>4, <1>6
    <3>2. f[rank(p)] = p
      BY <1>3, <3>1
    <3> QED BY <3>1, <3>2
  <2> QED BY <1>6, <2>1, <2>2 DEF Numbers
<1> QED BY <1>1, <1>5, <1>7, <1>8, <1>9 DEF n

Hits(n, f, X) == {k \in 1 .. n : f[k] \in X}

\* Counting by numbers is counting.
LEMMA NumberingCount ==
  ASSUME NEW f, NEW n \in Nat, NEW P, NEW X, Numbers(f, n, P)
  PROVE  IsFiniteSet(P) /\ Cardinality(P) = n /\ Cardinality(Hits(n, f, X)) = Cardinality(P \cap X)
<1>1. \A k \in 1 .. n : f[k] \in P
  BY DEF Numbers
<1>2. \A i, j \in 1 .. n : f[i] = f[j] => i = j
  BY DEF Numbers
<1>3. \A p \in P : \E k \in 1 .. n : f[k] = p
  BY DEF Numbers
<1>4. IsFiniteSet(1 .. n) /\ Cardinality(1 .. n) = n
  BY FS_Interval
<1>5. IsFiniteSet(P) /\ Cardinality(P) = n
  <2> DEFINE g == [k \in 1 .. n |-> f[k]]
  <2>1. g \in Bijection(1 .. n, P)
    BY <1>1, <1>2, <1>3 DEF Bijection, Injection, Surjection, IsInjective
  <2>2. ExistsBijection(1 .. n, P)
    BY <2>1 DEF ExistsBijection
  <2> QED BY <1>4, <2>2, FS_Bijection
<1>6. Cardinality(Hits(n, f, X)) = Cardinality(P \cap X)
  <2> DEFINE A == Hits(n, f, X)
             B == P \cap X
             g == [k \in A |-> f[k]]
  <2>1. A \in SUBSET (1 .. n) /\ \A k \in 1 .. n : k \in A <=> f[k] \in X
    BY DEF Hits
  <2> HIDE DEF A
  <2>2. g \in Bijection(A, B)
    BY <1>1, <1>2, <1>3, <2>1 DEF Bijection, Injection, Surjection, IsInjective
  <2>3. ExistsBijection(A, B)
    BY <2>2 DEF ExistsBijection
  <2>4. IsFiniteSet(A)
    BY <1>4, <2>1, FS_Subset
  <2> HIDE DEF B
  <2>5. Cardinality(B) = Cardinality(A)
    BY <2>3, <2>4, FS_Bijection
  <2> QED BY <2>5 DEF A, B
<1> QED BY <1>5, <1>6

\* What Picked picks.
LEMMA PickedFacts ==
  ASSUME NEW T, NEW seq \in Seq(T), NEW positions \in SUBSET DOMAIN seq
  PROVE  /\ IsFiniteSet(positions) /\ Cardinality(positions) \in Nat
         /\ Picked(seq, positions) \in Seq(T) /\ Len(Picked(seq, positions)) = Cardinality(positions)
         /\ \A k \in 1 .. Cardinality(positions) :
               /\ Ascending(positions)[k] \in positions
               /\ Picked(seq, positions)[k] = seq[Ascending(positions)[k]]
         /\ \A p \in positions : \E k \in 1 .. Cardinality(positions) : Ascending(positions)[k] = p
<1> DEFINE n == Cardinality(positions)
           f == Ascending(positions)
           g == Picked(seq, positions)
<1>0. DOMAIN seq = 1 .. Len(seq) /\ Len(seq) \in Nat /\ \A i \in 1 .. Len(seq) : seq[i] \in T
  OBVIOUS
<1>1. IsFiniteSet(positions) /\ positions \in SUBSET Int
  <2>1. IsFiniteSet(1 .. Len(seq))
    BY <1>0, FS_Interval
  <2>2. positions \in SUBSET (1 .. Len(seq))
    BY <1>0
  <2> QED BY <2>1, <2>2, FS_Subset
<1>2. n \in Nat /\ Numbers(f, n, positions)
  BY <1>1, AscendingFacts
<1>3. g = [k \in 1 .. n |-> seq[f[k]]]
  BY DEF Picked
<1> HIDE DEF n, f, g
<1>4. \A k \in 1 .. n : f[k] \in positions
  BY <1>2 DEF Numbers
<1>5. \A k \in 1 .. n : seq[f[k]] \in T
  BY <1>0, <1>4
<1>6. g \in Seq(T) /\ Len(g) = n
  BY <1>2, <1>3, <1>5
<1>7. \A p \in positions : \E k \in 1 .. n : f[k] = p
  BY <1>2 DEF Numbers
<1>8. \A k \in 1 .. n : g[k] = seq[f[k]]
  BY <1>3
<1> QED BY <1>1, <1>2, <1>4, <1>6, <1>7, <1>8 DEF n, f, g

\* How many of the picked lie in X.
LEMMA PickedHits ==
  ASSUME NEW positions \in SUBSET Int, IsFiniteSet(positions), NEW X
  PROVE  Cardinality(Hits(Cardinality(positions), Ascending(positions), X)) = Cardinality(positions \cap X)
<1> DEFINE n == Cardinality(positions)
           f == Ascending(positions)
<1>1. n \in Nat /\ Numbers(f, n, positions)
  BY AscendingFacts
<1> HIDE DEF n, f
<1>2. Cardinality(Hits(n, f, X)) = Cardinality(positions \cap X)
  BY <1>1, NumberingCount
<1> QED BY <1>2 DEF n, f

-----------------------------------------------------------------------------
(* The candidates, and the scheduler's order.                               *)

AccessCommand == DataCommands \cup {"PRE", "ACT"}

\* On the way to a data command there is a precharge and an activation; the data
\* command itself finds its row open.
LEMMA PlannedAccess ==
  ASSUME NEW requested \in DataCommands, NEW row \in Nat, NEW bank \in SoundBank
  PROVE  LET command == PlannedCommand(requested, row, bank, IsOpen(bank))
         IN  /\ command \in AccessCommand
             /\ command \in DataCommands => bank.row = row
<1> DEFINE command == PlannedCommand(requested, row, bank, IsOpen(bank))
<1>1. CASE Custom
  <2>1. requested \notin {"REFab", "RFMab", "REFpb", "RFMpb"}
    BY DEF DataCommands
  <2>2. command = IF bank.precharge_pending \/ (IsOpen(bank) /\ bank.row # row)
                  THEN "PRE" ELSE IF IsOpen(bank) THEN requested ELSE "ACT"
    BY <1>1, <2>1 DEF PlannedCommand, CustomDecision
  <2> HIDE DEF command
  <2>3. command \in AccessCommand /\ (command \in DataCommands => bank.row = row)
    BY <2>2 DEF AccessCommand, DataCommands
  <2> QED BY <2>3 DEF command
<1>2. CASE ~Custom
  <2> DEFINE matching == {rule \in Prerequisites : /\ rule[1] = requested
                                                   /\ Meets(rule[2], row, bank, IsOpen(bank))}
             differs == <<requested, "DifferentRow", "PRE">>
             closed == <<requested, "TargetClosed", "ACT">>
  <2>1. command = IF matching = {} THEN requested ELSE (CHOOSE rule \in matching : TRUE)[3]
    BY <1>2 DEF PlannedCommand, resolve_prerequisite
  <2>2. ASSUME NEW rule \in matching PROVE rule[3] \in {"PRE", "ACT"}
    BY DEF Prerequisites, DataCommands
  <2>3. differs \in Prerequisites /\ closed \in Prerequisites
    BY DEF Prerequisites
  <2>4. matching = {} => ~Meets("DifferentRow", row, bank, IsOpen(bank)) /\ ~Meets("TargetClosed", row, bank, IsOpen(bank))
    BY <2>3
  <2> HIDE DEF matching, command
  <2>5. CASE matching = {}
    <3>1. bank.row = row
      BY <2>4, <2>5 DEF Meets
    <3> QED BY <2>1, <2>5, <3>1 DEF AccessCommand, command
  <2>6. CASE matching # {}
    <3>1. (CHOOSE rule \in matching : TRUE) \in matching
      BY <2>6
    <3>2. command \in {"PRE", "ACT"}
      BY <2>1, <2>2, <2>6, <3>1
    <3> QED BY <3>2 DEF AccessCommand, DataCommands, command
  <2> QED BY <2>5, <2>6
<1> QED BY <1>1, <1>2

Candidate == [sequence : Nat, command : AccessCommand, data_command : BOOLEAN, row_hit : BOOLEAN,
              priority : Nat, ready_at : Int]

\* The candidate of a queued access; if it is a data command, its row is open.
LEMMA CandidateFacts ==
  ASSUME NEW c \in Controller, NEW i \in DOMAIN c.queue, NEW time \in Int
  PROVE  LET x == CandidateOf(c, i, time)
         IN  /\ x \in Candidate /\ x.sequence = i /\ x.ready_at >= time
             /\ x.command \in DataCommands => c.banks[c.queue[i].bank].row = c.queue[i].row
<1> DEFINE access == c.queue[i]
           bank == c.banks[access.bank]
           command == PlannedCommand(DataCommand(access.op), access.row, bank, IsOpen(bank))
           at == earliest_command(c, command, access.bank, time)
           x == CandidateOf(c, i, time)
           dataCommand == command \in DataCommands
           rowHit == command \in DataCommands /\ ~access.activated
<1>0. c.queue \in Seq(QueuedAccess) /\ c.banks \in [Bank -> SoundBank]
  BY DEF Controller
<1>1. access \in QueuedAccess /\ i \in Nat
  BY <1>0
<1>2. access.row \in Nat /\ access.bank \in Bank /\ access.priority \in Nat
  BY <1>1 DEF QueuedAccess
<1>3. bank \in SoundBank
  BY <1>0, <1>2
<1>x. x = [sequence |-> i, command |-> command, data_command |-> dataCommand, row_hit |-> rowHit,
           priority |-> access.priority, ready_at |-> at]
  BY DEF CandidateOf, CandidateWith, NextCommand
<1>b. dataCommand \in BOOLEAN /\ rowHit \in BOOLEAN
  OBVIOUS
<1> HIDE DEF access, bank, x
<1>4. DataCommand(access.op) \in DataCommands
  BY DEF DataCommand, DataCommands
<1>5. command \in AccessCommand /\ (command \in DataCommands => bank.row = access.row)
  BY <1>2, <1>3, <1>4, PlannedAccess
<1> HIDE DEF command, dataCommand, rowHit
<1>6. at \in Int /\ at >= time
  BY <1>2, EarliestCommandFacts
<1> HIDE DEF at
<1>7. x \in Candidate /\ x.sequence = i /\ x.ready_at = at /\ x.command = command
  BY <1>1, <1>2, <1>5, <1>6, <1>x, <1>b DEF Candidate
<1> QED BY <1>5, <1>6, <1>7 DEF x, bank, access

\* Every policy orders the candidates of different accesses, strictly.
LEMMA ReadyFirstIsOrder ==
  ASSUME NEW x \in Candidate, NEW y \in Candidate, NEW z \in Candidate, NEW now \in Int
  PROVE  /\ x.sequence # y.sequence => Before(x, y, now) \/ Before(y, x, now)
         /\ Before(x, y, now) /\ Before(y, z, now) => Before(x, z, now)
<1> DEFINE level(a) == IF SchedulerKind = "FrFcfs" THEN Urgency(a)
                       ELSE IF SchedulerKind = "FrFcfsRowHit" /\ a.row_hit THEN 1 ELSE 0
           key(a, b) == IF (a.ready_at <= now) # (b.ready_at <= now) THEN a.ready_at <= now
                        ELSE IF ~ (a.ready_at <= now) /\ a.ready_at # b.ready_at THEN a.ready_at < b.ready_at
                        ELSE IF a.priority # b.priority THEN a.priority > b.priority
                        ELSE IF level(a) # level(b) THEN level(a) > level(b)
                        ELSE a.sequence < b.sequence
<1>1. \A a \in Candidate : /\ a.sequence \in Int /\ a.priority \in Int /\ a.ready_at \in Int
                           /\ level(a) \in Int /\ a.row_hit \in BOOLEAN /\ a.data_command \in BOOLEAN
  BY DEF Candidate, Urgency
<1>2. ASSUME NEW a \in Candidate, NEW b \in Candidate
      PROVE  FavouredByState(a, b) <=> level(a) > level(b)
  BY <1>1, SchedulerAssumption DEF FavouredByState, Urgency
<1>3. ASSUME NEW a \in Candidate, NEW b \in Candidate
      PROVE  ReadyFirst(a, b, now) <=> key(a, b)
  <2>1. FavouredByState(a, b) <=> level(a) > level(b)
    BY <1>2
  <2>2. FavouredByState(b, a) <=> level(b) > level(a)
    BY <1>2
  <2>3. level(a) \in Int /\ level(b) \in Int
    BY <1>1
  <2> HIDE DEF level
  <2> QED BY <2>1, <2>2, <2>3 DEF ReadyFirst
<1>4. x.sequence # y.sequence => Before(x, y, now) \/ Before(y, x, now)
  <2>1. CASE SchedulerKind = "Fifo"
    BY <1>1, <2>1 DEF Before
  <2>2. CASE SchedulerKind # "Fifo"
    <3>1. level(x) \in Int /\ level(y) \in Int
      BY <1>1
    <3> HIDE DEF level
    <3>2. x.sequence # y.sequence => key(x, y) \/ key(y, x)
      BY <1>1, <3>1
    <3> QED BY <1>3, <2>2, <3>2 DEF Before
  <2> QED BY <2>1, <2>2
<1>5. Before(x, y, now) /\ Before(y, z, now) => Before(x, z, now)
  <2>1. CASE SchedulerKind = "Fifo"
    BY <1>1, <2>1 DEF Before
  <2>2. CASE SchedulerKind # "Fifo"
    <3>1. level(x) \in Int /\ level(y) \in Int /\ level(z) \in Int
      BY <1>1
    <3> HIDE DEF level
    <3>2. key(x, y) /\ key(y, z) => key(x, z)
      BY <1>1, <3>1
    <3> QED BY <1>3, <2>2, <3>2 DEF Before
  <2> QED BY <2>1, <2>2
<1> QED BY <1>4, <1>5

Distinct(S) == \A x, y \in S : x.sequence = y.sequence => x = y

\* The scheduler chooses one of the candidates.
LEMMA ChooseFacts ==
  ASSUME NEW S \in SUBSET Candidate, IsFiniteSet(S), S # {}, NEW now \in Int, Distinct(S)
  PROVE  Choose(S, now) \in S
<1> DEFINE R == {p \in Candidate \X Candidate : Before(p[1], p[2], now)}
<1>1. ASSUME NEW x \in Candidate, NEW y \in Candidate PROVE <<x, y>> \in R <=> Before(x, y, now)
  OBVIOUS
<1>2. \A x, y \in S : x # y => <<x, y>> \in R \/ <<y, x>> \in R
  <2> SUFFICES ASSUME NEW x \in S, NEW y \in S, x # y PROVE <<x, y>> \in R \/ <<y, x>> \in R
    OBVIOUS
  <2>1. Before(x, y, now) \/ Before(y, x, now)
    BY ReadyFirstIsOrder DEF Distinct
  <2> HIDE DEF R
  <2> QED BY <1>1, <2>1
<1>3. \A x, y, z \in S : <<x, y>> \in R /\ <<y, z>> \in R => <<x, z>> \in R
  <2> SUFFICES ASSUME NEW x \in S, NEW y \in S, NEW z \in S, <<x, y>> \in R, <<y, z>> \in R PROVE <<x, z>> \in R
    OBVIOUS
  <2> HIDE DEF R
  <2>1. Before(x, y, now) /\ Before(y, z, now)
    BY <1>1
  <2>2. Before(x, z, now)
    BY <2>1, ReadyFirstIsOrder
  <2> QED BY <1>1, <2>2
<1> HIDE DEF R
<1>4. PICK x \in S : \A y \in S \ {x} : <<x, y>> \in R
  BY <1>2, <1>3, LeastOf
<1>5. \A y \in S \ {x} : Before(x, y, now)
  BY <1>1, <1>4
<1> QED BY <1>5 DEF Choose

\* So does the rule for data commands before a precharge.
LEMMA FirstWaitingFacts ==
  ASSUME NEW S \in SUBSET Candidate, IsFiniteSet(S), S # {}
  PROVE  FirstWaiting(S) \in S
<1> DEFINE least(x, y) == x.ready_at < y.ready_at \/ (x.ready_at = y.ready_at /\ x.sequence <= y.sequence)
           R == {p \in Candidate \X Candidate : least(p[1], p[2])}
<1>0. \A x \in Candidate : x.ready_at \in Int /\ x.sequence \in Int
  BY DEF Candidate
<1>1. ASSUME NEW x \in Candidate, NEW y \in Candidate PROVE <<x, y>> \in R <=> least(x, y)
  OBVIOUS
<1>2. \A x, y \in S : x # y => <<x, y>> \in R \/ <<y, x>> \in R
  <2> SUFFICES ASSUME NEW x \in S, NEW y \in S PROVE <<x, y>> \in R \/ <<y, x>> \in R
    OBVIOUS
  <2>1. least(x, y) \/ least(y, x)
    BY <1>0
  <2> HIDE DEF R, least
  <2> QED BY <1>1, <2>1
<1>3. \A x, y, z \in S : <<x, y>> \in R /\ <<y, z>> \in R => <<x, z>> \in R
  <2> SUFFICES ASSUME NEW x \in S, NEW y \in S, NEW z \in S, <<x, y>> \in R, <<y, z>> \in R PROVE <<x, z>> \in R
    OBVIOUS
  <2> HIDE DEF R
  <2>1. least(x, y) /\ least(y, z)
    BY <1>1
  <2>2. least(x, z)
    BY <1>0, <2>1
  <2> QED BY <1>1, <2>2
<1> HIDE DEF R
<1>4. PICK x \in S : \A y \in S \ {x} : <<x, y>> \in R
  BY <1>2, <1>3, LeastOf
<1>5. ASSUME NEW y \in S PROVE least(x, y)
  <2>1. CASE y = x
    BY <1>0, <2>1
  <2>2. CASE y # x
    BY <1>1, <1>4, <2>2
  <2> QED BY <2>1, <2>2
<1>6. FirstWaiting(S) = CHOOSE a \in S : \A y \in S : least(a, y)
  BY DEF FirstWaiting
<1> HIDE DEF least
<1> QED BY <1>5, <1>6

\* What choose_next chooses is the next command of a queued access.
LEMMA ChosenAccess ==
  ASSUME NEW c \in Controller, NEW time \in Int, c.queue # <<>>
  PROVE  \E i \in DOMAIN c.queue : choose_next(c, time) = CandidateOf(c, i, time)
<1> DEFINE places == DOMAIN c.queue
           active == ActiveQueue(c)
           f == [i \in places |-> CandidateOf(c, i, time)]
           ready == {f[i] : i \in active}
           chosen == Choose(ready, time)
<1>0. c.queue \in Seq(QueuedAccess)
  BY DEF Controller
<1>1. IsFiniteSet(places) /\ places # {}
  <2>1. places = 1 .. Len(c.queue) /\ Len(c.queue) \in Nat
    BY <1>0
  <2>2. Len(c.queue) # 0
    BY <1>0, EmptySeq
  <2>3. IsFiniteSet(1 .. Len(c.queue))
    BY <2>1, FS_Interval
  <2> QED BY <2>1, <2>2, <2>3
<1>2. active \in SUBSET places /\ active # {}
  BY <1>1 DEF ActiveQueue, Reads, Writes
<1>3. \A i \in places : f[i] \in Candidate /\ f[i].sequence = i
  BY CandidateFacts
<1>d. DOMAIN f = places
  OBVIOUS
<1>4. choose_next(c, time) = PrechargeLast(c, chosen, time)
  <2>1. ready = {CandidateOf(c, i, time) : i \in active}
    BY <1>2
  <2> QED BY <2>1 DEF choose_next
<1>5. \A i \in places : f[i] = CandidateOf(c, i, time)
  OBVIOUS
<1>w. ASSUME NEW bank, NEW x \in WaitingData(c, bank, time)
      PROVE  \E i \in places : x = f[i]
  BY DEF WaitingData
<1> HIDE DEF active, places, f
<1>6. IsFiniteSet(ready) /\ ready # {} /\ ready \in SUBSET Candidate
  <2> DEFINE g == [i \in active |-> f[i]]
  <2>1. IsFiniteSet(active)
    BY <1>1, <1>2, FS_Subset
  <2>2. DOMAIN g = active
    OBVIOUS
  <2>3. ready = {g[i] : i \in active}
    OBVIOUS
  <2> HIDE DEF g
  <2>4. IsFiniteSet(ready)
    <3>1. IsFiniteSet({g[i] : i \in active})
      BY <2>1, <2>2, FiniteImage
    <3> QED BY <2>3, <3>1
  <2> QED BY <1>2, <1>3, <2>4
<1>7. Distinct(ready)
  BY <1>2, <1>3 DEF Distinct
<1>8. chosen \in ready
  <2> HIDE DEF ready
  <2> QED BY <1>6, <1>7, ChooseFacts
<1>9. PICK i \in places : chosen = f[i]
  BY <1>2, <1>8
<1> HIDE DEF chosen
<1> DEFINE S == WaitingData(c, c.queue[chosen.sequence].bank, time)
<1>10. \A x \in S : \E k \in places : x = f[k]
  BY <1>w
<1>11. S \in SUBSET Candidate /\ IsFiniteSet(S)
  <2> HIDE DEF S
  <2>1. S \in SUBSET {f[k] : k \in places}
    BY <1>10
  <2>2. IsFiniteSet({f[k] : k \in places})
    BY <1>1, <1>d, FiniteImage
  <2>3. IsFiniteSet(S)
    BY <2>1, <2>2, FS_Subset
  <2> QED BY <1>3, <1>10, <2>3
<1>12. choose_next(c, time) = chosen \/ (S # {} /\ choose_next(c, time) = FirstWaiting(S))
  BY <1>4 DEF PrechargeLast
<1> HIDE DEF S
<1>13. CASE choose_next(c, time) = chosen
  BY <1>5, <1>9, <1>13 DEF places
<1>14. CASE S # {} /\ choose_next(c, time) = FirstWaiting(S)
  <2>1. FirstWaiting(S) \in S
    BY <1>11, <1>14, FirstWaitingFacts
  <2>2. PICK k \in places : FirstWaiting(S) = f[k]
    BY <1>10, <2>1
  <2> QED BY <1>5, <1>14, <2>2 DEF places
<1> QED BY <1>12, <1>13, <1>14

-----------------------------------------------------------------------------
(* The accesses that a data command serves.                                 *)

Stage == [queue_wait : Int, command_phase : Int, data_ready : Int, data_bus_wait : Int, data_service : Int]

\* The places of a transaction's accesses in a queue, and in a list of ids.
Mine(queue, id) == {j \in DOMAIN queue : queue[j].id = id}
Named(ids, id)  == {k \in DOMAIN ids : ids[k] = id}

\* The positions served, in completion order.
ServedOrder(c, i) == <<i>> \o Ascending(Served(c, i) \ {i})

\* The positions served are positions of the queue.
LEMMA ServedFacts ==
  ASSUME NEW c \in Controller, NEW i \in DOMAIN c.queue
  PROVE  Served(c, i) \in SUBSET DOMAIN c.queue /\ i \in Served(c, i) /\ IsFiniteSet(Served(c, i))
         /\ DOMAIN c.queue = 1 .. Len(c.queue) /\ Len(c.queue) \in Nat
         /\ IsFiniteSet(DOMAIN c.queue) /\ Cardinality(DOMAIN c.queue) = Len(c.queue)
<1>1. c.queue \in Seq(QueuedAccess)
  BY DEF Controller
<1>2. DOMAIN c.queue = 1 .. Len(c.queue) /\ Len(c.queue) \in Nat
  BY <1>1
<1>3. IsFiniteSet(DOMAIN c.queue) /\ Cardinality(DOMAIN c.queue) = Len(c.queue)
  <2> DEFINE n == Len(c.queue)
  <2>1. n \in Nat /\ DOMAIN c.queue = 1 .. n
    BY <1>2
  <2> HIDE DEF n
  <2>2. IsFiniteSet(1 .. n) /\ Cardinality(1 .. n) = n
    BY <2>1, FS_Interval
  <2> QED BY <2>1, <2>2 DEF n
<1>4. Served(c, i) \in SUBSET DOMAIN c.queue /\ i \in Served(c, i)
  BY DEF Served, Reads
<1>5. IsFiniteSet(Served(c, i))
  BY <1>3, <1>4, FS_Subset
<1> QED BY <1>2, <1>3, <1>4, <1>5

\* Each of them completes once, with its own id.
LEMMA ServedOrderFacts ==
  ASSUME NEW c \in Controller, NEW i \in DOMAIN c.queue
  PROVE  LET n == Cardinality(Served(c, i))
         IN  /\ n \in Nat \ {0} /\ Numbers(ServedOrder(c, i), n, Served(c, i))
             /\ ServedIds(c, i) \in Seq(Ids) /\ Len(ServedIds(c, i)) = n
             /\ \A k \in 1 .. n : ServedIds(c, i)[k] = c.queue[ServedOrder(c, i)[k]].id
<1> DEFINE S == Served(c, i)
           others == S \ {i}
           n == Cardinality(S)
           m == Cardinality(others)
           rest == Ascending(others)
           ids == [k \in DOMAIN rest |-> c.queue[rest[k]].id]
           order == ServedOrder(c, i)
<1>1. S \in SUBSET DOMAIN c.queue /\ i \in S /\ IsFiniteSet(S) /\ DOMAIN c.queue \in SUBSET Nat
  BY ServedFacts
<1> HIDE DEF S
<1>2. IsFiniteSet(others) /\ m = n - 1 /\ others \in SUBSET Int
  BY <1>1, FS_RemoveElement
<1>3. n \in Nat /\ m \in Nat
  BY <1>1, <1>2, FS_CardinalityType
<1>4. rest \in Seq(others) /\ Len(rest) = m /\ DOMAIN rest = 1 .. m /\ Numbers(rest, m, others)
  BY <1>2, AscendingFacts
<1> HIDE DEF rest
<1>5. \A j \in DOMAIN c.queue : c.queue[j].id \in Ids
  <2>1. c.queue \in Seq(QueuedAccess)
    BY DEF Controller
  <2>2. \A j \in DOMAIN c.queue : c.queue[j] \in QueuedAccess
    BY <2>1
  <2> QED BY <2>2 DEF QueuedAccess
<1>6. \A k \in 1 .. m : rest[k] \in others
  BY <1>4 DEF Numbers
<1>7. ids \in Seq(Ids) /\ Len(ids) = m /\ \A k \in 1 .. m : ids[k] = c.queue[rest[k]].id
  <2>1. \A k \in 1 .. m : c.queue[rest[k]].id \in Ids
    BY <1>1, <1>5, <1>6
  <2>2. ids = [k \in 1 .. m |-> c.queue[rest[k]].id]
    BY <1>4
  <2> HIDE DEF m, ids
  <2>3. ids \in [1 .. m -> Ids]
    BY <2>1, <2>2
  <2>4. ids \in Seq(Ids) /\ Len(ids) = m
    BY <1>3, <2>3
  <2> QED BY <2>2, <2>4
<1> HIDE DEF ids
<1>8. order = <<i>> \o rest /\ ServedIds(c, i) = <<c.queue[i].id>> \o ids
  BY DEF ServedOrder, ServedIds, ids, rest, S
<1>9. <<i>> \in Seq(S) /\ rest \in Seq(S) /\ Len(<<i>>) = 1
  <2>1. \A k \in 1 .. m : rest[k] \in S
    BY <1>6
  <2> QED BY <1>1, <1>3, <1>4, <2>1
<1> HIDE DEF order, others
<1>10. /\ order \in Seq(S) /\ Len(order) = n
       /\ \A k \in 1 .. n : order[k] = IF k <= 1 THEN i ELSE rest[k - 1]
  <2> DEFINE front == <<i>>
  <2>1. front \in Seq(S) /\ Len(front) = 1 /\ front[1] = i
    BY <1>9
  <2>2. order = front \o rest
    BY <1>8
  <2> HIDE DEF front
  <2>3. /\ front \o rest \in Seq(S) /\ Len(front \o rest) = Len(front) + Len(rest)
        /\ \A k \in 1 .. Len(front) + Len(rest) :
              (front \o rest)[k] = IF k <= Len(front) THEN front[k] ELSE rest[k - Len(front)]
    BY <1>9, <2>1, ConcatProperties
  <2>4. Len(front) + Len(rest) = n
    BY <1>2, <1>3, <1>4, <2>1
  <2>5. ASSUME NEW k \in 1 .. n PROVE order[k] = IF k <= 1 THEN i ELSE rest[k - 1]
    <3>1. order[k] = IF k <= 1 THEN front[k] ELSE rest[k - 1]
      BY <2>1, <2>2, <2>3, <2>4
    <3>2. k <= 1 => k = 1
      BY <1>3
    <3> QED BY <2>1, <3>1, <3>2
  <2> QED BY <2>2, <2>3, <2>4, <2>5
<1>11. /\ ServedIds(c, i) \in Seq(Ids) /\ Len(ServedIds(c, i)) = n
       /\ \A k \in 1 .. n : ServedIds(c, i)[k] = IF k <= 1 THEN c.queue[i].id ELSE ids[k - 1]
  <2> DEFINE front == <<c.queue[i].id>>
             all == ServedIds(c, i)
  <2>1. front \in Seq(Ids) /\ Len(front) = 1 /\ front[1] = c.queue[i].id
    BY <1>5
  <2>2. all = front \o ids
    BY <1>8
  <2> HIDE DEF front, all
  <2>3. /\ front \o ids \in Seq(Ids) /\ Len(front \o ids) = Len(front) + Len(ids)
        /\ \A k \in 1 .. Len(front) + Len(ids) :
              (front \o ids)[k] = IF k <= Len(front) THEN front[k] ELSE ids[k - Len(front)]
    BY <1>7, <2>1, ConcatProperties
  <2>4. Len(front) + Len(ids) = n
    BY <1>2, <1>3, <1>7, <2>1
  <2>5. ASSUME NEW k \in 1 .. n PROVE all[k] = IF k <= 1 THEN c.queue[i].id ELSE ids[k - 1]
    <3>1. all[k] = IF k <= 1 THEN front[k] ELSE ids[k - 1]
      BY <2>1, <2>2, <2>3, <2>4
    <3>2. k <= 1 => k = 1
      BY <1>3
    <3> QED BY <2>1, <3>1, <3>2
  <2>6. all \in Seq(Ids) /\ Len(all) = n
    BY <2>2, <2>3, <2>4
  <2> QED BY <2>5, <2>6 DEF all
<1>12. \A k \in 1 .. n : ServedIds(c, i)[k] = c.queue[order[k]].id
  <2> SUFFICES ASSUME NEW k \in 1 .. n PROVE ServedIds(c, i)[k] = c.queue[order[k]].id
    OBVIOUS
  <2>1. CASE k <= 1
    BY <1>10, <1>11, <2>1
  <2>2. CASE ~ (k <= 1)
    <3>1. k - 1 \in 1 .. m
      BY <1>2, <1>3, <2>2
    <3>2. ids[k - 1] = c.queue[rest[k - 1]].id
      BY <1>7, <3>1
    <3> QED BY <1>10, <1>11, <2>2, <3>2
  <2> QED BY <2>1, <2>2
<1>13. Numbers(order, n, S)
  <2>0. /\ \A k \in 1 .. m : rest[k] \in others
        /\ \A p, q \in 1 .. m : rest[p] = rest[q] => p = q
        /\ \A x \in others : \E k \in 1 .. m : rest[k] = x
    BY <1>4 DEF Numbers
  <2>o. \A x : x \in others <=> x \in S /\ x # i
    BY DEF others
  <2>1. ASSUME NEW k \in 1 .. n PROVE order[k] \in S
    <3>1. CASE k <= 1
      BY <1>1, <1>10, <3>1
    <3>2. CASE ~ (k <= 1)
      <4>1. k - 1 \in 1 .. m
        BY <1>2, <1>3, <3>2
      <4> QED BY <1>10, <2>0, <2>o, <3>2, <4>1
    <3> QED BY <3>1, <3>2
  <2>2. ASSUME NEW p \in 1 .. n, NEW q \in 1 .. n, order[p] = order[q] PROVE p = q
    <3>1. CASE p <= 1 /\ q <= 1
      BY <1>3, <3>1
    <3>2. CASE p <= 1 /\ ~ (q <= 1)
      <4>1. q - 1 \in 1 .. m
        BY <1>2, <1>3, <3>2
      <4>2. rest[q - 1] # i
        BY <2>0, <2>o, <4>1
      <4> QED BY <1>10, <2>2, <3>2, <4>2
    <3>3. CASE ~ (p <= 1) /\ q <= 1
      <4>1. p - 1 \in 1 .. m
        BY <1>2, <1>3, <3>3
      <4>2. rest[p - 1] # i
        BY <2>0, <2>o, <4>1
      <4> QED BY <1>10, <2>2, <3>3, <4>2
    <3>4. CASE ~ (p <= 1) /\ ~ (q <= 1)
      <4>1. p - 1 \in 1 .. m /\ q - 1 \in 1 .. m
        BY <1>2, <1>3, <3>4
      <4>2. rest[p - 1] = rest[q - 1]
        BY <1>10, <2>2, <3>4
      <4>3. p - 1 = q - 1
        BY <2>0, <4>1, <4>2
      <4> QED BY <1>3, <4>3
    <3> QED BY <3>1, <3>2, <3>3, <3>4
  <2>3. ASSUME NEW x \in S PROVE \E k \in 1 .. n : order[k] = x
    <3>0. 1 \in 1 .. n
      BY <1>2, <1>3
    <3>1. CASE x = i
      BY <1>10, <3>0, <3>1
    <3>2. CASE x # i
      <4>1. PICK k \in 1 .. m : rest[k] = x
        BY <2>0, <2>o, <3>2
      <4>2. k + 1 \in 1 .. n /\ (k + 1) - 1 = k /\ ~ (k + 1 <= 1)
        BY <1>2, <1>3
      <4>3. order[k + 1] = rest[k]
        BY <1>10, <4>2
      <4> QED BY <4>1, <4>2, <4>3
    <3> QED BY <3>1, <3>2
  <2> QED BY <2>1, <2>2, <2>3 DEF Numbers
<1>14. n \in Nat \ {0}
  BY <1>2, <1>3
<1> QED BY <1>11, <1>12, <1>13, <1>14 DEF order, S

\* What driving a controller leaves alone.
SameMarks(c, d) == /\ d.outstanding = c.outstanding /\ d.wakeup_at = c.wakeup_at
                   /\ d.refresh_due_at = c.refresh_due_at /\ d.next_refresh_due = c.next_refresh_due

\* The same accesses, whatever was noted about them.
SameEntries(q, r) == /\ r \in Seq(QueuedAccess) /\ Len(r) = Len(q)
                     /\ \A j \in 1 .. Len(q) : r[j].id = q[j].id /\ r[j].op = q[j].op

ReadsOf(q)  == {i \in DOMAIN q : q[i].op = "Read"}
WritesOf(q) == {i \in DOMAIN q : q[i].op = "Write"}

\* The accesses `ids' left the queue q, and r remained.
GivesUp(q, ids, r) ==
    /\ r \in Seq(QueuedAccess) /\ Len(q) = Len(r) + Len(ids)
    /\ Cardinality(ReadsOf(r)) <= Cardinality(ReadsOf(q))
    /\ Cardinality(WritesOf(r)) <= Cardinality(WritesOf(q))
    /\ \A id \in Ids : Cardinality(Mine(q, id)) = Cardinality(Mine(r, id)) + Cardinality(Named(ids, id))
    /\ \A j \in 1 .. Len(r) : \E i \in 1 .. Len(q) : r[j].id = q[i].id
    /\ \A k \in 1 .. Len(ids) : \E i \in 1 .. Len(q) : ids[k] = q[i].id

\* A data command takes the accesses it serves out of the queue, and only those.
LEMMA ServedLeave ==
  ASSUME NEW c \in Controller, NEW i \in DOMAIN c.queue
  PROVE  GivesUp(c.queue, ServedIds(c, i), Without(c.queue, Served(c, i)))
<1> DEFINE q == c.queue
           P == Served(c, i)
           K == DOMAIN q \ P
           r == Without(q, P)
           ids == ServedIds(c, i)
           order == ServedOrder(c, i)
           f == Ascending(K)
           n == Cardinality(P)
           m == Cardinality(K)
<1>1. /\ P \in SUBSET DOMAIN q /\ IsFiniteSet(P) /\ DOMAIN q = 1 .. Len(q) /\ Len(q) \in Nat
      /\ IsFiniteSet(DOMAIN q) /\ Cardinality(DOMAIN q) = Len(q)
  BY ServedFacts
<1>2. /\ n \in Nat /\ Numbers(order, n, P) /\ ids \in Seq(Ids) /\ Len(ids) = n
      /\ \A k \in 1 .. n : ids[k] = q[order[k]].id
  BY ServedOrderFacts
<1>q. q \in Seq(QueuedAccess)
  BY DEF Controller
<1>r. r = Picked(q, K)
  BY DEF Without
<1> HIDE DEF q, P, r, ids, order
<1>k. K \in SUBSET DOMAIN q
  OBVIOUS
<1> HIDE DEF f
<1>3. /\ IsFiniteSet(K) /\ m \in Nat /\ r \in Seq(QueuedAccess) /\ Len(r) = m
      /\ \A k \in 1 .. m : f[k] \in K /\ r[k] = q[f[k]]
  <2> HIDE DEF K
  <2>f. IsFiniteSet(K)
    BY <1>1, <1>k, FS_Subset
  <2>c. Cardinality(K) \in Nat
    BY <2>f, FS_CardinalityType
  <2>p. Picked(q, K) \in Seq(QueuedAccess) /\ Len(Picked(q, K)) = Cardinality(K)
    BY <1>k, <1>q, PickedFacts
  <2>1. IsFiniteSet(K) /\ Cardinality(K) \in Nat /\ Picked(q, K) \in Seq(QueuedAccess)
        /\ Len(Picked(q, K)) = Cardinality(K)
    BY <2>f, <2>c, <2>p
  <2>2. \A k \in 1 .. Cardinality(K) : Ascending(K)[k] \in K /\ Picked(q, K)[k] = q[Ascending(K)[k]]
    BY <1>k, <1>q, PickedFacts
  <2> QED BY <1>r, <2>1, <2>2 DEF f
<1>4. ASSUME NEW X PROVE Cardinality(Hits(m, f, X)) = Cardinality(K \cap X)
  <2> HIDE DEF K
  <2>1. K \in SUBSET Int
    BY <1>1, <1>k
  <2> QED BY <1>3, <2>1, PickedHits DEF f
<1>5. ASSUME NEW X PROVE Cardinality(Hits(n, order, X)) = Cardinality(P \cap X)
  BY <1>2, NumberingCount
<1>6. ASSUME NEW X \in SUBSET DOMAIN q
      PROVE  /\ Cardinality(X) = Cardinality(K \cap X) + Cardinality(P \cap X)
             /\ Cardinality(K \cap X) \in Nat /\ Cardinality(P \cap X) \in Nat
  <2> DEFINE A == K \cap X
             B == P \cap X
  <2>1. IsFiniteSet(A) /\ IsFiniteSet(B)
    BY <1>1, <1>3, FS_Subset
  <2>2. A \cap B = {} /\ A \cup B = X
    BY <1>1
  <2> HIDE DEF A, B
  <2>3. Cardinality(A \cup B) = Cardinality(A) + Cardinality(B) - Cardinality(A \cap B)
    BY <2>1, FS_Union
  <2>4. Cardinality(A \cap B) = 0
    BY <2>2, FS_EmptySet
  <2>5. Cardinality(A) \in Nat /\ Cardinality(B) \in Nat
    BY <2>1, FS_CardinalityType
  <2>6. Cardinality(X) = Cardinality(A) + Cardinality(B)
    <3>1. Cardinality(A \cup B) = Cardinality(A) + Cardinality(B)
      BY <2>3, <2>4, <2>5
    <3>2. X = A \cup B
      BY <2>2
    <3> QED BY <3>1, <3>2
  <2> QED BY <2>5, <2>6 DEF A, B
<1>d. DOMAIN r = 1 .. m /\ DOMAIN ids = 1 .. n
  BY <1>2, <1>3
<1>7. ASSUME NEW id \in Ids
      PROVE  Cardinality(Mine(q, id)) = Cardinality(Mine(r, id)) + Cardinality(Named(ids, id))
  <2> DEFINE X == {j \in DOMAIN q : q[j].id = id}
  <2>1. Mine(q, id) = X
    BY DEF Mine
  <2>2. Mine(r, id) = Hits(m, f, X)
    <3>1. ASSUME NEW k \in 1 .. m PROVE r[k].id = id <=> f[k] \in X
      BY <1>3
    <3> HIDE DEF X, m
    <3> QED BY <1>d, <3>1 DEF Mine, Hits
  <2>3. Named(ids, id) = Hits(n, order, X)
    <3>1. ASSUME NEW k \in 1 .. n PROVE ids[k] = id <=> order[k] \in X
      <4>1. order[k] \in P
        BY <1>2 DEF Numbers
      <4> QED BY <1>1, <1>2, <4>1
    <3> HIDE DEF X, n
    <3> QED BY <1>d, <3>1 DEF Named, Hits
  <2>4. Cardinality(X) = Cardinality(K \cap X) + Cardinality(P \cap X)
    BY <1>6
  <2> HIDE DEF X, K
  <2> QED BY <1>4, <1>5, <2>1, <2>2, <2>3, <2>4
<1>8. ASSUME NEW op PROVE Cardinality({j \in DOMAIN r : r[j].op = op}) <= Cardinality({j \in DOMAIN q : q[j].op = op})
  <2> DEFINE X == {j \in DOMAIN q : q[j].op = op}
             Y == {j \in DOMAIN r : r[j].op = op}
  <2>1. Y = Hits(m, f, X)
    <3>1. ASSUME NEW k \in 1 .. m PROVE r[k].op = op <=> f[k] \in X
      BY <1>3
    <3> HIDE DEF X, m
    <3> QED BY <1>d, <3>1 DEF Hits
  <2>2. /\ Cardinality(X) = Cardinality(K \cap X) + Cardinality(P \cap X)
        /\ Cardinality(K \cap X) \in Nat /\ Cardinality(P \cap X) \in Nat
    BY <1>6
  <2> HIDE DEF X, Y, K
  <2>3. Cardinality(Y) = Cardinality(K \cap X)
    BY <1>4, <2>1
  <2>4. Cardinality(Y) <= Cardinality(X)
    BY <2>2, <2>3
  <2> QED BY <2>4 DEF X, Y
<1>9. Cardinality(ReadsOf(r)) <= Cardinality(ReadsOf(q)) /\ Cardinality(WritesOf(r)) <= Cardinality(WritesOf(q))
  BY <1>8 DEF ReadsOf, WritesOf
<1>10. Len(q) = Len(r) + Len(ids)
  <2> DEFINE X == DOMAIN q
  <2>1. K \cap X = K /\ P \cap X = P
    BY <1>1
  <2>2. Cardinality(X) = Cardinality(K \cap X) + Cardinality(P \cap X)
    BY <1>6
  <2> HIDE DEF K
  <2> QED BY <1>1, <1>2, <1>3, <2>1, <2>2
<1>11. \A j \in 1 .. Len(r) : \E k \in 1 .. Len(q) : r[j].id = q[k].id
  <2> SUFFICES ASSUME NEW j \in 1 .. m PROVE \E k \in 1 .. Len(q) : r[j].id = q[k].id
    BY <1>3
  <2>1. f[j] \in DOMAIN q /\ r[j] = q[f[j]]
    BY <1>3
  <2> QED BY <1>1, <2>1
<1>12. \A k \in 1 .. Len(ids) : \E j \in 1 .. Len(q) : ids[k] = q[j].id
  <2> SUFFICES ASSUME NEW k \in 1 .. n PROVE \E j \in 1 .. Len(q) : ids[k] = q[j].id
    BY <1>2
  <2>1. order[k] \in DOMAIN q
    BY <1>1, <1>2 DEF Numbers
  <2> QED BY <1>1, <1>2, <2>1
<1>13. GivesUp(q, ids, r)
  BY <1>3, <1>7, <1>9, <1>10, <1>11, <1>12 DEF GivesUp
<1> QED BY <1>13 DEF q, ids, r, P

-----------------------------------------------------------------------------
(* Records of latency.                                                      *)

\* The time of an access's first command is a time when records are kept.
LEMMA FirstAtFacts ==
  ASSUME NEW access \in QueuedAccess, NEW time \in Int
  PROVE  FirstAt(access, time) \in Optional(Int) /\ (KeepRecords => FirstAt(access, time) \in Int)
  BY DEF FirstAt, Recorded, QueuedAccess, Optional

\* The stages of a transfer are differences of times.
LEMMA StagesFacts ==
  ASSUME NEW access \in QueuedAccess, NEW time \in Int, NEW latency \in Int, NEW start \in Int, KeepRecords
  PROVE  Stages(access, time, latency, start) \in Stage
<1>1. FirstAt(access, time) \in Int
  BY FirstAtFacts
<1>2. access.arrival \in Int
  BY DEF QueuedAccess
<1>3. BurstTime \in Int
  BY ControllerAssumption
<1> DEFINE wait == FirstAt(access, time) - access.arrival
           phase == time - FirstAt(access, time)
           bus == start - (time + latency)
<1>4. wait \in Int /\ phase \in Int /\ bus \in Int
  BY <1>1, <1>2
<1>5. Stages(access, time, latency, start) =
        [queue_wait |-> wait, command_phase |-> phase, data_ready |-> latency,
         data_bus_wait |-> bus, data_service |-> BurstTime]
  BY DEF Stages
<1> HIDE DEF wait, phase, bus
<1> QED BY <1>3, <1>4, <1>5 DEF Stage

\* So are those of every requester.
LEMMA StagesOfServedFacts ==
  ASSUME NEW c \in Controller, NEW i \in DOMAIN c.queue, NEW time \in Int, NEW latency \in Int, NEW start \in Int
  PROVE  StagesOfServed(c, i, time, latency, start) \in Seq(Stage)
<1>1. CASE ~KeepRecords
  BY <1>1 DEF StagesOfServed
<1>2. CASE KeepRecords
  <2> DEFINE others == Served(c, i) \ {i}
             rest == Ascending(others)
             m == Cardinality(others)
             later == [k \in DOMAIN rest |-> Stages(c.queue[rest[k]], time, latency, start)]
             first == <<Stages(c.queue[i], time, latency, start)>>
  <2>1. \A j \in DOMAIN c.queue : Stages(c.queue[j], time, latency, start) \in Stage
    <3>1. \A j \in DOMAIN c.queue : c.queue[j] \in QueuedAccess
      BY DEF Controller
    <3> QED BY <1>2, <3>1, StagesFacts
  <2>2. others \in SUBSET DOMAIN c.queue /\ IsFiniteSet(others) /\ others \in SUBSET Int
    <3>1. Served(c, i) \in SUBSET DOMAIN c.queue /\ IsFiniteSet(Served(c, i)) /\ DOMAIN c.queue \in SUBSET Int
      BY ServedFacts
    <3> QED BY <3>1, FS_RemoveElement
  <2>3. StagesOfServed(c, i, time, latency, start) = first \o later
    BY <1>2 DEF StagesOfServed
  <2> HIDE DEF others
  <2>4. m \in Nat /\ DOMAIN rest = 1 .. m /\ Numbers(rest, m, others)
    BY <2>2, AscendingFacts
  <2> HIDE DEF rest
  <2>5. \A k \in 1 .. m : rest[k] \in DOMAIN c.queue
    BY <2>2, <2>4 DEF Numbers
  <2>6. later \in Seq(Stage)
    <3>1. later = [k \in 1 .. m |-> Stages(c.queue[rest[k]], time, latency, start)]
      BY <2>4
    <3> HIDE DEF later, m
    <3> QED BY <2>1, <2>4, <2>5, <3>1
  <2>7. first \in Seq(Stage)
    BY <2>1
  <2> HIDE DEF first, later
  <2> QED BY <2>3, <2>6, <2>7, ConcatProperties
<1> QED BY <1>1, <1>2

\* An element put in front of a sequence.
LEMMA FrontFacts ==
  ASSUME NEW T, NEW x \in T, NEW rest \in Seq(T)
  PROVE  /\ Len(<<x>> \o rest) = Len(rest) + 1
         /\ \A k \in 1 .. Len(rest) + 1 : /\ k = 1 => (<<x>> \o rest)[k] = x
                                         /\ k # 1 => (<<x>> \o rest)[k] = rest[k - 1]
<1> DEFINE front == <<x>>
           all == front \o rest
<1>1. front \in Seq(T) /\ Len(front) = 1 /\ front[1] = x /\ Len(rest) \in Nat
  OBVIOUS
<1> HIDE DEF front
<1>2. /\ Len(all) = Len(front) + Len(rest)
      /\ \A k \in 1 .. Len(front) + Len(rest) :
            all[k] = IF k <= Len(front) THEN front[k] ELSE rest[k - Len(front)]
  BY <1>1, ConcatProperties
<1> HIDE DEF all
<1>3. ASSUME NEW k \in 1 .. Len(rest) + 1
      PROVE  (k = 1 => all[k] = x) /\ (k # 1 => all[k] = rest[k - 1])
  <2>1. all[k] = IF k <= 1 THEN front[k] ELSE rest[k - 1]
    BY <1>1, <1>2
  <2>2. k # 1 => ~ (k <= 1)
    BY <1>1
  <2> QED BY <1>1, <2>1, <2>2
<1> QED BY <1>1, <1>2, <1>3 DEF all, front

\* They are in the order of the requesters.
LEMMA StagesInOrder ==
  ASSUME NEW c \in Controller, NEW i \in DOMAIN c.queue, KeepRecords,
         NEW time \in Int, NEW latency \in Int, NEW start \in Int
  PROVE  LET n   == Cardinality(Served(c, i))
             all == StagesOfServed(c, i, time, latency, start)
         IN  /\ Len(all) = n
             /\ \A k \in 1 .. n : /\ ServedOrder(c, i)[k] \in 1 .. Len(c.queue)
                                 /\ all[k] = Stages(c.queue[ServedOrder(c, i)[k]], time, latency, start)
<1> DEFINE S == Served(c, i)
           others == S \ {i}
           n == Cardinality(S)
           m == Cardinality(others)
           rest == Ascending(others)
           of(j) == Stages(c.queue[j], time, latency, start)
           later == [k \in DOMAIN rest |-> of(rest[k])]
           order == ServedOrder(c, i)
           all == StagesOfServed(c, i, time, latency, start)
<1>1. /\ S \in SUBSET DOMAIN c.queue /\ i \in S /\ IsFiniteSet(S)
      /\ DOMAIN c.queue = 1 .. Len(c.queue) /\ Len(c.queue) \in Nat
  BY ServedFacts
<1>2. \A j \in DOMAIN c.queue : of(j) \in Stage
  <2>1. \A j \in DOMAIN c.queue : c.queue[j] \in QueuedAccess
    BY DEF Controller
  <2> QED BY <2>1, StagesFacts
<1>3. order = <<i>> \o rest /\ all = <<of(i)>> \o later
  BY DEF ServedOrder, StagesOfServed
<1> HIDE DEF S, of, order, all
<1>4. IsFiniteSet(others) /\ m = n - 1 /\ others \in SUBSET Int /\ n \in Nat /\ m \in Nat
  BY <1>1, FS_RemoveElement, FS_CardinalityType
<1>5. rest \in Seq(others) /\ Len(rest) = m /\ DOMAIN rest = 1 .. m /\ Numbers(rest, m, others)
  BY <1>4, AscendingFacts
<1> HIDE DEF rest
<1>6. \A k \in 1 .. m : rest[k] \in DOMAIN c.queue
  BY <1>1, <1>5 DEF Numbers
<1>7. rest \in Seq(DOMAIN c.queue)
  <2> HIDE DEF others, m
  <2>1. rest \in [1 .. m -> others]
    BY <1>5
  <2>2. rest \in [1 .. m -> DOMAIN c.queue]
    BY <1>6, <2>1
  <2> QED BY <1>4, <2>2
<1>8. later \in Seq(Stage) /\ Len(later) = m /\ \A k \in 1 .. m : later[k] = of(rest[k])
  <2>1. later = [k \in 1 .. m |-> of(rest[k])]
    BY <1>5
  <2> HIDE DEF later, m
  <2>2. later \in [1 .. m -> Stage]
    BY <1>2, <1>6, <2>1
  <2>3. later \in Seq(Stage) /\ Len(later) = m
    BY <1>4, <2>2
  <2> QED BY <2>1, <2>3
<1> HIDE DEF later, others, m, n
<1>9. /\ Len(all) = n
      /\ \A k \in 1 .. n : (k = 1 => all[k] = of(i)) /\ (k # 1 => all[k] = later[k - 1])
  BY <1>1, <1>2, <1>3, <1>4, <1>8, FrontFacts
<1>10. \A k \in 1 .. n : (k = 1 => order[k] = i) /\ (k # 1 => order[k] = rest[k - 1])
  BY <1>1, <1>3, <1>4, <1>5, <1>7, FrontFacts
<1>11. ASSUME NEW k \in 1 .. n PROVE order[k] \in 1 .. Len(c.queue) /\ all[k] = of(order[k])
  <2>1. CASE k = 1
    BY <1>1, <1>9, <1>10, <2>1
  <2>2. CASE k # 1
    <3>1. k - 1 \in 1 .. m
      BY <1>4, <2>2
    <3>2. order[k] = rest[k - 1] /\ all[k] = later[k - 1] /\ later[k - 1] = of(rest[k - 1])
      BY <1>8, <1>9, <1>10, <2>2, <3>1
    <3> QED BY <1>1, <1>6, <3>1, <3>2
  <2> QED BY <2>1, <2>2
<1> QED BY <1>9, <1>11 DEF S, n, of, order, all

\* Counting an activation keeps the count below the threshold.
LEMMA CountActivationFacts ==
  ASSUME NEW bank \in SoundBank, ~bank.rfm_pending
  PROVE  CountActivation(bank) \in SoundBank
<1> DEFINE count == bank.activation_count + 1
           counted == IF RfmThreshold = 0 THEN 0 ELSE count
<1>1. bank \in BankState /\ WithinThreshold(bank) /\ RfmThreshold \in Nat
  BY ControllerAssumption DEF SoundBank
<1>2. count \in Nat /\ counted \in Nat /\ count = bank.activation_count + 1
  BY <1>1 DEF BankState
<1>d. CountActivation(bank) = IF RfmThreshold # 0 /\ count >= RfmThreshold
                              THEN [bank EXCEPT !.activation_count = 0, !.rfm_pending = TRUE]
                              ELSE [bank EXCEPT !.activation_count = counted]
  BY DEF CountActivation
<1>v. counted = IF RfmThreshold = 0 THEN 0 ELSE count
  OBVIOUS
<1> HIDE DEF count, counted
<1>3. CASE RfmThreshold # 0 /\ count >= RfmThreshold
  <2> DEFINE b == [bank EXCEPT !.activation_count = 0, !.rfm_pending = TRUE]
  <2>1. b \in BankState /\ b.activation_count = 0
    BY <1>1 DEF BankState
  <2> HIDE DEF b
  <2>2. WithinThreshold(b)
    BY <1>1, <2>1 DEF WithinThreshold
  <2>3. b \in SoundBank
    BY <2>1, <2>2 DEF SoundBank
  <2> QED BY <1>d, <1>3, <2>3 DEF b
<1>4. CASE ~ (RfmThreshold # 0 /\ count >= RfmThreshold)
  <2> DEFINE b == [bank EXCEPT !.activation_count = counted]
  <2>1. b \in BankState /\ b.activation_count = counted /\ (b.rfm_pending <=> bank.rfm_pending)
    BY <1>1, <1>2 DEF BankState
  <2> HIDE DEF b
  <2>2. WithinThreshold(b)
    BY <1>1, <1>2, <1>4, <1>v, <2>1 DEF WithinThreshold
  <2>3. b \in SoundBank
    BY <2>1, <2>2 DEF SoundBank
  <2> QED BY <1>d, <1>4, <2>3 DEF b
<1> QED BY <1>3, <1>4

NoRfm(c) == \A b \in Bank : ~c.banks[b].rfm_pending

\* What a command other than a data command may note about the accesses: of the one it
\* is issued for, that it is the first.
Noting(q, r) == \A j \in 1 .. Len(q) : /\ r[j].arrival = q[j].arrival
                                       /\ r[j].first_at = q[j].first_at \/ r[j].first_at = FirstAt(q[j], 0)

\* What a data command records about those it serves: the stages of each, up to the
\* time at which the transfer is done; nothing about the others.
Serving(q, step, latency, start) ==
    /\ start >= latency /\ step.done_at = start + BurstTime /\ Len(step.stages) = Len(step.ids)
    /\ \A k \in 1 .. Len(step.ids) : \E j \in 1 .. Len(q) :
           step.ids[k] = q[j].id /\ step.stages[k] = Stages(q[j], 0, latency, start)
Recording(q, step) ==
    /\ \A j \in 1 .. Len(step.c.queue) : \E i \in 1 .. Len(q) : step.c.queue[j] = q[i]
    /\ \E latency \in Nat, start \in Int : Serving(q, step, latency, start)

Notes(q, step) == /\ step.ids = <<>> => Noting(q, step.c.queue)
                  /\ step.ids # <<>> /\ KeepRecords => Recording(q, step)

\* A precharge or an activation leaves the access in its queue.
LEMMA RowCommandFacts ==
  ASSUME NEW c \in Controller, NEW candidate \in Candidate, candidate.sequence \in DOMAIN c.queue,
         candidate.command \notin DataCommands, NoRfm(c)
  PROVE  LET step == issue(c, candidate, 0)
         IN  /\ step.c \in Controller /\ SameMarks(c, step.c) /\ step.c.fault = c.fault
             /\ SameEntries(c.queue, step.c.queue) /\ Noting(c.queue, step.c.queue)
             /\ step = [c |-> step.c, ids |-> <<>>, stages |-> <<>>, done_at |-> None, wake_at |-> None]
<1> DEFINE i == candidate.sequence
           q == c.queue
           access == q[i]
           command == candidate.command
           issued == CommandIssued(c, command, access.row, access.bank, 0)
           first == FirstAt(access, 0)
           active == [access EXCEPT !.activated = TRUE, !.first_at = first]
           seen == [access EXCEPT !.first_at = first]
           counted == [issued.banks EXCEPT ![access.bank] = CountActivation(issued.banks[access.bank])]
           activated == [issued EXCEPT !.banks = counted, !.queue = [q EXCEPT ![i] = active]]
           precharged == [issued EXCEPT !.queue = [q EXCEPT ![i] = seen]]
           step == issue(c, candidate, 0)
<1>1. q \in Seq(QueuedAccess) /\ i \in 1 .. Len(q) /\ access \in QueuedAccess /\ DOMAIN q = 1 .. Len(q) /\ Len(q) \in Nat
  BY DEF Controller
<1>2. access.row \in Nat /\ access.bank \in Bank
  BY <1>1 DEF QueuedAccess
<1>3. command \in {"PRE", "ACT"} /\ command \in Command
  BY DEF Candidate, AccessCommand, Command, BankScoped
<1> HIDE DEF access, q
<1>4. /\ issued \in Controller /\ SameWork(c, issued)
      /\ issued.next_refresh_due = c.next_refresh_due
      /\ issued.banks = apply_transition(command, access.row, c.banks, access.bank)
  BY <1>2, <1>3, CommandIssuedFacts
<1>5. ~issued.banks[access.bank].rfm_pending /\ issued.banks[access.bank] \in SoundBank
  <2>1. c.banks \in [Bank -> SoundBank] /\ issued.banks \in [Bank -> SoundBank]
    BY <1>4 DEF Controller
  <2>2. c.banks[access.bank] \in SoundBank /\ ~c.banks[access.bank].rfm_pending
    BY <1>2, <2>1 DEF NoRfm
  <2>3. BankAfter(command, access.row, c.banks[access.bank]).rfm_pending = c.banks[access.bank].rfm_pending
    BY <1>2, <1>3, <2>2, BankAfterFacts
  <2>4. issued.banks[access.bank] = BankAfter(command, access.row, c.banks[access.bank])
    BY <1>2, <1>4, <2>1 DEF apply_transition
  <2> QED BY <1>2, <2>1, <2>2, <2>3, <2>4
<1>6. issued.queue = q
  BY <1>4 DEF SameWork, q
<1>n. IF command = "ACT"
      THEN step.c = [issued EXCEPT !.banks[access.bank] = CountActivation(@),
                                   !.queue[i].activated = TRUE, !.queue[i].first_at = first]
      ELSE step.c = [issued EXCEPT !.queue[i].first_at = first]
  BY DEF issue, access, q
<1>s. step = [c |-> step.c, ids |-> <<>>, stages |-> <<>>, done_at |-> None, wake_at |-> None]
  BY DEF issue
<1> HIDE DEF issued, step, first, command, i
<1>7. first \in Optional(Int)
  BY <1>1, FirstAtFacts DEF first
<1>f. access = [id |-> access.id, op |-> access.op, priority |-> access.priority, domain |-> access.domain,
                bank |-> access.bank, row |-> access.row, col |-> access.col, activated |-> access.activated,
                arrival |-> access.arrival, first_at |-> access.first_at]
  BY <1>1 DEF QueuedAccess
<1>8. active \in QueuedAccess /\ seen \in QueuedAccess
      /\ active.id = access.id /\ active.op = access.op /\ seen.id = access.id /\ seen.op = access.op
  BY <1>1, <1>7 DEF QueuedAccess
<1>e. /\ active.arrival = access.arrival /\ active.first_at = first
      /\ seen.arrival = access.arrival /\ seen.first_at = first
  BY <1>f
<1>9. CASE command = "ACT"
  <2>1. step.c = activated
    <3>1. step.c = [issued EXCEPT !.banks[access.bank] = CountActivation(@),
                                  !.queue[i].activated = TRUE, !.queue[i].first_at = first]
      BY <1>9, <1>n
    <3> DEFINE marked == [access EXCEPT !.activated = TRUE]
               mid == [q EXCEPT ![i] = marked]
               last == [mid EXCEPT ![i] = [mid[i] EXCEPT !.first_at = first]]
    <3>2. mid[i] = marked /\ DOMAIN mid = DOMAIN q
      BY <1>1 DEF i
    <3>3. [marked EXCEPT !.first_at = first] = active
      BY <1>1 DEF QueuedAccess
    <3> HIDE DEF marked, active
    <3>4. last = [q EXCEPT ![i] = active]
      BY <1>1, <3>2, <3>3 DEF i
    <3>5. step.c = [issued EXCEPT !.banks = counted, !.queue = last]
      <4>1. step.c = [issued EXCEPT !.banks[access.bank] = CountActivation(@),
                                    !.queue = [[@ EXCEPT ![i].activated = TRUE] EXCEPT ![i].first_at = first]]
        BY <1>4, <3>1 DEF Controller
      <4>2. [[q EXCEPT ![i].activated = TRUE] EXCEPT ![i].first_at = first] = last
        BY DEF marked, access
      <4> HIDE DEF last, mid
      <4> QED BY <1>4, <1>6, <4>1, <4>2 DEF Controller
    <3> QED BY <3>4, <3>5
  <2> HIDE DEF active
  <2> DEFINE r == [q EXCEPT ![i] = active]
  <2>2. r \in Seq(QueuedAccess) /\ Len(r) = Len(q) /\ \A j \in 1 .. Len(q) : r[j] = IF j = i THEN active ELSE q[j]
    BY <1>1, <1>8, ExceptSeq
  <2>3. SameEntries(q, r)
    BY <1>8, <2>2 DEF SameEntries, access
  <2>9. Noting(q, r)
    BY <1>8, <1>e, <2>2 DEF Noting, access, first
  <2>4. counted \in [Bank -> SoundBank]
    <3>1. CountActivation(issued.banks[access.bank]) \in SoundBank
      BY <1>5, CountActivationFacts
    <3>2. issued.banks \in [Bank -> SoundBank]
      BY <1>4 DEF Controller
    <3> QED BY <1>2, <3>1, <3>2
  <2>5. activated = [issued EXCEPT !.banks = counted, !.queue = r]
    OBVIOUS
  <2> HIDE DEF r, counted, activated
  <2>6. activated \in Controller
    BY <1>4, <2>2, <2>4, <2>5 DEF Controller
  <2>7. SameMarks(c, activated) /\ activated.fault = c.fault /\ activated.queue = r
    BY <1>4, <2>5 DEF Controller, SameMarks, SameWork
  <2>8. step.c \in Controller /\ SameMarks(c, step.c) /\ step.c.fault = c.fault
        /\ SameEntries(q, step.c.queue) /\ Noting(q, step.c.queue)
    BY <2>1, <2>3, <2>6, <2>7, <2>9
  <2> QED BY <1>s, <2>8 DEF step, q
<1>10. CASE command # "ACT"
  <2>1. step.c = precharged
    <3>1. step.c = [issued EXCEPT !.queue[i].first_at = first]
      BY <1>10, <1>n
    <3> QED BY <1>1, <1>2, <1>4, <1>6, <3>1 DEF Controller, QueuedAccess, access
  <2> HIDE DEF seen
  <2> DEFINE r == [q EXCEPT ![i] = seen]
  <2>2. r \in Seq(QueuedAccess) /\ Len(r) = Len(q) /\ \A j \in 1 .. Len(q) : r[j] = IF j = i THEN seen ELSE q[j]
    BY <1>1, <1>8, ExceptSeq
  <2>3. SameEntries(q, r)
    BY <1>8, <2>2 DEF SameEntries, access
  <2>9. Noting(q, r)
    BY <1>8, <1>e, <2>2 DEF Noting, access, first
  <2>5. precharged = [issued EXCEPT !.queue = r]
    OBVIOUS
  <2> HIDE DEF r, precharged
  <2>6. precharged \in Controller
    BY <1>4, <2>2, <2>5 DEF Controller
  <2>7. SameMarks(c, precharged) /\ precharged.fault = c.fault /\ precharged.queue = r
    BY <1>4, <2>5 DEF Controller, SameMarks, SameWork
  <2>8. step.c \in Controller /\ SameMarks(c, step.c) /\ step.c.fault = c.fault
        /\ SameEntries(q, step.c.queue) /\ Noting(q, step.c.queue)
    BY <2>1, <2>3, <2>6, <2>7, <2>9
  <2> QED BY <1>s, <2>8 DEF step, q
<1> QED BY <1>9, <1>10

\* The column latency is not negative.
LEMMA CasLatencyFacts ==
  ASSUME NEW op
  PROVE  CasLatency(op) \in Nat
<1>1. Timing.t_cwl \in Nat /\ Timing.t_cl \in Nat
  BY TimingIsNat DEF Parameters
<1> QED BY <1>1 DEF CasLatency

\* A data command takes what it serves out of the queue, and completes in the future.
LEMMA DataCommandFacts ==
  ASSUME NEW c \in Controller, NEW command \in DataCommands, NEW i \in DOMAIN c.queue,
         c.banks[c.queue[i].bank].row = c.queue[i].row
  PROVE  LET step == IssueData(c, command, i, 0)
         IN  /\ step.c \in Controller /\ SameMarks(c, step.c) /\ step.c.fault = c.fault
             /\ GivesUp(c.queue, step.ids, step.c.queue) /\ (KeepRecords => Recording(c.queue, step))
             /\ step.ids \in Seq(Ids) /\ step.ids # <<>> /\ step.done_at \in Nat
             /\ step.stages \in Seq(Stage) /\ step.wake_at = None
             /\ step = [c |-> step.c, ids |-> step.ids, done_at |-> step.done_at,
                        wake_at |-> step.wake_at, stages |-> step.stages]
<1> DEFINE access == c.queue[i]
           bus == PseudoChannelOf(access.bank)
           latency == CasLatency(access.op)
           begin == Max({0 + latency, c.data_bus[bus]})
           done == begin + BurstTime
           issued == CommandIssued(c, command, access.row, access.bank, 0)
           left == Without(c.queue, Served(c, i))
           flag == Custom /\ RowPolicy = "Closed"
           closing == [issued.banks[access.bank] EXCEPT !.precharge_pending = @ \/ flag]
           banks == [issued.banks EXCEPT ![access.bank] = closing]
           buses == [issued.data_bus EXCEPT ![bus] = done]
           after == [issued EXCEPT !.queue = left, !.data_bus = buses, !.banks = banks]
           step == IssueData(c, command, i, 0)
           stages == StagesOfServed(c, i, 0, latency, done - BurstTime)
<1>1. access \in QueuedAccess /\ c.banks[access.bank].row = access.row
  BY DEF Controller
<1>2. access.row \in Nat /\ access.bank \in Bank
  BY <1>1 DEF QueuedAccess
<1>3. command \in Command
  BY DEF Command, BankScoped
<1> HIDE DEF access
<1>4. /\ issued \in Controller /\ SameWork(c, issued)
      /\ issued.next_refresh_due = c.next_refresh_due /\ issued.data_bus = c.data_bus
  BY <1>2, <1>3, CommandIssuedFacts
<1>5. bus \in 0 .. PseudoChannels - 1
  BY <1>2, BankFacts
<1>6. latency \in Nat
  BY CasLatencyFacts
<1> HIDE DEF bus, latency
<1>7. done \in Nat /\ done - BurstTime \in Int /\ done - BurstTime >= latency /\ BurstTime \in Nat
  <2>1. c.data_bus[bus] \in Int /\ 0 + latency \in Int
    <3>1. c.data_bus \in [0 .. PseudoChannels - 1 -> Int]
      BY DEF Controller
    <3>2. c.data_bus[bus] \in Int
      BY <1>5, <3>1
    <3>3. 0 + latency \in Int
      BY <1>6
    <3> QED BY <3>2, <3>3
  <2> DEFINE a == 0 + latency
             b == c.data_bus[bus]
  <2>2. a \in Int /\ b \in Int /\ a >= 0 /\ a = latency /\ begin = Max({a, b})
    BY <1>6, <2>1
  <2> HIDE DEF a, b, begin
  <2>3. begin \in Int /\ begin >= a
    BY <2>2, MaxOfTwo
  <2>4. BurstTime \in Nat
    BY ControllerAssumption
  <2>5. begin >= 0 /\ begin >= latency
    BY <2>2, <2>3
  <2> QED BY <2>3, <2>4, <2>5
<1>8. left \in Seq(QueuedAccess) /\ GivesUp(c.queue, ServedIds(c, i), left)
  BY ServedLeave DEF GivesUp
<1>9. ServedIds(c, i) \in Seq(Ids) /\ ServedIds(c, i) # <<>>
  <2>1. ServedIds(c, i) \in Seq(Ids) /\ Len(ServedIds(c, i)) # 0
    BY ServedOrderFacts
  <2> QED BY <2>1
<1>10. stages \in Seq(Stage)
  <2> DEFINE start == done - BurstTime
  <2>1. start \in Int /\ stages = StagesOfServed(c, i, 0, latency, start)
    BY <1>7
  <2> HIDE DEF start, stages, done
  <2> QED BY <1>6, <2>1, StagesOfServedFacts
<1>11. banks \in [Bank -> SoundBank]
  <2>1. issued.banks \in [Bank -> SoundBank]
    BY <1>4 DEF Controller
  <2> DEFINE b == issued.banks[access.bank]
  <2>2. b \in BankState /\ WithinThreshold(b)
    BY <1>2, <2>1 DEF SoundBank
  <2> HIDE DEF b
  <2> DEFINE flagged == b.precharge_pending \/ flag
  <2>3. flagged \in BOOLEAN
    BY <2>2 DEF BankState
  <2>4. closing = [b EXCEPT !.precharge_pending = flagged]
    BY <2>2 DEF b, BankState
  <2> HIDE DEF closing, flagged
  <2>5. closing \in BankState /\ (closing.rfm_pending <=> b.rfm_pending) /\ closing.activation_count = b.activation_count
    BY <2>2, <2>3, <2>4 DEF BankState
  <2>6. closing \in SoundBank
    BY <2>2, <2>5 DEF SoundBank, WithinThreshold
  <2> HIDE DEF issued
  <2> QED BY <1>2, <2>1, <2>6
<1>12. buses \in [0 .. PseudoChannels - 1 -> Int]
  <2>1. issued.data_bus \in [0 .. PseudoChannels - 1 -> Int]
    BY <1>4 DEF Controller
  <2> HIDE DEF issued, done
  <2> QED BY <1>5, <1>7, <2>1
<1>13. step.c = after
  <2>1. step.c = [issued EXCEPT
                    !.queue = Without(@, Served(c, i)),
                    !.data_bus[bus] = done,
                    !.banks[access.bank].precharge_pending = @ \/ (Custom /\ RowPolicy = "Closed"),
                    !.fault = @ \/ c.banks[access.bank].row # access.row]
    BY DEF IssueData, access, bus, latency
  <2> HIDE DEF step, issued, done
  <2>2. issued.queue = c.queue /\ issued.fault \in BOOLEAN
    BY <1>4 DEF SameWork, Controller
  <2>3. step.c = [issued EXCEPT !.queue = left, !.data_bus = buses, !.banks = banks,
                                !.fault = issued.fault \/ c.banks[access.bank].row # access.row]
    BY <1>4, <2>1, <2>2 DEF Controller
  <2>4. (issued.fault \/ c.banks[access.bank].row # access.row) = issued.fault
    BY <1>1, <2>2
  <2> HIDE DEF left, buses, banks
  <2> QED BY <1>4, <2>3, <2>4 DEF Controller
<1>14. step = [c |-> step.c, ids |-> ServedIds(c, i), done_at |-> done, wake_at |-> None, stages |-> stages]
  BY DEF IssueData, access, bus, latency
<1> HIDE DEF step, left, banks, buses, issued, done, stages
<1>15. after \in Controller
  BY <1>4, <1>8, <1>11, <1>12 DEF Controller
<1>16. SameMarks(c, after) /\ after.fault = c.fault /\ after.queue = left
  BY <1>4 DEF Controller, SameMarks, SameWork
<1> HIDE DEF after
<1>17. step.ids = ServedIds(c, i) /\ step.done_at = done /\ step.wake_at = None /\ step.stages = stages
  BY <1>14
<1>18. step = [c |-> step.c, ids |-> step.ids, done_at |-> step.done_at,
               wake_at |-> step.wake_at, stages |-> step.stages]
  BY <1>14, <1>17
<1>19. /\ step.c \in Controller /\ SameMarks(c, step.c) /\ step.c.fault = c.fault
       /\ GivesUp(c.queue, step.ids, step.c.queue)
  BY <1>8, <1>13, <1>15, <1>16, <1>17
<1>20. /\ step.ids \in Seq(Ids) /\ step.ids # <<>> /\ step.done_at \in Nat /\ step.stages \in Seq(Stage)
  BY <1>7, <1>9, <1>10, <1>17
<1>21. ASSUME KeepRecords PROVE Recording(c.queue, step)
  <2> DEFINE q == c.queue
             P == DOMAIN q \ Served(c, i)
             start == done - BurstTime
             n == Cardinality(Served(c, i))
  <2>1. q \in Seq(QueuedAccess) /\ DOMAIN q = 1 .. Len(q)
    BY DEF Controller
  <2>2. ASSUME NEW j \in 1 .. Len(left) PROVE \E p \in 1 .. Len(q) : left[j] = q[p]
    <3> HIDE DEF q
    <3> DEFINE chosen == P
    <3>1. chosen \in SUBSET DOMAIN q
      OBVIOUS
    <3>2. left = Picked(q, chosen)
      BY DEF left, Without, q
    <3> HIDE DEF chosen
    <3>3. /\ Len(left) = Cardinality(chosen)
          /\ \A k \in 1 .. Cardinality(chosen) : /\ Ascending(chosen)[k] \in chosen
                                                /\ left[k] = q[Ascending(chosen)[k]]
      BY <2>1, <3>1, <3>2, PickedFacts
    <3> QED BY <2>1, <2>2, <3>1, <3>3
  <2>3. start \in Int /\ stages = StagesOfServed(c, i, 0, latency, start)
    BY <1>7 DEF stages
  <2>4. start >= latency /\ step.done_at = start + BurstTime
    BY <1>7, <1>17
  <2> HIDE DEF start
  <2>5. /\ Len(step.stages) = n
        /\ \A k \in 1 .. n : /\ ServedOrder(c, i)[k] \in 1 .. Len(q)
                            /\ step.stages[k] = Stages(q[ServedOrder(c, i)[k]], 0, latency, start)
    BY <1>6, <1>17, <1>21, <2>3, StagesInOrder
  <2>6. Len(step.ids) = n /\ \A k \in 1 .. n : step.ids[k] = q[ServedOrder(c, i)[k]].id
    BY <1>17, ServedOrderFacts
  <2>7. Serving(q, step, latency, start)
    <3> HIDE DEF q, n
    <3> QED BY <2>4, <2>5, <2>6 DEF Serving
  <2>8. step.c.queue = left
    BY <1>13, <1>16
  <2> HIDE DEF q
  <2>9. Recording(q, step)
    BY <1>6, <2>2, <2>3, <2>7, <2>8 DEF Recording
  <2> QED BY <2>9 DEF q
<1> QED BY <1>17, <1>18, <1>19, <1>20, <1>21 DEF step

\* The write drain state is all that update_write_drain changes.
LEMMA WriteDrainFacts ==
  ASSUME NEW c \in Controller
  PROVE  LET d == update_write_drain(c)
         IN  /\ d \in Controller /\ SameMarks(c, d) /\ d.fault = c.fault
             /\ d.queue = c.queue /\ d.banks = c.banks
<1> DEFINE d == update_write_drain(c)
<1>1. d = c \/ d = [c EXCEPT !.draining = FALSE] \/ d = [c EXCEPT !.draining = TRUE]
  BY DEF update_write_drain
<1> HIDE DEF d
<1>2. d \in Controller
  <2>1. ASSUME NEW b \in BOOLEAN PROVE [c EXCEPT !.draining = b] \in Controller
    BY DEF Controller
  <2> QED BY <1>1, <2>1
<1>3. SameMarks(c, d) /\ d.fault = c.fault /\ d.queue = c.queue /\ d.banks = c.banks
  BY <1>1 DEF Controller, SameMarks
<1> QED BY <1>2, <1>3 DEF d

\* What drive does: it starts a transfer for `ids', or leaves the accesses where they are.
Drives(c, step) ==
    /\ step.c \in Controller /\ SameMarks(c, step.c) /\ step.c.fault = c.fault
    /\ step.wake_at \in Optional(Int) /\ step.ids \in Seq(Ids)
    /\ step.ids = <<>> => SameEntries(c.queue, step.c.queue)
    /\ step.ids # <<>> => /\ GivesUp(c.queue, step.ids, step.c.queue)
                          /\ step.done_at \in Nat /\ step.stages \in Seq(Stage)

\* A queue has the same accesses as itself.
LEMMA SameEntriesReflexive ==
  ASSUME NEW q \in Seq(QueuedAccess)
  PROVE  SameEntries(q, q)
  BY DEF SameEntries

\* drive, whichever of its branches it takes.
LEMMA DriveFacts ==
  ASSUME NEW c \in Controller
  PROVE  Drives(c, drive(c)) /\ Notes(c.queue, drive(c))
<1>q. c.queue \in Seq(QueuedAccess)
  BY DEF Controller
<1>t. ASSUME NEW d \in Controller, SameMarks(c, d), d.fault = c.fault, d.queue = c.queue,
             NEW wake \in Optional(Int)
      PROVE  Drives(c, StepTo(d, wake)) /\ Notes(c.queue, StepTo(d, wake))
  <2> DEFINE s == StepTo(d, wake)
  <2>1. s.c = d /\ s.wake_at = wake /\ s.ids = <<>>
    BY DEF StepTo
  <2> HIDE DEF s
  <2>2. SameEntries(c.queue, d.queue)
    BY <1>q, <1>t, SameEntriesReflexive
  <2>3. Drives(c, s)
    BY <1>t, <2>1, <2>2 DEF Drives
  <2>4. Notes(c.queue, s)
    BY <1>t, <2>1 DEF Notes, Noting
  <2> QED BY <2>3, <2>4 DEF s
<1>r. SameMarks(c, c)
  BY DEF SameMarks
<1>1. CASE IsBusy(c)
  <2>1. drive(c) = StepTo(c, c.busy_until)
    BY <1>1 DEF drive
  <2>2. c.busy_until \in Optional(Int)
    BY DEF Controller, Optional
  <2> QED BY <1>r, <1>t, <2>1, <2>2
<1>2. CASE ~IsBusy(c) /\ MaintenanceIsPending(c)
  <2> DEFINE m == choose_maintenance(c, 0)
             d == issue_maintenance(c, m, 0)
             wake == IF IsFinal(m) THEN d.busy_until ELSE 0
  <2>1. m \in MaintenanceStep /\ m.command \in {m.requested, "PRE", "PREA"}
    BY <1>2, ChosenMaintenance
  <2>2. drive(c) = IF m.ready_at > 0 THEN StepTo(c, m.ready_at) ELSE StepTo(d, wake)
    BY <1>2 DEF drive, DriveMaintenance
  <2> HIDE DEF m
  <2>3. m.ready_at \in Optional(Int)
    BY <2>1 DEF MaintenanceStep, Optional
  <2>4. d \in Controller /\ SameWork(c, d) /\ d.next_refresh_due = c.next_refresh_due
    BY <2>1, MaintenanceIssued
  <2>5. wake \in Optional(Int)
    <3> HIDE DEF d
    <3> QED BY <2>4 DEF Controller, Optional
  <2> HIDE DEF d, wake
  <2>6. SameMarks(c, d) /\ d.fault = c.fault /\ d.queue = c.queue
    BY <2>4 DEF SameMarks, SameWork
  <2> QED BY <1>r, <1>t, <2>2, <2>3, <2>4, <2>5, <2>6
<1>3. CASE ~IsBusy(c) /\ ~MaintenanceIsPending(c)
  <2> DEFINE d == update_write_drain(c)
             x == choose_next(d, 0)
             issued == issue(d, x, 0)
  <2>1. drive(c) = IF c.queue = <<>> THEN StepTo(d, None) ELSE DriveRequest(d, x)
    BY <1>3 DEF drive
  <2>2. d \in Controller /\ SameMarks(c, d) /\ d.fault = c.fault /\ d.queue = c.queue /\ d.banks = c.banks
    BY WriteDrainFacts
  <2> HIDE DEF d
  <2>3. CASE c.queue = <<>>
    <3>1. None \in Optional(Int)
      BY DEF Optional
    <3> QED BY <1>t, <2>1, <2>2, <2>3, <3>1
  <2>4. CASE c.queue # <<>>
    <3>1. PICK i \in DOMAIN d.queue : x = CandidateOf(d, i, 0)
      BY <2>2, <2>4, ChosenAccess
    <3>2. x \in Candidate /\ x.sequence = i /\ (x.command \in DataCommands => d.banks[d.queue[i].bank].row = d.queue[i].row)
      <4> DEFINE y == CandidateOf(d, i, 0)
      <4>1. y \in Candidate /\ y.sequence = i /\ (y.command \in DataCommands => d.banks[d.queue[i].bank].row = d.queue[i].row)
        BY <2>2, CandidateFacts
      <4> HIDE DEF y
      <4>2. x = y
        BY <3>1 DEF y
      <4> QED BY <4>1, <4>2
    <3> HIDE DEF x
    <3>3. NoRfm(d)
      BY <1>3, <2>2 DEF NoRfm, MaintenanceIsPending
    <3>4. CASE x.ready_at > 0
      <4>1. drive(c) = StepTo(d, x.ready_at)
        BY <2>1, <2>4, <3>4 DEF DriveRequest
      <4>2. x.ready_at \in Optional(Int)
        BY <3>2 DEF Candidate, Optional
      <4> QED BY <1>t, <2>2, <4>1, <4>2
    <3>5. CASE ~ (x.ready_at > 0)
      <4>1. drive(c) = [issued EXCEPT !.wake_at = 0]
        BY <2>1, <2>4, <3>5 DEF DriveRequest
      <4> DEFINE step == drive(c)
      <4>z. 0 \in Optional(Int)
        BY DEF Optional
      <4>2. CASE x.command \in DataCommands
        <5>1. issued = IssueData(d, x.command, i, 0)
          BY <3>2, <4>2 DEF issue
        <5>2. /\ issued.c \in Controller /\ SameMarks(d, issued.c) /\ issued.c.fault = d.fault
              /\ GivesUp(d.queue, issued.ids, issued.c.queue) /\ (KeepRecords => Recording(d.queue, issued))
              /\ issued.ids \in Seq(Ids) /\ issued.ids # <<>> /\ issued.done_at \in Nat
              /\ issued.stages \in Seq(Stage)
              /\ issued = [c |-> issued.c, ids |-> issued.ids, done_at |-> issued.done_at,
                           wake_at |-> issued.wake_at, stages |-> issued.stages]
          BY <2>2, <3>2, <4>2, <5>1, DataCommandFacts
        <5> HIDE DEF issued, step
        <5>3. step.c = issued.c /\ step.ids = issued.ids /\ step.done_at = issued.done_at
              /\ step.stages = issued.stages /\ step.wake_at = 0
          BY <4>1, <5>2 DEF step
        <5>4. SameMarks(c, issued.c)
          BY <2>2, <5>2 DEF SameMarks
        <5>5. Drives(c, step)
          BY <2>2, <4>z, <5>2, <5>3, <5>4 DEF Drives
        <5>6. Notes(c.queue, step)
          BY <2>2, <5>2, <5>3 DEF Notes, Recording, Serving
        <5> QED BY <5>5, <5>6 DEF step
      <4>3. CASE x.command \notin DataCommands
        <5>2. /\ issued.c \in Controller /\ SameMarks(d, issued.c) /\ issued.c.fault = d.fault
              /\ SameEntries(d.queue, issued.c.queue) /\ Noting(d.queue, issued.c.queue)
              /\ issued = [c |-> issued.c, ids |-> <<>>, stages |-> <<>>, done_at |-> None, wake_at |-> None]
          BY <2>2, <3>2, <3>3, <4>3, RowCommandFacts
        <5> HIDE DEF issued, step
        <5>3. step.c = issued.c /\ step.ids = <<>> /\ step.wake_at = 0
          BY <4>1, <5>2 DEF step
        <5>4. SameMarks(c, issued.c)
          BY <2>2, <5>2 DEF SameMarks
        <5>5. Drives(c, step)
          BY <2>2, <4>z, <5>2, <5>3, <5>4 DEF Drives
        <5>6. Notes(c.queue, step)
          BY <2>2, <5>2, <5>3 DEF Notes, Recording, Serving
        <5> QED BY <5>5, <5>6 DEF step
      <4> QED BY <4>2, <4>3
    <3> QED BY <3>4, <3>5
  <2> QED BY <2>3, <2>4
<1> QED BY <1>1, <1>2, <1>3

-----------------------------------------------------------------------------
(* The clock moves on.                                                      *)

\* A mark moves with the clock, and stays unset when it is unset.
LEMMA LaterFacts ==
  ASSUME NEW t \in Optional(Int), NEW d \in Int
  PROVE  /\ Later(t, d) \in Optional(Int) /\ (Later(t, d) = None <=> t = None)
         /\ t # None => Later(t, d) = t - d /\ t \in Int
<1>1. None \notin Int
  BY StandardAssumption
<1>2. CASE t = None
  BY <1>2 DEF Later, Optional
<1>3. CASE t # None
  <2>1. t \in Int
    BY <1>3 DEF Optional
  <2>2. Later(t, d) = t - d /\ t - d \in Int
    BY <1>3, <2>1 DEF Later
  <2> QED BY <1>1, <1>3, <2>1, <2>2 DEF Optional
<1> QED BY <1>2, <1>3

\* The recorded times of the accesses moved by d.
Postponed(q, r, d) == \A j \in 1 .. Len(q) : /\ r[j].arrival = q[j].arrival - d
                                             /\ r[j].first_at = Later(q[j].first_at, d)

\* Rebasing moves the times, and nothing else.
LEMMA RebaseFacts ==
  ASSUME NEW c \in Controller, NEW d \in Int
  PROVE  LET r == Rebase(c, d)
         IN  /\ r \in Controller /\ SameEntries(c.queue, r.queue) /\ r.banks = c.banks
             /\ r.outstanding = c.outstanding /\ r.fault = c.fault
             /\ r.wakeup_at = Later(c.wakeup_at, d) /\ r.refresh_due_at = Later(c.refresh_due_at, d)
             /\ r.next_refresh_due = Later(c.next_refresh_due, d)
             /\ KeepRecords => Postponed(c.queue, r.queue, d)
<1> DEFINE due == Later(c.next_refresh_due, d)
           oldest == IF due # None /\ due < 0 THEN due ELSE 0
           recent == {i \in DOMAIN c.history : c.history[i].at - d + Reach(c.history[i].cmd) > oldest}
           move(t) == Max({t - d, oldest})
           kept == Picked(c.history, recent)
           history == [i \in DOMAIN kept |-> [kept[i] EXCEPT !.at = @ - d]]
           queue == Aged(c.queue, d)
           data == [p \in DOMAIN c.data_bus |-> move(c.data_bus[p])]
           buses == [b \in DOMAIN c.command_bus |-> move(c.command_bus[b])]
           busy == move(c.busy_until)
           wake == Later(c.wakeup_at, d)
           refresh == Later(c.refresh_due_at, d)
           r == Rebase(c, d)
<1>1. due \in Optional(Int) /\ wake \in Optional(Int) /\ refresh \in Optional(Int)
  BY LaterFacts DEF Controller
<1>r. r = [c EXCEPT !.queue = queue, !.history = history, !.data_bus = data, !.command_bus = buses,
                    !.busy_until = busy, !.wakeup_at = wake, !.refresh_due_at = refresh,
                    !.next_refresh_due = due]
  <2>1. c = [f \in DOMAIN c |-> c[f]] /\ {"queue", "history", "data_bus", "command_bus", "busy_until", "wakeup_at",
            "refresh_due_at", "next_refresh_due"} \subseteq DOMAIN c
    BY DEF Controller
  <2> QED BY <2>1 DEF Rebase
<1>2. oldest \in Int
  BY <1>1 DEF Optional
<1> HIDE DEF due, oldest
<1>3. ASSUME NEW t \in Int PROVE move(t) \in Int
  <2>1. t - d \in Int
    OBVIOUS
  <2> QED BY <1>2, <2>1, MaxOfTwo
<1> HIDE DEF move
<1>4. /\ data \in [0 .. PseudoChannels - 1 -> Int] /\ buses \in [{"unified", "row", "column"} -> Int]
      /\ busy \in Int
  BY <1>3 DEF Controller
<1>5. history \in Seq(Entry)
  <2>1. kept \in Seq(Entry)
    <3>1. recent \in SUBSET DOMAIN c.history /\ c.history \in Seq(Entry)
      BY DEF Controller
    <3> HIDE DEF recent
    <3> QED BY <3>1, PickedFacts
  <2> HIDE DEF kept
  <2>2. ASSUME NEW e \in Entry PROVE [e EXCEPT !.at = @ - d] \in Entry
    BY DEF Entry
  <2>3. DOMAIN kept = 1 .. Len(kept) /\ Len(kept) \in Nat /\ \A i \in 1 .. Len(kept) : kept[i] \in Entry
    BY <2>1
  <2> QED BY <2>2, <2>3
<1>6. SameEntries(c.queue, queue) /\ queue \in Seq(QueuedAccess) /\ (KeepRecords => Postponed(c.queue, queue, d))
  <2>1. c.queue \in Seq(QueuedAccess)
    BY DEF Controller
  <2>2. CASE ~KeepRecords
    <3>1. queue = c.queue
      BY <2>2 DEF Aged
    <3> QED BY <2>1, <2>2, <3>1, SameEntriesReflexive
  <2>3. CASE KeepRecords
    <3> DEFINE q == c.queue
               older(a) == [a EXCEPT !.arrival = @ - d, !.first_at = Later(@, d)]
               n == Len(q)
    <3>1. ASSUME NEW a \in QueuedAccess
          PROVE  /\ older(a) \in QueuedAccess /\ older(a).id = a.id /\ older(a).op = a.op
                 /\ older(a).arrival = a.arrival - d /\ older(a).first_at = Later(a.first_at, d)
      <4>1. a.arrival \in Int /\ a.first_at \in Optional(Int)
        BY <2>3 DEF QueuedAccess
      <4> DEFINE x == a.arrival - d
                 y == Later(a.first_at, d)
      <4>2. x \in Int /\ y \in Optional(Int)
        BY <4>1, LaterFacts
      <4>3. older(a) = [a EXCEPT !.arrival = x, !.first_at = y]
        BY DEF QueuedAccess
      <4> HIDE DEF x, y, older
      <4>4. /\ older(a) \in QueuedAccess /\ older(a).id = a.id /\ older(a).op = a.op
            /\ older(a).arrival = x /\ older(a).first_at = y
        BY <2>3, <4>2, <4>3 DEF QueuedAccess
      <4> QED BY <4>4 DEF x, y
    <3>2. queue = [i \in 1 .. n |-> older(q[i])]
      BY <2>1, <2>3 DEF Aged
    <3>3. n \in Nat /\ \A i \in 1 .. n : q[i] \in QueuedAccess
      BY <2>1
    <3> HIDE DEF older, n, q, queue
    <3>4. queue \in [1 .. n -> QueuedAccess]
      BY <3>1, <3>2, <3>3
    <3>5. queue \in Seq(QueuedAccess) /\ Len(queue) = n
      BY <3>3, <3>4
    <3>6. \A i \in 1 .. n : queue[i].id = q[i].id /\ queue[i].op = q[i].op
      BY <3>1, <3>2, <3>3
    <3>7. \A i \in 1 .. n : queue[i].arrival = q[i].arrival - d /\ queue[i].first_at = Later(q[i].first_at, d)
      BY <3>1, <3>2, <3>3
    <3> QED BY <3>5, <3>6, <3>7 DEF SameEntries, Postponed, n, q
  <2> QED BY <2>2, <2>3
<1> HIDE DEF history, queue, data, buses, busy, wake, refresh, r
<1>7. r \in Controller
  BY <1>1, <1>4, <1>5, <1>6, <1>r DEF Controller
<1>8. /\ r.queue = queue /\ r.banks = c.banks /\ r.outstanding = c.outstanding /\ r.fault = c.fault
      /\ r.wakeup_at = wake /\ r.refresh_due_at = refresh /\ r.next_refresh_due = due
  BY <1>r DEF Controller
<1> QED BY <1>6, <1>7, <1>8 DEF r, wake, refresh, due

\* A new controller is well-formed, idle and unmarked.
LEMMA NewControllerFacts ==
  /\ NewController \in Controller /\ NewController.queue = <<>> /\ NewController.outstanding = 0
  /\ NewController.fault = FALSE /\ NewController.wakeup_at = None
  /\ NewController.refresh_due_at = None /\ NewController.next_refresh_due = None
<1> DEFINE banks == [b \in Bank |-> NewBank]
<1>1. NewBank \in SoundBank
  <2>1. NewBank \in BankState
    BY DEF NewBank, BankState, Optional
  <2>2. WithinThreshold(NewBank)
    BY ControllerAssumption DEF WithinThreshold, NewBank
  <2> QED BY <2>1, <2>2 DEF SoundBank
<1>2. banks \in [Bank -> SoundBank]
  BY <1>1
<1>3. 0 \in Bank
  BY BankFacts
<1>4. None \in Optional(Int)
  BY DEF Optional
<1>5. <<>> \in Seq(QueuedAccess) /\ <<>> \in Seq(Entry)
  OBVIOUS
<1>6. [p \in 0 .. PseudoChannels - 1 |-> 0] \in [0 .. PseudoChannels - 1 -> Int]
  OBVIOUS
<1>7. [bus \in {"unified", "row", "column"} |-> 0] \in [{"unified", "row", "column"} -> Int]
  OBVIOUS
<1> DEFINE data == [p \in 0 .. PseudoChannels - 1 |-> 0]
           buses == [bus \in {"unified", "row", "column"} |-> 0]
<1>8. NewController =
        [queue |-> <<>>, banks |-> banks, history |-> <<>>, data_bus |-> data, command_bus |-> buses,
         busy_until |-> 0, wakeup_at |-> None, refresh_due_at |-> None, next_refresh_due |-> None,
         next_bank |-> 0, refresh_pending |-> FALSE, draining |-> FALSE, outstanding |-> 0, fault |-> FALSE]
  BY DEF NewController
<1>9. banks \in [Bank -> SoundBank] /\ data \in [0 .. PseudoChannels - 1 -> Int]
      /\ buses \in [{"unified", "row", "column"} -> Int]
  BY <1>2, <1>6, <1>7
<1> HIDE DEF banks, data, buses
<1> QED BY <1>3, <1>4, <1>5, <1>8, <1>9 DEF Controller

-----------------------------------------------------------------------------
(* The times of recorded commands.                                          *)

\* The entries of a history have these times at the latest.
NoLaterThan(history, time) == \A i \in 1 .. Len(history) : history[i].at <= time
DataNoLaterThan(history, time) ==
    \A i \in 1 .. Len(history) : history[i].cmd \in DataCommands => history[i].at <= time

\* Commands are recorded in time order.
TimeOrdered(history) == \A i, j \in 1 .. Len(history) : i < j => history[i].at <= history[j].at

\* A command bus is held beyond the commands that it carried.
BusesHeld(c) == \A i \in 1 .. Len(c.history) : c.history[i].at <= c.command_bus[command_bus(c.history[i].cmd)]

\* Data commands are in the past, and before a refresh that is due or overdue.
DataIsPast(c) == /\ DataNoLaterThan(c.history, 0)
                 /\ c.next_refresh_due # None => DataNoLaterThan(c.history, c.next_refresh_due)

Tracked(c) == TimeOrdered(c.history) /\ BusesHeld(c) /\ DataIsPast(c)

\* Only a maintenance that still goes on was recorded ahead of the clock.
Ended(c) == \A i \in 1 .. Len(c.history) : c.history[i].at <= 0 \/ c.history[i].at <= c.busy_until

Timely(c) == Tracked(c) /\ Ended(c)

\* d is what c becomes when a command is recorded.
Records(c, d, command, bank, time) ==
    /\ d.history = Append(c.history, [cmd |-> command, bank |-> bank, at |-> time])
    /\ d.command_bus = [c.command_bus EXCEPT ![command_bus(command)] = time + command_duration(command)]

LEMMA CommandRecords ==
  ASSUME NEW c \in Controller, NEW command, NEW row, NEW bank, NEW time
  PROVE  Records(c, CommandIssued(c, command, row, bank, time), command, bank, time)
  BY DEF Records, CommandIssued, record, Controller

\* Recording a command after all the others keeps the order.
LEMMA RecordKeeps ==
  ASSUME NEW c \in Controller, NEW d \in Controller, Tracked(c), NEW command \in Command, NEW bank, NEW time \in Int,
         Records(c, d, command, bank, time), NoLaterThan(c.history, time),
         d.next_refresh_due = c.next_refresh_due,
         command \in DataCommands => time <= 0 /\ (c.next_refresh_due # None => time <= c.next_refresh_due)
  PROVE  Tracked(d) /\ NoLaterThan(d.history, time)
<1> DEFINE h == c.history
           g == d.history
           n == Len(h)
           bus == command_bus(command)
           until == time + command_duration(command)
<1>1. h \in Seq(Entry) /\ n \in Nat /\ DOMAIN h = 1 .. n
  BY DEF Controller
<1>2. /\ g = Append(h, [cmd |-> command, bank |-> bank, at |-> time])
      /\ d.command_bus = [c.command_bus EXCEPT ![bus] = until]
  BY DEF Records
<1> HIDE DEF n
<1>3. Len(g) = n + 1 /\ \A i \in 1 .. n : g[i] = h[i]
  BY <1>1, <1>2 DEF n
<1>4. g[n + 1].cmd = command /\ g[n + 1].at = time
  BY <1>1, <1>2 DEF n
<1>5. \A i \in 1 .. n : h[i].at \in Int /\ h[i].at <= time
  <2>1. \A i \in 1 .. n : h[i] \in Entry
    BY <1>1
  <2> QED BY <2>1 DEF Entry, NoLaterThan, n
<1>6. until \in Int /\ until >= time
  BY DurationFacts
<1> HIDE DEF h, g, until
<1>7. NoLaterThan(g, time)
  BY <1>1, <1>3, <1>4, <1>5 DEF NoLaterThan
<1>8. TimeOrdered(g)
  <2> SUFFICES ASSUME NEW i \in 1 .. n + 1, NEW j \in 1 .. n + 1, i < j PROVE g[i].at <= g[j].at
    BY <1>3 DEF TimeOrdered
  <2>1. CASE j = n + 1
    <3>1. i \in 1 .. n
      BY <1>1, <2>1
    <3> QED BY <1>3, <1>4, <1>5, <2>1, <3>1
  <2>2. CASE j # n + 1
    <3>1. i \in 1 .. n /\ j \in 1 .. n
      BY <1>1, <2>2
    <3>2. h[i].at <= h[j].at
      BY <3>1 DEF Tracked, TimeOrdered, h, n
    <3> QED BY <1>3, <3>1, <3>2
  <2> QED BY <2>1, <2>2
<1>9. BusesHeld(d)
  <2> SUFFICES ASSUME NEW i \in 1 .. n + 1 PROVE g[i].at <= d.command_bus[command_bus(g[i].cmd)]
    BY <1>3 DEF BusesHeld, g
  <2>1. c.command_bus \in [{"unified", "row", "column"} -> Int]
    BY DEF Controller
  <2>2. command_bus(g[i].cmd) \in {"unified", "row", "column"} /\ bus \in {"unified", "row", "column"}
    BY CommandBusFacts
  <2>3. CASE command_bus(g[i].cmd) = bus
    <3>1. d.command_bus[command_bus(g[i].cmd)] = until
      BY <1>2, <2>1, <2>2, <2>3
    <3>2. g[i].at \in Int /\ g[i].at <= time
      BY <1>1, <1>3, <1>4, <1>5
    <3> QED BY <1>6, <3>1, <3>2
  <2>4. CASE command_bus(g[i].cmd) # bus
    <3>1. i \in 1 .. n
      BY <1>1, <1>4, <2>4 DEF bus
    <3>2. d.command_bus[command_bus(g[i].cmd)] = c.command_bus[command_bus(g[i].cmd)]
      BY <1>2, <2>1, <2>2, <2>4
    <3>3. h[i].at <= c.command_bus[command_bus(h[i].cmd)]
      BY <3>1 DEF Tracked, BusesHeld, h, n
    <3> QED BY <1>3, <3>1, <3>2, <3>3
  <2> QED BY <2>3, <2>4
<1>10. DataIsPast(d)
  <2>1. ASSUME NEW t \in Int, DataNoLaterThan(h, t), command \in DataCommands => time <= t
        PROVE  DataNoLaterThan(g, t)
    <3> SUFFICES ASSUME NEW i \in 1 .. n + 1, g[i].cmd \in DataCommands PROVE g[i].at <= t
      BY <1>3 DEF DataNoLaterThan
    <3>1. CASE i = n + 1
      BY <1>4, <2>1, <3>1
    <3>2. CASE i # n + 1
      <4>1. i \in 1 .. n
        BY <1>1, <3>2
      <4>2. i \in 1 .. Len(h)
        BY <4>1 DEF n
      <4> QED BY <1>3, <2>1, <4>1, <4>2 DEF DataNoLaterThan
    <3> QED BY <3>1, <3>2
  <2>2. DataNoLaterThan(h, 0) /\ (c.next_refresh_due # None => DataNoLaterThan(h, c.next_refresh_due))
    BY DEF Tracked, DataIsPast, h
  <2>3. DataNoLaterThan(g, 0)
    BY <2>1, <2>2
  <2>4. ASSUME c.next_refresh_due # None PROVE DataNoLaterThan(g, c.next_refresh_due)
    <3>1. c.next_refresh_due \in Int
      BY <2>4 DEF Controller, Optional
    <3> QED BY <2>1, <2>2, <2>4, <3>1
  <2> QED BY <2>3, <2>4 DEF DataIsPast, g
<1> QED BY <1>7, <1>8, <1>9, <1>10 DEF Tracked, g

\* A command whose bus is free comes after all others when data commands are past.
LEMMA FreeBusIsLatest ==
  ASSUME NEW c \in Controller, Tracked(c), NEW command \in Command, NEW time \in Int,
         c.command_bus[command_bus(command)] <= time,
         command \notin DataCommands, DataNoLaterThan(c.history, time)
  PROVE  NoLaterThan(c.history, time)
<1> SUFFICES ASSUME NEW i \in 1 .. Len(c.history) PROVE c.history[i].at <= time
  BY DEF NoLaterThan
<1> DEFINE e == c.history[i]
<1>1. e \in Entry /\ e.at <= c.command_bus[command_bus(e.cmd)]
  BY DEF Tracked, BusesHeld, Controller
<1>2. CASE e.cmd \in DataCommands
  BY <1>2 DEF DataNoLaterThan
<1>3. CASE e.cmd \notin DataCommands
  <2>1. command_bus(e.cmd) = command_bus(command)
    BY <1>3 DEF command_bus
  <2>2. c.command_bus[command_bus(command)] \in Int /\ e.at \in Int
    <3>1. c.command_bus \in [{"unified", "row", "column"} -> Int]
      BY DEF Controller
    <3> QED BY <1>1, <3>1, CommandBusFacts DEF Entry
  <2> QED BY <1>1, <2>1, <2>2
<1> QED BY <1>2, <1>3

\* A precharge on the way to a maintenance command closes an open bank.
LEMMA PlannedPrecharge ==
  ASSUME NEW requested \in {"REFab", "REFpb", "RFMpb"}, NEW row, NEW bank, NEW anyOpen \in BOOLEAN
  PROVE  /\ PlannedCommand(requested, row, bank, anyOpen) = "PRE" => IsOpen(bank) /\ requested # "REFab"
         /\ PlannedCommand(requested, row, bank, anyOpen) = "PREA" => anyOpen /\ requested = "REFab"
<1> DEFINE p == PlannedCommand(requested, row, bank, anyOpen)
<1>1. CASE Custom
  BY <1>1 DEF PlannedCommand, CustomDecision
<1>2. CASE ~Custom
  <2> DEFINE matching == {rule \in Prerequisites : /\ rule[1] = requested
                                                   /\ Meets(rule[2], row, bank, anyOpen)}
  <2>1. p = IF matching = {} THEN requested ELSE (CHOOSE rule \in matching : TRUE)[3]
    BY <1>2 DEF PlannedCommand, resolve_prerequisite
  <2>2. ASSUME NEW rule \in matching
        PROVE  /\ rule[3] = "PRE" => IsOpen(bank) /\ requested # "REFab"
               /\ rule[3] = "PREA" => anyOpen /\ requested = "REFab"
    <3>1. rule \in Prerequisites /\ rule[1] = requested /\ Meets(rule[2], row, bank, anyOpen)
      OBVIOUS
    <3>2. rule \in {<<"REFpb", "TargetOpen", "PRE">>, <<"REFab", "AnyOpen", "PREA">>, <<"RFMpb", "TargetOpen", "PRE">>}
      BY <3>1 DEF Prerequisites, DataCommands
    <3> QED BY <3>1, <3>2 DEF Meets
  <2> HIDE DEF matching
  <2>3. CASE matching = {}
    BY <2>1, <2>3
  <2>4. CASE matching # {}
    <3>1. (CHOOSE rule \in matching : TRUE) \in matching
      BY <2>4
    <3> QED BY <2>1, <2>2, <2>4, <3>1
  <2> QED BY <2>3, <2>4
<1> QED BY <1>1, <1>2

\* What the command of a maintenance step leaves of the banks and the flags.
Serves(m, b) == \/ m.requested = "REFab"
                \/ m.requested = "REFpb" /\ b = m.bank
MaintenanceEffect(c, d, m) ==
    /\ d.refresh_pending <=> c.refresh_pending /\ ~(IsFinal(m) /\ m.requested = "REFab")
    /\ \A b \in Bank :
          /\ d.banks[b].row = IF m.command \in ChannelScoped \/ b = m.bank THEN None ELSE c.banks[b].row
          /\ d.banks[b].refresh_pending <=> c.banks[b].refresh_pending /\ ~(IsFinal(m) /\ Serves(m, b))
          /\ d.banks[b].rfm_pending
                <=> c.banks[b].rfm_pending /\ ~(IsFinal(m) /\ m.requested = "RFMpb" /\ b = m.bank)

LEMMA MaintenanceEffects ==
  ASSUME NEW c \in Controller, NEW m \in MaintenanceStep, m.command \in {m.requested, "PRE", "PREA"}, NEW time \in Int
  PROVE  LET d == issue_maintenance(c, m, time)
         IN  Records(c, d, m.command, m.bank, time) /\ MaintenanceEffect(c, d, m)
<1> DEFINE i == CommandIssued(c, m.command, 0, m.bank, time)
           d == issue_maintenance(c, m, time)
<1>1. m.command \in Command /\ m.bank \in Bank /\ m.requested \in {"REFab", "REFpb", "RFMpb"}
  BY DEF MaintenanceStep
<1>2. i \in Controller /\ i.refresh_pending = c.refresh_pending
      /\ i.banks = apply_transition(m.command, 0, c.banks, m.bank)
  BY <1>1, CommandIssuedFacts
<1>3. Records(c, i, m.command, m.bank, time)
  BY CommandRecords
<1>4. c.banks \in [Bank -> SoundBank] /\ i.banks \in [Bank -> SoundBank]
  BY <1>2 DEF Controller
<1>5. ASSUME NEW b \in Bank
      PROVE  /\ i.banks[b] \in BankState
             /\ i.banks[b].row = IF m.command \in ChannelScoped \/ b = m.bank THEN None ELSE c.banks[b].row
             /\ i.banks[b].refresh_pending = c.banks[b].refresh_pending
             /\ i.banks[b].rfm_pending = c.banks[b].rfm_pending
  <2>1. c.banks[b] \in SoundBank /\ i.banks[b] \in SoundBank
    BY <1>4
  <2>2. i.banks[b] = IF m.command \in ChannelScoped \/ b = m.bank THEN BankAfter(m.command, 0, c.banks[b])
                                                                  ELSE c.banks[b]
    BY <1>2, <1>4 DEF apply_transition
  <2>3. /\ BankAfter(m.command, 0, c.banks[b]).refresh_pending = c.banks[b].refresh_pending
        /\ BankAfter(m.command, 0, c.banks[b]).rfm_pending = c.banks[b].rfm_pending
    BY <1>1, <2>1, BankAfterFacts
  <2>4. BankAfter(m.command, 0, c.banks[b]).row = None
    <3>1. m.command \in {"PRE", "PREA", "REFab", "REFpb", "RFMpb"}
      BY <1>1
    <3>2. c.banks[b] \in BankState
      BY <2>1 DEF SoundBank
    <3> QED BY <3>1, <3>2 DEF BankAfter, BankState, DataCommands
  <2> QED BY <2>1, <2>2, <2>3, <2>4 DEF SoundBank
<1> HIDE DEF i
<1>6. CASE ~IsFinal(m)
  <2>1. d = i
    BY <1>6 DEF issue_maintenance, i
  <2> QED BY <1>2, <1>3, <1>5, <1>6, <2>1 DEF MaintenanceEffect
<1>7. CASE IsFinal(m)
  <2> DEFINE busy == [i EXCEPT !.busy_until = time + maintenance_duration(m.requested)]
  <2>1. busy.history = i.history /\ busy.command_bus = i.command_bus /\ busy.banks = i.banks
        /\ busy.refresh_pending = i.refresh_pending /\ DOMAIN busy = DOMAIN i
    BY <1>2 DEF Controller
  <2>2. d = CASE m.requested = "REFab" ->
                   [busy EXCEPT !.refresh_pending = FALSE,
                                !.banks = [b \in Bank |->
                                    [@[b] EXCEPT !.refresh_pending = FALSE, !.activation_count = 0]]]
              [] m.requested = "REFpb" ->
                   [busy EXCEPT !.banks[m.bank].refresh_pending = FALSE,
                                !.banks[m.bank].activation_count = 0]
              [] m.requested = "RFMpb" ->
                   [busy EXCEPT !.banks[m.bank].rfm_pending = FALSE,
                                !.banks[m.bank].activation_count = 0]
    BY <1>7 DEF issue_maintenance, i
  <2>3. {"history", "command_bus", "banks", "refresh_pending"} \subseteq DOMAIN busy
    BY <1>2, <2>1 DEF Controller
  <2>4. DOMAIN i.banks = Bank
    BY <1>4
  <2> HIDE DEF busy, d
  <2> DEFINE Effect(b) ==
               /\ d.banks[b].row = IF m.command \in ChannelScoped \/ b = m.bank THEN None ELSE c.banks[b].row
               /\ d.banks[b].refresh_pending <=> c.banks[b].refresh_pending /\ ~(IsFinal(m) /\ Serves(m, b))
               /\ d.banks[b].rfm_pending
                     <=> c.banks[b].rfm_pending /\ ~(IsFinal(m) /\ m.requested = "RFMpb" /\ b = m.bank)
  <2>5. CASE m.requested = "REFab"
    <3> DEFINE w == [busy EXCEPT !.refresh_pending = FALSE]
               all == [b \in Bank |-> [w.banks[b] EXCEPT !.refresh_pending = FALSE, !.activation_count = 0]]
    <3>1. d = [w EXCEPT !.banks = all]
      BY <2>2, <2>5
    <3>2. /\ DOMAIN w = DOMAIN busy /\ w.history = i.history /\ w.command_bus = i.command_bus
          /\ w.banks = i.banks /\ w.refresh_pending = FALSE
      BY <2>1, <2>3
    <3> HIDE DEF w
    <3>3. ASSUME NEW b \in Bank
          PROVE  all[b].row = i.banks[b].row /\ all[b].rfm_pending = i.banks[b].rfm_pending
                 /\ all[b].refresh_pending = FALSE
      <4> DEFINE x == w.banks[b]
      <4>1. all[b] = [x EXCEPT !.refresh_pending = FALSE, !.activation_count = 0]
        OBVIOUS
      <4>2. x = i.banks[b] /\ x \in BankState
        BY <1>5, <3>2
      <4> HIDE DEF x, all
      <4> QED BY <4>1, <4>2 DEF BankState
    <3> HIDE DEF all
    <3>4. d.history = i.history /\ d.command_bus = i.command_bus /\ d.refresh_pending = FALSE
      BY <3>1, <3>2
    <3>5. d.banks = all
      BY <2>3, <3>1, <3>2
    <3>6. Records(c, d, m.command, m.bank, time)
      BY <1>3, <3>4 DEF Records
    <3>7. ASSUME NEW b \in Bank PROVE Effect(b)
      <4>1. d.banks[b].row = i.banks[b].row /\ d.banks[b].rfm_pending = i.banks[b].rfm_pending
            /\ d.banks[b].refresh_pending = FALSE
        BY <3>3, <3>5
      <4> QED BY <1>5, <1>7, <2>5, <4>1, Zenon DEF Serves
    <3> HIDE DEF Effect
    <3>8. MaintenanceEffect(c, d, m)
      BY <1>7, <2>5, <3>4, <3>7, Zenon DEF MaintenanceEffect, Effect
    <3> QED BY <3>6, <3>8 DEF d
  <2>6. CASE m.requested = "REFpb"
    <3>1. d = [busy EXCEPT !.banks[m.bank].refresh_pending = FALSE, !.banks[m.bank].activation_count = 0]
      BY <2>2, <2>6
    <3> DEFINE x == [i.banks[m.bank] EXCEPT !.refresh_pending = FALSE, !.activation_count = 0]
               served == [i.banks EXCEPT ![m.bank] = x]
    <3>2. d = [busy EXCEPT !.banks =
                 [busy.banks EXCEPT ![m.bank] =
                    [busy.banks[m.bank] EXCEPT !.refresh_pending = FALSE, !.activation_count = 0]]]
      <4>1. "banks" \in DOMAIN busy /\ m.bank \in DOMAIN busy.banks
        BY <1>1, <2>1, <2>3, <2>4
      <4> QED BY <3>1, <4>1, RefreshedBank, Zenon
    <3>3. d = [busy EXCEPT !.banks = served]
      BY <2>1, <3>2, Zenon
    <3>4. x.row = i.banks[m.bank].row /\ x.rfm_pending = i.banks[m.bank].rfm_pending /\ x.refresh_pending = FALSE
      BY <1>1, <1>5 DEF BankState
    <3> HIDE DEF x
    <3>5. \A b \in Bank : served[b] = IF b = m.bank THEN x ELSE i.banks[b]
      BY <2>4
    <3> HIDE DEF served
    <3>6. d.history = i.history /\ d.command_bus = i.command_bus /\ d.refresh_pending = i.refresh_pending
      BY <2>1, <3>3
    <3>7. d.banks = served
      BY <2>3, <3>3
    <3>8. Records(c, d, m.command, m.bank, time)
      BY <1>3, <3>6 DEF Records
    <3>9. d.refresh_pending = c.refresh_pending
      BY <1>2, <3>6
    <3>10. ASSUME NEW b \in Bank PROVE Effect(b)
      <4>1. CASE b = m.bank
        <5>1. d.banks[b].row = i.banks[b].row /\ d.banks[b].rfm_pending = i.banks[b].rfm_pending /\ d.banks[b].refresh_pending = FALSE
          BY <3>4, <3>5, <3>7, <4>1
        <5> QED BY <1>5, <1>7, <2>6, <4>1, <5>1, Zenon DEF Serves
      <4>2. CASE b # m.bank
        <5>1. d.banks[b] = i.banks[b]
          BY <3>5, <3>7, <4>2
        <5> QED BY <1>5, <1>7, <2>6, <4>2, <5>1, Zenon DEF Serves
      <4> QED BY <4>1, <4>2
    <3> HIDE DEF Effect
    <3>11. MaintenanceEffect(c, d, m)
      BY <2>6, <3>9, <3>10, Zenon DEF MaintenanceEffect, Effect
    <3> QED BY <3>8, <3>11 DEF d
  <2>7. CASE m.requested = "RFMpb"
    <3>1. d = [busy EXCEPT !.banks[m.bank].rfm_pending = FALSE, !.banks[m.bank].activation_count = 0]
      BY <2>2, <2>7
    <3> DEFINE x == [i.banks[m.bank] EXCEPT !.rfm_pending = FALSE, !.activation_count = 0]
               served == [i.banks EXCEPT ![m.bank] = x]
    <3>2. d = [busy EXCEPT !.banks =
                 [busy.banks EXCEPT ![m.bank] =
                    [busy.banks[m.bank] EXCEPT !.rfm_pending = FALSE, !.activation_count = 0]]]
      <4>1. "banks" \in DOMAIN busy /\ m.bank \in DOMAIN busy.banks
        BY <1>1, <2>1, <2>3, <2>4
      <4> QED BY <3>1, <4>1, RelievedBank, Zenon
    <3>3. d = [busy EXCEPT !.banks = served]
      BY <2>1, <3>2, Zenon
    <3>4. x.row = i.banks[m.bank].row /\ x.refresh_pending = i.banks[m.bank].refresh_pending /\ x.rfm_pending = FALSE
      BY <1>1, <1>5 DEF BankState
    <3> HIDE DEF x
    <3>5. \A b \in Bank : served[b] = IF b = m.bank THEN x ELSE i.banks[b]
      BY <2>4
    <3> HIDE DEF served
    <3>6. d.history = i.history /\ d.command_bus = i.command_bus /\ d.refresh_pending = i.refresh_pending
      BY <2>1, <3>3
    <3>7. d.banks = served
      BY <2>3, <3>3
    <3>8. Records(c, d, m.command, m.bank, time)
      BY <1>3, <3>6 DEF Records
    <3>9. d.refresh_pending = c.refresh_pending
      BY <1>2, <3>6
    <3>10. ASSUME NEW b \in Bank PROVE Effect(b)
      <4>1. CASE b = m.bank
        <5>1. d.banks[b].row = i.banks[b].row /\ d.banks[b].refresh_pending = i.banks[b].refresh_pending /\ d.banks[b].rfm_pending = FALSE
          BY <3>4, <3>5, <3>7, <4>1
        <5> QED BY <1>5, <1>7, <2>7, <4>1, <5>1, Zenon DEF Serves
      <4>2. CASE b # m.bank
        <5>1. d.banks[b] = i.banks[b]
          BY <3>5, <3>7, <4>2
        <5> QED BY <1>5, <1>7, <2>7, <4>2, <5>1, Zenon DEF Serves
      <4> QED BY <4>1, <4>2
    <3> HIDE DEF Effect
    <3>11. MaintenanceEffect(c, d, m)
      BY <2>7, <3>9, <3>10, Zenon DEF MaintenanceEffect, Effect
    <3> QED BY <3>8, <3>11 DEF d
  <2> QED BY <1>1, <2>5, <2>6, <2>7
<1> QED BY <1>6, <1>7

\* The step that is due next, carried out when it is ready and after all data
\* commands, is recorded as the latest.
LEMMA MaintenanceTracks ==
  ASSUME NEW c \in Controller, Tracked(c), MaintenanceIsPending(c), NEW now \in Int,
         NEW time \in Int, choose_maintenance(c, now).ready_at <= time, DataNoLaterThan(c.history, time)
  PROVE  LET d == issue_maintenance(c, choose_maintenance(c, now), time)
         IN  Tracked(d) /\ NoLaterThan(d.history, time)
<1> DEFINE m == choose_maintenance(c, now)
           d == issue_maintenance(c, m, time)
<1>1. /\ m \in MaintenanceStep /\ m.command \in {m.requested, "PRE", "PREA"}
      /\ m = MaintenanceFor(c, m.requested, m.bank, now)
  BY ChosenMaintenance
<1>t. m.ready_at <= time
  OBVIOUS
<1> HIDE DEF m
<1>2. m.command \in Command /\ m.bank \in Bank /\ m.ready_at \in Int /\ m.command \notin DataCommands
  BY <1>1 DEF MaintenanceStep, DataCommands
<1>3. m.ready_at = earliest_command(c, m.command, m.bank, now)
  <2> DEFINE command == PlannedCommand(m.requested, 0, c.banks[m.bank], AnyOpen(c))
             at == earliest_command(c, command, m.bank, now)
  <2>1. m = [requested |-> m.requested, command |-> command, bank |-> m.bank, ready_at |-> at]
    BY <1>1 DEF MaintenanceFor, MaintenanceBy
  <2> HIDE DEF command, at
  <2>2. m.command = command /\ m.ready_at = at
    BY <2>1
  <2> QED BY <2>2 DEF at
<1>4. c.command_bus[command_bus(m.command)] <= time
  <2>1. m.ready_at >= c.command_bus[command_bus(m.command)]
    BY <1>2, <1>3, EarliestCommandFacts
  <2>2. c.command_bus[command_bus(m.command)] \in Int
    BY CommandBusFacts DEF Controller
  <2> QED BY <1>2, <1>t, <2>1, <2>2
<1>5. NoLaterThan(c.history, time)
  BY <1>2, <1>4, FreeBusIsLatest
<1>6. d \in Controller /\ d.next_refresh_due = c.next_refresh_due /\ Records(c, d, m.command, m.bank, time)
  BY <1>1, MaintenanceIssued, MaintenanceEffects
<1> HIDE DEF d
<1>7. Tracked(d) /\ NoLaterThan(d.history, time)
  BY <1>2, <1>5, <1>6, RecordKeeps
<1> QED BY <1>7 DEF m, d

\* What is left for apply_idle_refresh to do.
Todo(c) == {x \in (1 .. 4) \X Bank :
               \/ x[1] = 1 /\ IsOpen(c.banks[x[2]])
               \/ x[1] = 2 /\ c.banks[x[2]].rfm_pending
               \/ x[1] = 3 /\ c.banks[x[2]].refresh_pending
               \/ x[1] = 4 /\ c.refresh_pending}

LEMMA TodoFacts ==
  ASSUME NEW c
  PROVE  IsFiniteSet(Todo(c)) /\ Cardinality(Todo(c)) \in Nat /\ Cardinality(Todo(c)) <= IdleSteps
<1>1. IsFiniteSet(1 .. 4) /\ Cardinality(1 .. 4) = 4
  <2>1. \A k \in Int : IsFiniteSet(1 .. k) /\ (1 <= k => Cardinality(1 .. k) = k)
    BY FS_Interval
  <2>2. 4 \in Int /\ 1 <= 4
    OBVIOUS
  <2> QED BY <2>1, <2>2, Zenon
<1>2. /\ IsFiniteSet((1 .. 4) \X Bank)
      /\ Cardinality((1 .. 4) \X Bank) = Cardinality(1 .. 4) * Cardinality(Bank)
  BY <1>1, BankFacts, FS_Product
<1>3. Todo(c) \subseteq (1 .. 4) \X Bank
  BY DEF Todo
<1>4. IsFiniteSet(Todo(c)) /\ Cardinality(Todo(c)) <= Cardinality((1 .. 4) \X Bank)
  BY <1>2, <1>3, FS_Subset
<1>5. Cardinality(Todo(c)) \in Nat
  BY <1>4, FS_CardinalityType
<1> QED BY <1>1, <1>2, <1>4, <1>5 DEF IdleSteps

\* Every step of a maintenance takes something off it.
LEMMA MaintenanceProgress ==
  ASSUME NEW c \in Controller, MaintenanceIsPending(c), NEW now \in Int, NEW time \in Int
  PROVE  LET m == choose_maintenance(c, now)
             d == issue_maintenance(c, m, time)
         IN  /\ Cardinality(Todo(d)) < Cardinality(Todo(c))
             /\ RefreshIsPending(c) /\ ~RefreshIsPending(d) => IsFinal(m) /\ m.requested \in Maintenance
<1> DEFINE m == choose_maintenance(c, now)
           d == issue_maintenance(c, m, time)
<1>1. /\ m \in MaintenanceStep /\ m.command \in {m.requested, "PRE", "PREA"}
      /\ m.requested = IF c.refresh_pending THEN "REFab"
                       ELSE IF c.banks[m.bank].rfm_pending THEN "RFMpb" ELSE "REFpb"
      /\ c.refresh_pending \/ c.banks[m.bank].rfm_pending \/ c.banks[m.bank].refresh_pending
      /\ m = MaintenanceFor(c, m.requested, m.bank, now)
  BY ChosenMaintenance
<1> HIDE DEF m
<1>2. m.bank \in Bank /\ m.requested \in {"REFab", "REFpb", "RFMpb"}
  BY <1>1 DEF MaintenanceStep
<1>3. MaintenanceEffect(c, d, m)
  BY <1>1, MaintenanceEffects
<1> HIDE DEF d
<1>4. m.command = PlannedCommand(m.requested, 0, c.banks[m.bank], AnyOpen(c))
  <2> DEFINE command == PlannedCommand(m.requested, 0, c.banks[m.bank], AnyOpen(c))
             at == earliest_command(c, command, m.bank, now)
  <2>1. m = [requested |-> m.requested, command |-> command, bank |-> m.bank, ready_at |-> at]
    BY <1>1 DEF MaintenanceFor, MaintenanceBy
  <2> HIDE DEF command, at
  <2>2. m.command = command
    BY <2>1
  <2> QED BY <2>2 DEF command
<1>5. /\ m.command = "PRE" => IsOpen(c.banks[m.bank])
      /\ m.command = "PREA" => AnyOpen(c)
  <2>1. AnyOpen(c) \in BOOLEAN
    BY DEF AnyOpen
  <2> QED BY <1>2, <1>4, <2>1, PlannedPrecharge
<1>6. Todo(d) \subseteq Todo(c)
  <2> SUFFICES ASSUME NEW x \in (1 .. 4) \X Bank, x \in Todo(d) PROVE x \in Todo(c)
    BY DEF Todo
  <2>1. x[2] \in Bank
    OBVIOUS
  <2> QED BY <1>3, <2>1 DEF Todo, MaintenanceEffect, IsOpen
<1>7. \E x \in (1 .. 4) \X Bank : x \in Todo(c) /\ x \notin Todo(d)
  <2>1. ASSUME NEW b \in Bank, NEW k \in 1 .. 4 PROVE <<k, b>> \in (1 .. 4) \X Bank /\ <<k, b>>[1] = k /\ <<k, b>>[2] = b
    OBVIOUS
  <2>2. CASE m.command = "PRE"
    <3>1. <<1, m.bank>> \in Todo(c) /\ <<1, m.bank>> \notin Todo(d)
      BY <1>2, <1>3, <1>5, <2>1, <2>2 DEF Todo, MaintenanceEffect, IsOpen
    <3> QED BY <1>2, <2>1, <3>1
  <2>3. CASE m.command = "PREA"
    <3>1. PICK b \in Bank : IsOpen(c.banks[b])
      BY <1>5, <2>3 DEF AnyOpen
    <3>2. d.banks[b].row = None
      BY <1>3, <2>3 DEF MaintenanceEffect, ChannelScoped
    <3>3. <<1, b>> \in Todo(c) /\ <<1, b>> \notin Todo(d)
      BY <2>1, <3>1, <3>2 DEF Todo, IsOpen
    <3> QED BY <2>1, <3>3
  <2>4. CASE m.command = m.requested /\ m.requested = "REFab"
    <3>1. c.refresh_pending /\ ~d.refresh_pending
      BY <1>1, <1>3, <2>4 DEF MaintenanceEffect, IsFinal
    <3>2. <<4, m.bank>> \in Todo(c) /\ <<4, m.bank>> \notin Todo(d)
      BY <1>2, <2>1, <3>1 DEF Todo
    <3> QED BY <1>2, <2>1, <3>2
  <2>5. CASE m.command = m.requested /\ m.requested = "REFpb"
    <3>1. c.banks[m.bank].refresh_pending /\ ~d.banks[m.bank].refresh_pending
      BY <1>1, <1>2, <1>3, <2>5 DEF MaintenanceEffect, IsFinal, Serves
    <3>2. <<3, m.bank>> \in Todo(c) /\ <<3, m.bank>> \notin Todo(d)
      BY <1>2, <2>1, <3>1 DEF Todo
    <3> QED BY <1>2, <2>1, <3>2
  <2>6. CASE m.command = m.requested /\ m.requested = "RFMpb"
    <3>1. c.banks[m.bank].rfm_pending /\ ~d.banks[m.bank].rfm_pending
      BY <1>1, <1>2, <1>3, <2>6 DEF MaintenanceEffect, IsFinal
    <3>2. <<2, m.bank>> \in Todo(c) /\ <<2, m.bank>> \notin Todo(d)
      BY <1>2, <2>1, <3>1 DEF Todo
    <3> QED BY <1>2, <2>1, <3>2
  <2> QED BY <1>1, <1>2, <2>2, <2>3, <2>4, <2>5, <2>6
<1>8. Cardinality(Todo(d)) < Cardinality(Todo(c))
  <2>1. IsFiniteSet(Todo(c)) /\ Cardinality(Todo(c)) \in Nat /\ Cardinality(Todo(d)) \in Nat
    BY TodoFacts
  <2>2. Todo(d) # Todo(c)
    BY <1>7
  <2>3. Cardinality(Todo(d)) <= Cardinality(Todo(c)) /\ (Cardinality(Todo(d)) = Cardinality(Todo(c)) => Todo(d) = Todo(c))
    BY <1>6, <2>1, FS_Subset
  <2> QED BY <2>1, <2>2, <2>3
<1>9. RefreshIsPending(c) /\ ~RefreshIsPending(d) => IsFinal(m) /\ m.requested \in Maintenance
  BY <1>2, <1>3 DEF RefreshIsPending, MaintenanceEffect, Maintenance
<1> QED BY <1>8, <1>9 DEF m, d

\* A later time is a bound, too.
LEMMA LaterBound ==
  ASSUME NEW h \in Seq(Entry), NEW t \in Int, NEW u \in Int, t <= u
  PROVE  /\ NoLaterThan(h, t) => NoLaterThan(h, u) /\ DataNoLaterThan(h, u)
         /\ DataNoLaterThan(h, t) => DataNoLaterThan(h, u)
<1>1. \A i \in 1 .. Len(h) : h[i].at \in Int
  <2>1. \A i \in 1 .. Len(h) : h[i] \in Entry
    OBVIOUS
  <2> QED BY <2>1 DEF Entry
<1> QED BY <1>1 DEF NoLaterThan, DataNoLaterThan

\* The loop of apply_idle_refresh, on its cursor.
OnCursor(s) == /\ s.c \in Controller /\ s.cursor \in Int
               /\ Tracked(s.c) /\ DataNoLaterThan(s.c.history, s.cursor)

LEMMA IdleStepTracks ==
  ASSUME NEW s, OnCursor(s), NEW i
  PROVE  LET t == IdleStep(s, i)
         IN  /\ OnCursor(t)
             /\ ~RefreshIsPending(s.c) => t = s
             /\ RefreshIsPending(s.c) => /\ Cardinality(Todo(t.c)) < Cardinality(Todo(s.c))
                                         /\ ~RefreshIsPending(t.c) => Ended(t.c)
<1>1. CASE ~RefreshIsPending(s.c)
  <2>1. IdleStep(s, i) = s
    BY <1>1 DEF IdleStep
  <2> QED BY <1>1, <2>1
<1>2. CASE RefreshIsPending(s.c)
  <2> DEFINE m == choose_maintenance(s.c, s.cursor)
             at == Max({s.cursor, m.ready_at})
             d == issue_maintenance(s.c, m, at)
             later == Max({at, d.command_bus[command_bus(m.command)]})
             t == IdleStep(s, i)
  <2>0. s.c \in Controller /\ s.cursor \in Int /\ Tracked(s.c) /\ DataNoLaterThan(s.c.history, s.cursor)
    BY DEF OnCursor
  <2>1. MaintenanceIsPending(s.c)
    BY <1>2 DEF RefreshIsPending, MaintenanceIsPending
  <2>2. m \in MaintenanceStep /\ m.command \in {m.requested, "PRE", "PREA"}
    BY <2>0, <2>1, ChosenMaintenance
  <2>3. t = [c |-> d, cursor |-> later]
    BY <1>2 DEF IdleStep, IssueWhenReady, IssueIdle, AfterIdle
  <2>4. m.ready_at \in Int
    <3> HIDE DEF m
    <3> QED BY <2>2 DEF MaintenanceStep
  <2>5. at \in Int /\ at >= s.cursor /\ at >= m.ready_at
    <3> DEFINE ready == m.ready_at
    <3> HIDE DEF m
    <3>1. ready \in Int
      BY <2>4
    <3> HIDE DEF ready
    <3>2. Max({s.cursor, ready}) \in Int /\ Max({s.cursor, ready}) >= s.cursor /\ Max({s.cursor, ready}) >= ready
      BY <2>0, <3>1, MaxOfTwo
    <3> QED BY <3>2 DEF ready
  <2> HIDE DEF at
  <2>6. DataNoLaterThan(s.c.history, at)
    <3>1. s.c.history \in Seq(Entry)
      BY <2>0 DEF Controller
    <3>2. s.cursor <= at
      BY <2>0, <2>5
    <3> QED BY <2>0, <2>5, <3>1, <3>2, LaterBound
  <2>7. Tracked(d) /\ NoLaterThan(d.history, at)
    <3>1. m.ready_at <= at
      BY <2>4, <2>5
    <3> QED BY <2>0, <2>1, <2>5, <2>6, <3>1, MaintenanceTracks
  <2>8. d \in Controller /\ d.busy_until = IF IsFinal(m) THEN at + maintenance_duration(m.requested) ELSE s.c.busy_until
    BY <2>0, <2>2, <2>5, MaintenanceIssued
  <2>9. /\ Cardinality(Todo(d)) < Cardinality(Todo(s.c))
        /\ RefreshIsPending(s.c) /\ ~RefreshIsPending(d) => IsFinal(m) /\ m.requested \in Maintenance
    BY <2>0, <2>1, <2>5, MaintenanceProgress
  <2> HIDE DEF d, m
  <2>10. later \in Int /\ later >= at
    <3>1. d.command_bus[command_bus(m.command)] \in Int
      BY <2>8, CommandBusFacts DEF Controller
    <3> DEFINE bus == d.command_bus[command_bus(m.command)]
    <3> HIDE DEF bus
    <3>2. bus \in Int
      BY <3>1 DEF bus
    <3>3. Max({at, bus}) \in Int /\ Max({at, bus}) >= at
      BY <2>5, <3>2, MaxOfTwo
    <3> QED BY <3>3 DEF bus
  <2> HIDE DEF later
  <2>11. DataNoLaterThan(d.history, later)
    <3>1. d.history \in Seq(Entry)
      BY <2>8 DEF Controller
    <3>2. at <= later
      BY <2>5, <2>10
    <3> QED BY <2>5, <2>7, <2>10, <3>1, <3>2, LaterBound
  <2>12. ASSUME ~RefreshIsPending(d) PROVE Ended(d)
    <3>1. IsFinal(m) /\ m.requested \in Maintenance
      BY <1>2, <2>9, <2>12
    <3>2. maintenance_duration(m.requested) \in Nat
      BY <3>1, MaintenanceDurationFacts
    <3>3. d.busy_until \in Int /\ at <= d.busy_until
      BY <2>5, <2>8, <3>1, <3>2
    <3>4. d.history \in Seq(Entry)
      BY <2>8 DEF Controller
    <3>5. NoLaterThan(d.history, d.busy_until)
      BY <2>5, <2>7, <3>3, <3>4, LaterBound
    <3> QED BY <3>5 DEF NoLaterThan, Ended
  <2>13. t.c = d /\ t.cursor = later
    BY <2>3
  <2> HIDE DEF t
  <2>14. OnCursor(t)
    BY <2>7, <2>8, <2>10, <2>11, <2>13 DEF OnCursor
  <2>15. /\ Cardinality(Todo(t.c)) < Cardinality(Todo(s.c))
         /\ ~RefreshIsPending(t.c) => Ended(t.c)
    BY <2>9, <2>12, <2>13
  <2> QED BY <1>2, <2>14, <2>15 DEF t
<1> QED BY <1>1, <1>2

\* A refresh that falls due does not touch the history.
LEMMA FallsDueTracks ==
  ASSUME NEW c \in Controller, Tracked(c)
  PROVE  LET d == RefreshFallsDue(c)
         IN  /\ Tracked(d) /\ d.history = c.history /\ d.busy_until = c.busy_until /\ RefreshIsPending(d)
<1> DEFINE d == RefreshFallsDue(c)
<1>1. /\ d.history = c.history /\ d.busy_until = c.busy_until /\ d.command_bus = c.command_bus
      /\ d.next_refresh_due = c.next_refresh_due
  BY DEF RefreshFallsDue, Controller
<1>2. RefreshIsPending(d)
  <2>1. CASE RefreshPolicy = "AllBank"
    BY <2>1 DEF RefreshFallsDue, RefreshIsPending, Controller
  <2>2. CASE RefreshPolicy # "AllBank"
    <3>1. c.banks \in [Bank -> SoundBank] /\ c.next_bank \in Bank
      BY DEF Controller
    <3>2. d.banks[c.next_bank].refresh_pending = TRUE
      BY <2>2, <3>1 DEF RefreshFallsDue, Controller, SoundBank, BankState
    <3> QED BY <3>1, <3>2 DEF RefreshIsPending
  <2> QED BY <2>1, <2>2
<1> HIDE DEF d
<1>3. Tracked(d)
  BY <1>1 DEF Tracked, BusesHeld, DataIsPast
<1> QED BY <1>1, <1>2, <1>3 DEF d

\* apply_idle_refresh ends with the refresh carried out, and leaves the controller busy
\* with it: no command is recorded after the time at which it is free again.
LEMMA ApplyIdleTimely ==
  ASSUME NEW c \in Controller, Tracked(c), NEW when \in Int, DataNoLaterThan(c.history, when)
  PROVE  Timely(apply_idle_refresh(c, when))
<1> DEFINE first == RefreshFallsDue(c)
           base == [c |-> first, cursor |-> Max({when, c.busy_until})]
           seq == [i \in 1 .. IdleSteps |-> i]
           n == Len(seq)
<1>1. first \in Controller /\ Tracked(first) /\ first.history = c.history /\ RefreshIsPending(first)
  BY RefreshFallsDueFacts, FallsDueTracks
<1>2. base.c = first /\ base.cursor \in Int /\ when <= base.cursor
  <2>1. c.busy_until \in Int
    BY DEF Controller
  <2>2. Max({when, c.busy_until}) \in Int /\ Max({when, c.busy_until}) >= when
    BY <2>1, MaxOfTwo
  <2> QED BY <2>2
<1>3. IdleSteps \in Nat /\ seq \in Seq(Nat) /\ n = IdleSteps
  <2>1. IdleSteps \in Nat
    BY BankFacts DEF IdleSteps
  <2> QED BY <2>1
<1>4. apply_idle_refresh(c, when) = Idle!Looped(base, seq).c
  BY DEF apply_idle_refresh, FoldLeft, MapThenFoldSet, Max, Idle!Looped
<1> HIDE DEF base, seq, first
<1>5. PICK run : /\ run[0] = base
                 /\ \A k \in 1 .. n : run[k] = IdleStep(run[k - 1], seq[k])
                 /\ run[n] = Idle!Looped(base, seq)
  BY <1>3, Idle!LoopRuns
<1>6. n \in Nat
  BY <1>3
<1> DEFINE OnTime(s, k) == /\ OnCursor(s)
                           /\ RefreshIsPending(s.c) => Cardinality(Todo(s.c)) <= n - k
                           /\ ~RefreshIsPending(s.c) => Ended(s.c)
           S == {k \in 0 .. n : OnTime(run[k], k)}
<1>7. 0 \in S
  <2>1. DataNoLaterThan(first.history, base.cursor)
    <3>1. c.history \in Seq(Entry)
      BY DEF Controller
    <3>2. DataNoLaterThan(c.history, base.cursor)
      BY <1>2, <3>1, LaterBound
    <3> QED BY <1>1, <3>2
  <2>2. OnCursor(base)
    BY <1>1, <1>2, <2>1 DEF OnCursor
  <2>3. Cardinality(Todo(base.c)) <= n - 0
    <3>1. Cardinality(Todo(base.c)) <= IdleSteps
      BY TodoFacts
    <3>2. n - 0 = IdleSteps
      BY <1>3
    <3> QED BY <3>1, <3>2
  <2>4. OnTime(base, 0)
    BY <1>1, <1>2, <2>2, <2>3
  <2> QED BY <1>5, <1>6, <2>4
<1>8. ASSUME NEW k \in 0 .. n - 1, k \in S PROVE k + 1 \in S
  <2>1. k + 1 \in 1 .. n /\ (k + 1) - 1 = k /\ k + 1 \in 0 .. n
    BY <1>6
  <2>2. run[k + 1] = IdleStep(run[k], seq[k + 1])
    BY <1>5, <2>1
  <2> DEFINE s == run[k]
             t == IdleStep(s, seq[k + 1])
  <2>3. OnTime(s, k)
    BY <1>8
  <2> HIDE DEF s
  <2>4. /\ OnCursor(t)
        /\ ~RefreshIsPending(s.c) => t = s
        /\ RefreshIsPending(s.c) => /\ Cardinality(Todo(t.c)) < Cardinality(Todo(s.c))
                                    /\ ~RefreshIsPending(t.c) => Ended(t.c)
    BY <2>3, IdleStepTracks
  <2> HIDE DEF t
  <2>5. OnTime(t, k + 1)
    <3>1. CASE ~RefreshIsPending(s.c)
      BY <2>3, <2>4, <3>1
    <3>2. CASE RefreshIsPending(s.c)
      <4>1. Cardinality(Todo(t.c)) < Cardinality(Todo(s.c)) /\ Cardinality(Todo(s.c)) <= n - k
        BY <2>3, <2>4, <3>2
      <4>2. Cardinality(Todo(t.c)) \in Nat /\ Cardinality(Todo(s.c)) \in Nat
        BY TodoFacts
      <4> DEFINE a == Cardinality(Todo(t.c))
                 b == Cardinality(Todo(s.c))
      <4> HIDE DEF a, b
      <4>3. a \in Nat /\ b \in Nat /\ a < b /\ b <= n - k
        BY <4>1, <4>2 DEF a, b
      <4>4. a <= n - (k + 1)
        BY <1>6, <4>3
      <4> QED BY <2>4, <3>2, <4>4 DEF a
    <3> QED BY <3>1, <3>2
  <2> QED BY <2>1, <2>2, <2>5 DEF s, t
<1>9. n \in S
  <2> HIDE DEF S, n
  <2>1. \A k \in 0 .. n : k \in S
    BY <1>6, <1>7, <1>8, UpTo
  <2> QED BY <1>6, <2>1
<1> DEFINE u == run[n]
<1>10. OnTime(u, n)
  BY <1>9
<1>11. Tracked(u.c) /\ Ended(u.c)
  <2> HIDE DEF u
  <2>1. OnCursor(u) /\ (RefreshIsPending(u.c) => Cardinality(Todo(u.c)) <= n - n) /\ (~RefreshIsPending(u.c) => Ended(u.c))
    BY <1>10
  <2>2. ~RefreshIsPending(u.c)
    <3> SUFFICES ASSUME RefreshIsPending(u.c) PROVE FALSE
      OBVIOUS
    <3>1. u.c \in Controller /\ u.cursor \in Int
      BY <2>1 DEF OnCursor
    <3>2. Cardinality(Todo(u.c)) <= 0
      BY <1>6, <2>1
    <3>3. Cardinality(Todo(IdleStep(u, 0).c)) < Cardinality(Todo(u.c))
      BY <2>1, IdleStepTracks
    <3>4. Cardinality(Todo(IdleStep(u, 0).c)) \in Nat /\ Cardinality(Todo(u.c)) \in Nat
      BY TodoFacts
    <3> QED BY <3>2, <3>3, <3>4
  <2> QED BY <2>1, <2>2 DEF OnCursor
<1> QED BY <1>4, <1>5, <1>11 DEF Timely

\* The fields that timeliness is about.
SameTimes(c, d) == /\ d.history = c.history /\ d.command_bus = c.command_bus
                   /\ d.busy_until = c.busy_until /\ d.next_refresh_due = c.next_refresh_due

LEMMA TimesOnly ==
  ASSUME NEW c, NEW d, Timely(c), SameTimes(c, d)
  PROVE  Timely(d)
  BY DEF SameTimes, Timely, Tracked, BusesHeld, DataIsPast, Ended

\* A refresh that becomes due later, or is first due in the future, leaves data commands before it.
LEMMA DueMoves ==
  ASSUME NEW c \in Controller, Timely(c), NEW d, NEW due \in Int,
         d = [c EXCEPT !.next_refresh_due = due],
         due >= 0 \/ (c.next_refresh_due # None /\ due >= c.next_refresh_due)
  PROVE  Timely(d)
<1>1. /\ d.history = c.history /\ d.command_bus = c.command_bus /\ d.busy_until = c.busy_until
      /\ d.next_refresh_due = due /\ c.history \in Seq(Entry)
  BY DEF Controller
<1>2. DataNoLaterThan(c.history, due)
  <2>1. CASE due >= 0
    <3>1. DataNoLaterThan(c.history, 0) /\ 0 <= due
      BY <2>1 DEF Timely, Tracked, DataIsPast
    <3> QED BY <1>1, <3>1, LaterBound
  <2>2. CASE c.next_refresh_due # None /\ due >= c.next_refresh_due
    <3>1. c.next_refresh_due \in Int /\ DataNoLaterThan(c.history, c.next_refresh_due)
      BY <2>2 DEF Timely, Tracked, DataIsPast, Controller, Optional
    <3> QED BY <1>1, <2>2, <3>1, LaterBound
  <2> QED BY <2>1, <2>2
<1>3. DataIsPast(d)
  BY <1>1, <1>2 DEF Timely, Tracked, DataIsPast
<1> QED BY <1>1, <1>3 DEF Timely, Tracked, BusesHeld, Ended

\* The refreshes that fell due while the channel was idle keep the order.
LEMMA PrepareTimely ==
  ASSUME NEW c \in Controller, Timely(c)
  PROVE  Timely(prepare_refresh_for_arrival(c))
<1> DEFINE d == prepare_refresh_for_arrival(c)
<1>1. CASE RefreshInterval = 0
  BY <1>1 DEF prepare_refresh_for_arrival
<1>2. CASE RefreshInterval # 0
  <2> DEFINE base == FirstDue(c)
             due == base.next_refresh_due
             count == Overdue(due)
             seq == [i \in 1 .. count |-> i]
             n == Len(seq)
  <2>1. RefreshInterval \in Nat \ {0}
    BY <1>2, ControllerAssumption
  <2>2. base \in Controller /\ due \in Int /\ Timely(base)
    <3> DEFINE first == IF c.next_refresh_due = None THEN RefreshInterval ELSE c.next_refresh_due
    <3>1. first \in Int /\ first \in Optional(Int)
      BY <2>1 DEF Controller, Optional
    <3>2. base = [c EXCEPT !.next_refresh_due = first]
      BY DEF FirstDue, Controller
    <3>3. first >= 0 \/ (c.next_refresh_due # None /\ first >= c.next_refresh_due)
      BY <2>1, <3>1
    <3> HIDE DEF first, base
    <3>4. Timely(base)
      BY <3>1, <3>2, <3>3, DueMoves
    <3> QED BY <3>1, <3>2, <3>4 DEF Controller
  <2> HIDE DEF base
  <2>3. count \in Nat
    <3> HIDE DEF due
    <3>1. CASE due > 0
      BY <2>1, <2>2, <3>1 DEF Overdue
    <3>2. CASE ~ (due > 0)
      BY <2>1, <2>2, <3>2, CatchesUp DEF Overdue
    <3> QED BY <3>1, <3>2
  <2> HIDE DEF count
  <2>4. seq \in Seq(Nat) /\ n = count
    BY <2>3
  <2>5. d = CaughtUp!Looped(base, seq)
    BY <1>2 DEF prepare_refresh_for_arrival, FoldLeft, MapThenFoldSet, Max, CaughtUp!Looped, count, base
  <2> HIDE DEF seq, due
  <2>6. PICK run : /\ run[0] = base
                   /\ \A k \in 1 .. n : run[k] = CatchUp(run[k - 1], seq[k])
                   /\ run[n] = CaughtUp!Looped(base, seq)
    BY <2>4, CaughtUp!LoopRuns
  <2> HIDE DEF n
  <2> DEFINE S == {k \in 0 .. n : run[k] \in Controller /\ run[k].next_refresh_due \in Int /\ Timely(run[k])}
  <2>7. 0 \in S
    BY <2>2, <2>3, <2>4, <2>6 DEF due
  <2>8. ASSUME NEW k \in 0 .. n - 1, k \in S PROVE k + 1 \in S
    <3>1. k + 1 \in 1 .. n /\ (k + 1) - 1 = k /\ k + 1 \in 0 .. n
      BY <2>3, <2>4
    <3>2. run[k + 1] = CatchUp(run[k], seq[k + 1])
      BY <2>6, <3>1
    <3> DEFINE s == run[k]
               idle == apply_idle_refresh(s, s.next_refresh_due)
               t == CatchUp(s, seq[k + 1])
               later == s.next_refresh_due + RefreshInterval
    <3>3. s \in Controller /\ s.next_refresh_due \in Int /\ Timely(s)
      BY <2>8
    <3> HIDE DEF s
    <3>4. later \in Int /\ later >= s.next_refresh_due
      BY <2>1, <3>3
    <3>5. s.next_refresh_due # None
      BY <3>3, StandardAssumption
    <3>6. Tracked(s) /\ DataNoLaterThan(s.history, s.next_refresh_due)
      BY <3>3, <3>5 DEF Timely, Tracked, DataIsPast
    <3>7. idle \in Controller /\ SameRefresh(s, idle) /\ Timely(idle)
      BY <3>3, <3>6, ApplyIdleFacts, ApplyIdleTimely
    <3>8. t = [idle EXCEPT !.next_refresh_due = idle.next_refresh_due + RefreshInterval]
      BY <3>7 DEF CatchUp, Controller
    <3>9. idle.next_refresh_due = s.next_refresh_due
      BY <3>7 DEF SameRefresh
    <3> HIDE DEF idle, t
    <3>10. t = [idle EXCEPT !.next_refresh_due = later]
      BY <3>8, <3>9
    <3> HIDE DEF later
    <3>11. Timely(t)
      BY <3>4, <3>5, <3>7, <3>9, <3>10, DueMoves
    <3>12. t \in Controller /\ t.next_refresh_due = later
      BY <3>4, <3>7, <3>10 DEF Controller, Optional
    <3> QED BY <3>1, <3>2, <3>4, <3>11, <3>12 DEF s, t
  <2>9. n \in S
    <3> HIDE DEF S
    <3>1. n \in Nat
      BY <2>3, <2>4
    <3>2. \A k \in 0 .. n : k \in S
      BY <2>7, <2>8, <3>1, UpTo
    <3> QED BY <3>1, <3>2
  <2>10. Timely(d)
    <3> HIDE DEF d
    <3> QED BY <2>5, <2>6, <2>9
  <2> QED BY <2>10
<1> QED BY <1>1, <1>2

\* So does admission,
LEMMA AdmitReservedTimely ==
  ASSUME NEW c \in Controller, Timely(c), NEW access
  PROVE  Timely(admit_reserved(c, access))
<1> DEFINE p == prepare_refresh_for_arrival(c)
           d == admit_reserved(c, access)
<1>1. p \in Controller /\ Timely(p)
  BY PrepareFacts, PrepareTimely
<1>2. SameTimes(p, d)
  <2>1. d = [p EXCEPT !.queue = Append(@, access), !.outstanding = @ + 1]
    BY DEF admit_reserved, Enqueued
  <2> HIDE DEF p, d
  <2> QED BY <1>1, <2>1 DEF SameTimes, Controller
<1> HIDE DEF p, d
<1>3. Timely(d)
  BY <1>1, <1>2, TimesOnly
<1> QED BY <1>3 DEF d

\* and a refresh event.
LEMMA HandleRefreshTimely ==
  ASSUME NEW c \in Controller, Timely(c)
  PROVE  Timely(handle_refresh_event(c))
<1> DEFINE claimed == [c EXCEPT !.refresh_due_at = None]
           rearmed == [claimed EXCEPT !.next_refresh_due = RefreshInterval]
           d == handle_refresh_event(c)
<1>0. RefreshInterval \in Int /\ RefreshInterval >= 0
  BY ControllerAssumption
<1>d. d = IF c.refresh_due_at # 0 THEN c
          ELSE IF c.next_refresh_due # 0 THEN claimed
          ELSE IF c.outstanding = 0 THEN apply_idle_refresh(rearmed, 0)
          ELSE RefreshFallsDue(rearmed)
  BY DEF handle_refresh_event
<1>1. claimed \in Controller /\ SameTimes(c, claimed)
  BY DEF Controller, Optional, SameTimes
<1> HIDE DEF claimed
<1>2. Timely(claimed)
  BY <1>1, TimesOnly
<1>3. rearmed \in Controller
  BY <1>0, <1>1 DEF Controller, Optional
<1>4. Timely(rearmed)
  BY <1>0, <1>1, <1>2, DueMoves
<1> HIDE DEF rearmed
<1>5. Tracked(rearmed) /\ DataNoLaterThan(rearmed.history, 0)
  BY <1>4 DEF Timely, Tracked, DataIsPast
<1>6. Timely(apply_idle_refresh(rearmed, 0))
  BY <1>3, <1>5, ApplyIdleTimely
<1>7. Timely(RefreshFallsDue(rearmed))
  <2> DEFINE r == RefreshFallsDue(rearmed)
  <2>1. Tracked(r) /\ r.history = rearmed.history /\ r.busy_until = rearmed.busy_until
    BY <1>3, <1>5, FallsDueTracks
  <2> HIDE DEF r
  <2>2. Timely(r)
    BY <1>4, <2>1 DEF Timely, Ended
  <2> QED BY <2>2 DEF r
<1> HIDE DEF d
<1> QED BY <1>2, <1>6, <1>7, <1>d DEF d

\* What issue does to the history, whichever command it issues.
LEMMA IssueRecords ==
  ASSUME NEW c \in Controller, NEW x, NEW time
  PROVE  LET d == issue(c, x, time).c
             access == c.queue[x.sequence]
         IN  /\ Records(c, d, x.command, access.bank, time)
             /\ d.busy_until = c.busy_until /\ d.next_refresh_due = c.next_refresh_due
<1> DEFINE access == c.queue[x.sequence]
           command == x.command
           issued == CommandIssued(c, command, access.row, access.bank, time)
           d == issue(c, x, time).c
<1>1. /\ Records(c, issued, command, access.bank, time)
      /\ issued.busy_until = c.busy_until /\ issued.next_refresh_due = c.next_refresh_due
  BY CommandRecords DEF CommandIssued, Controller
<1>2. SameTimes(issued, d)
  <2>1. DOMAIN issued = DOMAIN c
    BY DEF CommandIssued
  <2>2. {"history", "command_bus", "busy_until", "next_refresh_due"} \subseteq DOMAIN c
    BY DEF Controller
  <2>3. CASE command \in DataCommands
    <3>1. d = IssueData(c, command, x.sequence, time).c
      BY <2>3 DEF issue
    <3> DEFINE bus == PseudoChannelOf(access.bank)
               done_at == Max({time + CasLatency(access.op), c.data_bus[bus]}) + BurstTime
    <3>2. d = [issued EXCEPT !.queue = Without(@, Served(c, x.sequence)), !.data_bus[bus] = done_at,
                             !.banks[access.bank].precharge_pending = @ \/ (Custom /\ RowPolicy = "Closed"),
                             !.fault = @ \/ c.banks[access.bank].row # access.row]
      BY <3>1 DEF IssueData
    <3> HIDE DEF d, issued
    <3> QED BY <2>1, <2>2, <3>2 DEF SameTimes
  <2>4. CASE command \notin DataCommands
    <3>1. d = IF command = "ACT" THEN [issued EXCEPT !.banks[access.bank] = CountActivation(@),
                                        !.queue[x.sequence].activated = TRUE,
                                        !.queue[x.sequence].first_at = FirstAt(access, time)]
                    ELSE [issued EXCEPT !.queue[x.sequence].first_at = FirstAt(access, time)]
      BY <2>4 DEF issue
    <3> HIDE DEF d, issued
    <3> QED BY <2>1, <2>2, <3>1 DEF SameTimes
  <2> QED BY <2>3, <2>4
<1> HIDE DEF issued, d
<1> QED BY <1>1, <1>2 DEF Records, SameTimes, d

\* drive issues a command at the present, when no maintenance is still going on.
LEMMA DriveTimely ==
  ASSUME NEW c \in Controller, Timely(c),
         c.queue # <<>> => c.next_refresh_due = None \/ c.next_refresh_due >= 0
  PROVE  Timely(drive(c).c)
<1>s. \A d, wake : StepTo(d, wake).c = d
  BY DEF StepTo
<1>b. c.busy_until \in Int /\ c.history \in Seq(Entry) /\ \A i \in 1 .. Len(c.history) : c.history[i].at \in Int
  <2>1. c.busy_until \in Int /\ c.history \in Seq(Entry)
    BY DEF Controller
  <2>2. \A i \in 1 .. Len(c.history) : c.history[i] \in Entry
    BY <2>1
  <2> QED BY <2>1, <2>2 DEF Entry
<1>1. CASE IsBusy(c)
  <2>1. drive(c).c = c
    BY <1>1, <1>s DEF drive
  <2> QED BY <2>1
<1>e. ASSUME ~IsBusy(c) PROVE NoLaterThan(c.history, 0)
  BY <1>b, <1>e DEF IsBusy, NoLaterThan, Timely, Ended
<1>t. Tracked(c) /\ DataNoLaterThan(c.history, 0)
  BY DEF Timely, Tracked, DataIsPast
<1>n. ASSUME NEW d, Tracked(d), NoLaterThan(d.history, 0) PROVE Timely(d)
  BY <1>n DEF Timely, Ended, NoLaterThan
<1>2. CASE ~IsBusy(c) /\ MaintenanceIsPending(c)
  <2> DEFINE m == choose_maintenance(c, 0)
             d == issue_maintenance(c, m, 0)
             wake == IF IsFinal(m) THEN d.busy_until ELSE 0
  <2>1. m \in MaintenanceStep
    BY <1>2, ChosenMaintenance
  <2>2. drive(c) = IF m.ready_at > 0 THEN StepTo(c, m.ready_at) ELSE StepTo(d, wake)
    BY <1>2 DEF drive, DriveMaintenance
  <2>3. m.ready_at \in Int
    <3> HIDE DEF m
    <3> QED BY <2>1 DEF MaintenanceStep
  <2>4. ASSUME ~ (m.ready_at > 0) PROVE Timely(d)
    <3>1. m.ready_at <= 0
      <4> HIDE DEF m
      <4> QED BY <2>3, <2>4
    <3>2. Tracked(d) /\ NoLaterThan(d.history, 0)
      BY <1>2, <1>t, <3>1, MaintenanceTracks
    <3> HIDE DEF d
    <3> QED BY <1>n, <3>2
  <2> HIDE DEF m, d, wake
  <2> QED BY <1>s, <2>2, <2>4
<1>3. CASE ~IsBusy(c) /\ ~MaintenanceIsPending(c)
  <2> DEFINE d == update_write_drain(c)
             x == choose_next(d, 0)
             issued == issue(d, x, 0)
  <2>1. drive(c) = IF c.queue = <<>> THEN StepTo(d, None) ELSE DriveRequest(d, x)
    BY <1>3 DEF drive
  <2>2. d \in Controller /\ d.queue = c.queue /\ SameTimes(c, d)
    <3>1. d \in Controller /\ d.queue = c.queue
      BY WriteDrainFacts
    <3>2. d = c \/ d = [c EXCEPT !.draining = FALSE] \/ d = [c EXCEPT !.draining = TRUE]
      BY DEF update_write_drain
    <3> HIDE DEF d
    <3>3. SameTimes(c, d)
      BY <3>2 DEF SameTimes, Controller
    <3> QED BY <3>1, <3>3
  <2> HIDE DEF d
  <2>3. Timely(d)
    BY <2>2, TimesOnly
  <2>4. CASE c.queue = <<>>
    BY <1>s, <2>1, <2>3, <2>4
  <2>5. CASE c.queue # <<>>
    <3>1. PICK i \in DOMAIN d.queue : x = CandidateOf(d, i, 0)
      BY <2>2, <2>5, ChosenAccess
    <3>2. x \in Candidate
      <4> DEFINE y == CandidateOf(d, i, 0)
      <4>1. y \in Candidate
        BY <2>2, CandidateFacts
      <4> HIDE DEF y
      <4>2. x = y
        BY <3>1 DEF y
      <4> QED BY <4>1, <4>2
    <3> HIDE DEF x
    <3>3. CASE x.ready_at > 0
      <4>1. drive(c).c = d
        BY <1>s, <2>1, <2>5, <3>3 DEF DriveRequest
      <4> QED BY <2>3, <4>1
    <3>4. CASE ~ (x.ready_at > 0)
      <4> DEFINE e == issued.c
                 bank == d.queue[x.sequence].bank
      <4>1. drive(c) = [issued EXCEPT !.wake_at = 0]
        BY <2>1, <2>5, <3>4 DEF DriveRequest
      <4>2. Records(d, e, x.command, bank, 0) /\ e.next_refresh_due = d.next_refresh_due
        BY <2>2, IssueRecords
      <4>3. drive(c).c = e
        <5>1. "c" \in DOMAIN issued
          <6>1. CASE x.command \in DataCommands
            BY <6>1 DEF issue, IssueData
          <6>2. CASE x.command \notin DataCommands
            BY <6>2 DEF issue
          <6> QED BY <6>1, <6>2
        <5> HIDE DEF issued
        <5> QED BY <4>1, <5>1
      <4>4. e \in Controller
        <5>1. drive(c).c \in Controller
          BY DriveFacts DEF Drives
        <5> QED BY <4>3, <5>1
      <4> HIDE DEF e, bank
      <4>5. x.command \in Command
        BY <3>2 DEF Candidate, AccessCommand, Command, BankScoped, DataCommands
      <4>6. NoLaterThan(d.history, 0) /\ Tracked(d)
        BY <1>3, <1>e, <2>2, <2>3 DEF SameTimes, Timely
      <4>7. d.next_refresh_due # None => 0 <= d.next_refresh_due
        <5>1. c.next_refresh_due # None => c.next_refresh_due >= 0
          BY <2>5
        <5>2. c.next_refresh_due # None => c.next_refresh_due \in Int
          BY DEF Controller, Optional
        <5> QED BY <2>2, <5>1, <5>2 DEF SameTimes
      <4>8. Tracked(e) /\ NoLaterThan(e.history, 0)
        BY <2>2, <4>2, <4>4, <4>5, <4>6, <4>7, RecordKeeps
      <4> QED BY <1>n, <4>3, <4>8
    <3> QED BY <3>3, <3>4
  <2> QED BY <2>4, <2>5
<1> QED BY <1>1, <1>2, <1>3

\* Ascending ascends.
LEMMA AscendingOrder ==
  ASSUME NEW S \in SUBSET Int, IsFiniteSet(S),
         NEW i \in 1 .. Cardinality(S), NEW j \in 1 .. Cardinality(S), i < j
  PROVE  Ascending(S)[i] < Ascending(S)[j]
<1> DEFINE n == Cardinality(S)
           Upto(x) == {y \in S : y <= x}
           f == [k \in 1 .. n |-> CHOOSE x \in S : Cardinality(Upto(x)) = k]
<1>0. n \in Nat
  BY FS_CardinalityType
<1>1. \A k \in 1 .. n : \E x \in S : Cardinality({y \in S : y <= x}) = k
  BY RankExists
<1>2. \A k \in 1 .. n : f[k] \in S /\ Cardinality(Upto(f[k])) = k
  BY <1>1
<1>3. Ascending(S) = f
  BY DEF Ascending
<1> HIDE DEF f
<1>4. f[i] \in S /\ f[j] \in S /\ f[i] \in Int /\ f[j] \in Int
  BY <1>2
<1>5. SUFFICES ASSUME f[j] <= f[i] PROVE FALSE
  BY <1>3, <1>4
<1>6. Upto(f[j]) \in SUBSET Upto(f[i]) /\ Upto(f[i]) \in SUBSET S
  <2> SUFFICES ASSUME NEW y \in S, y <= f[j] PROVE y <= f[i]
    OBVIOUS
  <2> QED BY <1>4, <1>5
<1>7. Cardinality(Upto(f[j])) = j /\ Cardinality(Upto(f[i])) = i
  BY <1>2
<1> HIDE DEF Upto
<1>8. IsFiniteSet(Upto(f[i]))
  BY <1>6, FS_Subset
<1>9. Cardinality(Upto(f[j])) <= Cardinality(Upto(f[i]))
  BY <1>6, <1>8, FS_Subset
<1> QED BY <1>0, <1>7, <1>9

\* The history after the clock moved: the recent entries, in their order.
Recent(c, d) ==
    LET due    == Later(c.next_refresh_due, d)
        oldest == IF due # None /\ due < 0 THEN due ELSE 0
    IN  {i \in DOMAIN c.history : c.history[i].at - d + Reach(c.history[i].cmd) > oldest}

Renumbered(c, d, f, n) ==
    /\ Numbers(f, n, Recent(c, d)) /\ \A i, j \in 1 .. n : i < j => f[i] < f[j]
    /\ Len(Rebase(c, d).history) = n
    /\ \A k \in 1 .. n : /\ f[k] \in 1 .. Len(c.history)
                         /\ Rebase(c, d).history[k] = [c.history[f[k]] EXCEPT !.at = @ - d]

LEMMA RebasedHistory ==
  ASSUME NEW c \in Controller, NEW d \in Int
  PROVE  \E f : \E n \in Nat : Renumbered(c, d, f, n)
<1> DEFINE recent == Recent(c, d)
           kept == Picked(c.history, recent)
           f == Ascending(recent)
           n == Cardinality(recent)
           r == Rebase(c, d)
<1>1. r.history = [i \in DOMAIN kept |-> [kept[i] EXCEPT !.at = @ - d]]
  <2>1. c = [x \in DOMAIN c |-> c[x]] /\ {"queue", "history", "data_bus", "command_bus", "busy_until", "wakeup_at",
            "refresh_due_at", "next_refresh_due"} \subseteq DOMAIN c
    BY DEF Controller
  <2> QED BY <2>1 DEF Rebase, Recent
<1>2. c.history \in Seq(Entry) /\ DOMAIN c.history = 1 .. Len(c.history) /\ Len(c.history) \in Nat
  BY DEF Controller
<1>3. recent \in SUBSET DOMAIN c.history
  BY DEF Recent
<1> HIDE DEF recent, r
<1>4. /\ IsFiniteSet(recent) /\ n \in Nat /\ kept \in Seq(Entry) /\ Len(kept) = n
      /\ \A k \in 1 .. n : f[k] \in recent /\ kept[k] = c.history[f[k]]
  <2>0. recent \in SUBSET DOMAIN c.history /\ c.history \in Seq(Entry)
    BY <1>2, <1>3
  <2>1. IsFiniteSet(recent)
    <3>1. IsFiniteSet(1 .. Len(c.history)) /\ recent \in SUBSET (1 .. Len(c.history))
      BY <1>2, <1>3, FS_Interval
    <3> QED BY <3>1, FS_Subset
  <2>2. Cardinality(recent) \in Nat
    BY <2>1, FS_CardinalityType
  <2> DEFINE q == c.history
  <2>q. q \in Seq(Entry) /\ recent \in SUBSET DOMAIN q
    BY <2>0
  <2> HIDE DEF q
  <2>3. Picked(q, recent) \in Seq(Entry) /\ Len(Picked(q, recent)) = Cardinality(recent)
    BY <2>q, PickedFacts
  <2>4. \A k \in 1 .. Cardinality(recent) : Ascending(recent)[k] \in recent
                                            /\ Picked(q, recent)[k] = q[Ascending(recent)[k]]
    BY <2>q, PickedFacts
  <2> QED BY <2>1, <2>2, <2>3, <2>4 DEF q
<1>5. recent \in SUBSET Int
  BY <1>2, <1>3
<1>6. Numbers(f, n, recent)
  BY <1>4, <1>5, AscendingFacts
<1>7. \A i, j \in 1 .. n : i < j => f[i] < f[j]
  BY <1>4, <1>5, AscendingOrder
<1> HIDE DEF n, f, kept
<1>8. DOMAIN kept = 1 .. n
  BY <1>4
<1>9. Len(r.history) = n
  BY <1>1, <1>4, <1>8
<1>10. \A k \in 1 .. n : f[k] \in 1 .. Len(c.history) /\ r.history[k] = [c.history[f[k]] EXCEPT !.at = @ - d]
  <2> SUFFICES ASSUME NEW k \in 1 .. n
               PROVE  /\ f[k] \in 1 .. Len(c.history)
                      /\ r.history[k] = [c.history[f[k]] EXCEPT !.at = @ - d]
    OBVIOUS
  <2>1. f[k] \in recent /\ kept[k] = c.history[f[k]]
    BY <1>4
  <2>2. f[k] \in 1 .. Len(c.history)
    BY <1>2, <1>3, <2>1
  <2>3. r.history[k] = [kept[k] EXCEPT !.at = @ - d]
    BY <1>1, <1>8
  <2> QED BY <2>1, <2>2, <2>3, Zenon
<1>11. Renumbered(c, d, f, n)
  BY <1>6, <1>7, <1>9, <1>10 DEF Renumbered, r, recent
<1> QED BY <1>4, <1>11

\* The other times after the clock moved.
LEMMA RebasedTimes ==
  ASSUME NEW c \in Controller, NEW d \in Int
  PROVE  LET r      == Rebase(c, d)
             due    == Later(c.next_refresh_due, d)
             oldest == IF due # None /\ due < 0 THEN due ELSE 0
         IN  /\ r.next_refresh_due = due /\ oldest \in Int
             /\ r.busy_until \in Int /\ r.busy_until >= c.busy_until - d
             /\ \A b \in {"unified", "row", "column"} :
                    /\ r.command_bus[b] \in Int /\ c.command_bus[b] \in Int
                    /\ r.command_bus[b] >= c.command_bus[b] - d /\ r.command_bus[b] >= oldest
<1> DEFINE r      == Rebase(c, d)
           due    == Later(c.next_refresh_due, d)
           oldest == IF due # None /\ due < 0 THEN due ELSE 0
           move(t) == Max({t - d, oldest})
<1>1. oldest \in Int
  <2>1. due \in Optional(Int)
    BY LaterFacts DEF Controller
  <2> HIDE DEF due
  <2> QED BY <2>1 DEF Optional
<1>2. /\ r.next_refresh_due = due /\ r.busy_until = move(c.busy_until)
      /\ r.command_bus = [b \in DOMAIN c.command_bus |-> move(c.command_bus[b])]
  <2>1. c = [x \in DOMAIN c |-> c[x]] /\ {"queue", "history", "data_bus", "command_bus", "busy_until", "wakeup_at",
            "refresh_due_at", "next_refresh_due"} \subseteq DOMAIN c
    BY DEF Controller
  <2> QED BY <2>1 DEF Rebase
<1> HIDE DEF oldest, r
<1>3. ASSUME NEW t \in Int PROVE move(t) \in Int /\ move(t) >= t - d /\ move(t) >= oldest
  <2>1. t - d \in Int
    OBVIOUS
  <2> DEFINE u == t - d
  <2> HIDE DEF u
  <2>2. u \in Int
    BY <2>1 DEF u
  <2>3. Max({u, oldest}) \in Int /\ Max({u, oldest}) >= u /\ Max({u, oldest}) >= oldest
    BY <1>1, <2>2, MaxOfTwo
  <2> QED BY <2>3 DEF u
<1> HIDE DEF move
<1>4. c.busy_until \in Int /\ c.command_bus \in [{"unified", "row", "column"} -> Int]
  BY DEF Controller
<1>5. r.busy_until \in Int /\ r.busy_until >= c.busy_until - d
  BY <1>2, <1>3, <1>4
<1>6. ASSUME NEW b \in {"unified", "row", "column"}
      PROVE  /\ r.command_bus[b] \in Int /\ c.command_bus[b] \in Int
             /\ r.command_bus[b] >= c.command_bus[b] - d /\ r.command_bus[b] >= oldest
  <2>1. c.command_bus[b] \in Int /\ r.command_bus[b] = move(c.command_bus[b])
    BY <1>2, <1>4
  <2> QED BY <1>3, <2>1
<1> QED BY <1>1, <1>2, <1>5, <1>6 DEF r, oldest

\* The clock's move keeps the order.
LEMMA RebaseTimely ==
  ASSUME NEW c \in Controller, Timely(c), NEW d \in Nat
  PROVE  Timely(Rebase(c, d))
<1> DEFINE r == Rebase(c, d)
<1>1. PICK f : \E n \in Nat : Renumbered(c, d, f, n)
  BY RebasedHistory
<1>2. PICK n \in Nat : Renumbered(c, d, f, n)
  BY <1>1
<1> DEFINE h == c.history
           g == r.history
<1>3. /\ Len(g) = n /\ \A i, j \in 1 .. n : i < j => f[i] < f[j]
      /\ \A k \in 1 .. n : f[k] \in 1 .. Len(h) /\ g[k] = [h[f[k]] EXCEPT !.at = @ - d]
  BY <1>2 DEF Renumbered
<1>4. \A i \in 1 .. Len(h) : h[i] \in Entry
  BY DEF Controller
<1>5. /\ r.next_refresh_due = Later(c.next_refresh_due, d)
      /\ r.busy_until \in Int /\ r.busy_until >= c.busy_until - d
      /\ \A b \in {"unified", "row", "column"} :
             /\ r.command_bus[b] \in Int /\ c.command_bus[b] \in Int
             /\ r.command_bus[b] >= c.command_bus[b] - d
  BY RebasedTimes
<1>t. /\ TimeOrdered(h) /\ BusesHeld(c) /\ DataIsPast(c) /\ Ended(c)
  BY DEF Timely, Tracked
<1>d. c.next_refresh_due \in Optional(Int) /\ c.busy_until \in Int
  BY DEF Controller
<1> HIDE DEF r, g
<1>6. ASSUME NEW k \in 1 .. n
      PROVE  /\ h[f[k]].at \in Int /\ g[k].at = h[f[k]].at - d /\ g[k].cmd = h[f[k]].cmd
             /\ f[k] \in 1 .. Len(h)
  BY <1>3, <1>4 DEF Entry
<1>7. TimeOrdered(g)
  <2> SUFFICES ASSUME NEW i \in 1 .. n, NEW j \in 1 .. n, i < j PROVE g[i].at <= g[j].at
    BY <1>3 DEF TimeOrdered
  <2>1. h[f[i]].at <= h[f[j]].at
    BY <1>3, <1>t DEF TimeOrdered
  <2>2. /\ h[f[i]].at \in Int /\ g[i].at = h[f[i]].at - d
        /\ h[f[j]].at \in Int /\ g[j].at = h[f[j]].at - d
    BY <1>6
  <2> QED BY <2>1, <2>2
<1>8. BusesHeld(r)
  <2> SUFFICES ASSUME NEW k \in 1 .. n PROVE g[k].at <= r.command_bus[command_bus(g[k].cmd)]
    BY <1>3 DEF BusesHeld, g
  <2> DEFINE b == command_bus(g[k].cmd)
  <2>1. b \in {"unified", "row", "column"}
    BY CommandBusFacts
  <2>2. h[f[k]].at <= c.command_bus[b]
    BY <1>6, <1>t DEF BusesHeld
  <2> HIDE DEF b
  <2>3. r.command_bus[b] \in Int /\ c.command_bus[b] \in Int /\ r.command_bus[b] >= c.command_bus[b] - d
    BY <1>5, <2>1
  <2>4. g[k].at <= r.command_bus[b]
    BY <1>6, <2>2, <2>3
  <2> QED BY <2>4 DEF b
<1>9. DataIsPast(r)
  <2>1. ASSUME NEW t \in Int, DataNoLaterThan(h, t)
        PROVE  \A k \in 1 .. n : g[k].cmd \in DataCommands => g[k].at <= t - d
    <3> SUFFICES ASSUME NEW k \in 1 .. n, g[k].cmd \in DataCommands PROVE g[k].at <= t - d
      OBVIOUS
    <3>1. h[f[k]].at <= t
      BY <1>6, <2>1 DEF DataNoLaterThan
    <3> QED BY <1>6, <3>1
  <2>2. DataNoLaterThan(g, 0)
    <3> SUFFICES ASSUME NEW k \in 1 .. n, g[k].cmd \in DataCommands PROVE g[k].at <= 0
      BY <1>3 DEF DataNoLaterThan
    <3>1. g[k].at <= 0 - d
      BY <1>t, <2>1 DEF DataIsPast
    <3>2. g[k].at \in Int
      BY <1>6
    <3> QED BY <3>1, <3>2
  <2>3. ASSUME r.next_refresh_due # None PROVE DataNoLaterThan(g, r.next_refresh_due)
    <3>1. c.next_refresh_due # None
      BY <1>5, <1>d, <2>3, LaterFacts
    <3>2. r.next_refresh_due = c.next_refresh_due - d /\ c.next_refresh_due \in Int
      BY <1>5, <1>d, <3>1, LaterFacts
    <3>3. \A k \in 1 .. n : g[k].cmd \in DataCommands => g[k].at <= c.next_refresh_due - d
      BY <1>t, <2>1, <3>1, <3>2 DEF DataIsPast
    <3> QED BY <1>3, <3>2, <3>3 DEF DataNoLaterThan
  <2> QED BY <2>2, <2>3 DEF DataIsPast, g
<1>10. Ended(r)
  <2> SUFFICES ASSUME NEW k \in 1 .. n PROVE g[k].at <= 0 \/ g[k].at <= r.busy_until
    BY <1>3 DEF Ended, g
  <2>1. h[f[k]].at <= 0 \/ h[f[k]].at <= c.busy_until
    BY <1>6, <1>t DEF Ended
  <2>2. h[f[k]].at \in Int /\ g[k].at = h[f[k]].at - d
    BY <1>6
  <2> QED BY <1>5, <1>d, <2>1, <2>2
<1> QED BY <1>7, <1>8, <1>9, <1>10 DEF Timely, Tracked, g, r

\* A new controller has recorded nothing.
LEMMA NewControllerTimely ==
  Timely(NewController)
<1>1. NewController.history = <<>> /\ Len(<<>>) = 0
  BY DEF NewController
<1> QED BY <1>1 DEF Timely, Tracked, TimeOrdered, BusesHeld, DataIsPast, DataNoLaterThan, Ended

-----------------------------------------------------------------------------
(* The legality of recorded commands.                                       *)
(*                                                                          *)
(* The engine enters a precharge of all banks on the lists of bank 0 alone, *)
(* so on another bank it does not delay a command by itself.  Under a       *)
(* standard it never has to: it is followed by the refresh of all banks     *)
(* that it was issued for, and no bank is activated before that has ended   *)
(* (Spent).                                                                 *)

\* Every PRE constraint looks back one command and is over when a refresh is; refresh
\* of all banks delays activations, of the whole channel.
LEMMA ConstraintKinds ==
  /\ \A r \in Constraints :
        /\ r[1] = "PRE" => /\ r[2] \in {"ACT", "PRE", "REFpb", "REFab"} /\ r[3] \in {"Bank", "PseudoChannel"}
                           /\ r[4] = 1 /\ r[5] \in {Timing.t_rp, Timing.t_ppd}
        /\ r[1] \in {"REFab", "RFMab"} => r[3] = "Channel"
  /\ <<"REFab", "ACT", "Channel", 1, Timing.t_rfc>> \in Constraints
<1>1. ASSUME NEW r \in ExtendedConstraints
      PROVE  /\ r[1] = "PRE" => /\ r[2] \in {"ACT", "PRE", "REFpb", "REFab"} /\ r[3] \in {"Bank", "PseudoChannel"}
                                /\ r[4] = 1 /\ r[5] \in {Timing.t_rp, Timing.t_ppd}
             /\ r[1] \in {"REFab", "RFMab"} => r[3] = "Channel"
  BY DEF ExtendedConstraints
<1>2. ASSUME NEW r \in CompactConstraints
      PROVE  /\ r[1] = "PRE" => /\ r[2] \in {"ACT", "PRE", "REFpb", "REFab"} /\ r[3] \in {"Bank", "PseudoChannel"}
                                /\ r[4] = 1 /\ r[5] \in {Timing.t_rp, Timing.t_ppd}
             /\ r[1] \in {"REFab", "RFMab"} => r[3] = "Channel"
  BY DEF CompactConstraints
<1>3. <<"REFab", "ACT", "Channel", 1, Timing.t_rfc>> \in ExtendedConstraints
  BY DEF ExtendedConstraints
<1>4. <<"REFab", "ACT", "Channel", 1, Timing.t_rfc>> \in CompactConstraints
  BY DEF CompactConstraints
<1> QED BY <1>1, <1>2, <1>3, <1>4 DEF Constraints

\* A command at its earliest legal time, or later, keeps a constraint against every
\* entry of the list that the engine reads, far enough from its end.
LEMMA IssueObeys ==
  ASSUME NEW h \in Seq(Entry), TimeOrdered(h), NEW command, NEW bank \in Bank, NEW now \in Int,
         NEW t \in Int, earliest_issue(h, command, bank, now) <= t,
         NEW rule \in Constraints, rule[2] = timing_command(command),
         NEW m \in HistoryOf(h, rule[1], rule[3], bank),
         Cardinality({k \in HistoryOf(h, rule[1], rule[3], bank) : k >= m}) >= rule[4]
  PROVE  t >= h[m].at + rule[5]
<1> DEFINE past == HistoryOf(h, rule[1], rule[3], bank)
           Since(x) == {k \in past : k >= x}
           x == FromBack(past, rule[4])
<1>1. rule[4] \in Nat \ {0} /\ rule[5] \in Nat
  BY ConstraintFacts
<1>2. Len(h) \in Nat /\ DOMAIN h = 1 .. Len(h) /\ \A i \in 1 .. Len(h) : h[i].at \in Int
  <2>1. \A i \in 1 .. Len(h) : h[i] \in Entry
    OBVIOUS
  <2> QED BY <2>1 DEF Entry
<1>3. past \in SUBSET (1 .. Len(h))
  BY <1>2 DEF HistoryOf
<1>4. m \in past /\ Cardinality(Since(m)) >= rule[4]
  OBVIOUS
<1>5. earliest_issue(h, command, bank, now) \in Int
      /\ (~ (Cardinality(past) < rule[4]) => earliest_issue(h, command, bank, now) >= h[x].at + rule[5])
  BY EarliestIssueFacts
<1> HIDE DEF past, Since, x
<1>6. IsFiniteSet(past) /\ past \in SUBSET Int
  <2>1. IsFiniteSet(1 .. Len(h)) /\ 1 .. Len(h) \in SUBSET Int
    BY <1>2, FS_Interval
  <2> QED BY <1>3, <2>1, FS_Subset
<1>7. \A y \in Int : /\ Since(y) \in SUBSET past /\ IsFiniteSet(Since(y)) /\ Cardinality(Since(y)) \in Nat
                     /\ Cardinality(Since(y)) <= Cardinality(past)
  <2> SUFFICES ASSUME NEW y \in Int
               PROVE  /\ Since(y) \in SUBSET past /\ IsFiniteSet(Since(y)) /\ Cardinality(Since(y)) \in Nat
                      /\ Cardinality(Since(y)) <= Cardinality(past)
    OBVIOUS
  <2>1. Since(y) \in SUBSET past
    BY DEF Since
  <2>2. IsFiniteSet(Since(y)) /\ Cardinality(Since(y)) <= Cardinality(past)
    BY <1>6, <2>1, FS_Subset
  <2> QED BY <2>1, <2>2, FS_CardinalityType
<1>8. m \in Int /\ Cardinality(past) \in Nat
  BY <1>4, <1>6, FS_CardinalityType
<1>9. rule[4] \in 1 .. Cardinality(past)
  <2>1. Cardinality(Since(m)) \in Nat /\ Cardinality(Since(m)) <= Cardinality(past)
    BY <1>7, <1>8
  <2> QED BY <1>1, <1>4, <1>8, <2>1
<1>10. x \in past /\ Cardinality(Since(x)) = rule[4]
  BY <1>6, <1>9, FromBackFacts DEF x, Since
<1>11. x \in Int /\ x \in 1 .. Len(h) /\ m \in 1 .. Len(h)
  BY <1>3, <1>4, <1>10
<1>12. m <= x
  <2> SUFFICES ASSUME x < m PROVE FALSE
    BY <1>8, <1>11
  <2>1. Since(m) \in SUBSET Since(x) /\ x \in Since(x) /\ x \notin Since(m)
    <3>1. ASSUME NEW k \in past, k >= m PROVE k >= x
      <4>1. k \in Int
        BY <1>6
      <4> QED BY <1>8, <1>11, <3>1, <4>1
    <3>2. x >= x /\ ~ (x >= m)
      BY <1>8, <1>11
    <3> QED BY <1>10, <3>1, <3>2 DEF Since
  <2>2. IsFiniteSet(Since(x)) /\ Cardinality(Since(m)) \in Nat /\ Cardinality(Since(x)) \in Nat
    BY <1>7, <1>8, <1>11
  <2>3. Cardinality(Since(m)) <= Cardinality(Since(x))
        /\ (Cardinality(Since(m)) = Cardinality(Since(x)) => Since(m) = Since(x))
    BY <2>1, <2>2, FS_Subset
  <2> QED BY <1>1, <1>4, <1>10, <2>1, <2>2, <2>3
<1>13. h[m].at <= h[x].at /\ h[m].at \in Int /\ h[x].at \in Int
  <2>1. CASE m = x
    BY <1>2, <1>11, <2>1
  <2>2. CASE m # x
    <3>1. m < x
      BY <1>8, <1>11, <1>12, <2>2
    <3> QED BY <1>2, <1>11, <3>1 DEF TimeOrdered
  <2> QED BY <2>1, <2>2
<1>14. earliest_issue(h, command, bank, now) >= h[x].at + rule[5]
  BY <1>1, <1>5, <1>8, <1>9
<1> QED BY <1>1, <1>5, <1>13, <1>14

\* TimingIsLegal, of one history.
Legal(history) ==
    \A n \in DOMAIN history : \A bank \in Reached(history[n]) :
        \A rule \in {r \in Constraints : r[2] = timing_command(history[n].cmd)} :
            LET before == Preceding(history, n, rule[1], rule[3], bank)
            IN  \A m \in before :
                    Cardinality({k \in before : k >= m}) >= rule[4]
                        => history[n].at >= history[m].at + rule[5]

\* The precharges of all banks that the engine would overlook, as it has each on one
\* bank's list only, no longer delay the command.
NoneOverlooked(history, command, time) ==
    \A i \in 1 .. Len(history) :
        history[i].cmd = "PREA" /\ command \in {"ACT", "PRE", "REFpb"}
            => command # "REFpb" /\ history[i].at + Timing.t_rfc <= time

\* The engine reads the entries that reach a bank, or others of the same kind on it.
LEMMA SeenByEngine ==
  ASSUME NEW h \in Seq(Entry), NEW rule \in Constraints, rule[1] # "PRE", NEW bank \in Bank
  PROVE  {m \in 1 .. Len(h) : /\ timing_command(h[m].cmd) = rule[1]
                              /\ \E b \in Reached(h[m]) : SameResource(rule[3], b, bank)}
         = HistoryOf(h, rule[1], rule[3], bank)
<1> SUFFICES ASSUME NEW m \in 1 .. Len(h), timing_command(h[m].cmd) = rule[1]
             PROVE  (\E b \in Reached(h[m]) : SameResource(rule[3], b, bank)) <=> SameResource(rule[3], h[m].bank, bank)
  BY DEF HistoryOf
<1>1. h[m].bank \in Bank
  <2>1. h[m] \in Entry
    OBVIOUS
  <2> QED BY <2>1 DEF Entry
<1>2. CASE h[m].cmd \notin ChannelScoped
  BY <1>2 DEF Reached
<1>3. CASE h[m].cmd \in ChannelScoped
  <2>1. rule[1] \in {"REFab", "RFMab"}
    BY <1>3 DEF ChannelScoped, timing_command
  <2>2. rule[3] = "Channel"
    BY <2>1, ConstraintKinds
  <2>3. Reached(h[m]) = Bank
    BY <1>3 DEF Reached
  <2> QED BY <1>1, <2>2, <2>3 DEF SameResource
<1> QED BY <1>2, <1>3

\* A command at its earliest legal time, or later, is legal.
LEMMA CommandIsLegal ==
  ASSUME NEW c \in Controller, ~Custom, RefreshDominates, TimeOrdered(c.history),
         NEW command \in Command, NEW bank \in Bank, NEW now \in Int, NEW t \in Int,
         earliest_command(c, command, bank, now) <= t, NoneOverlooked(c.history, command, t),
         NEW b \in IF command \in ChannelScoped THEN Bank ELSE {bank},
         NEW rule \in Constraints, rule[2] = timing_command(command),
         NEW m \in 1 .. Len(c.history), timing_command(c.history[m].cmd) = rule[1],
         \E x \in Reached(c.history[m]) : SameResource(rule[3], x, b),
         Cardinality({k \in {j \in 1 .. Len(c.history) :
                                /\ timing_command(c.history[j].cmd) = rule[1]
                                /\ \E x \in Reached(c.history[j]) : SameResource(rule[3], x, b)} : k >= m}) >= rule[4]
  PROVE  t >= c.history[m].at + rule[5]
<1> DEFINE h == c.history
           before == {j \in 1 .. Len(h) : /\ timing_command(h[j].cmd) = rule[1]
                                          /\ \E x \in Reached(h[j]) : SameResource(rule[3], x, b)}
<1>1. h \in Seq(Entry)
  BY DEF Controller
<1>2. Len(h) \in Nat /\ DOMAIN h = 1 .. Len(h) /\ \A i \in 1 .. Len(h) : h[i] \in Entry
  BY <1>1
<1>3. b \in Bank
  OBVIOUS
<1>4. ASSUME NEW x \in IF command \in ChannelScoped THEN Bank ELSE {bank}
      PROVE  earliest_issue(h, command, x, now) <= t
  <2>1. x \in Bank
    OBVIOUS
  <2>2. earliest_issue(h, command, x, now) \in Int
    BY <1>1, <2>1, EarliestIssueFacts
  <2>3. /\ earliest_command(c, command, bank, now) \in Int
        /\ \A y \in IF ~Custom /\ command \in ChannelScoped THEN Bank ELSE {bank} :
                earliest_command(c, command, bank, now) >= earliest_issue(c.history, command, y, now)
    BY EarliestCommandFacts
  <2>4. earliest_command(c, command, bank, now) >= earliest_issue(h, command, x, now)
    BY <2>3
  <2> QED BY <2>2, <2>3, <2>4
<1>5. NoneOverlooked(h, command, t) /\ TimeOrdered(h)
  OBVIOUS
<1>6. timing_command(h[m].cmd) = rule[1] /\ m \in 1 .. Len(h) /\ (\E x \in Reached(h[m]) : SameResource(rule[3], x, b))
      /\ Cardinality({k \in before : k >= m}) >= rule[4]
  OBVIOUS
<1>7. SUFFICES t >= h[m].at + rule[5]
  OBVIOUS
<1> HIDE DEF h
<1>8. CASE rule[1] # "PRE"
  <2>1. before = HistoryOf(h, rule[1], rule[3], b)
    BY <1>1, <1>3, <1>8, SeenByEngine
  <2>2. m \in before
    BY <1>6
  <2> HIDE DEF before
  <2>3. earliest_issue(h, command, b, now) <= t
    BY <1>4
  <2> DEFINE past == HistoryOf(h, rule[1], rule[3], b)
  <2>4. m \in past /\ Cardinality({k \in past : k >= m}) >= rule[4]
    BY <1>6, <2>1, <2>2
  <2> HIDE DEF before
  <2> QED BY <1>1, <1>3, <1>5, <2>3, <2>4, IssueObeys
<1>9. CASE rule[1] = "PRE"
  <2>0. /\ rule[2] \in {"ACT", "PRE", "REFpb", "REFab"} /\ rule[3] \in {"Bank", "PseudoChannel"}
        /\ rule[4] = 1 /\ rule[5] \in {Timing.t_rp, Timing.t_ppd}
    BY <1>9, ConstraintKinds
  <2> HIDE DEF before
  <2>1. ASSUME NEW x \in IF command \in ChannelScoped THEN Bank ELSE {bank}, SameResource(rule[3], h[m].bank, x)
        PROVE  t >= h[m].at + rule[5]
    <3> DEFINE past == HistoryOf(h, rule[1], rule[3], x)
    <3>1. m \in past /\ past \in SUBSET (1 .. Len(h))
      BY <1>2, <1>6, <2>1 DEF HistoryOf
    <3>2. IsFiniteSet(1 .. Len(h)) /\ 1 .. Len(h) \in SUBSET Int
      BY <1>2, FS_Interval
    <3> HIDE DEF past
    <3>3. {k \in past : k >= m} \in SUBSET (1 .. Len(h)) /\ m \in {k \in past : k >= m}
      BY <3>1, <3>2
    <3>4. IsFiniteSet({k \in past : k >= m}) /\ {k \in past : k >= m} # {}
      BY <3>2, <3>3, FS_Subset
    <3>5. Cardinality({k \in past : k >= m}) \in Nat /\ Cardinality({k \in past : k >= m}) # 0
      BY <3>4, FS_CardinalityType, FS_EmptySet
    <3>6. Cardinality({k \in past : k >= m}) >= rule[4]
      BY <2>0, <3>5
    <3>7. earliest_issue(h, command, x, now) <= t /\ x \in Bank
      BY <1>4
    <3> QED BY <1>1, <1>5, <3>1, <3>6, <3>7, IssueObeys DEF past
  <2>2. CASE SameResource(rule[3], h[m].bank, b)
    BY <2>1, <2>2
  <2>3. CASE ~SameResource(rule[3], h[m].bank, b)
    <3>1. h[m].cmd \in Command /\ h[m].bank \in Bank /\ h[m].at \in Int
      BY <1>2, <1>6 DEF Entry
    <3>2. h[m].cmd \in ChannelScoped
      BY <1>6, <2>3 DEF Reached
    <3>3. h[m].cmd = "PREA"
      BY <1>6, <1>9, <3>2 DEF ChannelScoped, timing_command
    <3>4. CASE command \in ChannelScoped
      <4>1. SameResource(rule[3], h[m].bank, h[m].bank)
        BY <2>0 DEF SameResource
      <4> QED BY <2>1, <3>1, <3>4, <4>1
    <3>5. CASE command \notin ChannelScoped
      <4>1. command \in {"ACT", "PRE", "REFpb"}
        BY <2>0, <3>5 DEF timing_command, ChannelScoped, Command, BankScoped, DataCommands
      <4>2. h[m].at + Timing.t_rfc <= t
        BY <1>5, <1>6, <3>3, <4>1 DEF NoneOverlooked
      <4>3. Timing.t_rp \in Nat /\ Timing.t_ppd \in Nat /\ Timing.t_rfc \in Nat
        BY TimingIsNat DEF Parameters
      <4>4. rule[5] \in Nat /\ rule[5] <= Timing.t_rfc
        BY <2>0, <4>3 DEF RefreshDominates
      <4> QED BY <3>1, <4>2, <4>3, <4>4
    <3> QED BY <3>4, <3>5
  <2> QED BY <2>2, <2>3
<1> QED BY <1>8, <1>9

\* Recording it keeps the history legal.
LEMMA LegalStep ==
  ASSUME NEW c \in Controller, NEW d, ~Custom, RefreshDominates, TimeOrdered(c.history), Legal(c.history),
         NEW command \in Command, NEW bank \in Bank, NEW now \in Int, NEW t \in Int,
         earliest_command(c, command, bank, now) <= t, NoneOverlooked(c.history, command, t),
         Records(c, d, command, bank, t)
  PROVE  Legal(d.history)
<1> DEFINE h == c.history
           g == d.history
           size == Len(h)
           e == [cmd |-> command, bank |-> bank, at |-> t]
           Earlier(q, n, rule, b) == Preceding(q, n, rule[1], rule[3], b)
<1>1. h \in Seq(Entry) /\ size \in Nat /\ DOMAIN h = 1 .. size
  BY DEF Controller
<1>2. DOMAIN g = 1 .. size + 1 /\ g[size + 1] = e /\ \A i \in 1 .. size : g[i] = h[i]
  BY <1>1 DEF Records
<1>3. /\ e.cmd = command /\ e.at = t
      /\ Reached(e) = IF command \in ChannelScoped THEN Bank ELSE {bank}
  BY DEF Reached
<1>4. Legal(h)
  OBVIOUS
<1> HIDE DEF e, g
<1>5. SUFFICES Legal(g)
  BY DEF g
<1>6. SUFFICES ASSUME NEW n \in 1 .. size + 1, NEW b \in Reached(g[n]),
                      NEW rule \in {r \in Constraints : r[2] = timing_command(g[n].cmd)},
                      NEW m \in Earlier(g, n, rule, b),
                      Cardinality({k \in Earlier(g, n, rule, b) : k >= m}) >= rule[4]
               PROVE  g[n].at >= g[m].at + rule[5]
  BY <1>2 DEF Legal
<1>7. m \in 1 .. n - 1
  BY DEF Preceding
<1> HIDE DEF Earlier
<1>8. CASE n \in 1 .. size
  <2>1. \A k \in 1 .. n : g[k] = h[k]
    BY <1>2, <1>8
  <2> DEFINE before == Earlier(h, n, rule, b)
             found == Earlier(g, n, rule, b)
  <2>2. found = before
    BY <1>1, <1>8, <2>1 DEF Preceding, Earlier
  <2>3. g[n] = h[n] /\ g[m] = h[m]
    BY <1>7, <1>8, <2>1
  <2>6. m \in found /\ Cardinality({k \in found : k >= m}) >= rule[4]
    BY <1>6 DEF found
  <2> HIDE DEF before, found
  <2>4. b \in Reached(h[n]) /\ rule \in {r \in Constraints : r[2] = timing_command(h[n].cmd)}
        /\ m \in before /\ Cardinality({k \in before : k >= m}) >= rule[4]
    BY <2>2, <2>3, <2>6
  <2>5. h[n].at >= h[m].at + rule[5]
    BY <1>1, <1>4, <1>8, <2>4 DEF Legal, before, Earlier
  <2> QED BY <2>3, <2>5
<1>9. CASE n \notin 1 .. size
  <2>1. n = size + 1
    BY <1>1, <1>9
  <2>2. g[n] = e /\ m \in 1 .. size
    BY <1>1, <1>2, <1>7, <2>1
  <2> DEFINE before == {j \in 1 .. size : /\ timing_command(h[j].cmd) = rule[1]
                                          /\ \E x \in Reached(h[j]) : SameResource(rule[3], x, b)}
             found == Earlier(g, n, rule, b)
  <2>3. found = before
    <3>1. n - 1 = size
      BY <1>1, <2>1
    <3> QED BY <1>2, <3>1 DEF Preceding, Earlier
  <2>8. m \in found /\ Cardinality({k \in found : k >= m}) >= rule[4]
    BY <1>6 DEF found
  <2> HIDE DEF before, found
  <2>4. m \in before /\ Cardinality({k \in before : k >= m}) >= rule[4]
    BY <2>3, <2>8
  <2>5. b \in IF command \in ChannelScoped THEN Bank ELSE {bank}
    BY <1>3, <2>2
  <2>6. rule[2] = timing_command(command) /\ rule \in Constraints
    BY <1>3, <2>2
  <2>7. t >= h[m].at + rule[5]
    BY <2>2, <2>4, <2>5, <2>6, CommandIsLegal DEF before
  <2> QED BY <1>2, <1>3, <2>2, <2>7
<1> QED BY <1>8, <1>9

\* The pending flags are those of the refresh policy, which decides whether all
\* banks are ever precharged at once.
ByPolicy(c) == IF RefreshPolicy = "AllBank"
               THEN \A b \in Bank : ~c.banks[b].refresh_pending
               ELSE ~c.refresh_pending /\ \A i \in 1 .. Len(c.history) : c.history[i].cmd # "PREA"

AllClosed(c) == \A b \in Bank : ~IsOpen(c.banks[b])

\* A precharge of all banks can delay nothing any more once an activation was issued
\* after it; until then the banks are closed, and a refresh of all banks comes first.
Spent(c) ==
    \A i \in 1 .. Len(c.history) : c.history[i].cmd = "PREA" =>
        \/ c.history[i].at + Timing.t_rfc <= c.command_bus["row"]
        \/ /\ AllClosed(c)
           /\ \/ c.refresh_pending
              \/ \E k \in 1 .. Len(c.history) : c.history[k].cmd = "REFab" /\ c.history[i].at <= c.history[k].at

Lawful(c) == Legal(c.history) /\ ByPolicy(c) /\ Spent(c)

\* When the controller issues a command, and what it does to the banks and the flags.
Permitted(c, d, command) ==
    /\ command = "ACT" => ~c.refresh_pending
    /\ command = "PRE" => AnyOpen(c)
    /\ command = "PREA" => RefreshPolicy = "AllBank" /\ AllClosed(d) /\ d.refresh_pending
    /\ command = "REFpb" => RefreshPolicy # "AllBank"
    /\ command # "ACT" => \A b \in Bank : IsOpen(d.banks[b]) => IsOpen(c.banks[b])
    /\ \A b \in Bank : d.banks[b].refresh_pending => c.banks[b].refresh_pending
    /\ d.refresh_pending => c.refresh_pending
    /\ c.refresh_pending => d.refresh_pending \/ command = "REFab"

\* An activation waits for a refresh of all banks to end.
LEMMA RefreshHoldsActivation ==
  ASSUME NEW c \in Controller, TimeOrdered(c.history), NEW bank \in Bank, NEW now \in Int, NEW t \in Int,
         earliest_issue(c.history, "ACT", bank, now) <= t,
         NEW k \in 1 .. Len(c.history), c.history[k].cmd = "REFab"
  PROVE  t >= c.history[k].at + Timing.t_rfc
<1> DEFINE h == c.history
           rule == <<"REFab", "ACT", "Channel", 1, Timing.t_rfc>>
           past == HistoryOf(h, "REFab", "Channel", bank)
           since == {j \in past : j >= k}
<1>1. h \in Seq(Entry) /\ Len(h) \in Nat /\ DOMAIN h = 1 .. Len(h) /\ TimeOrdered(h)
  BY DEF Controller
<1>2. rule \in Constraints /\ rule[1] = "REFab" /\ rule[3] = "Channel" /\ rule[4] = 1 /\ rule[5] = Timing.t_rfc
      /\ rule[2] = timing_command("ACT")
  BY ConstraintKinds DEF timing_command
<1>3. k \in past /\ past \in SUBSET (1 .. Len(h))
  BY <1>1 DEF HistoryOf, SameResource, timing_command
<1>4. earliest_issue(h, "ACT", bank, now) <= t /\ k \in 1 .. Len(h)
  OBVIOUS
<1> HIDE DEF h, past, rule
<1>5. IsFiniteSet(1 .. Len(h)) /\ 1 .. Len(h) \in SUBSET Int
  <2>1. Len(h) \in Int
    BY <1>1
  <2>2. IsFiniteSet(1 .. Len(h))
    BY <2>1, FS_Interval
  <2> QED BY <2>2
<1>6. since \in SUBSET (1 .. Len(h)) /\ k \in since
  BY <1>3, <1>5
<1> HIDE DEF since
<1>7. IsFiniteSet(since)
  BY <1>5, <1>6, FS_Subset
<1>8. Cardinality(since) \in Nat /\ Cardinality(since) # 0
  BY <1>6, <1>7, FS_CardinalityType, FS_EmptySet
<1>9. Cardinality(since) >= rule[4]
  BY <1>2, <1>8
<1>10. k \in HistoryOf(h, rule[1], rule[3], bank)
       /\ Cardinality({j \in HistoryOf(h, rule[1], rule[3], bank) : j >= k}) >= rule[4]
  BY <1>2, <1>3, <1>9 DEF past, since
<1>11. t >= h[k].at + rule[5]
  BY <1>1, <1>2, <1>4, <1>10, IssueObeys
<1> QED BY <1>2, <1>11 DEF h

\* So no precharge of all banks is overlooked,
LEMMA NothingOverlooked ==
  ASSUME NEW c \in Controller, NEW d, Lawful(c), TimeOrdered(c.history), ~Custom,
         NEW command \in Command, NEW bank \in Bank, NEW now \in Int, NEW t \in Int,
         earliest_command(c, command, bank, now) <= t, Permitted(c, d, command)
  PROVE  NoneOverlooked(c.history, command, t)
<1> SUFFICES ASSUME NEW i \in 1 .. Len(c.history), c.history[i].cmd = "PREA", command \in {"ACT", "PRE", "REFpb"}
             PROVE  command # "REFpb" /\ c.history[i].at + Timing.t_rfc <= t
  BY DEF NoneOverlooked
<1>1. command # "REFpb"
  BY DEF Lawful, ByPolicy, Permitted
<1>2. command_bus(command) = "row"
  BY DEF command_bus, DataCommands
<1>3. c.history[i] \in Entry
  BY DEF Controller
<1>4. c.history[i].at \in Int /\ Timing.t_rfc \in Nat
  BY <1>3, TimingIsNat DEF Entry, Parameters
<1>5. CASE c.history[i].at + Timing.t_rfc <= c.command_bus["row"]
  <2>1. /\ earliest_command(c, command, bank, now) \in Int
        /\ earliest_command(c, command, bank, now) >= c.command_bus["row"]
    BY <1>2, EarliestCommandFacts
  <2>2. c.command_bus["row"] \in Int
    <3>1. c.command_bus \in [{"unified", "row", "column"} -> Int]
      BY DEF Controller
    <3> QED BY <3>1
  <2>3. c.history[i].at + Timing.t_rfc <= t
    BY <1>4, <1>5, <2>1, <2>2
  <2> QED BY <1>1, <2>3
<1>6. CASE ~ (c.history[i].at + Timing.t_rfc <= c.command_bus["row"])
  <2>1. /\ AllClosed(c)
        /\ \/ c.refresh_pending
           \/ \E k \in 1 .. Len(c.history) : c.history[k].cmd = "REFab" /\ c.history[i].at <= c.history[k].at
    BY <1>6 DEF Lawful, Spent
  <2>2. command = "ACT"
    BY <1>1, <2>1 DEF Permitted, AllClosed, AnyOpen
  <2>3. PICK k \in 1 .. Len(c.history) : c.history[k].cmd = "REFab" /\ c.history[i].at <= c.history[k].at
    BY <2>1, <2>2 DEF Permitted
  <2>4. earliest_issue(c.history, "ACT", bank, now) <= t
    <3>1. /\ earliest_command(c, command, bank, now) \in Int
          /\ \A b \in IF ~Custom /\ command \in ChannelScoped THEN Bank ELSE {bank} :
                 earliest_command(c, command, bank, now) >= earliest_issue(c.history, command, b, now)
      BY EarliestCommandFacts
    <3>2. earliest_command(c, command, bank, now) >= earliest_issue(c.history, "ACT", bank, now)
      BY <2>2, <3>1 DEF ChannelScoped
    <3>3. c.history \in Seq(Entry)
      BY DEF Controller
    <3>4. earliest_issue(c.history, "ACT", bank, now) \in Int
      BY <3>3, EarliestIssueFacts
    <3> QED BY <3>1, <3>2, <3>4
  <2>5. t >= c.history[k].at + Timing.t_rfc
    BY <2>3, <2>4, RefreshHoldsActivation
  <2>6. c.history[k] \in Entry
    BY DEF Controller
  <2>7. c.history[k].at \in Int
    BY <2>6 DEF Entry
  <2> QED BY <1>1, <1>4, <2>3, <2>5, <2>7
<1> QED BY <1>5, <1>6

\* and recording a permitted command at a legal time, after the others, keeps the law.
LEMMA LawfulStep ==
  ASSUME NEW c \in Controller, NEW d, ~Custom, RefreshDominates, Lawful(c),
         TimeOrdered(c.history), NEW command \in Command, NEW bank \in Bank, NEW now \in Int, NEW t \in Int,
         NoLaterThan(c.history, t), earliest_command(c, command, bank, now) <= t,
         Records(c, d, command, bank, t), Permitted(c, d, command)
  PROVE  Lawful(d)
<1> DEFINE h == c.history
           g == d.history
           n == Len(h)
           until == t + command_duration(command)
<1>1. NoneOverlooked(h, command, t)
  BY NothingOverlooked
<1>2. Legal(g)
  BY <1>1, LegalStep DEF Lawful
<1>3. h \in Seq(Entry) /\ n \in Nat /\ \A i \in 1 .. n : h[i] \in Entry
  BY DEF Controller
<1>4. Len(g) = n + 1 /\ g[n + 1].cmd = command /\ g[n + 1].at = t /\ \A i \in 1 .. n : g[i] = h[i]
  BY <1>3 DEF Records
<1>5. /\ c.command_bus["row"] \in Int /\ d.command_bus["row"] \in Int /\ c.command_bus["row"] <= d.command_bus["row"]
      /\ command = "ACT" => t <= d.command_bus["row"]
  <2>1. c.command_bus \in [{"unified", "row", "column"} -> Int]
    BY DEF Controller
  <2>2. d.command_bus = [c.command_bus EXCEPT ![command_bus(command)] = until]
    BY DEF Records
  <2>3. until \in Int /\ until >= t
    BY DurationFacts
  <2>4. /\ earliest_command(c, command, bank, now) \in Int
        /\ earliest_command(c, command, bank, now) >= c.command_bus[command_bus(command)]
    BY EarliestCommandFacts
  <2>5. command = "ACT" => command_bus(command) = "row"
    BY DEF command_bus, DataCommands
  <2> HIDE DEF until
  <2>6. CASE command_bus(command) = "row"
    <3>1. d.command_bus["row"] = until /\ c.command_bus["row"] \in Int
      BY <2>1, <2>2, <2>6
    <3> QED BY <2>3, <2>4, <2>6, <3>1
  <2>7. CASE command_bus(command) # "row"
    <3>1. d.command_bus["row"] = c.command_bus["row"] /\ c.command_bus["row"] \in Int
      BY <2>1, <2>2, <2>7
    <3> QED BY <2>5, <2>7, <3>1
  <2> QED BY <2>6, <2>7
<1>6. Timing.t_rfc \in Nat /\ \A i \in 1 .. n : h[i].at \in Int /\ h[i].at <= t
  BY <1>3, TimingIsNat DEF Entry, Parameters, NoLaterThan
<1>7. Permitted(c, d, command) /\ NoneOverlooked(h, command, t) /\ ByPolicy(c) /\ Spent(c)
  BY <1>1 DEF Lawful
<1>h. h = c.history /\ n = Len(c.history) /\ g = d.history
  OBVIOUS
<1> HIDE DEF h, g, n, until
<1>8. ByPolicy(d)
  <2>1. CASE RefreshPolicy = "AllBank"
    BY <1>7, <2>1 DEF ByPolicy, Permitted
  <2>2. CASE RefreshPolicy # "AllBank"
    <3>1. ~d.refresh_pending /\ command # "PREA"
      BY <1>7, <2>2 DEF ByPolicy, Permitted
    <3>2. ASSUME NEW i \in 1 .. n + 1 PROVE g[i].cmd # "PREA"
      <4>1. CASE i = n + 1
        BY <1>4, <3>1, <4>1
      <4>2. CASE i # n + 1
        <5>1. i \in 1 .. n
          BY <1>3, <4>2
        <5> QED BY <1>4, <1>7, <1>h, <2>2, <5>1 DEF ByPolicy
      <4> QED BY <4>1, <4>2
    <3> QED BY <1>4, <1>h, <2>2, <3>1, <3>2 DEF ByPolicy
  <2> QED BY <2>1, <2>2
<1>9. Spent(d)
  <2> SUFFICES ASSUME NEW i \in 1 .. n + 1, g[i].cmd = "PREA"
               PROVE  \/ g[i].at + Timing.t_rfc <= d.command_bus["row"]
                      \/ /\ AllClosed(d)
                         /\ \/ d.refresh_pending
                            \/ \E k \in 1 .. n + 1 : g[k].cmd = "REFab" /\ g[i].at <= g[k].at
    BY <1>4, <1>h DEF Spent
  <2>1. CASE i = n + 1
    BY <1>4, <1>7, <2>1 DEF Permitted
  <2>2. CASE i # n + 1
    <3>1. i \in 1 .. n
      BY <1>3, <2>2
    <3>2. g[i] = h[i] /\ h[i].at \in Int /\ h[i].at <= t /\ h[i].cmd = "PREA"
      BY <1>4, <1>6, <3>1
    <3>3. CASE h[i].at + Timing.t_rfc <= c.command_bus["row"]
      <4>1. h[i].at + Timing.t_rfc <= d.command_bus["row"]
        BY <1>5, <1>6, <3>2, <3>3
      <4> QED BY <3>2, <4>1
    <3>4. CASE ~ (h[i].at + Timing.t_rfc <= c.command_bus["row"])
      <4>1. /\ AllClosed(c)
            /\ \/ c.refresh_pending
               \/ \E k \in 1 .. n : h[k].cmd = "REFab" /\ h[i].at <= h[k].at
        BY <1>7, <1>h, <3>1, <3>2, <3>4 DEF Spent
      <4>2. CASE command = "ACT"
        <5>1. h[i].at + Timing.t_rfc <= t
          BY <1>7, <1>h, <3>1, <3>2, <4>2 DEF NoneOverlooked
        <5>2. t \in Int /\ t <= d.command_bus["row"] /\ d.command_bus["row"] \in Int
          BY <1>5, <4>2
        <5>3. h[i].at + Timing.t_rfc <= d.command_bus["row"]
          BY <1>6, <3>2, <5>1, <5>2
        <5> QED BY <3>2, <5>3
      <4>3. CASE command # "ACT"
        <5>1. AllClosed(d)
          BY <1>7, <4>1, <4>3 DEF Permitted, AllClosed
        <5>2. CASE c.refresh_pending
          <6>1. d.refresh_pending \/ command = "REFab"
            BY <1>7, <5>2 DEF Permitted
          <6>2. ASSUME command = "REFab" PROVE \E k \in 1 .. n + 1 : g[k].cmd = "REFab" /\ g[i].at <= g[k].at
            <7>1. n + 1 \in 1 .. n + 1
              BY <1>3
            <7> QED BY <1>4, <3>2, <6>2, <7>1
          <6> QED BY <5>1, <6>1, <6>2
        <5>3. CASE \E k \in 1 .. n : h[k].cmd = "REFab" /\ h[i].at <= h[k].at
          <6>1. PICK k \in 1 .. n : h[k].cmd = "REFab" /\ h[i].at <= h[k].at
            BY <5>3
          <6>2. k \in 1 .. n + 1 /\ g[k] = h[k]
            BY <1>3, <1>4
          <6> QED BY <3>2, <5>1, <6>1, <6>2
        <5> QED BY <4>1, <5>2, <5>3
      <4> QED BY <4>2, <4>3
    <3> QED BY <3>3, <3>4
  <2> QED BY <2>1, <2>2
<1> QED BY <1>2, <1>8, <1>9, <1>h DEF Lawful

\* A step of a maintenance keeps the law: a bank is precharged because it is open, and
\* all banks are precharged for the refresh of all banks that is pending.
LEMMA MaintenanceLawful ==
  ASSUME NEW c \in Controller, ~Custom, RefreshDominates, Tracked(c), Lawful(c), MaintenanceIsPending(c),
         NEW now \in Int, NEW time \in Int,
         choose_maintenance(c, now).ready_at <= time, DataNoLaterThan(c.history, time)
  PROVE  Lawful(issue_maintenance(c, choose_maintenance(c, now), time))
<1> DEFINE m == choose_maintenance(c, now)
           d == issue_maintenance(c, m, time)
<1>1. /\ m \in MaintenanceStep /\ m.command \in {m.requested, "PRE", "PREA"}
      /\ m.requested = IF c.refresh_pending THEN "REFab"
                       ELSE IF c.banks[m.bank].rfm_pending THEN "RFMpb" ELSE "REFpb"
      /\ c.refresh_pending \/ c.banks[m.bank].rfm_pending \/ c.banks[m.bank].refresh_pending
      /\ m = MaintenanceFor(c, m.requested, m.bank, now)
  BY ChosenMaintenance
<1>2. m.ready_at <= time
  OBVIOUS
<1>3. NoLaterThan(d.history, time)
  BY MaintenanceTracks
<1> HIDE DEF m
<1>4. Records(c, d, m.command, m.bank, time) /\ MaintenanceEffect(c, d, m)
  BY <1>1, MaintenanceEffects
<1> HIDE DEF d
<1>5. m.command \in Command /\ m.bank \in Bank /\ m.requested \in {"REFab", "REFpb", "RFMpb"} /\ m.ready_at \in Int
  BY <1>1 DEF MaintenanceStep
<1>6. /\ m.ready_at = earliest_command(c, m.command, m.bank, now)
      /\ m.command = PlannedCommand(m.requested, 0, c.banks[m.bank], AnyOpen(c))
  <2> DEFINE command == PlannedCommand(m.requested, 0, c.banks[m.bank], AnyOpen(c))
             at == earliest_command(c, command, m.bank, now)
  <2>1. m = [requested |-> m.requested, command |-> command, bank |-> m.bank, ready_at |-> at]
    BY <1>1 DEF MaintenanceFor, MaintenanceBy
  <2> HIDE DEF command, at
  <2>2. m.command = command /\ m.ready_at = at
    BY <2>1
  <2> QED BY <2>2 DEF at, command
<1>7. /\ m.command = "PRE" => IsOpen(c.banks[m.bank])
      /\ m.command = "PREA" => m.requested = "REFab"
  <2>1. AnyOpen(c) \in BOOLEAN
    BY DEF AnyOpen
  <2> QED BY <1>5, <1>6, <2>1, PlannedPrecharge
<1>8. NoLaterThan(c.history, time)
  <2>1. c.history \in Seq(Entry)
    BY DEF Controller
  <2> DEFINE n == Len(c.history)
  <2>2. n \in Nat /\ Len(d.history) = n + 1 /\ \A i \in 1 .. n : d.history[i] = c.history[i]
    BY <1>4, <2>1 DEF Records
  <2>3. \A i \in 1 .. n : i \in 1 .. Len(d.history)
    BY <2>2
  <2> QED BY <1>3, <2>2, <2>3 DEF NoLaterThan
<1>9. Permitted(c, d, m.command)
  <2>1. m.command # "ACT"
    BY <1>1, <1>5
  <2>2. m.command = "PRE" => AnyOpen(c)
    BY <1>5, <1>7 DEF AnyOpen
  <2>3. ASSUME m.command = "PREA" PROVE RefreshPolicy = "AllBank" /\ AllClosed(d) /\ d.refresh_pending
    <3>1. c.refresh_pending
      BY <1>1, <1>7, <2>3
    <3>2. RefreshPolicy = "AllBank"
      BY <3>1 DEF Lawful, ByPolicy
    <3>3. AllClosed(d)
      BY <1>4, <2>3 DEF MaintenanceEffect, AllClosed, IsOpen, ChannelScoped
    <3>4. ~IsFinal(m)
      BY <1>7, <2>3 DEF IsFinal
    <3> QED BY <1>4, <3>1, <3>2, <3>3, <3>4 DEF MaintenanceEffect
  <2>4. ASSUME m.command = "REFpb" PROVE RefreshPolicy # "AllBank"
    <3>1. m.requested = "REFpb"
      BY <1>1, <2>4
    <3>2. c.banks[m.bank].refresh_pending
      BY <1>1, <3>1
    <3> QED BY <1>5, <3>2 DEF Lawful, ByPolicy
  <2>5. ASSUME NEW b \in Bank PROVE /\ IsOpen(d.banks[b]) => IsOpen(c.banks[b])
                                    /\ d.banks[b].refresh_pending => c.banks[b].refresh_pending
    BY <1>4 DEF MaintenanceEffect, IsOpen
  <2>6. d.refresh_pending => c.refresh_pending
    BY <1>4 DEF MaintenanceEffect
  <2>7. c.refresh_pending => d.refresh_pending \/ m.command = "REFab"
    BY <1>1, <1>4 DEF MaintenanceEffect, IsFinal
  <2> QED BY <2>1, <2>2, <2>3, <2>4, <2>5, <2>6, <2>7 DEF Permitted
<1>10. earliest_command(c, m.command, m.bank, now) <= time /\ TimeOrdered(c.history)
  BY <1>2, <1>6 DEF Tracked
<1>11. Lawful(d)
  BY <1>4, <1>5, <1>8, <1>9, <1>10, LawfulStep
<1> QED BY <1>11 DEF d, m

\* A standard precharges a bank for an access only when it is open.
LEMMA PrechargedIsOpen ==
  ASSUME ~Custom, NEW requested \in DataCommands, NEW row, NEW bank,
         PlannedCommand(requested, row, bank, IsOpen(bank)) = "PRE"
  PROVE  IsOpen(bank)
<1> DEFINE matching == {rule \in Prerequisites : /\ rule[1] = requested
                                                 /\ Meets(rule[2], row, bank, IsOpen(bank))}
<1>1. IF matching = {} THEN requested = "PRE" ELSE (CHOOSE rule \in matching : TRUE)[3] = "PRE"
  BY DEF PlannedCommand, resolve_prerequisite
<1>2. ASSUME NEW rule \in matching, rule[3] = "PRE" PROVE IsOpen(bank)
  <2>1. rule \in Prerequisites /\ rule[1] = requested /\ Meets(rule[2], row, bank, IsOpen(bank))
    OBVIOUS
  <2>2. rule[2] = "DifferentRow"
    BY <1>2, <2>1 DEF Prerequisites, DataCommands
  <2> QED BY <2>1, <2>2 DEF Meets
<1>3. requested # "PRE"
  BY DEF DataCommands
<1> HIDE DEF matching
<1>4. matching # {}
  BY <1>1, <1>3
<1>5. (CHOOSE rule \in matching : TRUE) \in matching
  BY <1>4
<1> QED BY <1>1, <1>2, <1>4, <1>5

\* What issue does to the banks: only an activation opens one, and no refresh is asked for.
LEMMA IssueBanks ==
  ASSUME NEW c \in Controller, NEW x \in Candidate, x.sequence \in DOMAIN c.queue, NEW time
  PROVE  LET d == issue(c, x, time).c
         IN  /\ d.refresh_pending = c.refresh_pending
             /\ \A b \in Bank : /\ d.banks[b].refresh_pending = c.banks[b].refresh_pending
                                /\ x.command # "ACT" /\ IsOpen(d.banks[b]) => IsOpen(c.banks[b])
<1> DEFINE access == c.queue[x.sequence]
           command == x.command
           issued == CommandIssued(c, command, access.row, access.bank, time)
           d == issue(c, x, time).c
<1>1. access.bank \in Bank /\ access.row \in Nat /\ command \in Command /\ command \in AccessCommand
  <2>1. access \in QueuedAccess
    BY DEF Controller
  <2>2. command \in AccessCommand
    BY DEF Candidate
  <2> QED BY <2>1, <2>2 DEF QueuedAccess, AccessCommand, Command, BankScoped
<1>2. c.banks \in [Bank -> SoundBank]
  BY DEF Controller
<1>3. /\ issued.refresh_pending = c.refresh_pending
      /\ issued.banks = apply_transition(command, access.row, c.banks, access.bank)
      /\ {"queue", "banks", "data_bus", "fault", "refresh_pending"} \subseteq DOMAIN issued
  BY DEF CommandIssued, Controller
<1> DEFINE Kept(b, e) == /\ e.refresh_pending = b.refresh_pending
                         /\ command # "ACT" /\ IsOpen(e) => IsOpen(b)
<1>4. ASSUME NEW b \in Bank
      PROVE  issued.banks[b] \in BankState /\ Kept(c.banks[b], issued.banks[b])
  <2> DEFINE bank == c.banks[b]
             after == BankAfter(command, access.row, bank)
  <2>1. bank \in SoundBank /\ bank \in BankState
    BY <1>2 DEF SoundBank
  <2> HIDE DEF bank
  <2>2. issued.banks[b] = IF command \in ChannelScoped \/ b = access.bank THEN after ELSE bank
    BY <1>2, <1>3 DEF apply_transition, bank
  <2>3. after \in SoundBank /\ after.refresh_pending = bank.refresh_pending
    BY <1>1, <2>1, BankAfterFacts
  <2>4. ASSUME command # "ACT" PROVE after = bank \/ after.row = None
    <3> HIDE DEF command
    <3> QED BY <2>1, <2>4 DEF BankAfter, BankState
  <2> HIDE DEF after, command, issued, access
  <2>5. after \in BankState
    BY <2>3 DEF SoundBank
  <2>6. Kept(bank, after) /\ Kept(bank, bank)
    BY <2>3, <2>4 DEF IsOpen
  <2> QED BY <2>1, <2>2, <2>5, <2>6 DEF bank
<1>5. DOMAIN issued.banks = Bank
  BY <1>2, <1>3 DEF apply_transition
<1>6. /\ d.refresh_pending = issued.refresh_pending
      /\ \A b \in Bank : \/ d.banks[b] = issued.banks[b]
                         \/ \E flag : d.banks[b] = [issued.banks[b] EXCEPT !.precharge_pending = flag]
                         \/ d.banks[b] = CountActivation(issued.banks[b])
  <2>1. CASE command \in DataCommands
    <3>1. d = IssueData(c, command, x.sequence, time).c
      BY <2>1 DEF issue
    <3> DEFINE bus == PseudoChannelOf(access.bank)
               done_at == Max({time + CasLatency(access.op), c.data_bus[bus]}) + BurstTime
    <3>2. d = [issued EXCEPT !.queue = Without(@, Served(c, x.sequence)), !.data_bus[bus] = done_at,
                             !.banks[access.bank].precharge_pending = @ \/ (Custom /\ RowPolicy = "Closed"),
                             !.fault = @ \/ c.banks[access.bank].row # access.row]
      BY <3>1 DEF IssueData
    <3> HIDE DEF d, issued
    <3> QED BY <1>1, <1>3, <1>5, <3>2
  <2>2. CASE command \notin DataCommands
    <3>1. d = IF command = "ACT" THEN [issued EXCEPT !.banks[access.bank] = CountActivation(@),
                                        !.queue[x.sequence].activated = TRUE,
                                        !.queue[x.sequence].first_at = FirstAt(access, time)]
                    ELSE [issued EXCEPT !.queue[x.sequence].first_at = FirstAt(access, time)]
      BY <2>2 DEF issue
    <3> HIDE DEF d, issued
    <3> QED BY <1>1, <1>3, <1>5, <3>1
  <2> QED BY <2>1, <2>2
<1>7. ASSUME NEW bank \in BankState
      PROVE  /\ \A flag : LET e == [bank EXCEPT !.precharge_pending = flag]
                          IN  e.refresh_pending = bank.refresh_pending /\ e.row = bank.row
             /\ CountActivation(bank).refresh_pending = bank.refresh_pending /\ CountActivation(bank).row = bank.row
  BY DEF BankState, CountActivation
<1> HIDE DEF issued, d, command, access
<1>8. ASSUME NEW b \in Bank PROVE Kept(c.banks[b], d.banks[b])
  <2>1. issued.banks[b] \in BankState /\ Kept(c.banks[b], issued.banks[b])
    BY <1>4
  <2>2. d.banks[b].refresh_pending = issued.banks[b].refresh_pending /\ d.banks[b].row = issued.banks[b].row
    <3> DEFINE bank == issued.banks[b]
    <3>1. CASE d.banks[b] = bank
      BY <3>1
    <3>2. CASE \E flag : d.banks[b] = [bank EXCEPT !.precharge_pending = flag]
      <4>1. PICK flag : d.banks[b] = [bank EXCEPT !.precharge_pending = flag]
        BY <3>2
      <4> HIDE DEF bank
      <4>2. bank \in BankState
        BY <2>1 DEF bank
      <4>3. d.banks[b].refresh_pending = bank.refresh_pending /\ d.banks[b].row = bank.row
        BY <1>7, <4>1, <4>2
      <4> QED BY <4>3 DEF bank
    <3>3. CASE d.banks[b] = CountActivation(bank)
      BY <1>7, <2>1, <3>3
    <3> QED BY <1>6, <3>1, <3>2, <3>3
  <2> QED BY <2>1, <2>2 DEF IsOpen
<1> QED BY <1>3, <1>6, <1>8 DEF d, command

\* The fields that the law is about.
SameLaws(c, d) == /\ d.history = c.history /\ d.command_bus = c.command_bus
                  /\ d.banks = c.banks /\ d.refresh_pending = c.refresh_pending

LEMMA LawsOnly ==
  ASSUME NEW c, NEW d, Lawful(c), SameLaws(c, d)
  PROVE  Lawful(d)
<1>1. d.history = c.history /\ d.command_bus = c.command_bus /\ d.banks = c.banks /\ d.refresh_pending = c.refresh_pending
  BY DEF SameLaws
<1>2. AllClosed(d) <=> AllClosed(c)
  BY <1>1 DEF AllClosed
<1>3. ByPolicy(d)
  BY <1>1 DEF Lawful, ByPolicy
<1>4. Spent(d)
  BY <1>1, <1>2 DEF Lawful, Spent
<1> QED BY <1>1, <1>3, <1>4 DEF Lawful

\* A refresh falls due by the policy.
LEMMA FallsDueLawful ==
  ASSUME NEW c \in Controller, Lawful(c)
  PROVE  Lawful(RefreshFallsDue(c))
<1> DEFINE d == RefreshFallsDue(c)
<1>1. d.history = c.history /\ d.command_bus = c.command_bus
  BY DEF RefreshFallsDue, Controller
<1>2. c.banks \in [Bank -> SoundBank] /\ c.next_bank \in Bank /\ \A b \in Bank : c.banks[b] \in BankState
  BY DEF Controller, SoundBank
<1>3. /\ c.refresh_pending => d.refresh_pending
      /\ RefreshPolicy # "AllBank" => d.refresh_pending = c.refresh_pending
      /\ RefreshPolicy = "AllBank" => d.banks = c.banks
  BY DEF RefreshFallsDue, Controller
<1>4. ASSUME NEW b \in Bank PROVE IsOpen(d.banks[b]) <=> IsOpen(c.banks[b])
  <2>1. CASE RefreshPolicy = "AllBank"
    BY <1>3, <2>1
  <2>2. CASE RefreshPolicy # "AllBank"
    <3>1. d.banks = [c.banks EXCEPT ![c.next_bank].refresh_pending = TRUE]
      BY <2>2 DEF RefreshFallsDue, Controller
    <3> DEFINE e == c.banks[c.next_bank]
    <3>2. d.banks[b] = IF b = c.next_bank THEN [e EXCEPT !.refresh_pending = TRUE] ELSE c.banks[b]
      BY <1>2, <3>1
    <3>3. e \in BankState
      BY <1>2
    <3> HIDE DEF e
    <3>4. [e EXCEPT !.refresh_pending = TRUE].row = e.row
      BY <3>3 DEF BankState
    <3> QED BY <3>2, <3>4 DEF IsOpen, e
  <2> QED BY <2>1, <2>2
<1> HIDE DEF d
<1>5. ByPolicy(d)
  <2>1. CASE RefreshPolicy = "AllBank"
    BY <1>3, <2>1 DEF Lawful, ByPolicy
  <2>2. CASE RefreshPolicy # "AllBank"
    BY <1>1, <1>3, <2>2 DEF Lawful, ByPolicy
  <2> QED BY <2>1, <2>2
<1>6. AllClosed(c) => AllClosed(d)
  BY <1>4 DEF AllClosed
<1>7. Spent(d)
  BY <1>1, <1>3, <1>6 DEF Lawful, Spent
<1> QED BY <1>1, <1>5, <1>7 DEF Lawful, d

\* A step of the loop of apply_idle_refresh issues the maintenance that is due next,
\* when it is ready and not before the cursor.
LEMMA IdleStepIssues ==
  ASSUME NEW s, OnCursor(s), RefreshIsPending(s.c), NEW i
  PROVE  \E at \in Int : /\ choose_maintenance(s.c, s.cursor).ready_at <= at /\ DataNoLaterThan(s.c.history, at)
                         /\ IdleStep(s, i).c = issue_maintenance(s.c, choose_maintenance(s.c, s.cursor), at)
<1> DEFINE m == choose_maintenance(s.c, s.cursor)
           at == Max({s.cursor, m.ready_at})
           d == issue_maintenance(s.c, m, at)
<1>1. s.c \in Controller /\ s.cursor \in Int /\ DataNoLaterThan(s.c.history, s.cursor) /\ s.c.history \in Seq(Entry)
  BY DEF OnCursor, Controller
<1>2. MaintenanceIsPending(s.c)
  BY DEF RefreshIsPending, MaintenanceIsPending
<1>3. m \in MaintenanceStep
  BY <1>1, <1>2, ChosenMaintenance
<1>4. IdleStep(s, i).c = d
  BY DEF IdleStep, IssueWhenReady, IssueIdle, AfterIdle
<1> HIDE DEF d, m
<1>5. m.ready_at \in Int
  BY <1>3 DEF MaintenanceStep
<1> DEFINE ready == m.ready_at
<1>6. ready \in Int
  BY <1>5
<1> HIDE DEF ready
<1>7. Max({s.cursor, ready}) \in Int /\ Max({s.cursor, ready}) >= s.cursor /\ Max({s.cursor, ready}) >= ready
  BY <1>1, <1>6, MaxOfTwo
<1>8. at \in Int /\ s.cursor <= at /\ m.ready_at <= at
  BY <1>1, <1>6, <1>7 DEF ready
<1> HIDE DEF at
<1>9. DataNoLaterThan(s.c.history, at)
  BY <1>1, <1>8, LaterBound
<1> QED BY <1>4, <1>8, <1>9 DEF d, m

\* So apply_idle_refresh keeps the law.
LEMMA ApplyIdleLawful ==
  ASSUME NEW c \in Controller, ~Custom, RefreshDominates, Tracked(c), Lawful(c),
         NEW when \in Int, DataNoLaterThan(c.history, when)
  PROVE  Lawful(apply_idle_refresh(c, when))
<1> DEFINE first == RefreshFallsDue(c)
           base == [c |-> first, cursor |-> Max({when, c.busy_until})]
           seq == [i \in 1 .. IdleSteps |-> i]
           n == Len(seq)
<1>1. first \in Controller /\ Tracked(first) /\ first.history = c.history /\ Lawful(first)
  BY RefreshFallsDueFacts, FallsDueTracks, FallsDueLawful
<1>2. base.c = first /\ base.cursor \in Int /\ when <= base.cursor
  <2>1. c.busy_until \in Int
    BY DEF Controller
  <2>2. Max({when, c.busy_until}) \in Int /\ Max({when, c.busy_until}) >= when
    BY <2>1, MaxOfTwo
  <2> QED BY <2>2
<1>3. IdleSteps \in Nat /\ seq \in Seq(Nat) /\ n = IdleSteps
  <2>1. IdleSteps \in Nat
    BY BankFacts DEF IdleSteps
  <2> QED BY <2>1
<1>4. apply_idle_refresh(c, when) = Idle!Looped(base, seq).c
  BY DEF apply_idle_refresh, FoldLeft, MapThenFoldSet, Max, Idle!Looped
<1> HIDE DEF base, seq, first
<1>5. PICK run : /\ run[0] = base
                 /\ \A k \in 1 .. n : run[k] = IdleStep(run[k - 1], seq[k])
                 /\ run[n] = Idle!Looped(base, seq)
  BY <1>3, Idle!LoopRuns
<1>6. n \in Nat
  BY <1>3
<1> DEFINE S == {k \in 0 .. n : OnCursor(run[k]) /\ Lawful(run[k].c)}
<1>7. 0 \in S
  <2>1. DataNoLaterThan(first.history, base.cursor)
    <3>1. c.history \in Seq(Entry)
      BY DEF Controller
    <3>2. DataNoLaterThan(c.history, base.cursor)
      BY <1>2, <3>1, LaterBound
    <3> QED BY <1>1, <3>2
  <2>2. OnCursor(base)
    BY <1>1, <1>2, <2>1 DEF OnCursor
  <2> QED BY <1>1, <1>2, <1>5, <1>6, <2>2
<1>8. ASSUME NEW k \in 0 .. n - 1, k \in S PROVE k + 1 \in S
  <2>1. k + 1 \in 1 .. n /\ (k + 1) - 1 = k /\ k + 1 \in 0 .. n
    BY <1>6
  <2>2. run[k + 1] = IdleStep(run[k], seq[k + 1])
    BY <1>5, <2>1
  <2> DEFINE s == run[k]
             i == seq[k + 1]
             t == IdleStep(s, i)
  <2>3. OnCursor(s) /\ Lawful(s.c)
    BY <1>8
  <2> HIDE DEF s, i
  <2>4. OnCursor(t) /\ (~RefreshIsPending(s.c) => t = s)
    BY <2>3, IdleStepTracks
  <2>5. CASE ~RefreshIsPending(s.c)
    BY <2>1, <2>2, <2>3, <2>4, <2>5 DEF s, i
  <2>6. CASE RefreshIsPending(s.c)
    <3>1. PICK at \in Int : /\ choose_maintenance(s.c, s.cursor).ready_at <= at /\ DataNoLaterThan(s.c.history, at)
                            /\ t.c = issue_maintenance(s.c, choose_maintenance(s.c, s.cursor), at)
      BY <2>3, <2>6, IdleStepIssues
    <3>2. s.c \in Controller /\ s.cursor \in Int /\ Tracked(s.c) /\ MaintenanceIsPending(s.c)
      BY <2>3, <2>6 DEF OnCursor, RefreshIsPending, MaintenanceIsPending
    <3> HIDE DEF t
    <3>3. Lawful(t.c)
      BY <2>3, <3>1, <3>2, MaintenanceLawful
    <3> QED BY <2>1, <2>2, <2>4, <3>3 DEF s, i, t
  <2> QED BY <2>5, <2>6
<1>9. n \in S
  <2> HIDE DEF S, n
  <2>1. \A k \in 0 .. n : k \in S
    BY <1>6, <1>7, <1>8, UpTo
  <2> QED BY <1>6, <2>1
<1> QED BY <1>4, <1>5, <1>9

\* and so does everything that fell due before an access arrives.
LEMMA PrepareLawful ==
  ASSUME NEW c \in Controller, ~Custom, RefreshDominates, Timely(c), Lawful(c)
  PROVE  Lawful(prepare_refresh_for_arrival(c))
<1> DEFINE d == prepare_refresh_for_arrival(c)
<1>1. CASE RefreshInterval = 0
  BY <1>1 DEF prepare_refresh_for_arrival
<1>2. CASE RefreshInterval # 0
  <2> DEFINE base == FirstDue(c)
             due == base.next_refresh_due
             count == Overdue(due)
             seq == [i \in 1 .. count |-> i]
             n == Len(seq)
  <2>1. RefreshInterval \in Nat \ {0}
    BY <1>2, ControllerAssumption
  <2>2. base \in Controller /\ due \in Int /\ Timely(base) /\ Lawful(base)
    <3> DEFINE first == IF c.next_refresh_due = None THEN RefreshInterval ELSE c.next_refresh_due
    <3>1. first \in Int /\ first \in Optional(Int)
      BY <2>1 DEF Controller, Optional
    <3>2. base = [c EXCEPT !.next_refresh_due = first]
      BY DEF FirstDue, Controller
    <3>3. first >= 0 \/ (c.next_refresh_due # None /\ first >= c.next_refresh_due)
      BY <2>1, <3>1
    <3> HIDE DEF first, base
    <3>4. Timely(base)
      BY <3>1, <3>2, <3>3, DueMoves
    <3>5. SameLaws(c, base)
      BY <3>2 DEF SameLaws, Controller
    <3>6. Lawful(base)
      BY <3>5, LawsOnly
    <3> QED BY <3>1, <3>2, <3>4, <3>6 DEF Controller
  <2> HIDE DEF base
  <2>3. count \in Nat
    <3> HIDE DEF due
    <3>1. CASE due > 0
      BY <2>1, <2>2, <3>1 DEF Overdue
    <3>2. CASE ~ (due > 0)
      BY <2>1, <2>2, <3>2, CatchesUp DEF Overdue
    <3> QED BY <3>1, <3>2
  <2> HIDE DEF count
  <2>4. seq \in Seq(Nat) /\ n = count
    BY <2>3
  <2>5. d = CaughtUp!Looped(base, seq)
    BY <1>2 DEF prepare_refresh_for_arrival, FoldLeft, MapThenFoldSet, Max, CaughtUp!Looped, count, base
  <2> HIDE DEF seq, due
  <2>6. PICK run : /\ run[0] = base
                   /\ \A k \in 1 .. n : run[k] = CatchUp(run[k - 1], seq[k])
                   /\ run[n] = CaughtUp!Looped(base, seq)
    BY <2>4, CaughtUp!LoopRuns
  <2> HIDE DEF n
  <2> DEFINE S == {k \in 0 .. n : run[k] \in Controller /\ run[k].next_refresh_due \in Int
                                  /\ Timely(run[k]) /\ Lawful(run[k])}
  <2>7. 0 \in S
    BY <2>2, <2>3, <2>4, <2>6 DEF due
  <2>8. ASSUME NEW k \in 0 .. n - 1, k \in S PROVE k + 1 \in S
    <3>1. k + 1 \in 1 .. n /\ (k + 1) - 1 = k /\ k + 1 \in 0 .. n
      BY <2>3, <2>4
    <3>2. run[k + 1] = CatchUp(run[k], seq[k + 1])
      BY <2>6, <3>1
    <3> DEFINE s == run[k]
               idle == apply_idle_refresh(s, s.next_refresh_due)
               t == CatchUp(s, seq[k + 1])
               later == s.next_refresh_due + RefreshInterval
    <3>3. s \in Controller /\ s.next_refresh_due \in Int /\ Timely(s) /\ Lawful(s)
      BY <2>8
    <3> HIDE DEF s
    <3>4. later \in Int /\ later >= s.next_refresh_due
      BY <2>1, <3>3
    <3>5. s.next_refresh_due # None
      BY <3>3, StandardAssumption
    <3>6. Tracked(s) /\ DataNoLaterThan(s.history, s.next_refresh_due)
      BY <3>3, <3>5 DEF Timely, Tracked, DataIsPast
    <3>7. idle \in Controller /\ SameRefresh(s, idle) /\ Timely(idle) /\ Lawful(idle)
      BY <3>3, <3>6, ApplyIdleFacts, ApplyIdleTimely, ApplyIdleLawful
    <3>8. t = [idle EXCEPT !.next_refresh_due = idle.next_refresh_due + RefreshInterval]
      BY <3>7 DEF CatchUp, Controller
    <3>9. idle.next_refresh_due = s.next_refresh_due
      BY <3>7 DEF SameRefresh
    <3> HIDE DEF idle, t
    <3>10. t = [idle EXCEPT !.next_refresh_due = later]
      BY <3>8, <3>9
    <3> HIDE DEF later
    <3>11. Timely(t)
      BY <3>4, <3>5, <3>7, <3>9, <3>10, DueMoves
    <3>12. t \in Controller /\ t.next_refresh_due = later
      BY <3>4, <3>7, <3>10 DEF Controller, Optional
    <3>13. SameLaws(idle, t)
      BY <3>7, <3>10 DEF SameLaws, Controller
    <3>14. Lawful(t)
      BY <3>7, <3>13, LawsOnly
    <3> QED BY <3>1, <3>2, <3>4, <3>11, <3>12, <3>14 DEF s, t
  <2>9. n \in S
    <3> HIDE DEF S
    <3>1. n \in Nat
      BY <2>3, <2>4
    <3>2. \A k \in 0 .. n : k \in S
      BY <2>7, <2>8, <3>1, UpTo
    <3> QED BY <3>1, <3>2
  <2>10. Lawful(d)
    <3> HIDE DEF d
    <3> QED BY <2>5, <2>6, <2>9
  <2> QED BY <2>10
<1> QED BY <1>1, <1>2

LEMMA AdmitReservedLawful ==
  ASSUME NEW c \in Controller, ~Custom, RefreshDominates, Timely(c), Lawful(c), NEW access
  PROVE  Lawful(admit_reserved(c, access))
<1> DEFINE p == prepare_refresh_for_arrival(c)
           d == admit_reserved(c, access)
<1>1. p \in Controller /\ Lawful(p)
  BY PrepareFacts, PrepareLawful
<1>2. SameLaws(p, d)
  <2>1. d = [p EXCEPT !.queue = Append(@, access), !.outstanding = @ + 1]
    BY DEF admit_reserved, Enqueued
  <2> HIDE DEF p, d
  <2> QED BY <1>1, <2>1 DEF SameLaws, Controller
<1> HIDE DEF p, d
<1>3. Lawful(d)
  BY <1>1, <1>2, LawsOnly
<1> QED BY <1>3 DEF d

LEMMA HandleRefreshLawful ==
  ASSUME NEW c \in Controller, ~Custom, RefreshDominates, Timely(c), Lawful(c)
  PROVE  Lawful(handle_refresh_event(c))
<1> DEFINE claimed == [c EXCEPT !.refresh_due_at = None]
           rearmed == [claimed EXCEPT !.next_refresh_due = RefreshInterval]
           d == handle_refresh_event(c)
<1>0. RefreshInterval \in Int /\ RefreshInterval >= 0
  BY ControllerAssumption
<1>d. d = IF c.refresh_due_at # 0 THEN c
          ELSE IF c.next_refresh_due # 0 THEN claimed
          ELSE IF c.outstanding = 0 THEN apply_idle_refresh(rearmed, 0)
          ELSE RefreshFallsDue(rearmed)
  BY DEF handle_refresh_event
<1>1. claimed \in Controller /\ SameTimes(c, claimed) /\ SameLaws(c, claimed)
  BY DEF Controller, Optional, SameTimes, SameLaws
<1> HIDE DEF claimed
<1>2. Timely(claimed) /\ Lawful(claimed)
  BY <1>1, TimesOnly, LawsOnly
<1>3. rearmed \in Controller /\ SameLaws(claimed, rearmed)
  BY <1>0, <1>1 DEF Controller, Optional, SameLaws
<1>4. Timely(rearmed)
  BY <1>0, <1>1, <1>2, DueMoves
<1> HIDE DEF rearmed
<1>5. Lawful(rearmed)
  BY <1>2, <1>3, LawsOnly
<1>6. Tracked(rearmed) /\ DataNoLaterThan(rearmed.history, 0)
  BY <1>4 DEF Timely, Tracked, DataIsPast
<1>7. Lawful(apply_idle_refresh(rearmed, 0))
  BY <1>3, <1>5, <1>6, ApplyIdleLawful
<1>8. Lawful(RefreshFallsDue(rearmed))
  BY <1>3, <1>5, FallsDueLawful
<1> HIDE DEF d
<1> QED BY <1>2, <1>7, <1>8, <1>d DEF d

\* What the candidate of an access is: its next command, at its earliest legal time.
LEMMA CandidateCommand ==
  ASSUME NEW c \in Controller, NEW i \in DOMAIN c.queue, NEW x, x = CandidateOf(c, i, 0)
  PROVE  LET access == c.queue[i]
         IN  /\ x \in Candidate /\ x.sequence = i /\ x.command \in Command /\ access.bank \in Bank
             /\ x.ready_at = earliest_command(c, x.command, access.bank, 0)
             /\ x.command = PlannedCommand(DataCommand(access.op), access.row, c.banks[access.bank],
                                           IsOpen(c.banks[access.bank]))
<1> DEFINE access == c.queue[i]
           bank == c.banks[access.bank]
           command == PlannedCommand(DataCommand(access.op), access.row, bank, IsOpen(bank))
           at == earliest_command(c, command, access.bank, 0)
           dataCommand == command \in DataCommands
           rowHit == command \in DataCommands /\ ~access.activated
<1>1. x = [sequence |-> i, command |-> command, data_command |-> dataCommand, row_hit |-> rowHit,
           priority |-> access.priority, ready_at |-> at]
  BY DEF CandidateOf, CandidateWith, NextCommand
<1>2. x \in Candidate /\ x.sequence = i
  <2> DEFINE y == CandidateOf(c, i, 0)
  <2>1. y \in Candidate /\ y.sequence = i
    BY CandidateFacts
  <2> HIDE DEF y
  <2>2. x = y
    BY DEF y
  <2> QED BY <2>1, <2>2
<1>3. access.bank \in Bank
  <2>1. access \in QueuedAccess
    BY DEF Controller
  <2> QED BY <2>1 DEF QueuedAccess
<1> HIDE DEF access, bank, command, at, dataCommand, rowHit
<1>4. x.command = command /\ x.ready_at = at
  BY <1>1
<1>5. x.command \in Command
  BY <1>2 DEF Candidate, AccessCommand, Command, BankScoped, DataCommands
<1> QED BY <1>2, <1>3, <1>4, <1>5 DEF at, command, bank, access

\* The command of an access is permitted when no maintenance is pending.
LEMMA AccessPermitted ==
  ASSUME NEW c \in Controller, ~Custom, ~MaintenanceIsPending(c),
         NEW i \in DOMAIN c.queue, NEW x, x = CandidateOf(c, i, 0)
  PROVE  Permitted(c, issue(c, x, 0).c, x.command)
<1> DEFINE access == c.queue[i]
           bank == c.banks[access.bank]
           d == issue(c, x, 0).c
<1>1. /\ x \in Candidate /\ x.sequence = i /\ access.bank \in Bank
      /\ x.command = PlannedCommand(DataCommand(access.op), access.row, bank, IsOpen(bank))
  BY CandidateCommand
<1>2. /\ d.refresh_pending = c.refresh_pending
      /\ \A b \in Bank : /\ d.banks[b].refresh_pending = c.banks[b].refresh_pending
                         /\ x.command # "ACT" /\ IsOpen(d.banks[b]) => IsOpen(c.banks[b])
  BY <1>1, IssueBanks
<1>3. ~c.refresh_pending
  BY DEF MaintenanceIsPending
<1>4. DataCommand(access.op) \in DataCommands
  BY DEF DataCommand, DataCommands
<1> HIDE DEF d, access
<1>5. x.command = "PRE" => IsOpen(bank)
  BY <1>1, <1>4, PrechargedIsOpen
<1>6. x.command = "PRE" => AnyOpen(c)
  BY <1>1, <1>5 DEF AnyOpen
<1>7. x.command \notin {"PREA", "REFpb"}
  BY <1>1 DEF Candidate, AccessCommand, DataCommands
<1> QED BY <1>2, <1>3, <1>6, <1>7 DEF Permitted, d

\* drive keeps the law.
LEMMA DriveLawful ==
  ASSUME NEW c \in Controller, ~Custom, RefreshDominates, Timely(c), Lawful(c)
  PROVE  Lawful(drive(c).c)
<1>s. \A d, wake : StepTo(d, wake).c = d
  BY DEF StepTo
<1>b. c.busy_until \in Int /\ c.history \in Seq(Entry) /\ \A i \in 1 .. Len(c.history) : c.history[i].at \in Int
  <2>1. c.busy_until \in Int /\ c.history \in Seq(Entry)
    BY DEF Controller
  <2>2. \A i \in 1 .. Len(c.history) : c.history[i] \in Entry
    BY <2>1
  <2> QED BY <2>1, <2>2 DEF Entry
<1>t. Tracked(c) /\ DataNoLaterThan(c.history, 0)
  BY DEF Timely, Tracked, DataIsPast
<1>e. ASSUME ~IsBusy(c) PROVE NoLaterThan(c.history, 0)
  BY <1>b, <1>e DEF IsBusy, NoLaterThan, Timely, Ended
<1>1. CASE IsBusy(c)
  <2>1. drive(c).c = c
    BY <1>1, <1>s DEF drive
  <2> QED BY <2>1
<1>2. CASE ~IsBusy(c) /\ MaintenanceIsPending(c)
  <2> DEFINE m == choose_maintenance(c, 0)
             d == issue_maintenance(c, m, 0)
             wake == IF IsFinal(m) THEN d.busy_until ELSE 0
  <2>1. m \in MaintenanceStep
    BY <1>2, ChosenMaintenance
  <2>2. drive(c) = IF m.ready_at > 0 THEN StepTo(c, m.ready_at) ELSE StepTo(d, wake)
    BY <1>2 DEF drive, DriveMaintenance
  <2>3. m.ready_at \in Int
    <3> HIDE DEF m
    <3> QED BY <2>1 DEF MaintenanceStep
  <2>4. ASSUME ~ (m.ready_at > 0) PROVE Lawful(d)
    <3>1. m.ready_at <= 0
      <4> HIDE DEF m
      <4> QED BY <2>3, <2>4
    <3> QED BY <1>2, <1>t, <3>1, MaintenanceLawful
  <2> HIDE DEF m, d, wake
  <2> QED BY <1>s, <2>2, <2>4
<1>3. CASE ~IsBusy(c) /\ ~MaintenanceIsPending(c)
  <2> DEFINE d == update_write_drain(c)
             x == choose_next(d, 0)
             issued == issue(d, x, 0)
  <2>1. drive(c) = IF c.queue = <<>> THEN StepTo(d, None) ELSE DriveRequest(d, x)
    BY <1>3 DEF drive
  <2>2. d \in Controller /\ d.queue = c.queue /\ SameTimes(c, d) /\ SameLaws(c, d)
    <3>1. d \in Controller /\ d.queue = c.queue
      BY WriteDrainFacts
    <3>2. d = c \/ d = [c EXCEPT !.draining = FALSE] \/ d = [c EXCEPT !.draining = TRUE]
      BY DEF update_write_drain
    <3> HIDE DEF d
    <3>3. SameTimes(c, d) /\ SameLaws(c, d)
      BY <3>2 DEF SameTimes, SameLaws, Controller
    <3> QED BY <3>1, <3>3
  <2> HIDE DEF d
  <2>3. Lawful(d) /\ TimeOrdered(d.history) /\ NoLaterThan(d.history, 0) /\ ~MaintenanceIsPending(d)
    <3>1. Lawful(d)
      BY <2>2, LawsOnly
    <3>2. TimeOrdered(d.history) /\ NoLaterThan(d.history, 0)
      BY <1>3, <1>e, <1>t, <2>2 DEF SameTimes, Tracked
    <3>3. ~MaintenanceIsPending(d)
      BY <1>3, <2>2 DEF SameLaws, MaintenanceIsPending
    <3> QED BY <3>1, <3>2, <3>3
  <2>4. CASE c.queue = <<>>
    BY <1>s, <2>1, <2>3, <2>4
  <2>5. CASE c.queue # <<>>
    <3>1. PICK i \in DOMAIN d.queue : x = CandidateOf(d, i, 0)
      BY <2>2, <2>5, ChosenAccess
    <3> HIDE DEF x
    <3> DEFINE bank == d.queue[i].bank
    <3>2. /\ x.sequence = i /\ x.command \in Command /\ bank \in Bank
          /\ x.ready_at = earliest_command(d, x.command, bank, 0)
      BY <2>2, <3>1, CandidateCommand
    <3>3. CASE x.ready_at > 0
      <4>1. drive(c).c = d
        BY <1>s, <2>1, <2>5, <3>3 DEF DriveRequest
      <4> QED BY <2>3, <4>1
    <3>4. CASE ~ (x.ready_at > 0)
      <4> DEFINE e == issued.c
      <4>1. drive(c) = [issued EXCEPT !.wake_at = 0]
        BY <2>1, <2>5, <3>4 DEF DriveRequest
      <4>2. Records(d, e, x.command, bank, 0)
        BY <2>2, <3>2, IssueRecords
      <4>3. drive(c).c = e
        <5>1. "c" \in DOMAIN issued
          <6>1. CASE x.command \in DataCommands
            BY <6>1 DEF issue, IssueData
          <6>2. CASE x.command \notin DataCommands
            BY <6>2 DEF issue
          <6> QED BY <6>1, <6>2
        <5> HIDE DEF issued
        <5> QED BY <4>1, <5>1
      <4>4. Permitted(d, e, x.command)
        BY <2>2, <2>3, <3>1, AccessPermitted
      <4> HIDE DEF e, bank
      <4>5. earliest_command(d, x.command, bank, 0) <= 0
        <5>1. earliest_command(d, x.command, bank, 0) \in Int
          BY <2>2, <3>2, EarliestCommandFacts
        <5> QED BY <3>2, <3>4, <5>1
      <4>6. Lawful(e)
        BY <2>2, <2>3, <3>2, <4>2, <4>4, <4>5, LawfulStep
      <4> QED BY <4>3, <4>6
    <3> QED BY <3>3, <3>4
  <2> QED BY <2>4, <2>5
<1> QED BY <1>1, <1>2, <1>3

LEMMA ReachOfRefresh ==
  Reach("REFab") \in Int /\ Timing.t_rfc <= Reach("REFab")
<1> DEFINE rule == <<"REFab", "ACT", "Channel", 1, Timing.t_rfc>>
           S == {0} \cup {r[5] : r \in {x \in Constraints : x[1] = timing_command("REFab")}}
<1>1. rule \in Constraints /\ rule[1] = timing_command("REFab") /\ rule[5] = Timing.t_rfc
  BY ConstraintKinds DEF timing_command
<1>2. PICK bound \in Nat : \A r \in Constraints : r[4] \in Nat \ {0} /\ r[5] \in 0 .. bound
  BY ConstraintFacts
<1> HIDE DEF rule
<1>3. Timing.t_rfc \in S
  BY <1>1
<1>4. S \in SUBSET Int /\ S # {} /\ \A x \in S : x <= bound
  BY <1>2
<1> HIDE DEF S
<1>b. bound \in Int
  OBVIOUS
<1>5. Max(S) \in S /\ \A x \in S : Max(S) >= x
  BY <1>b, <1>4, MaxBelow
<1>6. Timing.t_rfc \in Int /\ Max(S) \in Int /\ Max(S) >= Timing.t_rfc
  BY <1>3, <1>4, <1>5
<1> QED BY <1>6 DEF Reach, S

\* g has some of the entries of h, in their order and d earlier.
Thinned(h, g, f, n, d) ==
    /\ DOMAIN g = 1 .. n /\ \A i, j \in 1 .. n : i < j => f[i] < f[j]
    /\ \A k \in 1 .. n : /\ f[k] \in 1 .. Len(h)
                         /\ g[k].cmd = h[f[k]].cmd /\ g[k].bank = h[f[k]].bank
                         /\ g[k].at = h[f[k]].at - d

\* It is as legal.
LEMMA LegalThinned ==
  ASSUME NEW h \in Seq(Entry), Legal(h), NEW g, NEW n \in Nat, NEW f, NEW d \in Int, Thinned(h, g, f, n, d)
  PROVE  Legal(g)
<1>t. /\ DOMAIN g = 1 .. n /\ \A i, j \in 1 .. n : i < j => f[i] < f[j]
      /\ \A k \in 1 .. n : /\ f[k] \in 1 .. Len(h)
                           /\ g[k].cmd = h[f[k]].cmd /\ g[k].bank = h[f[k]].bank
                           /\ g[k].at = h[f[k]].at - d
  BY DEF Thinned
<1>1. Len(h) \in Nat /\ DOMAIN h = 1 .. Len(h) /\ \A i \in 1 .. Len(h) : h[i].at \in Int
  <2>1. \A i \in 1 .. Len(h) : h[i] \in Entry
    OBVIOUS
  <2> QED BY <2>1 DEF Entry
<1>2. \A k \in 1 .. n : f[k] \in 1 .. Len(h) /\ f[k] \in Int
  BY <1>1, <1>t
<1>3. \A k \in 1 .. n : Reached(g[k]) = Reached(h[f[k]])
  BY <1>t DEF Reached
<1> DEFINE Earlier(q, i, rule, b) == Preceding(q, i, rule[1], rule[3], b)
<1>4. SUFFICES ASSUME NEW i \in 1 .. n, NEW b \in Reached(g[i]),
                      NEW rule \in {r \in Constraints : r[2] = timing_command(g[i].cmd)},
                      NEW m \in Earlier(g, i, rule, b),
                      Cardinality({k \in Earlier(g, i, rule, b) : k >= m}) >= rule[4]
               PROVE  g[i].at >= g[m].at + rule[5]
  BY <1>t DEF Legal
<1> DEFINE found == Earlier(g, i, rule, b)
           before == Earlier(h, f[i], rule, b)
           later == {k \in found : k >= m}
           since == {k \in before : k >= f[m]}
<1>5. ASSUME NEW k \in found PROVE k \in 1 .. n /\ k < i /\ f[k] \in before
  <2>1. k \in 1 .. i - 1 /\ timing_command(g[k].cmd) = rule[1] /\ \E x \in Reached(g[k]) : SameResource(rule[3], x, b)
    BY DEF Preceding
  <2>2. k \in 1 .. n /\ k < i
    BY <2>1
  <2>3. f[k] \in 1 .. f[i] - 1
    BY <1>2, <1>t, <2>2
  <2>4. timing_command(h[f[k]].cmd) = rule[1] /\ Reached(g[k]) = Reached(h[f[k]])
    BY <1>3, <1>t, <2>1, <2>2
  <2> QED BY <2>1, <2>2, <2>3, <2>4 DEF Preceding
<1>6. m \in found /\ Cardinality(later) >= rule[4]
  BY <1>4
<1>7. before \in SUBSET (1 .. Len(h))
  <2>1. f[i] \in 1 .. Len(h)
    BY <1>2
  <2> QED BY <1>1, <2>1 DEF Preceding
<1> HIDE DEF found, before
<1>8. rule \in Constraints /\ rule[2] = timing_command(h[f[i]].cmd) /\ rule[4] \in Nat /\ rule[5] \in Nat
  <2>1. rule \in Constraints /\ rule[2] = timing_command(g[i].cmd)
    OBVIOUS
  <2>2. rule[4] \in Nat /\ rule[5] \in Nat
    BY <2>1, ConstraintFacts
  <2> QED BY <1>t, <2>1, <2>2
<1>9. \A k \in later : f[k] \in since
  <2> SUFFICES ASSUME NEW k \in found, k >= m PROVE f[k] \in before /\ f[k] >= f[m]
    OBVIOUS
  <2>1. k \in 1 .. n /\ f[k] \in before /\ m \in 1 .. n /\ f[k] \in Int /\ f[m] \in Int
    BY <1>2, <1>5, <1>6
  <2>2. k = m \/ m < k
    BY <2>1
  <2>3. f[k] = f[m] \/ f[m] < f[k]
    BY <1>t, <2>1, <2>2
  <2> QED BY <2>1, <2>3
<1>10. IsFiniteSet(since)
  <2>1. Len(h) \in Int
    BY <1>1
  <2>2. IsFiniteSet(1 .. Len(h))
    BY <2>1, FS_Interval
  <2>3. since \in SUBSET (1 .. Len(h))
    BY <1>7
  <2> QED BY <2>2, <2>3, FS_Subset
<1>11. \A k, l \in later : f[k] = f[l] => k = l
  <2> SUFFICES ASSUME NEW k \in later, NEW l \in later, k # l PROVE f[k] # f[l]
    OBVIOUS
  <2>1. k \in 1 .. n /\ l \in 1 .. n
    BY <1>5
  <2>2. k < l \/ l < k
    BY <2>1
  <2>3. f[k] < f[l] \/ f[l] < f[k]
    BY <1>t, <2>1, <2>2
  <2>4. f[k] \in Int /\ f[l] \in Int
    BY <1>2, <2>1
  <2> QED BY <2>3, <2>4
<1> HIDE DEF later, since
<1>12. Cardinality(later) \in Nat /\ Cardinality(since) \in Nat /\ Cardinality(later) <= Cardinality(since)
  <2> DEFINE T == {f[k] : k \in later}
             w == [k \in later |-> f[k]]
  <2>1. w \in Bijection(later, T)
    BY <1>11 DEF Bijection, Injection, Surjection, IsInjective
  <2>2. ExistsBijection(later, T)
    BY <2>1 DEF ExistsBijection
  <2>3. T \in SUBSET since
    BY <1>9
  <2> HIDE DEF T
  <2>4. IsFiniteSet(later)
    <3>1. IsFiniteSet(1 .. n)
      BY FS_Interval
    <3>2. later \in SUBSET (1 .. n)
      BY <1>5 DEF later
    <3> QED BY <3>1, <3>2, FS_Subset
  <2>5. Cardinality(T) = Cardinality(later)
    BY <2>2, <2>4, FS_Bijection
  <2>6. Cardinality(T) <= Cardinality(since)
    BY <1>10, <2>3, FS_Subset
  <2>7. Cardinality(later) \in Nat /\ Cardinality(since) \in Nat
    BY <1>10, <2>4, FS_CardinalityType
  <2> QED BY <2>5, <2>6, <2>7
<1>13. Cardinality(since) >= rule[4]
  BY <1>6, <1>8, <1>12
<1>14. f[m] \in before /\ f[i] \in DOMAIN h /\ b \in Reached(h[f[i]])
       /\ rule \in {r \in Constraints : r[2] = timing_command(h[f[i]].cmd)}
  BY <1>1, <1>2, <1>3, <1>5, <1>6, <1>8
<1>15. h[f[i]].at >= h[f[m]].at + rule[5]
  BY <1>13, <1>14 DEF Legal, before, since
<1>16. m \in 1 .. n /\ g[i].at = h[f[i]].at - d /\ g[m].at = h[f[m]].at - d
  BY <1>t, <1>5, <1>6
<1> DEFINE x == h[f[i]].at
           y == h[f[m]].at
           delay == rule[5]
<1>17. x \in Int /\ y \in Int /\ delay \in Nat
  BY <1>1, <1>2, <1>8, <1>16
<1> HIDE DEF x, y, delay
<1>18. x >= y + delay /\ g[i].at = x - d /\ g[m].at = y - d
  BY <1>15, <1>16 DEF x, y, delay
<1>19. x - d >= (y - d) + delay
  BY <1>17, <1>18
<1> QED BY <1>18, <1>19 DEF delay

\* The clock's move keeps the law: a refresh of all banks that is forgotten ended long ago.
LEMMA RebaseLawful ==
  ASSUME NEW c \in Controller, Lawful(c), NEW d \in Nat
  PROVE  Lawful(Rebase(c, d))
<1> DEFINE r == Rebase(c, d)
           h == c.history
           g == r.history
           due    == Later(c.next_refresh_due, d)
           oldest == IF due # None /\ due < 0 THEN due ELSE 0
<1>1. PICK f : \E n \in Nat : Renumbered(c, d, f, n)
  BY RebasedHistory
<1>2. PICK n \in Nat : Renumbered(c, d, f, n)
  BY <1>1
<1>3. /\ Len(g) = n /\ \A i, j \in 1 .. n : i < j => f[i] < f[j]
      /\ \A k \in 1 .. n : f[k] \in 1 .. Len(h) /\ g[k] = [h[f[k]] EXCEPT !.at = @ - d]
  BY <1>2 DEF Renumbered
<1>4. \A i \in 1 .. Len(h) : h[i] \in Entry
  BY DEF Controller
<1>5. /\ oldest \in Int /\ r.command_bus["row"] \in Int /\ c.command_bus["row"] \in Int
      /\ r.command_bus["row"] >= c.command_bus["row"] - d /\ r.command_bus["row"] >= oldest
  BY RebasedTimes
<1>6. r.banks = c.banks /\ r.refresh_pending = c.refresh_pending
  <2>1. c = [x \in DOMAIN c |-> c[x]] /\ {"banks", "refresh_pending"} \subseteq DOMAIN c
    BY DEF Controller
  <2> QED BY <2>1 DEF Rebase
<1>7. ASSUME NEW j \in 1 .. Len(h), \A k \in 1 .. n : f[k] # j
      PROVE  ~ (h[j].at - d + Reach(h[j].cmd) > oldest)
  <2>1. j \notin Recent(c, d)
    BY <1>2, <1>7 DEF Renumbered, Numbers
  <2>2. j \in DOMAIN h
    BY DEF Controller
  <2> QED BY <2>1, <2>2 DEF Recent
<1>8. g \in Seq(Entry)
  <2>1. r \in Controller
    BY RebaseFacts
  <2> HIDE DEF r
  <2> QED BY <2>1 DEF Controller
<1>9. h \in Seq(Entry) /\ Legal(h) /\ ByPolicy(c) /\ Spent(c) /\ h = c.history
  BY DEF Lawful, Controller
<1>r. r.history = g
  OBVIOUS
<1> HIDE DEF r, g, oldest, h
<1>10. DOMAIN g = 1 .. n
  BY <1>3, <1>8
<1>11. ASSUME NEW k \in 1 .. n
       PROVE  /\ h[f[k]].at \in Int /\ g[k].at = h[f[k]].at - d /\ g[k].cmd = h[f[k]].cmd
              /\ g[k].bank = h[f[k]].bank /\ f[k] \in 1 .. Len(h)
  <2>1. f[k] \in 1 .. Len(h) /\ g[k] = [h[f[k]] EXCEPT !.at = @ - d]
    BY <1>3
  <2>2. h[f[k]] \in Entry
    BY <1>4, <2>1
  <2> DEFINE e == h[f[k]]
  <2>3. e \in Entry /\ g[k] = [e EXCEPT !.at = @ - d]
    BY <2>1, <2>2
  <2> HIDE DEF e
  <2>4. e.at \in Int /\ g[k].at = e.at - d /\ g[k].cmd = e.cmd /\ g[k].bank = e.bank
    BY <2>3 DEF Entry
  <2> QED BY <2>1, <2>4 DEF e
<1>12. Legal(g)
  <2>1. Thinned(h, g, f, n, d)
    BY <1>3, <1>10, <1>11 DEF Thinned
  <2> QED BY <1>9, <2>1, LegalThinned
<1>13. ByPolicy(r)
  <2>1. CASE RefreshPolicy = "AllBank"
    BY <1>6, <1>9, <2>1 DEF ByPolicy
  <2>2. CASE RefreshPolicy # "AllBank"
    <3>1. \A k \in 1 .. n : g[k].cmd # "PREA"
      BY <1>9, <1>11, <2>2 DEF ByPolicy
    <3> QED BY <1>3, <1>6, <1>9, <1>r, <2>2, <3>1 DEF ByPolicy
  <2> QED BY <2>1, <2>2
<1>14. Timing.t_rfc \in Nat /\ Reach("REFab") \in Int /\ Timing.t_rfc <= Reach("REFab")
  BY TimingIsNat, ReachOfRefresh DEF Parameters
<1>15. Spent(r)
  <2> SUFFICES ASSUME NEW k \in 1 .. n, g[k].cmd = "PREA"
               PROVE  \/ g[k].at + Timing.t_rfc <= r.command_bus["row"]
                      \/ /\ AllClosed(r)
                         /\ \/ r.refresh_pending
                            \/ \E l \in 1 .. n : g[l].cmd = "REFab" /\ g[k].at <= g[l].at
    BY <1>3, <1>r DEF Spent
  <2> DEFINE i == f[k]
  <2>1. h[i].at \in Int /\ g[k].at = h[i].at - d /\ h[i].cmd = "PREA" /\ i \in 1 .. Len(h)
    BY <1>11
  <2> HIDE DEF i
  <2>2. CASE h[i].at + Timing.t_rfc <= c.command_bus["row"]
    <3> DEFINE before == h[i].at
               after == g[k].at
               gap == Timing.t_rfc
               free == c.command_bus["row"]
               freed == r.command_bus["row"]
    <3>1. before \in Int /\ gap \in Int /\ free \in Int /\ freed \in Int /\ after = before - d
          /\ freed >= free - d /\ before + gap <= free
      BY <1>5, <1>14, <2>1, <2>2
    <3> HIDE DEF before, after, gap, free, freed
    <3>2. after + gap <= freed
      BY <3>1
    <3> QED BY <3>2 DEF after, gap, freed
  <2>3. CASE ~ (h[i].at + Timing.t_rfc <= c.command_bus["row"])
    <3>1. /\ AllClosed(c)
          /\ \/ c.refresh_pending
             \/ \E j \in 1 .. Len(h) : h[j].cmd = "REFab" /\ h[i].at <= h[j].at
      BY <1>9, <2>1, <2>3 DEF Spent
    <3>2. AllClosed(r)
      BY <1>6, <3>1 DEF AllClosed
    <3>3. CASE c.refresh_pending
      BY <1>6, <3>2, <3>3
    <3>4. CASE \E j \in 1 .. Len(h) : h[j].cmd = "REFab" /\ h[i].at <= h[j].at
      <4>1. PICK j \in 1 .. Len(h) : h[j].cmd = "REFab" /\ h[i].at <= h[j].at
        BY <3>4
      <4>2. CASE \E l \in 1 .. n : f[l] = j
        <5>1. PICK l \in 1 .. n : f[l] = j
          BY <4>2
        <5>2. h[j].at \in Int /\ g[l].at = h[j].at - d /\ g[l].cmd = "REFab"
          BY <1>11, <4>1, <5>1
        <5>3. g[k].at <= g[l].at
          BY <2>1, <4>1, <5>2
        <5> QED BY <3>2, <5>2, <5>3
      <4>3. CASE ~ \E l \in 1 .. n : f[l] = j
        <5>1. ~ (h[j].at - d + Reach("REFab") > oldest)
          BY <1>7, <4>1, <4>3
        <5>2. h[j].at \in Int
          BY <1>4 DEF Entry
        <5> DEFINE x == h[i].at
                   y == h[j].at
                   rfc == Timing.t_rfc
                   reach == Reach("REFab")
                   row == r.command_bus["row"]
        <5>3. x \in Int /\ y \in Int /\ rfc \in Nat /\ reach \in Int /\ row \in Int /\ oldest \in Int
          BY <1>5, <1>14, <2>1, <5>2
        <5>4. x <= y /\ rfc <= reach /\ ~ (y - d + reach > oldest) /\ row >= oldest /\ g[k].at = x - d
          BY <1>5, <1>14, <2>1, <4>1, <5>1
        <5> HIDE DEF x, y, rfc, reach, row
        <5>5. x - d + rfc <= row
          BY <5>3, <5>4
        <5>6. g[k].at + rfc <= row
          BY <5>4, <5>5
        <5> QED BY <5>6 DEF rfc, row
      <4> QED BY <4>2, <4>3
    <3> QED BY <3>1, <3>3, <3>4
  <2> QED BY <2>2, <2>3
<1> QED BY <1>12, <1>13, <1>15, <1>r DEF Lawful, r

\* A new controller has recorded nothing, and nothing is pending.
LEMMA NewControllerLawful ==
  Lawful(NewController)
<1>1. NewController.history = <<>> /\ Len(<<>>) = 0 /\ DOMAIN <<>> = {}
  BY DEF NewController
<1>2. ~NewController.refresh_pending /\ \A b \in Bank : ~NewController.banks[b].refresh_pending
  BY DEF NewController, NewBank
<1> QED BY <1>1, <1>2 DEF Lawful, Legal, ByPolicy, Spent

-----------------------------------------------------------------------------
(* What holds of the recorded commands of a controller, for all operations. *)

\* Recorded in time order, and legal under a standard: every operation keeps it so.
Covered == ~Custom /\ RefreshDominates
WellTimed(c) == Timely(c) /\ (Covered => Lawful(c))
TimedController == {c \in Controller : WellTimed(c)}

LEMMA TimedIsController ==
  ASSUME NEW c \in TimedController
  PROVE  c \in Controller
  BY DEF TimedController

LEMMA NewIsTimed ==
  NewController \in TimedController
  BY NewControllerFacts, NewControllerTimely, NewControllerLawful DEF TimedController, WellTimed

LEMMA AdmitIsTimed ==
  ASSUME NEW c \in TimedController, NEW access \in QueuedAccess
  PROVE  admit_reserved(c, access) \in TimedController
<1>1. c \in Controller /\ Timely(c) /\ (Covered => Lawful(c))
  BY DEF TimedController, WellTimed
<1>2. admit_reserved(c, access) \in Controller
  BY <1>1, AdmitReservedFacts
<1>3. Timely(admit_reserved(c, access))
  BY <1>1, AdmitReservedTimely
<1>4. ASSUME Covered PROVE Lawful(admit_reserved(c, access))
  BY <1>1, <1>4, AdmitReservedLawful DEF Covered
<1> QED BY <1>2, <1>3, <1>4 DEF TimedController, WellTimed

LEMMA RefreshEventIsTimed ==
  ASSUME NEW c \in TimedController
  PROVE  handle_refresh_event(c) \in TimedController
<1>1. c \in Controller /\ Timely(c) /\ (Covered => Lawful(c))
  BY DEF TimedController, WellTimed
<1>2. handle_refresh_event(c) \in Controller
  BY <1>1, HandleRefreshFacts
<1>3. Timely(handle_refresh_event(c))
  BY <1>1, HandleRefreshTimely
<1>4. ASSUME Covered PROVE Lawful(handle_refresh_event(c))
  BY <1>1, <1>4, HandleRefreshLawful DEF Covered
<1> QED BY <1>2, <1>3, <1>4 DEF TimedController, WellTimed

LEMMA DriveIsTimed ==
  ASSUME NEW c \in TimedController, c.queue # <<>> => c.next_refresh_due = None \/ c.next_refresh_due >= 0
  PROVE  drive(c).c \in TimedController
<1>1. c \in Controller /\ Timely(c) /\ (Covered => Lawful(c))
  BY DEF TimedController, WellTimed
<1>2. drive(c).c \in Controller
  BY <1>1, DriveFacts DEF Drives
<1>3. Timely(drive(c).c)
  BY <1>1, DriveTimely
<1>4. ASSUME Covered PROVE Lawful(drive(c).c)
  BY <1>1, <1>4, DriveLawful DEF Covered
<1> QED BY <1>2, <1>3, <1>4 DEF TimedController, WellTimed

LEMMA RebaseIsTimed ==
  ASSUME NEW c \in TimedController, NEW d \in Nat
  PROVE  Rebase(c, d) \in TimedController
<1>1. c \in Controller /\ Timely(c) /\ (Covered => Lawful(c))
  BY DEF TimedController, WellTimed
<1>2. Rebase(c, d) \in Controller
  BY <1>1, RebaseFacts
<1>3. Timely(Rebase(c, d))
  BY <1>1, RebaseTimely
<1>4. ASSUME Covered PROVE Lawful(Rebase(c, d))
  BY <1>1, <1>4, RebaseLawful DEF Covered
<1> QED BY <1>2, <1>3, <1>4 DEF TimedController, WellTimed

\* The marks and the count of accesses do not matter for the commands.
LEMMA MarksAreTimed ==
  ASSUME NEW c \in TimedController, NEW wake \in Optional(Int), NEW due \in Optional(Int), NEW n \in Nat
  PROVE  /\ [c EXCEPT !.wakeup_at = wake] \in TimedController
         /\ [c EXCEPT !.refresh_due_at = due] \in TimedController
         /\ [c EXCEPT !.outstanding = n] \in TimedController
<1>1. c \in Controller /\ Timely(c) /\ (Covered => Lawful(c))
  BY DEF TimedController, WellTimed
<1> DEFINE woken == [c EXCEPT !.wakeup_at = wake]
           claimed == [c EXCEPT !.refresh_due_at = due]
           counted == [c EXCEPT !.outstanding = n]
<1>2. woken \in Controller /\ claimed \in Controller /\ counted \in Controller
  BY <1>1 DEF Controller
<1>3. /\ SameTimes(c, woken) /\ SameTimes(c, claimed) /\ SameTimes(c, counted)
      /\ SameLaws(c, woken) /\ SameLaws(c, claimed) /\ SameLaws(c, counted)
  BY <1>1 DEF SameTimes, SameLaws, Controller
<1> HIDE DEF woken, claimed, counted
<1>4. Timely(woken) /\ Timely(claimed) /\ Timely(counted)
  BY <1>1, <1>3, TimesOnly
<1>5. ASSUME Covered PROVE Lawful(woken) /\ Lawful(claimed) /\ Lawful(counted)
  BY <1>1, <1>3, <1>5, LawsOnly
<1> QED BY <1>2, <1>4, <1>5 DEF TimedController, WellTimed, woken, claimed, counted
=============================================================================
