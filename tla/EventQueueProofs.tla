------------------------- MODULE EventQueueProofs -------------------------
(***************************************************************************)
(* For every bound on times and events: the two maps of EventQueue agree,  *)
(* no event is left behind in the past, events run in strictly increasing  *)
(* (time, sequence) order, and the queue implements the contract that      *)
(* module SimScheduler states of ISimScheduler.                            *)
(*                                                                         *)
(* For every number of systems on one queue: they use it as EventQueue     *)
(* allows, pending_events_ is exact, and no event survives the system that *)
(* it would call.                                                          *)
(***************************************************************************)
EXTENDS EventQueueRefinement, SystemLifetime, SequencesExt, SequenceTheorems, FiniteSetTheorems, TLAPS

\* The inductive invariant.  Sequence numbers below next_sequence are the only
\* ones in use, which keeps a new key out of the map and behind `last'; the last
\* dispatched event is never ahead of the clock; and run_until's horizon is.
FreshSequence == \A key \in DOMAIN events : key[2] < next_sequence
FreshToken    == \A token \in DOMAIN tokens : token < next_token
LastIsPast    == last[1] <= now /\ last[2] < next_sequence
HorizonAhead  == mode = "until" => now <= horizon

IInv == /\ TypeOK /\ MapsAgree /\ NothingInThePast
        /\ FreshSequence /\ FreshToken /\ LastIsPast /\ HorizonAhead
        /\ \A key \in DOMAIN events : Precedes(last, key)

USE BoundsAssumption

LEMMA InitIInv == Init => IInv
<1> SUFFICES ASSUME Init PROVE IInv
  OBVIOUS
<1>1. DOMAIN events = {} /\ DOMAIN tokens = {}
  BY DEF Init
<1>2. TypeOK
  <2>1. events \in [DOMAIN events -> Token] /\ tokens \in [DOMAIN tokens -> Key]
    BY <1>1 DEF Init
  <2>2. /\ now \in Time /\ horizon \in Time
        /\ next_sequence \in 0 .. MaxEvents /\ next_token = next_sequence + 1
    BY DEF Init, Time
  <2>3. last \in Key \cup {NoKey} /\ mode = "idle" /\ callback = FALSE
    BY DEF Init
  <2> QED BY <1>1, <2>1, <2>2, <2>3 DEF TypeOK
<1>3. LastIsPast /\ HorizonAhead
  BY DEF Init, LastIsPast, HorizonAhead, NoKey
<1> QED BY <1>1, <1>2, <1>3 DEF IInv, MapsAgree, NothingInThePast, FreshSequence, FreshToken

\* Adding the event of schedule_at to both maps.
LEMMA ScheduleAtIInv ==
  ASSUME IInv, NEW when \in Time, ScheduleAt(when)
  PROVE  IInv'
<1> DEFINE key == <<when, next_sequence>>
<1>1. key \in Key /\ next_token \in Token /\ next_sequence < MaxEvents
  BY DEF IInv, TypeOK, ScheduleAt, Key, Time, Token
<1>2. key \notin DOMAIN events /\ next_token \notin DOMAIN tokens
  BY DEF IInv, TypeOK, FreshSequence, FreshToken, Key, Time, Token
<1>3. /\ DOMAIN events' = DOMAIN events \cup {key}
      /\ DOMAIN tokens' = DOMAIN tokens \cup {next_token}
      /\ events'[key] = next_token /\ tokens'[next_token] = key
      /\ \A k \in DOMAIN events : events'[k] = events[k]
      /\ \A t \in DOMAIN tokens : tokens'[t] = tokens[t]
  BY <1>2 DEF ScheduleAt, Put
<1>4. TypeOK'
  BY <1>1, <1>3 DEF IInv, TypeOK, ScheduleAt, Put, Token, Time
<1>5. MapsAgree'
  BY <1>2, <1>3 DEF IInv, MapsAgree
<1>6. NothingInThePast' /\ FreshSequence' /\ FreshToken' /\ LastIsPast' /\ HorizonAhead'
  BY <1>1, <1>3 DEF IInv, TypeOK, NothingInThePast, FreshSequence, FreshToken,
     LastIsPast, HorizonAhead, ScheduleAt, Key, Time, Token, NoKey
<1>7. (\A k \in DOMAIN events : Precedes(last, k))'
  <2>1. key[1] = when /\ key[2] = next_sequence /\ last[1] \in Int /\ last[2] \in Int
    BY DEF IInv, TypeOK, Key, Time, NoKey
  <2>2. last[1] <= when /\ last[2] < next_sequence
    BY <2>1 DEF IInv, TypeOK, LastIsPast, ScheduleAt, Time
  <2>3. Precedes(last, key)
    BY <2>1, <2>2 DEF Precedes, Time
  <2> QED BY <1>3, <2>3 DEF IInv, ScheduleAt, Precedes
<1> QED BY <1>4, <1>5, <1>6, <1>7 DEF IInv

\* Removing one event from both maps keeps them in agreement.
LEMMA EraseAgrees ==
  ASSUME TypeOK, MapsAgree, NEW key \in DOMAIN events,
         events' = Erase(events, key), tokens' = Erase(tokens, events[key])
  PROVE  /\ MapsAgree'
         /\ DOMAIN events' \subseteq DOMAIN events
         /\ DOMAIN tokens' \subseteq DOMAIN tokens
         /\ events' \in [DOMAIN events' -> Token]
         /\ tokens' \in [DOMAIN tokens' -> Key]
         /\ key \notin DOMAIN events'
  BY DEF TypeOK, MapsAgree, Erase

LEMMA CancelIInv ==
  ASSUME IInv, NEW token \in Token, Cancel(token)
  PROVE  IInv'
<1>1. tokens[token] \in DOMAIN events /\ events[tokens[token]] = token
  BY DEF IInv, MapsAgree, Cancel
<1>2. /\ MapsAgree'
      /\ DOMAIN events' \subseteq DOMAIN events
      /\ DOMAIN tokens' \subseteq DOMAIN tokens
      /\ events' \in [DOMAIN events' -> Token]
      /\ tokens' \in [DOMAIN tokens' -> Key]
  BY <1>1, EraseAgrees DEF IInv, Cancel
<1> QED
  BY <1>2 DEF IInv, TypeOK, NothingInThePast, FreshSequence, FreshToken,
     LastIsPast, HorizonAhead, Precedes, Cancel

LEMMA DispatchOneIInv ==
  ASSUME IInv, DispatchOne
  PROVE  IInv'
<1> PICK key \in DOMAIN events :
       /\ IsFirst(key) /\ LoopTakes(key) /\ mode # "idle"
       /\ events' = Erase(events, key) /\ tokens' = Erase(tokens, events[key])
       /\ now' = key[1] /\ callback' = TRUE /\ last' = key
       /\ UNCHANGED <<next_sequence, next_token, mode, horizon>>
  BY DEF DispatchOne
<1>1. /\ MapsAgree'
      /\ DOMAIN events' \subseteq DOMAIN events \ {key}
      /\ DOMAIN tokens' \subseteq DOMAIN tokens
      /\ events' \in [DOMAIN events' -> Token]
      /\ tokens' \in [DOMAIN tokens' -> Key]
  BY EraseAgrees DEF IInv
<1>2. key \in Key /\ key[2] < next_sequence /\ key[1] \in Time
  BY DEF IInv, TypeOK, FreshSequence, Key
<1>3. \A k \in DOMAIN events' : k \in Key /\ Precedes(key, k)
  BY <1>1 DEF IsFirst, IInv, TypeOK
<1>4. TypeOK'
  BY <1>1, <1>2 DEF IInv, TypeOK
<1>5. NothingInThePast'
  BY <1>2, <1>3 DEF NothingInThePast, Precedes, Key, Time
<1>6. HorizonAhead'
  BY <1>2 DEF HorizonAhead, LoopTakes, IInv, TypeOK
<1>7. LastIsPast'
  BY <1>2 DEF LastIsPast, Time
<1>8. FreshSequence' /\ FreshToken'
  BY <1>1 DEF FreshSequence, FreshToken, IInv
<1> QED BY <1>1, <1>3, <1>4, <1>5, <1>6, <1>7, <1>8 DEF IInv

\* run_until ends with now_ = until only when every event left lies beyond it.
LEMMA RunReturnsIInv ==
  ASSUME IInv, RunReturns
  PROVE  IInv'
<1>1. TypeOK' /\ MapsAgree' /\ FreshSequence' /\ FreshToken' /\ HorizonAhead'
  BY DEF RunReturns, IInv, TypeOK, MapsAgree, FreshSequence, FreshToken, HorizonAhead
<1>2. CASE mode = "until"
  <2>1. \A key \in DOMAIN events : key \in Key /\ key[1] > horizon
    BY <1>2 DEF RunReturns, LoopTakes, IInv, TypeOK, Key, Time
  <2>2. NothingInThePast' /\ LastIsPast'
    BY <1>2, <2>1 DEF NothingInThePast, LastIsPast, HorizonAhead, RunReturns, IInv,
       TypeOK, Key, Time, NoKey
  <2> QED BY <1>1, <2>2 DEF IInv, RunReturns, Precedes
<1>3. CASE mode # "until"
  BY <1>1, <1>3 DEF IInv, RunReturns, NothingInThePast, LastIsPast, Precedes
<1> QED BY <1>2, <1>3

LEMMA NextIInv == IInv /\ [Next]_vars => IInv'
<1> SUFFICES ASSUME IInv, [Next]_vars PROVE IInv'
  OBVIOUS
<1>1. ASSUME NEW when \in Time, ScheduleAt(when) PROVE IInv'
  BY <1>1, ScheduleAtIInv
<1>2. ASSUME NEW token \in Token, Cancel(token) PROVE IInv'
  BY <1>2, CancelIInv
<1>3. ASSUME NEW kind \in {"run", "next", "until"}, NEW until \in Time, CallRun(kind, until)
      PROVE IInv'
  BY <1>3 DEF CallRun, IInv, TypeOK, MapsAgree, NothingInThePast, FreshSequence,
     FreshToken, LastIsPast, HorizonAhead, Precedes, Time
<1>4. CASE DispatchOne
  BY <1>4, DispatchOneIInv
<1>5. CASE CallbackReturns
  BY <1>5 DEF CallbackReturns, IInv, TypeOK, MapsAgree, NothingInThePast, FreshSequence,
     FreshToken, LastIsPast, HorizonAhead, Precedes
<1>9. CASE CallbackThrows
  BY <1>9 DEF CallbackThrows, IInv, TypeOK, MapsAgree, NothingInThePast, FreshSequence,
     FreshToken, LastIsPast, HorizonAhead, Precedes
<1>6. CASE RunReturns
  BY <1>6, RunReturnsIInv
<1>7. CASE UNCHANGED vars
  BY <1>7 DEF vars, IInv, TypeOK, MapsAgree, NothingInThePast, FreshSequence,
     FreshToken, LastIsPast, HorizonAhead, Precedes
<1>8. now \in Time
  BY DEF IInv, TypeOK
<1> QED BY <1>1, <1>2, <1>3, <1>4, <1>5, <1>6, <1>7, <1>8, <1>9 DEF Next

THEOREM Invariance == Spec => []IInv
  BY InitIInv, NextIInv, PTL DEF Spec

\* Every variable of the event queue keeps its type.
THEOREM TypeCorrect == Spec => []TypeOK
<1>1. IInv => TypeOK
  BY DEF IInv
<1> QED BY <1>1, Invariance, PTL

\* Dispatching, cancelling (from callbacks too) and scheduling keep events_ and
\* tokens_ exact inverses of each other.
THEOREM MapsAlwaysAgree == Spec => []MapsAgree
<1>1. IInv => MapsAgree
  BY DEF IInv
<1> QED BY <1>1, Invariance, PTL

\* The clock never passes a pending event.
THEOREM TimeNeverPassesAnEvent == Spec => []NothingInThePast
<1>1. IInv => NothingInThePast
  BY DEF IInv
<1> QED BY <1>1, Invariance, PTL

\* Whatever callbacks schedule or cancel, events run in strictly increasing
\* (time, sequence) order.
THEOREM EventsRunInOrder == Spec => []RunsInOrder
<1>1. IInv => RunsInOrder
  BY DEF IInv, RunsInOrder, LastIsPast, Precedes, TypeOK, Key, Time, NoKey
<1> QED BY <1>1, Invariance, PTL

-----------------------------------------------------------------------------
(***************************************************************************)
(* The queue implements the contract of ISimScheduler.  The rank of a key  *)
(* is a bijection onto 1 .. n, and putting or erasing one key moves the    *)
(* ranks of the keys behind it by one, and no others.                      *)
(***************************************************************************)
Pair == Nat \X Nat

\* (time, sequence) is a strict total order.
LEMMA PrecedesIsTotal ==
  ASSUME NEW a \in Pair, NEW b \in Pair, NEW c \in Pair
  PROVE  /\ ~ Precedes(a, a)
         /\ Precedes(a, b) => ~ Precedes(b, a)
         /\ Precedes(a, b) /\ Precedes(b, c) => Precedes(a, c)
         /\ a # b => Precedes(a, b) \/ Precedes(b, a)
<1>1. /\ a[1] \in Nat /\ a[2] \in Nat /\ b[1] \in Nat /\ b[2] \in Nat /\ c[1] \in Nat /\ c[2] \in Nat
      /\ a = <<a[1], a[2]>> /\ b = <<b[1], b[2]>>
  BY DEF Pair
<1> QED BY <1>1 DEF Precedes

\* A rank lies between 1 and the number of keys.
LEMMA RankInRange ==
  ASSUME NEW keys \in SUBSET Pair, IsFiniteSet(keys), NEW key \in Pair
  PROVE  /\ IsFiniteSet(Ahead(keys, key))
         /\ Rank(keys, key) \in 1 .. Cardinality(keys) + 1
         /\ key \in keys => Rank(keys, key) \in 1 .. Cardinality(keys)
<1> DEFINE A == Ahead(keys, key)
<1>1. A \in SUBSET keys /\ key \notin A
  BY PrecedesIsTotal DEF Ahead
<1> HIDE DEF A
<1>2. IsFiniteSet(A) /\ Cardinality(A) <= Cardinality(keys) /\ (Cardinality(keys) = Cardinality(A) => keys = A)
  BY <1>1, FS_Subset
<1>3. Cardinality(A) \in Nat /\ Cardinality(keys) \in Nat
  BY <1>2, FS_CardinalityType
<1>4. Rank(keys, key) = Cardinality(A) + 1
  BY DEF Rank, A
<1>5. key \in keys => keys # A
  BY <1>1
<1> QED BY <1>2, <1>3, <1>4, <1>5 DEF A

\* A key that precedes another has the smaller rank.
LEMMA RankGrows ==
  ASSUME NEW keys \in SUBSET Pair, IsFiniteSet(keys), NEW a \in keys, NEW b \in Pair, Precedes(a, b)
  PROVE  Rank(keys, a) < Rank(keys, b)
<1> DEFINE A == Ahead(keys, a)
           B == Ahead(keys, b)
<1>1. A \in SUBSET B
  <2> SUFFICES ASSUME NEW x \in A PROVE x \in B
    OBVIOUS
  <2>1. x \in keys /\ x \in Pair /\ a \in Pair /\ Precedes(x, a)
    BY DEF Ahead
  <2> QED BY <2>1, PrecedesIsTotal DEF Ahead
<1>2. a \in B /\ a \notin A
  BY PrecedesIsTotal DEF Ahead
<1>3. IsFiniteSet(A) /\ IsFiniteSet(B)
  BY RankInRange
<1>4. Rank(keys, a) = Cardinality(A) + 1 /\ Rank(keys, b) = Cardinality(B) + 1
  BY DEF Rank
<1> HIDE DEF A, B
<1>5. Cardinality(A) <= Cardinality(B) /\ Cardinality(A) # Cardinality(B)
  BY <1>1, <1>2, <1>3, FS_Subset
<1>6. Cardinality(A) \in Nat /\ Cardinality(B) \in Nat
  BY <1>3, FS_CardinalityType
<1> QED BY <1>4, <1>5, <1>6

\* Every number up to the number of keys is the rank of one key.
LEMMA KeyAtRank ==
  ASSUME NEW keys \in SUBSET Pair, IsFiniteSet(keys)
  PROVE  /\ \A i \in 1 .. Cardinality(keys) : KeyAt(keys, i) \in keys /\ Rank(keys, KeyAt(keys, i)) = i
         /\ \A key \in keys : KeyAt(keys, Rank(keys, key)) = key
<1> DEFINE n == Cardinality(keys)
           rank == [key \in keys |-> Rank(keys, key)]
<1>1. n \in Nat
  BY FS_CardinalityType
<1>2. \A key \in keys : key \in Pair /\ Rank(keys, key) \in 1 .. n
  BY RankInRange
<1>3. ASSUME NEW a \in keys, NEW b \in keys, Rank(keys, a) = Rank(keys, b) PROVE a = b
  <2>1. ~ Precedes(a, b) /\ ~ Precedes(b, a)
    BY <1>2, <1>3, RankGrows
  <2> QED BY <1>2, <2>1, PrecedesIsTotal
<1>4. rank \in Injection(keys, 1 .. n)
  BY <1>2, <1>3 DEF Injection, IsInjective
<1>5. IsFiniteSet(1 .. n) /\ Cardinality(1 .. n) = n
  BY <1>1, FS_Interval
<1>6. rank \in Surjection(keys, 1 .. n)
  <2> HIDE DEF rank, n
  <2>1. Cardinality(keys) = Cardinality(1 .. n)
    BY <1>5 DEF n
  <2> QED BY <1>4, <1>5, <2>1, FS_Injection
<1>7. ASSUME NEW i \in 1 .. n PROVE \E key \in keys : Rank(keys, key) = i
  BY <1>6 DEF Surjection
<1>8. ASSUME NEW i \in 1 .. n PROVE KeyAt(keys, i) \in keys /\ Rank(keys, KeyAt(keys, i)) = i
  BY <1>7 DEF KeyAt
<1> QED BY <1>2, <1>3, <1>8

\* A new key takes its place, and what is behind it moves up by one.
LEMMA RankAfterPut ==
  ASSUME NEW keys \in SUBSET Pair, IsFiniteSet(keys), NEW new \in Pair, new \notin keys
  PROVE  /\ Rank(keys \cup {new}, new) = Rank(keys, new)
         /\ \A key \in keys :
               /\ Precedes(key, new) <=> Rank(keys, key) < Rank(keys, new)
               /\ Rank(keys \cup {new}, key) =
                     IF Precedes(key, new) THEN Rank(keys, key) ELSE Rank(keys, key) + 1
<1>1. Ahead(keys \cup {new}, new) = Ahead(keys, new)
  BY PrecedesIsTotal DEF Ahead
<1>2. ASSUME NEW key \in keys, Precedes(key, new)
      PROVE  Rank(keys, key) < Rank(keys, new) /\ Rank(keys \cup {new}, key) = Rank(keys, key)
  <2>1. key \in Pair /\ ~ Precedes(new, key)
    BY <1>2, PrecedesIsTotal
  <2>2. Ahead(keys \cup {new}, key) = Ahead(keys, key)
    BY <2>1 DEF Ahead
  <2> QED BY <1>2, <2>2, RankGrows DEF Rank
<1>3. ASSUME NEW key \in keys, ~ Precedes(key, new)
      PROVE  ~ (Rank(keys, key) < Rank(keys, new)) /\ Rank(keys \cup {new}, key) = Rank(keys, key) + 1
  <2>1. key \in Pair /\ key # new /\ Precedes(new, key)
    BY <1>3, PrecedesIsTotal
  <2> DEFINE A == Ahead(keys, key)
             B == Ahead(keys, new)
  <2>2. Ahead(keys \cup {new}, key) = A \cup {new} /\ new \notin A
    BY <2>1 DEF Ahead
  <2>3. IsFiniteSet(A) /\ IsFiniteSet(B)
    BY <2>1, RankInRange
  <2>4. B \in SUBSET A
    <3> SUFFICES ASSUME NEW x \in B PROVE x \in A
      OBVIOUS
    <3>1. x \in keys /\ x \in Pair /\ Precedes(x, new)
      BY DEF Ahead
    <3> QED BY <2>1, <3>1, PrecedesIsTotal DEF Ahead
  <2>5. Rank(keys, key) = Cardinality(A) + 1 /\ Rank(keys, new) = Cardinality(B) + 1
        /\ Rank(keys \cup {new}, key) = Cardinality(A \cup {new}) + 1
    BY <2>2 DEF Rank
  <2> HIDE DEF A, B
  <2>6. Cardinality(B) <= Cardinality(A) /\ Cardinality(A \cup {new}) = Cardinality(A) + 1
    BY <2>2, <2>3, <2>4, FS_Subset, FS_AddElement
  <2>7. Cardinality(A) \in Nat /\ Cardinality(B) \in Nat
    BY <2>3, FS_CardinalityType
  <2> QED BY <2>5, <2>6, <2>7
<1> QED BY <1>1, <1>2, <1>3 DEF Rank

\* InsertAt and RemoveAt, element by element.
LEMMA InsertAtIs ==
  ASSUME NEW S, NEW s \in Seq(S), NEW i \in 1 .. Len(s) + 1, NEW e \in S
  PROVE  InsertAt(s, i, e) =
            [j \in 1 .. Len(s) + 1 |-> IF j < i THEN s[j] ELSE IF j = i THEN e ELSE s[j - 1]]
<1> DEFINE front == SubSeq(s, 1, i - 1)
           back == SubSeq(s, i, Len(s))
           most == front \o <<e>>
           all == most \o back
<1>1. front \in Seq(S) /\ Len(front) = i - 1 /\ \A j \in 1 .. i - 1 : front[j] = s[j]
  BY SubSeqProperties
<1>2. back \in Seq(S) /\ Len(back) = Len(s) - i + 1 /\ \A j \in 1 .. Len(s) - i + 1 : back[j] = s[i + j - 1]
  BY SubSeqProperties
<1>3. <<e>> \in Seq(S) /\ Len(<<e>>) = 1 /\ <<e>>[1] = e
  OBVIOUS
<1> DEFINE one == <<e>>
<1> HIDE DEF front, back, one
<1>4. most = front \o one
  BY DEF one
<1>5. most \in Seq(S) /\ Len(most) = i /\ \A j \in 1 .. i : most[j] = IF j < i THEN s[j] ELSE e
  <2>1. /\ front \o one \in Seq(S) /\ Len(front \o one) = Len(front) + Len(one)
        /\ \A j \in 1 .. Len(front) + Len(one) : (front \o one)[j] = IF j <= Len(front) THEN front[j] ELSE one[j - Len(front)]
    BY <1>1, <1>3, ConcatProperties DEF one
  <2>2. most \in Seq(S) /\ Len(most) = i
    BY <1>1, <1>3, <1>4, <2>1 DEF one
  <2>3. ASSUME NEW j \in 1 .. i, j < i PROVE most[j] = s[j]
    <3>1. j \in 1 .. i - 1
      BY <2>3
    <3>2. most[j] = front[j]
      BY <1>1, <1>3, <1>4, <2>1, <3>1 DEF one
    <3> QED BY <1>1, <3>1, <3>2
  <2>4. most[i] = e
    <3>1. i \in 1 .. Len(front) + Len(one) /\ ~ (i <= Len(front)) /\ i - Len(front) = 1
      BY <1>1, <1>3 DEF one
    <3>2. most[i] = one[i - Len(front)]
      BY <1>4, <2>1, <3>1
    <3> QED BY <1>3, <3>1, <3>2 DEF one
  <2>5. ASSUME NEW j \in 1 .. i, ~ (j < i) PROVE j = i
    BY <2>5
  <2> QED BY <2>2, <2>3, <2>4, <2>5
<1> HIDE DEF most
<1>6. /\ all \in Seq(S) /\ Len(all) = Len(s) + 1
      /\ \A j \in 1 .. Len(s) + 1 : all[j] = IF j <= i THEN most[j] ELSE back[j - i]
  <2>1. /\ all \in Seq(S) /\ Len(all) = Len(most) + Len(back)
        /\ \A j \in 1 .. Len(most) + Len(back) : all[j] = IF j <= Len(most) THEN most[j] ELSE back[j - Len(most)]
    BY <1>2, <1>5, ConcatProperties
  <2>2. Len(most) + Len(back) = Len(s) + 1
    BY <1>2, <1>5
  <2> QED BY <1>5, <2>1, <2>2
<1>7. InsertAt(s, i, e) = all
  BY DEF InsertAt, all, most, front, back
<1>8. ASSUME NEW j \in 1 .. Len(s) + 1
      PROVE  all[j] = IF j < i THEN s[j] ELSE IF j = i THEN e ELSE s[j - 1]
  <2>1. CASE j <= i
    BY <1>5, <1>6, <2>1
  <2>2. CASE ~ (j <= i)
    <3>1. PICK k \in 1 .. Len(s) - i + 1 : k = j - i /\ i + k - 1 = j - 1 /\ ~ (j <= i) /\ ~ (j < i)
      BY <2>2
    <3>2. all[j] = back[k]
      BY <1>6, <3>1
    <3>3. back[k] = s[i + k - 1]
      BY <1>2
    <3>4. all[j] = s[j - 1]
      BY <3>1, <3>2, <3>3
    <3>5. ~ (j < i) /\ j # i
      BY <2>2
    <3> QED BY <3>4, <3>5
  <2> QED BY <2>1, <2>2
<1> HIDE DEF all
<1>9. all = [j \in 1 .. Len(s) + 1 |-> all[j]]
  BY <1>6
<1> QED BY <1>7, <1>8, <1>9

LEMMA RemoveAtIs ==
  ASSUME NEW S, NEW s \in Seq(S), NEW i \in 1 .. Len(s)
  PROVE  RemoveAt(s, i) = [j \in 1 .. Len(s) - 1 |-> IF j < i THEN s[j] ELSE s[j + 1]]
<1> DEFINE front == SubSeq(s, 1, i - 1)
           back == SubSeq(s, i + 1, Len(s))
           all == front \o back
<1>1. front \in Seq(S) /\ Len(front) = i - 1 /\ \A j \in 1 .. i - 1 : front[j] = s[j]
  BY SubSeqProperties
<1>2. back \in Seq(S) /\ Len(back) = Len(s) - i /\ \A j \in 1 .. Len(s) - i : back[j] = s[i + j]
  <2>1. /\ back \in Seq(S) /\ Len(back) = IF i + 1 <= Len(s) THEN Len(s) - (i + 1) + 1 ELSE 0
        /\ \A j \in 1 .. Len(s) - (i + 1) + 1 : back[j] = s[i + 1 + j - 1]
    BY SubSeqProperties
  <2> HIDE DEF back
  <2>2. Len(s) \in Nat /\ Len(s) - (i + 1) + 1 = Len(s) - i
    OBVIOUS
  <2>3. Len(back) = Len(s) - i
    <3>1. CASE i + 1 <= Len(s)
      BY <2>1, <2>2, <3>1
    <3>2. CASE ~ (i + 1 <= Len(s))
      <4>1. Len(s) - i = 0
        BY <3>2
      <4> QED BY <2>1, <3>2, <4>1
    <3> QED BY <3>1, <3>2
  <2>4. ASSUME NEW j \in 1 .. Len(s) - i PROVE back[j] = s[i + j]
    <3>1. j \in 1 .. Len(s) - (i + 1) + 1 /\ i + 1 + j - 1 = i + j
      BY <2>2
    <3>2. back[j] = s[i + 1 + j - 1]
      BY <2>1, <3>1
    <3> QED BY <3>1, <3>2
  <2> QED BY <2>1, <2>3, <2>4
<1> HIDE DEF front, back
<1>3. /\ all \in Seq(S) /\ Len(all) = Len(s) - 1
      /\ \A j \in 1 .. Len(s) - 1 : all[j] = IF j <= i - 1 THEN front[j] ELSE back[j - (i - 1)]
  <2>1. /\ all \in Seq(S) /\ Len(all) = Len(front) + Len(back)
        /\ \A j \in 1 .. Len(front) + Len(back) : all[j] = IF j <= Len(front) THEN front[j] ELSE back[j - Len(front)]
    BY <1>1, <1>2, ConcatProperties
  <2>2. Len(front) + Len(back) = Len(s) - 1
    BY <1>1, <1>2
  <2> QED BY <1>1, <2>1, <2>2
<1>4. RemoveAt(s, i) = all
  BY DEF RemoveAt, all, front, back
<1>5. ASSUME NEW j \in 1 .. Len(s) - 1
      PROVE  all[j] = IF j < i THEN s[j] ELSE s[j + 1]
  <2>1. CASE j < i
    BY <1>1, <1>3, <2>1
  <2>2. CASE ~ (j < i)
    <3>1. PICK k \in 1 .. Len(s) - i : k = j - (i - 1) /\ i + k = j + 1 /\ ~ (j <= i - 1) /\ ~ (j < i)
      BY <2>2
    <3>2. all[j] = back[k]
      BY <1>3, <3>1
    <3>3. back[k] = s[i + k]
      BY <1>2
    <3>4. all[j] = s[j + 1]
      BY <3>1, <3>2, <3>3
    <3>5. ~ (j < i)
      BY <2>2
    <3> QED BY <3>4, <3>5
  <2> QED BY <2>1, <2>2
<1> HIDE DEF all
<1>6. all = [j \in 1 .. Len(s) - 1 |-> all[j]]
  BY <1>3
<1> QED BY <1>4, <1>5, <1>6

\* The entry of a key in the agenda.
Entry(map, key) == [time |-> key[1], token |-> map[key]]

LEMMA InOrderIs ==
  ASSUME NEW map, DOMAIN map \in SUBSET Pair, IsFiniteSet(DOMAIN map)
  PROVE  /\ Cardinality(DOMAIN map) \in Nat
         /\ InOrder(map) = [i \in 1 .. Cardinality(DOMAIN map) |-> Entry(map, KeyAt(DOMAIN map, i))]
         /\ InOrder(map) \in Seq([time : Nat, token : {map[key] : key \in DOMAIN map}])
         /\ Len(InOrder(map)) = Cardinality(DOMAIN map)
<1> DEFINE n == Cardinality(DOMAIN map)
           order == InOrder(map)
           T == [time : Nat, token : {map[key] : key \in DOMAIN map}]
<1>1. n \in Nat
  BY FS_CardinalityType
<1>2. order = [i \in 1 .. n |-> Entry(map, KeyAt(DOMAIN map, i))]
  BY DEF InOrder, Entry
<1>3. ASSUME NEW i \in 1 .. n PROVE Entry(map, KeyAt(DOMAIN map, i)) \in T
  <2>1. KeyAt(DOMAIN map, i) \in DOMAIN map
    BY KeyAtRank
  <2> HIDE DEF n
  <2>2. ASSUME NEW key \in DOMAIN map PROVE Entry(map, key) \in T
    <3>1. key \in Pair
      OBVIOUS
    <3>2. key[1] \in Nat
      BY <3>1 DEF Pair
    <3> QED BY <3>2 DEF Entry
  <2> QED BY <2>1, <2>2
<1> HIDE DEF n, order, T
<1>4. order \in [1 .. n -> T]
  BY <1>2, <1>3
<1>5. order \in Seq(T) /\ Len(order) = n
  BY <1>1, <1>4
<1> QED BY <1>1, <1>2, <1>5 DEF n, order, T

\* Adding one event inserts one entry, at the rank of its key.
LEMMA InOrderOfPut ==
  ASSUME NEW map, DOMAIN map \in SUBSET Pair, IsFiniteSet(DOMAIN map),
         NEW new \in Pair, new \notin DOMAIN map, NEW token
  PROVE  /\ Rank(DOMAIN map, new) \in 1 .. Len(InOrder(map)) + 1
         /\ InOrder(Put(map, new, token)) =
               InsertAt(InOrder(map), Rank(DOMAIN map, new), [time |-> new[1], token |-> token])
<1> DEFINE keys == DOMAIN map
           more == Put(map, new, token)
           n == Cardinality(keys)
           p == Rank(keys, new)
           order == InOrder(map)
           entry == [time |-> new[1], token |-> token]
           T == [time : Nat, token : {map[key] : key \in keys} \cup {token}]
<1>1. n \in Nat /\ order = [i \in 1 .. n |-> Entry(map, KeyAt(keys, i))] /\ Len(order) = n
  BY InOrderIs
<1>2. order \in Seq(T)
  <2>1. order \in Seq([time : Nat, token : {map[key] : key \in keys}])
    BY InOrderIs
  <2> DEFINE U == [time : Nat, token : {map[key] : key \in keys}]
  <2>2. U \in SUBSET T
    OBVIOUS
  <2>3. Len(order) = n
    BY <1>1
  <2> HIDE DEF T, U, order, n
  <2>4. order \in Seq(U)
    BY <2>1 DEF U
  <2>5. \A i \in 1 .. n : order[i] \in T
    BY <1>1, <2>2, <2>3, <2>4
  <2> QED BY <1>1, <2>3, <2>4, <2>5
<1>3. entry \in T
  BY DEF Pair
<1>4. DOMAIN more = keys \cup {new} /\ more[new] = token /\ \A key \in keys : more[key] = map[key]
  BY DEF Put
<1>5. keys \cup {new} \in SUBSET Pair /\ IsFiniteSet(keys \cup {new}) /\ Cardinality(keys \cup {new}) = n + 1
  BY FS_AddElement
<1>6. p \in 1 .. n + 1
  BY RankInRange
<1> HIDE DEF more, p, n, order, entry, T
<1>7. InOrder(more) = [i \in 1 .. n + 1 |-> Entry(more, KeyAt(keys \cup {new}, i))]
  <2> DEFINE Listed(S) == [i \in 1 .. Cardinality(S) |-> Entry(more, KeyAt(S, i))]
             all == keys \cup {new}
  <2>1. DOMAIN more = all /\ all \in SUBSET Pair /\ IsFiniteSet(all)
    BY <1>4, <1>5
  <2>2. InOrder(more) = Listed(DOMAIN more)
    <3>1. DOMAIN more \in SUBSET Pair /\ IsFiniteSet(DOMAIN more)
      BY <2>1
    <3> QED BY <3>1, InOrderIs, Zenon
  <2> HIDE DEF Listed, all
  <2>3. InOrder(more) = Listed(all)
    BY <2>1, <2>2, Zenon
  <2>4. Cardinality(all) = n + 1
    BY <1>5 DEF all
  <2> QED BY <2>3, <2>4, Zenon DEF Listed, all
<1>8. InsertAt(order, p, entry) =
         [j \in 1 .. n + 1 |-> IF j < p THEN order[j] ELSE IF j = p THEN entry ELSE order[j - 1]]
  <2>1. n \in Nat /\ Len(order) = n
    BY <1>1
  <2>2. p \in 1 .. Len(order) + 1
    BY <1>6, <2>1
  <2>3. InsertAt(order, p, entry) =
           [j \in 1 .. Len(order) + 1 |->
               IF j < p THEN order[j] ELSE IF j = p THEN entry ELSE order[j - 1]]
    BY <1>2, <1>3, <2>2, InsertAtIs
  <2> QED BY <2>1, <2>3
<1>9. ASSUME NEW i \in 1 .. n + 1
      PROVE  Entry(more, KeyAt(keys \cup {new}, i)) =
                IF i < p THEN order[i] ELSE IF i = p THEN entry ELSE order[i - 1]
  <2> DEFINE key == KeyAt(keys \cup {new}, i)
  <2>1. key \in keys \cup {new} /\ Rank(keys \cup {new}, key) = i
    BY <1>5, KeyAtRank
  <2> HIDE DEF key
  <2>2. CASE key = new
    <3>1. i = p
      BY <2>1, <2>2, RankAfterPut DEF p
    <3> QED BY <1>4, <2>2, <3>1 DEF Entry, entry, key
  <2>3. CASE key \in keys
    <3>1. Rank(keys, key) \in 1 .. n /\ KeyAt(keys, Rank(keys, key)) = key
      BY <2>3, RankInRange, KeyAtRank DEF n
    <3>2. /\ Precedes(key, new) <=> Rank(keys, key) < p
          /\ i = IF Precedes(key, new) THEN Rank(keys, key) ELSE Rank(keys, key) + 1
      BY <2>1, <2>3, RankAfterPut DEF p
    <3>3. order[Rank(keys, key)] = Entry(more, key)
      <4>1. order[Rank(keys, key)] = Entry(map, key)
        BY <1>1, <3>1
      <4> QED BY <1>4, <2>3, <4>1 DEF Entry
    <3>4. IF i < p THEN Rank(keys, key) = i ELSE i # p /\ Rank(keys, key) = i - 1
      BY <1>6, <3>1, <3>2
    <3> QED BY <3>3, <3>4 DEF key
  <2> QED BY <2>1, <2>2, <2>3
<1>10. InOrder(more) = InsertAt(order, p, entry)
  BY <1>7, <1>8, <1>9
<1> QED BY <1>1, <1>6, <1>10 DEF more, p, order, entry

\* Erasing one event removes one entry, the one at the rank of its key.
LEMMA InOrderOfErase ==
  ASSUME NEW map, DOMAIN map \in SUBSET Pair, IsFiniteSet(DOMAIN map), NEW old \in DOMAIN map
  PROVE  /\ Rank(DOMAIN map, old) \in 1 .. Len(InOrder(map))
         /\ InOrder(map)[Rank(DOMAIN map, old)] = Entry(map, old)
         /\ InOrder(Erase(map, old)) = RemoveAt(InOrder(map), Rank(DOMAIN map, old))
<1> DEFINE all == DOMAIN map
           keys == all \ {old}
           less == Erase(map, old)
           n == Cardinality(all)
           p == Rank(all, old)
           order == InOrder(map)
<1>1. n \in Nat /\ order = [i \in 1 .. n |-> Entry(map, KeyAt(all, i))] /\ Len(order) = n
      /\ order \in Seq([time : Nat, token : {map[key] : key \in all}])
  BY InOrderIs
<1>2. DOMAIN less = keys /\ \A key \in keys : less[key] = map[key]
  BY DEF Erase
<1>3. keys \in SUBSET Pair /\ IsFiniteSet(keys) /\ Cardinality(keys) = n - 1 /\ old \in Pair /\ old \notin keys
  BY FS_RemoveElement
<1>4. keys \cup {old} = all
  OBVIOUS
<1>5. p \in 1 .. n /\ KeyAt(all, p) = old
  BY RankInRange, KeyAtRank
<1> HIDE DEF less, p, n, order, all, keys
<1>6. order[p] = Entry(map, old)
  BY <1>1, <1>5
<1>7. InOrder(less) = [i \in 1 .. n - 1 |-> Entry(less, KeyAt(keys, i))]
  BY <1>2, <1>3, InOrderIs
<1>8. RemoveAt(order, p) = [j \in 1 .. n - 1 |-> IF j < p THEN order[j] ELSE order[j + 1]]
  <2> DEFINE T == [time : Nat, token : {map[key] : key \in all}]
  <2>1. n \in Nat /\ Len(order) = n /\ order \in Seq(T)
    BY <1>1
  <2> HIDE DEF T
  <2> QED BY <1>5, <2>1, RemoveAtIs
<1>9. ASSUME NEW i \in 1 .. n - 1
      PROVE  Entry(less, KeyAt(keys, i)) = IF i < p THEN order[i] ELSE order[i + 1]
  <2> DEFINE key == KeyAt(keys, i)
  <2>1. key \in keys /\ Rank(keys, key) = i
    BY <1>3, KeyAtRank
  <2> HIDE DEF key
  <2>2. key \in all /\ all \in SUBSET Pair /\ IsFiniteSet(all)
    BY <1>4, <2>1 DEF all
  <2>3. KeyAt(all, Rank(all, key)) = key /\ Rank(all, key) \in 1 .. n
    BY <2>2, KeyAtRank, RankInRange DEF n
  <2>4. order[Rank(all, key)] = Entry(less, key)
    <3>1. order[Rank(all, key)] = Entry(map, key)
      BY <1>1, <2>3
    <3> QED BY <1>2, <2>1, <3>1 DEF Entry
  <2>5. /\ p = Rank(keys, old)
        /\ Precedes(key, old) <=> i < Rank(keys, old)
        /\ Rank(all, key) = IF Precedes(key, old) THEN i ELSE i + 1
    BY <1>3, <1>4, <2>1, RankAfterPut DEF p
  <2> QED BY <2>4, <2>5 DEF key
<1>10. InOrder(less) = RemoveAt(order, p)
  BY <1>7, <1>8, <1>9
<1> QED BY <1>1, <1>5, <1>6, <1>10 DEF less, p, order, all

\* The contract counts as everyone does.
LEMMA ContractCounts == \A S : Contract!Cardinality(S) = Cardinality(S)
  BY DEF Contract!Cardinality, Cardinality

\* Under the invariant the keys of the queue are a finite set of pairs.
LEMMA KeysAreFinite ==
  ASSUME IInv
  PROVE  DOMAIN events \in SUBSET Pair /\ IsFiniteSet(DOMAIN events)
<1>1. IsFiniteSet(Time) /\ IsFiniteSet(0 .. MaxEvents)
  BY BoundsAssumption, FS_Interval DEF Time
<1>2. IsFiniteSet(Key)
  BY <1>1, FS_Product DEF Key
<1>3. DOMAIN events \in SUBSET Key
  BY DEF IInv, TypeOK
<1> QED BY <1>2, <1>3, FS_Subset DEF Key, Pair, Time

LEMMA InitKeepsContract == Init => Contract!Init
<1> SUFFICES ASSUME Init PROVE Contract!Init
  OBVIOUS
<1>1. DOMAIN events = {} /\ now = 0 /\ next_token = 1
  BY DEF Init
<1>2. Cardinality(DOMAIN events) = 0
  BY <1>1, FS_EmptySet
<1>3. Agenda = <<>>
  BY <1>2 DEF Agenda, InOrder
<1> QED BY <1>1, <1>3 DEF Contract!Init

\* schedule_at: the rank of the new key is the place behind all callbacks of the
\* same time, since its sequence number is larger than theirs.
LEMMA ScheduleAtKeepsContract ==
  ASSUME IInv, NEW when \in Time, ScheduleAt(when)
  PROVE  Contract!ScheduleAt(when, next_token)
<1> DEFINE keys == DOMAIN events
           new == <<when, next_sequence>>
           n == Cardinality(keys)
           p == Rank(keys, new)
<1>1. keys \in SUBSET Pair /\ IsFiniteSet(keys)
  BY KeysAreFinite
<1>2. new \in Pair /\ new \notin keys /\ \A key \in keys : key[2] < next_sequence /\ key[1] \in Nat /\ key[2] \in Nat
  BY DEF IInv, TypeOK, FreshSequence, Pair, Key, Time
<1>3. /\ p \in 1 .. Len(InOrder(events)) + 1
      /\ InOrder(Put(events, new, next_token)) =
            InsertAt(InOrder(events), p, [time |-> new[1], token |-> next_token])
  BY <1>1, <1>2, InOrderOfPut
<1>4. Agenda = InOrder(events) /\ Agenda' = InOrder(Put(events, new, next_token))
  BY DEF Agenda, ScheduleAt
<1>5. /\ n \in Nat
      /\ Agenda = [i \in 1 .. n |-> Entry(events, KeyAt(keys, i))]
      /\ Len(Agenda) = n
  BY <1>1, <1>4, InOrderIs
<1>6. \A key \in keys : Precedes(key, new) <=> key[1] <= when
  BY <1>2 DEF Precedes, Time
<1>7. ASSUME NEW i \in 1 .. n PROVE Agenda[i].time <= when <=> i < p
  <2> DEFINE key == KeyAt(keys, i)
  <2>1. key \in keys /\ Rank(keys, key) = i
    BY <1>1, KeyAtRank
  <2>2. Agenda[i].time = key[1]
    BY <1>5 DEF Entry
  <2> HIDE DEF key
  <2>3. Precedes(key, new) <=> Rank(keys, key) < p
    BY <1>1, <1>2, <2>1, RankAfterPut
  <2> QED BY <1>6, <2>1, <2>2, <2>3
<1>8. p \in 1 .. n + 1
  BY <1>3, <1>4, <1>5
<1>9. Contract!Place(when) = p
  <2>1. DOMAIN Agenda = 1 .. n
    BY <1>5
  <2> HIDE DEF p, n
  <2>2. {i \in DOMAIN Agenda : Agenda[i].time <= when} = 1 .. p - 1
    BY <1>5, <1>7, <1>8, <2>1
  <2>3. Cardinality(1 .. p - 1) = p - 1
    BY <1>8, FS_Interval
  <2>4. Contract!Place(when) = (p - 1) + 1
    BY <2>2, <2>3, ContractCounts DEF Contract!Place
  <2> QED BY <1>8, <2>4
<1>10. Agenda' = Contract!InsertAt(Agenda, Contract!Place(when), [time |-> when, token |-> next_token])
  BY <1>3, <1>4, <1>9 DEF Contract!InsertAt, InsertAt
<1>11. /\ when >= now /\ next_token \notin 1 .. next_token - 1 /\ now' = now
       /\ (1 .. next_token - 1)' = (1 .. next_token - 1) \cup {next_token}
  BY DEF ScheduleAt, IInv, TypeOK
<1> QED BY <1>10, <1>11 DEF Contract!ScheduleAt

\* cancel: exactly the entry of the token's key leaves the agenda.
LEMMA CancelKeepsContract ==
  ASSUME IInv, NEW token \in Token, Cancel(token)
  PROVE  Contract!Cancel(token)
<1> DEFINE old == tokens[token]
           p == Rank(DOMAIN events, old)
<1>1. old \in DOMAIN events /\ events[old] = token
  BY DEF IInv, MapsAgree, Cancel
<1>2. DOMAIN events \in SUBSET Pair /\ IsFiniteSet(DOMAIN events)
  BY KeysAreFinite
<1> HIDE DEF old
<1>3. /\ p \in 1 .. Len(InOrder(events))
      /\ InOrder(events)[p] = Entry(events, old)
      /\ InOrder(Erase(events, old)) = RemoveAt(InOrder(events), p)
  BY <1>1, <1>2, InOrderOfErase
<1>4. Agenda = InOrder(events) /\ Agenda' = InOrder(Erase(events, old))
  BY DEF Agenda, Cancel, old
<1>5. DOMAIN Agenda = 1 .. Len(Agenda)
  <2>1. /\ InOrder(events) = [i \in 1 .. Cardinality(DOMAIN events) |-> Entry(events, KeyAt(DOMAIN events, i))]
        /\ Len(InOrder(events)) = Cardinality(DOMAIN events)
    BY <1>2, InOrderIs
  <2> QED BY <1>4, <2>1
<1>6. p \in DOMAIN Agenda /\ Agenda[p].token = token /\ Agenda' = Contract!RemoveAt(Agenda, p)
  BY <1>1, <1>3, <1>4, <1>5 DEF Entry, Contract!RemoveAt, RemoveAt
<1>7. UNCHANGED <<now, 1 .. next_token - 1>>
  BY DEF Cancel
<1> QED BY <1>6, <1>7 DEF Contract!Cancel

\* dispatch_one takes the head of the agenda, at its own time.
LEMMA DispatchOneKeepsContract ==
  ASSUME IInv, DispatchOne
  PROVE  Contract!Dispatch
<1> PICK key \in DOMAIN events :
       /\ IsFirst(key) /\ events' = Erase(events, key) /\ now' = key[1] /\ next_token' = next_token
  BY DEF DispatchOne
<1> DEFINE keys == DOMAIN events
<1>1. keys \in SUBSET Pair /\ IsFiniteSet(keys) /\ key \in keys
  BY KeysAreFinite
<1>2. Ahead(keys, key) = {}
  <2>1. ASSUME NEW other \in keys, Precedes(other, key) PROVE FALSE
    <3>1. other \in Pair /\ key \in Pair /\ (other = key \/ Precedes(key, other))
      BY <1>1 DEF IsFirst
    <3> QED BY <2>1, <3>1, PrecedesIsTotal
  <2> QED BY <2>1 DEF Ahead
<1>3. Rank(keys, key) = 1
  BY <1>2, FS_EmptySet DEF Rank
<1>4. /\ 1 \in 1 .. Len(InOrder(events))
      /\ InOrder(events)[1] = Entry(events, key)
      /\ InOrder(Erase(events, key)) = RemoveAt(InOrder(events), 1)
  BY <1>1, <1>3, InOrderOfErase
<1>5. Agenda = InOrder(events) /\ Agenda' = InOrder(Erase(events, key))
  BY DEF Agenda
<1> DEFINE T == [time : Nat, token : {events[k] : k \in keys}]
<1>6. Agenda \in Seq(T)
  BY <1>1, <1>5, InOrderIs
<1> HIDE DEF T
<1>7. Agenda # <<>> /\ Head(Agenda) = Entry(events, key)
  BY <1>4, <1>5, <1>6
<1>8. Agenda' = Tail(Agenda)
  <2>1. Agenda' = [j \in 1 .. Len(Agenda) - 1 |-> IF j < 1 THEN Agenda[j] ELSE Agenda[j + 1]]
    BY <1>4, <1>5, <1>6, RemoveAtIs
  <2>2. Tail(Agenda) = [j \in 1 .. Len(Agenda) - 1 |-> Agenda[j + 1]]
    <3>1. /\ Tail(Agenda) \in Seq(T) /\ Len(Tail(Agenda)) = Len(Agenda) - 1
          /\ \A j \in 1 .. Len(Tail(Agenda)) : Tail(Agenda)[j] = Agenda[j + 1]
      BY <1>6, <1>7, HeadTailProperties
    <3> DEFINE rest == Tail(Agenda)
    <3> HIDE DEF rest
    <3>2. rest \in Seq(T) /\ Len(rest) = Len(Agenda) - 1 /\ \A j \in 1 .. Len(rest) : rest[j] = Agenda[j + 1]
      BY <3>1 DEF rest
    <3>3. rest = [j \in 1 .. Len(rest) |-> rest[j]]
      BY <3>2
    <3> QED BY <3>2, <3>3 DEF rest
  <2>3. \A j \in 1 .. Len(Agenda) - 1 : ~ (j < 1)
    OBVIOUS
  <2> QED BY <2>1, <2>2, <2>3
<1>9. now' = Head(Agenda).time /\ UNCHANGED (1 .. next_token - 1)
  BY <1>7 DEF Entry
<1> QED BY <1>7, <1>8, <1>9 DEF Contract!Dispatch

\* run_until may advance the clock, past no pending callback.
LEMMA RunReturnsKeepsContract ==
  ASSUME IInv, RunReturns
  PROVE  (\E until \in Time : Contract!Advance(until)) \/ UNCHANGED Contract!vars
<1>1. Agenda' = Agenda /\ UNCHANGED (1 .. next_token - 1)
  BY DEF RunReturns, Agenda
<1>2. CASE mode # "until" \/ horizon = now
  BY <1>1, <1>2 DEF RunReturns, Contract!vars
<1>3. CASE mode = "until" /\ horizon # now
  <2>1. now' = horizon /\ horizon \in Time /\ horizon > now
    BY <1>3 DEF RunReturns, IInv, TypeOK, HorizonAhead, Time
  <2>2. \A key \in DOMAIN events : key[1] > horizon
    BY <1>3 DEF RunReturns, LoopTakes, IInv, TypeOK, Key, Time
  <2>3. ASSUME NEW i \in DOMAIN Agenda PROVE Agenda[i].time > horizon
    <3>1. DOMAIN events \in SUBSET Pair /\ IsFiniteSet(DOMAIN events)
      BY KeysAreFinite
    <3>2. Agenda = [j \in 1 .. Cardinality(DOMAIN events) |-> Entry(events, KeyAt(DOMAIN events, j))]
      BY <3>1, InOrderIs DEF Agenda
    <3>3. i \in 1 .. Cardinality(DOMAIN events)
      BY <3>2
    <3>4. KeyAt(DOMAIN events, i) \in DOMAIN events
      BY <3>1, <3>3, KeyAtRank
    <3> QED BY <2>2, <3>2, <3>3, <3>4 DEF Entry
  <2>4. Contract!Advance(horizon)
    BY <1>1, <2>1, <2>3 DEF Contract!Advance
  <2> QED BY <2>1, <2>4
<1> QED BY <1>2, <1>3

LEMMA NextKeepsContract == IInv /\ [Next]_vars => [Contract!Next]_(Contract!vars)
<1> SUFFICES ASSUME IInv, [Next]_vars PROVE Contract!Next \/ UNCHANGED Contract!vars
  OBVIOUS
<1>1. ASSUME NEW when \in Time, ScheduleAt(when) PROVE Contract!Next
  <2>1. next_token \in Token
    BY <1>1 DEF ScheduleAt, IInv, TypeOK, Token
  <2> QED BY <1>1, <2>1, ScheduleAtKeepsContract DEF Contract!Next
<1>2. ASSUME NEW token \in Token, Cancel(token) PROVE Contract!Next
  BY <1>2, CancelKeepsContract DEF Contract!Next
<1>3. CASE DispatchOne
  BY <1>3, DispatchOneKeepsContract DEF Contract!Next
<1>4. CASE RunReturns
  BY <1>4, RunReturnsKeepsContract DEF Contract!Next
<1>5. ASSUME UNCHANGED <<now, events, next_token>> PROVE UNCHANGED Contract!vars
  BY <1>5 DEF Contract!vars, Agenda
<1>6. ASSUME NEW kind, NEW until, CallRun(kind, until) PROVE UNCHANGED <<now, events, next_token>>
  BY <1>6 DEF CallRun
<1>7. CASE CallbackReturns \/ CallbackThrows \/ UNCHANGED vars
  BY <1>5, <1>7 DEF CallbackReturns, CallbackThrows, vars
<1> QED BY <1>1, <1>2, <1>3, <1>4, <1>5, <1>6, <1>7 DEF Next

\* EventQueue implements ISimScheduler: callbacks of one time run first in, first
\* out, cancel removes exactly the callback of its token, the run loops take the
\* head of the agenda at its own time, and run_until passes no pending callback.
THEOREM QueueKeepsContract == Spec => KeepsContract
<1>1. Spec => Contract!Init
  BY InitKeepsContract DEF Spec
<1>2. Spec => [][Contract!Next]_(Contract!vars)
  BY Invariance, NextKeepsContract, PTL DEF Spec
<1> QED BY <1>1, <1>2 DEF KeepsContract, Contract!Spec

-----------------------------------------------------------------------------
\* Every step of the systems is a step of the queue, or leaves it alone.
LEMMA StepOfQueue == TypeOK /\ [LifetimeNext]_allVars => [Next]_vars
<1> SUFFICES ASSUME TypeOK, [LifetimeNext]_allVars PROVE [Next]_vars
  OBVIOUS
<1>1. ASSUME NEW when \in Time, NEW system \in Systems, ScheduleEvent(system, when) PROVE Next
  BY <1>1 DEF ScheduleEvent, Next
<1>2. ASSUME NEW when \in Time, ClientSchedules(when) PROVE Next
  BY <1>2 DEF ClientSchedules, Next
<1>3. ASSUME NEW token \in Token, ClientCancels(token) PROVE Next
  BY <1>3 DEF ClientCancels, Next
<1>4. CASE ClientRunsQueue("run", now) \/ ClientRunsQueue("next", now)
  BY <1>4 DEF ClientRunsQueue, Next
<1>5. ASSUME NEW until \in Time, ClientRunsQueue("until", until) PROVE Next
  BY <1>5 DEF ClientRunsQueue, Next
<1>6. CASE RunEvent \/ EndOfCallback \/ EndOfRun
  BY <1>6 DEF RunEvent, EndOfCallback, EndOfRun, Next
<1>7. ASSUME NEW system \in Systems, BeginDestroy(system) PROVE UNCHANGED vars
  BY <1>7 DEF BeginDestroy
<1>8. CASE CancelPending
  <2>1. PICK token : Cancel(token)
    BY <1>8 DEF CancelPending
  <2>2. token \in Token
    BY <2>1 DEF Cancel, TypeOK
  <2> QED BY <2>1, <2>2 DEF Next
<1>9. CASE EndDestroy
  BY <1>9 DEF EndDestroy
<1>10. CASE UNCHANGED allVars
  BY <1>10 DEF allVars
<1> QED BY <1>1, <1>2, <1>3, <1>4, <1>5, <1>6, <1>7, <1>8, <1>9, <1>10 DEF LifetimeNext

\* The systems are clients of EventQueue: what is proved of the queue holds of it
\* under any number of them.
THEOREM UsesQueue == LifetimeSpec => Spec
<1>1. LifetimeInit => Init
  BY DEF LifetimeInit
<1>2. TypeOK /\ [LifetimeNext]_allVars => [Next]_vars
  BY StepOfQueue
<1>3. Init /\ [][LifetimeNext]_allVars => []IInv
  <2>1. IInv /\ [LifetimeNext]_allVars => IInv'
    <3>1. IInv => TypeOK
      BY DEF IInv
    <3> QED BY <3>1, StepOfQueue, NextIInv
  <2> QED BY <2>1, InitIInv, PTL
<1>4. IInv => TypeOK
  BY DEF IInv
<1> QED BY <1>1, <1>2, <1>3, <1>4, PTL DEF LifetimeSpec, Spec

-----------------------------------------------------------------------------
\* The inductive invariant.
LifetimeInv ==
    IInv /\ LifetimeTypeOK /\ PendingEventsAgree /\ NothingCallsDestroyedSystems

LEMMA LifetimeInitInv == LifetimeInit => LifetimeInv
<1> SUFFICES ASSUME LifetimeInit PROVE LifetimeInv
  OBVIOUS
<1>1. IInv /\ DOMAIN tokens = {}
  BY InitIInv DEF LifetimeInit, Init
<1>2. LifetimeTypeOK
  BY <1>1 DEF LifetimeInit, Init, LifetimeTypeOK, ClientRuns
<1>3. PendingEventsAgree /\ NothingCallsDestroyedSystems
  BY <1>1 DEF LifetimeInit, PendingEventsAgree, NothingCallsDestroyedSystems
<1> QED BY <1>1, <1>2, <1>3 DEF LifetimeInv

\* A new event: its token is in neither map yet.
LEMMA NewToken ==
  ASSUME IInv, NEW when \in Time, ScheduleAt(when),
         NEW owner \in Systems \cup {Client},
         closure \in [DOMAIN tokens -> Systems \cup {Client}],
         closure' = Put(closure, next_token, owner)
  PROVE  /\ next_token \in Token /\ next_token \notin DOMAIN tokens
         /\ DOMAIN tokens' = DOMAIN tokens \cup {next_token}
         /\ closure' \in [DOMAIN tokens' -> Systems \cup {Client}]
         /\ closure'[next_token] = owner
         /\ \A token \in DOMAIN tokens : closure'[token] = closure[token]
<1>1. next_token \in Token /\ next_token \notin DOMAIN tokens
  BY DEF IInv, TypeOK, FreshToken, ScheduleAt, Token
<1>2. DOMAIN tokens' = DOMAIN tokens \cup {next_token}
  BY DEF ScheduleAt, Put
<1> QED BY <1>1, <1>2 DEF Put

\* An event leaves: by its dispatch or its cancellation.
LEMMA OldToken ==
  ASSUME NEW token \in DOMAIN tokens, tokens' = Erase(tokens, token),
         closure \in [DOMAIN tokens -> Systems \cup {Client}],
         closure' = Erase(closure, token)
  PROVE  /\ DOMAIN tokens' = DOMAIN tokens \ {token}
         /\ closure' \in [DOMAIN tokens' -> Systems \cup {Client}]
         /\ \A other \in DOMAIN tokens' : closure'[other] = closure[other]
  BY DEF Erase

\* The event that RunEvent takes is the one that DispatchOne removes.
LEMMA FirstIsUnique ==
  ASSUME IInv, NEW token \in DOMAIN tokens, IsFirst(tokens[token]), DispatchOne
  PROVE  tokens' = Erase(tokens, token) /\ ~callback /\ mode # "idle" /\ callback' /\ mode' = mode
<1>1. PICK key \in DOMAIN events :
         IsFirst(key) /\ tokens' = Erase(tokens, events[key])
         /\ ~callback /\ mode # "idle" /\ callback' = TRUE /\ mode' = mode
  BY DEF DispatchOne
<1>2. key \in Key /\ tokens[token] \in Key /\ tokens[token] \in DOMAIN events
  BY DEF IInv, TypeOK, MapsAgree
<1>3. ~(Precedes(key, tokens[token]) /\ Precedes(tokens[token], key))
  BY <1>2 DEF Precedes, Key, Time
<1>4. key = tokens[token]
  BY <1>1, <1>2, <1>3 DEF IsFirst
<1>5. events[key] = token
  BY <1>4 DEF IInv, MapsAgree
<1> QED BY <1>1, <1>5

LEMMA LifetimeStep == LifetimeInv /\ [LifetimeNext]_allVars => LifetimeInv'
<1> SUFFICES ASSUME LifetimeInv, [LifetimeNext]_allVars PROVE LifetimeInv'
  OBVIOUS
<1> USE DEF LifetimeInv
<1>i. IInv'
  BY StepOfQueue, NextIInv DEF IInv
<1>t. /\ closure \in [DOMAIN tokens -> Systems \cup {Client}]
      /\ pending \in [Systems -> SUBSET Token] /\ live \subseteq Systems
  BY DEF LifetimeTypeOK
<1>1. ASSUME NEW when \in Time, NEW system \in Systems, ScheduleEvent(system, when)
      PROVE  LifetimeInv'
  <2>1. /\ next_token \in Token /\ next_token \notin DOMAIN tokens
        /\ DOMAIN tokens' = DOMAIN tokens \cup {next_token}
        /\ closure' \in [DOMAIN tokens' -> Systems \cup {Client}]
        /\ closure'[next_token] = system
        /\ \A token \in DOMAIN tokens : closure'[token] = closure[token]
    BY <1>1, <1>t, NewToken DEF ScheduleEvent
  <2>2. /\ system \in live /\ destroying = {}
        /\ pending' = [pending EXCEPT ![system] = @ \cup {next_token}]
        /\ UNCHANGED <<live, running, destroying>>
    BY <1>1 DEF ScheduleEvent, ClientControls
  <2>3. LifetimeTypeOK'
    BY <1>t, <2>1, <2>2 DEF LifetimeTypeOK
  <2>4. PendingEventsAgree' /\ NothingCallsDestroyedSystems'
    BY <1>t, <2>1, <2>2, ClientAssumption DEF PendingEventsAgree, NothingCallsDestroyedSystems
  <2> QED BY <1>i, <2>3, <2>4
<1>2. ASSUME NEW when \in Time, ClientSchedules(when)
      PROVE  LifetimeInv'
  <2>1. /\ next_token \notin DOMAIN tokens
        /\ DOMAIN tokens' = DOMAIN tokens \cup {next_token}
        /\ closure' \in [DOMAIN tokens' -> Systems \cup {Client}]
        /\ closure'[next_token] = Client
        /\ \A token \in DOMAIN tokens : closure'[token] = closure[token]
    BY <1>2, <1>t, NewToken DEF ClientSchedules
  <2>2. destroying = {} /\ UNCHANGED <<live, pending, running, destroying>>
    BY <1>2 DEF ClientSchedules, ClientControls
  <2>3. LifetimeTypeOK'
    BY <1>t, <2>1, <2>2 DEF LifetimeTypeOK
  <2>4. PendingEventsAgree' /\ NothingCallsDestroyedSystems'
    BY <1>t, <2>1, <2>2, ClientAssumption DEF PendingEventsAgree, NothingCallsDestroyedSystems
  <2> QED BY <1>i, <2>3, <2>4
<1>3. ASSUME NEW token \in Token, ClientCancels(token)
      PROVE  LifetimeInv'
  <2>1. /\ token \in DOMAIN tokens /\ closure[token] = Client
        /\ DOMAIN tokens' = DOMAIN tokens \ {token}
        /\ closure' \in [DOMAIN tokens' -> Systems \cup {Client}]
        /\ \A other \in DOMAIN tokens' : closure'[other] = closure[other]
    BY <1>3, <1>t, OldToken DEF ClientCancels, Cancel
  <2>2. destroying = {} /\ UNCHANGED <<live, pending, running, destroying>>
    BY <1>3 DEF ClientCancels, ClientControls
  <2>3. LifetimeTypeOK'
    BY <1>t, <2>1, <2>2 DEF LifetimeTypeOK
  <2>4. PendingEventsAgree' /\ NothingCallsDestroyedSystems'
    BY <1>t, <2>1, <2>2, ClientAssumption DEF PendingEventsAgree, NothingCallsDestroyedSystems
  <2> QED BY <1>i, <2>3, <2>4
<1>4. ASSUME NEW kind, NEW until, ClientRunsQueue(kind, until)
      PROVE  LifetimeInv'
  <2>1. tokens' = tokens /\ destroying = {} /\ UNCHANGED lifetimeVars
    BY <1>4 DEF ClientRunsQueue, CallRun
  <2> QED BY <1>i, <2>1 DEF lifetimeVars, LifetimeTypeOK, PendingEventsAgree, NothingCallsDestroyedSystems
<1>5. CASE RunEvent
  <2>1. PICK token \in DOMAIN tokens :
           /\ IsFirst(tokens[token]) /\ DispatchOne
           /\ running' = closure[token]
           /\ closure' = Erase(closure, token)
           /\ pending' = Forget(closure[token], token)
           /\ UNCHANGED <<live, destroying>>
    BY <1>5 DEF RunEvent
  <2>2. tokens' = Erase(tokens, token) /\ ~callback /\ mode # "idle"
    BY <2>1, FirstIsUnique
  <2>3. /\ DOMAIN tokens' = DOMAIN tokens \ {token}
        /\ closure' \in [DOMAIN tokens' -> Systems \cup {Client}]
        /\ \A other \in DOMAIN tokens' : closure'[other] = closure[other]
    BY <1>t, <2>1, <2>2, OldToken
  <2>4. destroying = {}
    BY <2>2 DEF LifetimeTypeOK, ClientRuns
  <2>5. LifetimeTypeOK'
    BY <1>t, <2>1, <2>3, <2>4 DEF LifetimeTypeOK, Forget
  <2>6. PendingEventsAgree' /\ NothingCallsDestroyedSystems'
    BY <1>t, <2>1, <2>3 DEF PendingEventsAgree, NothingCallsDestroyedSystems, Forget
  <2> QED BY <1>i, <2>5, <2>6
<1>6. CASE EndOfCallback
  <2>1. /\ tokens' = tokens /\ destroying = {} /\ running' = Client
        /\ UNCHANGED <<live, pending, closure, destroying>>
    BY <1>6 DEF EndOfCallback, CallbackReturns, CallbackThrows
  <2> QED BY <1>i, <2>1 DEF LifetimeTypeOK, PendingEventsAgree, NothingCallsDestroyedSystems
<1>7. CASE EndOfRun
  <2>1. tokens' = tokens /\ ~callback /\ mode # "idle" /\ UNCHANGED lifetimeVars
    BY <1>7 DEF EndOfRun, RunReturns
  <2>2. destroying = {}
    BY <2>1 DEF LifetimeTypeOK, ClientRuns
  <2> QED BY <1>i, <2>1, <2>2 DEF lifetimeVars, LifetimeTypeOK, PendingEventsAgree, NothingCallsDestroyedSystems
<1>8. ASSUME NEW system \in Systems, BeginDestroy(system)
      PROVE  LifetimeInv'
  <2>1. /\ ClientRuns /\ system \in live /\ system # running /\ destroying' = {system}
        /\ UNCHANGED <<vars, live, pending, closure, running>>
    BY <1>8 DEF BeginDestroy, ClientControls
  <2>2. LifetimeTypeOK'
    BY <1>t, <2>1 DEF LifetimeTypeOK, ClientRuns, vars
  <2>3. PendingEventsAgree' /\ NothingCallsDestroyedSystems'
    BY <2>1 DEF vars, PendingEventsAgree, NothingCallsDestroyedSystems
  <2> QED BY <1>i, <2>2, <2>3
<1>9. CASE CancelPending
  <2>1. PICK system \in destroying : \E token \in pending[system] :
           /\ Cancel(token)
           /\ closure' = Erase(closure, token)
           /\ pending' = Forget(system, token)
           /\ UNCHANGED <<live, running, destroying>>
    BY <1>9 DEF CancelPending
  <2>2. PICK token \in pending[system] :
           /\ Cancel(token)
           /\ closure' = Erase(closure, token)
           /\ pending' = Forget(system, token)
           /\ UNCHANGED <<live, running, destroying>>
    BY <2>1
  <2>3. /\ token \in DOMAIN tokens
        /\ DOMAIN tokens' = DOMAIN tokens \ {token}
        /\ closure' \in [DOMAIN tokens' -> Systems \cup {Client}]
        /\ \A other \in DOMAIN tokens' : closure'[other] = closure[other]
        /\ mode' = mode /\ callback' = callback
    BY <1>t, <2>2, OldToken DEF Cancel
  <2>4. system \in live /\ closure[token] = system
    BY <2>2 DEF LifetimeTypeOK, PendingEventsAgree
  <2>5. LifetimeTypeOK'
    BY <1>t, <2>2, <2>3 DEF LifetimeTypeOK, ClientRuns, Forget
  <2>6. PendingEventsAgree' /\ NothingCallsDestroyedSystems'
    BY <1>t, <2>2, <2>3, <2>4 DEF PendingEventsAgree, NothingCallsDestroyedSystems, Forget
  <2> QED BY <1>i, <2>5, <2>6
<1>10. CASE EndDestroy
  <2>1. PICK system \in destroying :
           /\ pending[system] \cap DOMAIN tokens = {}
           /\ destroying' = {} /\ live' = live \ {system}
           /\ pending' = [pending EXCEPT ![system] = {}]
           /\ UNCHANGED <<vars, closure, running>>
    BY <1>10 DEF EndDestroy
  <2>2. system \in live /\ running # system /\ tokens' = tokens
    BY <2>1 DEF LifetimeTypeOK, vars
  <2>3. \A token \in DOMAIN tokens : closure[token] # system
    BY <2>1, <2>2 DEF PendingEventsAgree
  <2>4. LifetimeTypeOK'
    BY <1>t, <2>1, <2>2 DEF LifetimeTypeOK
  <2>5. PendingEventsAgree' /\ NothingCallsDestroyedSystems'
    BY <1>t, <2>1, <2>2, <2>3, ClientAssumption DEF PendingEventsAgree, NothingCallsDestroyedSystems
  <2> QED BY <1>i, <2>4, <2>5
<1>11. CASE UNCHANGED allVars
  BY <1>i, <1>11 DEF allVars, lifetimeVars, vars, LifetimeTypeOK, ClientRuns, PendingEventsAgree,
     NothingCallsDestroyedSystems
<1> QED BY <1>1, <1>2, <1>3, <1>4, <1>5, <1>6, <1>7, <1>8, <1>9, <1>10, <1>11 DEF LifetimeNext

THEOREM LifetimeInvariance == LifetimeSpec => []LifetimeInv
  BY LifetimeInitInv, LifetimeStep, PTL DEF LifetimeSpec

\* The set of tokens that a destructor would cancel is at all times exactly the
\* set of events that would call its system.
THEOREM PendingEventsAlwaysAgree == LifetimeSpec => []PendingEventsAgree
<1>1. LifetimeInv => PendingEventsAgree
  BY DEF LifetimeInv
<1> QED BY <1>1, LifetimeInvariance, PTL

\* However systems are destroyed, between runs or in other callbacks: no event
\* and no running callback is left of one.
THEOREM DestroyedSystemsStaySilent == LifetimeSpec => []NothingCallsDestroyedSystems
<1>1. LifetimeInv => NothingCallsDestroyedSystems
  BY DEF LifetimeInv
<1> QED BY <1>1, LifetimeInvariance, PTL
=============================================================================
