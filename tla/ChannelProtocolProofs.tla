----------------------- MODULE ChannelProtocolProofs -----------------------
(***************************************************************************)
(* The channel protocol loses no wake-up and no refresh event, for every   *)
(* refresh interval, every delay a controller may ask for and every number *)
(* of outstanding accesses.                                                *)
(***************************************************************************)
EXTENDS ChannelProtocol, TLAPS

\* A claim stands for a scheduled event.
ClaimHasEvent == refresh_due_at # None => refresh_due_at \in refreshes

\* Without an interval no refresh ever falls due.
RefreshIsOff == RefreshInterval = 0 => next_refresh_due = None

\* WorkIsWoken is inductive with the types, RefreshIsArmed only with the claim's
\* event: an arrival that finds the due time claimed schedules nothing.
IInv == TypeOK /\ WorkIsWoken /\ RefreshIsArmed /\ ClaimHasEvent /\ RefreshIsOff

-----------------------------------------------------------------------------
\* A bounded passage of time keeps every scheduled time at or after the present.
LEMMA TimePasses ==
    ASSUME TypeOK, NEW d \in Delays, MayPass(d)
    PROVE  /\ AllLater(wakes, d) \subseteq Nat /\ AllLater(refreshes, d) \subseteq Nat
           /\ \A t \in wakes : t - d \in AllLater(wakes, d)
           /\ \A t \in refreshes : t - d \in AllLater(refreshes, d)
           /\ Later(next_refresh_due, d) \in Int \cup {None}
           /\ next_refresh_due = None <=> Later(next_refresh_due, d) = None
           /\ Later(wakeup_at, d) = None <=> wakeup_at = None
           /\ Later(refresh_due_at, d) = None <=> refresh_due_at = None
BY ProtocolAssumption DEF TypeOK, MayPass, AllLater, Later

\* What the two marks say of their events survives the passage of time.
LEMMA MarksAge ==
    ASSUME IInv, NEW d \in Delays, MayPass(d)
    PROVE  /\ Later(wakeup_at, d) # None => Later(wakeup_at, d) \in AllLater(wakes, d)
           /\ Later(refresh_due_at, d) # None => Later(refresh_due_at, d) \in AllLater(refreshes, d)
BY TimePasses, ProtocolAssumption DEF IInv, TypeOK, WorkIsWoken, ClaimHasEvent, AllLater, Later

\* The due time that an arrival leaves lies ahead.
LEMMA CatchingUp ==
    ASSUME NEW due \in Int \cup {None}, RefreshInterval # 0
    PROVE  CaughtUp(due) \in Nat \ {0}
<1>1. CASE due = None \/ due > 0
  BY <1>1, ProtocolAssumption DEF CaughtUp
<1>2. CASE due # None /\ ~(due > 0)
  <2>1. (-due) % RefreshInterval \in 0 .. RefreshInterval - 1
    BY <1>2, ProtocolAssumption
  <2> QED BY <1>2, <2>1, ProtocolAssumption DEF CaughtUp
<1> QED BY <1>1, <1>2

-----------------------------------------------------------------------------
\* Asking for a wake-up keeps the mark's promise, and marks the channel.
LEMMA RequestIsMarked ==
    ASSUME NEW mark \in Nat \cup {None}, NEW events \in SUBSET Nat, NEW when \in Nat \cup {None},
           mark # None => mark \in events,
           RequestWake(mark, events, when)
    PROVE  /\ wakeup_at' \in Nat \cup {None} /\ wakes' \in SUBSET Nat
           /\ wakeup_at' # None => wakeup_at' \in wakes'
           /\ when # None \/ mark # None => wakeup_at' # None
<1>1. CASE when # None /\ (mark = None \/ when < mark)
  <2>1. wakeup_at' = when /\ wakes' = events \cup {when}
    BY <1>1 DEF RequestWake
  <2> QED BY <1>1, <2>1
<1>2. CASE ~(when # None /\ (mark = None \/ when < mark))
  <2>1. wakeup_at' = mark /\ wakes' = events
    BY <1>2 DEF RequestWake
  <2>2. when # None => mark # None
    BY <1>2
  <2> QED BY <2>1, <2>2
<1> QED BY <1>1, <1>2

\* Arming the refresh leaves the due time claimed, and the claim with an event.
LEMMA ArmingIsClaimed ==
    ASSUME NEW due \in Nat \cup {None}, NEW claim \in Nat \cup {None}, NEW events \in SUBSET Nat,
           claim # None => claim \in events,
           ArmRefresh(due, claim, events)
    PROVE  /\ refresh_due_at' \in Nat \cup {None} /\ refreshes' \in SUBSET Nat
           /\ refresh_due_at' # None => refresh_due_at' \in refreshes'
           /\ due # None => refresh_due_at' = due
<1>1. CASE due # None /\ claim # due
  <2>1. refresh_due_at' = due /\ refreshes' = events \cup {due}
    BY <1>1 DEF ArmRefresh
  <2> QED BY <1>1, <2>1
<1>2. CASE ~(due # None /\ claim # due)
  <2>1. refresh_due_at' = claim /\ refreshes' = events
    BY <1>2 DEF ArmRefresh
  <2> QED BY <1>2, <2>1
<1> QED BY <1>1, <1>2

RefreshPart ==
    /\ next_refresh_due \in Int \cup {None}
    /\ refresh_due_at \in Nat \cup {None} /\ refreshes \subseteq Nat
    /\ RefreshIsArmed /\ ClaimHasEvent /\ RefreshIsOff

\* Admissions, or their absence, keep the refresh state in order; without one
\* no access may become outstanding.
LEMMA AdmissionKeepsRefresh ==
    ASSUME IInv, NEW d \in Delays, NEW k \in Nat, MayPass(d), RefreshOnAdmission(d, k),
           outstanding' \in Nat, k = 0 => outstanding' <= outstanding
    PROVE  RefreshPart'
<1> DEFINE due == Later(next_refresh_due, d)
           claim == Later(refresh_due_at, d)
           events == AllLater(refreshes, d)
<1>1. /\ due \in Int \cup {None} /\ events \in SUBSET Nat /\ claim \in Nat \cup {None}
      /\ claim # None => claim \in events
  BY TimePasses, MarksAge DEF IInv
<1>2. CASE k = 0
  <2>1. next_refresh_due' = due /\ refresh_due_at' = claim /\ refreshes' = events
    BY <1>2 DEF RefreshOnAdmission
  <2>2. RefreshInterval # 0 /\ outstanding' > 0 => claim = due /\ due \in events
    <3> SUFFICES ASSUME RefreshInterval # 0, outstanding' > 0
                 PROVE  claim = due /\ due \in events
      OBVIOUS
    <3>1. outstanding > 0
      BY <1>2 DEF IInv, TypeOK
    <3>2. /\ refresh_due_at = next_refresh_due /\ next_refresh_due \in refreshes
          /\ next_refresh_due # None
      BY <3>1, ProtocolAssumption DEF IInv, TypeOK, RefreshIsArmed
    <3> QED BY <3>2, TimePasses DEF IInv, Later
  <2>3. RefreshInterval = 0 => due = None
    BY DEF IInv, RefreshIsOff, Later
  <2> QED BY <1>1, <2>1, <2>2, <2>3 DEF RefreshPart, RefreshIsArmed, ClaimHasEvent, RefreshIsOff
<1>3. CASE k # 0
  <2> DEFINE next == CaughtUp(due)
  <2>1. next_refresh_due' = next /\ ArmRefresh(next, claim, events)
    BY <1>3 DEF RefreshOnAdmission
  <2>2. RefreshInterval = 0 => next = None
    BY DEF IInv, RefreshIsOff, Later, CaughtUp
  <2>3. RefreshInterval # 0 => next \in Nat \ {0}
    BY <1>1, CatchingUp
  <2>4. next \in Nat \cup {None}
    BY <2>2, <2>3
  <2> HIDE DEF due, claim, events, next
  <2>5. /\ refresh_due_at' \in Nat \cup {None} /\ refreshes' \in SUBSET Nat
        /\ refresh_due_at' # None => refresh_due_at' \in refreshes'
        /\ next # None => refresh_due_at' = next
    BY <1>1, <2>1, <2>4, ArmingIsClaimed
  <2> QED BY <2>1, <2>2, <2>3, <2>5, ProtocolAssumption
          DEF RefreshPart, RefreshIsArmed, ClaimHasEvent, RefreshIsOff
<1> QED BY <1>2, <1>3

-----------------------------------------------------------------------------
\* A step of another part of the system.
LEMMA ElapseKeepsIInv ==
    ASSUME IInv, NEW d \in Delays, NEW done \in 0 .. MaxOutstanding, NEW k \in 0 .. MaxOutstanding,
           Elapse(d, done, k)
    PROVE  IInv'
<1> DEFINE when == IF k > 0 THEN 0 ELSE None
<1>1. outstanding' \in Nat /\ (k = 0 => outstanding' <= outstanding) /\ work' \in BOOLEAN
  BY ProtocolAssumption DEF Elapse, IInv, TypeOK
<1>2. RefreshPart'
  BY <1>1, AdmissionKeepsRefresh, ProtocolAssumption DEF Elapse
<1>3. RequestWake(Later(wakeup_at, d), AllLater(wakes, d), when)
  BY DEF Elapse
<1>4. /\ Later(wakeup_at, d) \in Nat \cup {None} /\ AllLater(wakes, d) \in SUBSET Nat
      /\ Later(wakeup_at, d) # None => Later(wakeup_at, d) \in AllLater(wakes, d)
      /\ when \in Nat \cup {None}
  BY TimePasses, MarksAge DEF Elapse, IInv
<1>5. /\ wakeup_at' \in Nat \cup {None} /\ wakes' \in SUBSET Nat
      /\ wakeup_at' # None => wakeup_at' \in wakes'
      /\ when # None \/ Later(wakeup_at, d) # None => wakeup_at' # None
  <2> HIDE DEF when
  <2> QED BY <1>3, <1>4, RequestIsMarked
<1>6. work' => when # None \/ Later(wakeup_at, d) # None
  <2>1. k > 0 => when # None
    BY ProtocolAssumption
  <2>2. work => Later(wakeup_at, d) # None
    BY TimePasses DEF Elapse, IInv, WorkIsWoken
  <2>3. work' = (work \/ k > 0)
    BY DEF Elapse
  <2> QED BY <2>1, <2>2, <2>3, Zenon
<1> QED BY <1>1, <1>2, <1>5, <1>6 DEF IInv, TypeOK, WorkIsWoken, RefreshPart

\* A wake-up event.
LEMMA DriveKeepsIInv ==
    ASSUME IInv, NEW d \in Delays, NEW k \in 0 .. MaxOutstanding, NEW when \in Delays \cup {None},
           Drive(d, k, when)
    PROVE  IInv'
<1> DEFINE aged == Later(wakeup_at, d)
           mark == IF aged = 0 THEN None ELSE aged
<1>1. outstanding' \in Nat /\ (k = 0 => outstanding' <= outstanding) /\ work' \in BOOLEAN
  BY ProtocolAssumption DEF Drive, IInv, TypeOK
<1>2. RefreshPart'
  BY <1>1, AdmissionKeepsRefresh, ProtocolAssumption DEF Drive
<1>3. PICK left \in {AllLater(wakes, d), AllLater(wakes, d) \ {0}} : RequestWake(mark, left, when)
  BY DEF Drive
<1>4. /\ mark \in Nat \cup {None} /\ left \in SUBSET Nat /\ when \in Nat \cup {None}
      /\ mark # None => mark \in left
  BY <1>3, TimePasses, MarksAge, ProtocolAssumption DEF Drive, IInv
<1>5. /\ wakeup_at' \in Nat \cup {None} /\ wakes' \in SUBSET Nat
      /\ wakeup_at' # None => wakeup_at' \in wakes'
      /\ when # None => wakeup_at' # None
  <2> HIDE DEF mark
  <2> QED BY <1>3, <1>4, RequestIsMarked
<1>6. work' => when # None
  BY DEF Drive
<1> QED BY <1>1, <1>2, <1>5, <1>6 DEF IInv, TypeOK, WorkIsWoken, RefreshPart

\* A refresh event.
LEMMA FireRefreshKeepsIInv ==
    ASSUME IInv, NEW d \in Delays, FireRefresh(d)
    PROVE  IInv'
<1> DEFINE claim  == Later(refresh_due_at, d)
           due    == Later(next_refresh_due, d)
           falls  == claim = 0 /\ due = 0
           next   == IF falls THEN RefreshInterval ELSE due
           kept   == IF claim = 0 THEN None ELSE claim
           events == AllLater(refreshes, d) \ {0}
<1>1. /\ due \in Int \cup {None} /\ claim \in Nat \cup {None} /\ events \in SUBSET Nat
      /\ claim # None => claim \in AllLater(refreshes, d)
  BY TimePasses, MarksAge DEF FireRefresh, IInv
<1>2. kept \in Nat \cup {None} /\ (kept # None => kept \in events)
  BY <1>1
<1>3. WorkIsWoken' /\ wakeup_at' \in Nat \cup {None} /\ wakes' \in SUBSET Nat
  <2>1. RequestWake(Later(wakeup_at, d), AllLater(wakes, d), 0)
    BY DEF FireRefresh
  <2>2. /\ Later(wakeup_at, d) \in Nat \cup {None} /\ AllLater(wakes, d) \in SUBSET Nat
        /\ Later(wakeup_at, d) # None => Later(wakeup_at, d) \in AllLater(wakes, d)
        /\ 0 \in Nat \cup {None} /\ 0 # None
    BY TimePasses, MarksAge, ProtocolAssumption DEF FireRefresh, IInv
  <2>3. /\ wakeup_at' \in Nat \cup {None} /\ wakes' \in SUBSET Nat
        /\ wakeup_at' # None => wakeup_at' \in wakes'
        /\ wakeup_at' # None
    BY <2>1, <2>2, RequestIsMarked
  <2> QED BY <2>3 DEF WorkIsWoken
<1>4. work' \in BOOLEAN /\ outstanding' = outstanding /\ outstanding' \in Nat
  <2>1. work' \in BOOLEAN
    BY DEF FireRefresh, IInv, TypeOK
  <2>2. outstanding' = outstanding /\ outstanding \in Nat
    BY DEF FireRefresh, IInv, TypeOK
  <2> QED BY <2>1, <2>2
<1>5. RefreshInterval = 0 => next = None
  BY ProtocolAssumption DEF IInv, RefreshIsOff, Later
<1>6. next_refresh_due' = next /\ next \in Int \cup {None}
  BY <1>1, ProtocolAssumption DEF FireRefresh
<1>7. CASE outstanding = 0
  <2>1. refresh_due_at' = kept /\ refreshes' = events /\ outstanding' = 0
    BY <1>7 DEF FireRefresh
  <2>2. TypeOK'
    <3> HIDE DEF next, kept, events
    <3> QED BY <1>1, <1>2, <1>3, <1>6, <1>4, <2>1 DEF TypeOK
  <2>3. RefreshIsArmed' /\ ClaimHasEvent' /\ RefreshIsOff'
    <3> HIDE DEF next, kept, events
    <3> QED BY <1>2, <1>5, <1>6, <2>1 DEF RefreshIsArmed, ClaimHasEvent, RefreshIsOff
  <2> QED BY <1>3, <2>2, <2>3 DEF IInv
<1>8. CASE outstanding # 0
  <2>1. ArmRefresh(next, kept, events)
    BY <1>8 DEF FireRefresh
  <2>2. RefreshInterval # 0 => next \in Nat
    BY <1>8, TimePasses, ProtocolAssumption DEF IInv, TypeOK, RefreshIsArmed, FireRefresh, Later
  <2>3. next \in Nat \cup {None} /\ events \in SUBSET Nat
    BY <1>1, <1>5, <2>2
  <2> HIDE DEF next, kept, events
  <2>4. /\ refresh_due_at' \in Nat \cup {None} /\ refreshes' \in SUBSET Nat
        /\ refresh_due_at' # None => refresh_due_at' \in refreshes'
        /\ next # None => refresh_due_at' = next
    BY <1>2, <2>1, <2>3, ArmingIsClaimed
  <2>5. TypeOK'
    BY <1>3, <1>6, <1>4, <2>4 DEF TypeOK
  <2>6. RefreshIsArmed' /\ ClaimHasEvent' /\ RefreshIsOff'
    BY <1>5, <1>6, <2>2, <2>4, ProtocolAssumption DEF RefreshIsArmed, ClaimHasEvent, RefreshIsOff
  <2> QED BY <1>3, <2>5, <2>6 DEF IInv
<1> QED BY <1>7, <1>8

-----------------------------------------------------------------------------
LEMMA Initially == Init => IInv
<1> SUFFICES ASSUME Init PROVE IInv
  OBVIOUS
<1>1. TypeOK
  BY DEF Init, TypeOK
<1>2. WorkIsWoken /\ ClaimHasEvent /\ RefreshIsOff
  BY DEF Init, WorkIsWoken, ClaimHasEvent, RefreshIsOff
<1>3. RefreshIsArmed
  BY DEF Init, RefreshIsArmed
<1> QED BY <1>1, <1>2, <1>3 DEF IInv

LEMMA StepKeepsIInv == IInv /\ [Next]_vars => IInv'
<1> SUFFICES ASSUME IInv, [Next]_vars PROVE IInv'
  OBVIOUS
<1>1. CASE Next
  BY <1>1, ElapseKeepsIInv, DriveKeepsIInv, FireRefreshKeepsIInv DEF Next
<1>2. CASE UNCHANGED vars
  BY <1>2 DEF vars, IInv, TypeOK, WorkIsWoken, RefreshIsArmed, ClaimHasEvent, RefreshIsOff
<1> QED BY <1>1, <1>2

\* The inductive invariant holds throughout.
THEOREM Invariance == Spec => []IInv
BY Initially, StepKeepsIInv, PTL DEF Spec

\* Every scheduled time lies at or after the present: no event is ever overdue.
THEOREM TypeCorrect == Spec => []TypeOK
<1>1. IInv => TypeOK
  BY DEF IInv
<1> QED BY <1>1, Invariance, PTL

\* No lost wake-up: a controller with work always has its wake-up event.
THEOREM WorkIsAlwaysWoken == Spec => []WorkIsWoken
<1>1. IInv => WorkIsWoken
  BY DEF IInv
<1> QED BY <1>1, Invariance, PTL

\* While accesses are outstanding the next refresh always has its event.
THEOREM RefreshIsAlwaysArmed == Spec => []RefreshIsArmed
<1>1. IInv => RefreshIsArmed
  BY DEF IInv
<1> QED BY <1>1, Invariance, PTL
=============================================================================
