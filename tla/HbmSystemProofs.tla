-------------------- MODULE HbmSystemProofs --------------------
(***************************************************************************)
(* HbmSystem: the inductive invariant, and what follows from it for every  *)
(* standard, geometry, policy, capacity and workload.                      *)
(*                                                                         *)
(* What AccessesAreConserved and NoAdmissibleAccessLeft say is inductive   *)
(* only together with what an action relies on:                            *)
(*   Body     types, capacities, a pending line that covers every parent   *)
(*            with accesses to admit, and the counts of what is live;      *)
(*   Awaited  a parent with nothing live has accesses left to admit;       *)
(*   Marked   a wakeup or refresh time a controller remembers is the time  *)
(*            of an event of the agenda;                                   *)
(*   Armed    a channel with accesses outstanding has claimed its next     *)
(*            refresh;                                                     *)
(*   Settled  pump_admissions has run to its end.                          *)
(* One callback of the code passes accesses from a queue to an event, or   *)
(* from an event to finish_access one at a time with clients called in     *)
(* between.  Limbo is the account of what is on its way, so that Body is   *)
(* kept by every member function and not just by whole callbacks.          *)
(***************************************************************************)
EXTENDS HbmControllerProofs

-----------------------------------------------------------------------------
(* The agenda.                                                             *)

Kind == {"wake", "refresh", "capacity", "complete"}
EventRecord == [at : Nat, kind : Kind, ch : Channels, ids : Seq(Ids), stages : Seq(Stage)]

\* Only a completion completes accesses.
Event == {e \in EventRecord : e.kind = "complete" \/ e.ids = <<>>}

Sorted(a) == \A i, j \in 1 .. Len(a) : i < j => a[i].at <= a[j].at

\* b is a with the event e at place p.
Inserted(a, p, e, b) ==
    /\ Len(b) = Len(a) + 1 /\ p \in 1 .. Len(b)
    /\ \A k \in 1 .. Len(b) : b[k] = IF k < p THEN a[k] ELSE IF k = p THEN e ELSE a[k - 1]

\* Putting an event at place p of the agenda moves the later ones up by one.
LEMMA InsertAtFacts ==
  ASSUME NEW S, NEW a \in Seq(S), NEW p \in 1 .. Len(a) + 1, NEW e \in S
  PROVE  InsertAt(a, p, e) \in Seq(S) /\ Inserted(a, p, e, InsertAt(a, p, e))
<1> DEFINE n == Len(a)
           front == SubSeq(a, 1, p - 1)
           back == SubSeq(a, p, n)
           joined == front \o <<e>>
           whole == joined \o back
<1>1. n \in Nat /\ \A i \in 1 .. n : a[i] \in S
  OBVIOUS
<1> HIDE DEF n
<1>2. /\ front \in Seq(S) /\ Len(front) = p - 1
      /\ \A i \in 1 .. p - 1 : front[i] = a[i]
  <2>1. /\ front \in Seq(S) /\ Len(front) = IF 1 <= p - 1 THEN (p - 1) - 1 + 1 ELSE 0
        /\ \A i \in 1 .. (p - 1) - 1 + 1 : front[i] = a[1 + i - 1]
    <3>1. \A i \in 1 .. p - 1 : a[i] \in S
      BY <1>1 DEF n
    <3>2. 1 \in Int /\ p - 1 \in Int
      BY <1>1 DEF n
    <3> QED BY <3>1, <3>2, SubSeqProperties
  <2> HIDE DEF front
  <2>2. p - 1 \in Nat /\ (p - 1) - 1 + 1 = p - 1
    BY <1>1 DEF n
  <2>3. \A i \in 1 .. p - 1 : front[i] = a[i]
    BY <2>1, <2>2
  <2> QED BY <2>1, <2>2, <2>3
<1>3. /\ back \in Seq(S) /\ Len(back) = n - p + 1
      /\ \A i \in 1 .. n - p + 1 : back[i] = a[p + i - 1]
  <2>1. \A i \in p .. n : a[i] \in S
    BY <1>1 DEF n
  <2>2. p \in Int /\ n \in Int /\ p <= n + 1
    BY <1>1 DEF n
  <2>3. /\ back \in Seq(S) /\ Len(back) = IF p <= n THEN n - p + 1 ELSE 0
        /\ \A i \in 1 .. n - p + 1 : back[i] = a[p + i - 1]
    BY <2>1, <2>2, SubSeqProperties
  <2> HIDE DEF back
  <2> QED BY <2>2, <2>3
<1> HIDE DEF front, back
<1>4. p \in 1 .. n + 1
  BY DEF n
<1>5. /\ joined \in Seq(S) /\ Len(joined) = p
      /\ \A i \in 1 .. p : joined[i] = IF i < p THEN a[i] ELSE e
  <2>1. <<e>> \in Seq(S) /\ Len(<<e>>) = 1 /\ <<e>>[1] = e
    OBVIOUS
  <2>2. /\ joined \in Seq(S) /\ Len(joined) = (p - 1) + 1
        /\ \A i \in 1 .. (p - 1) + 1 : joined[i] = IF i <= p - 1 THEN front[i] ELSE <<e>>[i - (p - 1)]
    BY <1>2, <2>1, ConcatProperties
  <2> HIDE DEF joined
  <2>3. \A i \in 1 .. p : joined[i] = IF i < p THEN a[i] ELSE e
    <3> SUFFICES ASSUME NEW i \in 1 .. p PROVE joined[i] = IF i < p THEN a[i] ELSE e
      OBVIOUS
    <3>1. CASE i < p
      BY <1>1, <1>2, <1>4, <2>2, <3>1
    <3>2. CASE i = p
      BY <1>1, <1>4, <2>1, <2>2, <3>2
    <3> QED BY <1>4, <3>1, <3>2
  <2> QED BY <1>1, <1>4, <2>2, <2>3
<1> HIDE DEF joined
<1>6. /\ whole \in Seq(S) /\ Len(whole) = p + (n - p + 1)
      /\ \A i \in 1 .. p + (n - p + 1) : whole[i] = IF i <= p THEN joined[i] ELSE back[i - p]
  <2>1. joined \in Seq(S) /\ back \in Seq(S) /\ Len(joined) = p /\ Len(back) = n - p + 1
    BY <1>3, <1>5
  <2>2. /\ whole \in Seq(S) /\ Len(whole) = Len(joined) + Len(back)
        /\ \A i \in 1 .. Len(joined) + Len(back) :
              whole[i] = IF i <= Len(joined) THEN joined[i] ELSE back[i - Len(joined)]
    BY <2>1, ConcatProperties
  <2> HIDE DEF whole
  <2> QED BY <2>1, <2>2
<1> HIDE DEF whole
<1>7. Len(whole) = n + 1
  BY <1>1, <1>4, <1>6
<1>8. ASSUME NEW i \in 1 .. n + 1
      PROVE  whole[i] = IF i < p THEN a[i] ELSE IF i = p THEN e ELSE a[i - 1]
  <2>1. CASE i <= p
    BY <1>1, <1>4, <1>5, <1>6, <2>1
  <2>2. CASE i > p
    <3>1. i - p \in 1 .. n - p + 1 /\ p + (i - p) - 1 = i - 1
      BY <1>1, <1>4, <2>2
    <3>2. whole[i] = back[i - p]
      BY <1>1, <1>4, <1>6, <2>2
    <3> QED BY <1>1, <1>3, <1>4, <2>2, <3>1, <3>2
  <2> QED BY <1>4, <2>1, <2>2
<1>9. InsertAt(a, p, e) = whole
  BY DEF InsertAt, whole, joined, front, back, n
<1> QED BY <1>1, <1>4, <1>6, <1>7, <1>8, <1>9 DEF Inserted, n

\* A set of positions closed downwards is the first so many positions.
LEMMA InitialSegment ==
  ASSUME NEW n \in Nat, NEW D \in SUBSET (1 .. n), \A i \in D : \A j \in 1 .. i : j \in D
  PROVE  Cardinality(D) \in 0 .. n /\ D = 1 .. Cardinality(D)
<1>1. IsFiniteSet(D)
  <2>1. IsFiniteSet(1 .. n)
    BY FS_Interval
  <2> QED BY <2>1, FS_Subset
<1>2. CASE D = {}
  <2>1. Cardinality(D) = 0
    BY <1>2, FS_EmptySet
  <2> QED BY <1>2, <2>1
<1>3. CASE D # {}
  <2>1. D \in SUBSET Int
    OBVIOUS
  <2>2. Max(D) \in D /\ \A x \in D : Max(D) >= x
    BY <1>1, <1>3, <2>1, MaxOf
  <2> DEFINE m == Max(D)
  <2> HIDE DEF m
  <2>3. m \in 1 .. n /\ m \in D /\ \A x \in D : m >= x
    BY <2>2 DEF m
  <2>4. D = 1 .. m
    <3>1. ASSUME NEW x \in D PROVE x \in 1 .. m
      BY <2>3
    <3>2. ASSUME NEW x \in 1 .. m PROVE x \in D
      BY <2>3
    <3> QED BY <3>1, <3>2
  <2>5. Cardinality(1 .. m) = m
    BY <2>3, FS_Interval
  <2> QED BY <2>3, <2>4, <2>5
<1> QED BY <1>2, <1>3

\* An event put after those due no later leaves the agenda in the order of due times.
LEMMA SortedInsertion ==
  ASSUME NEW a \in Seq(Event), Sorted(a), NEW e \in Event
  PROVE  LET p == Cardinality({i \in DOMAIN a : a[i].at <= e.at}) + 1
             b == InsertAt(a, p, e)
         IN  b \in Seq(Event) /\ Inserted(a, p, e, b) /\ Sorted(b)
<1> DEFINE n == Len(a)
           D == {i \in DOMAIN a : a[i].at <= e.at}
           p == Cardinality(D) + 1
           b == InsertAt(a, p, e)
<1>1. n \in Nat /\ DOMAIN a = 1 .. n /\ e.at \in Nat /\ \A i \in 1 .. n : a[i].at \in Nat
  <2>1. \A i \in 1 .. n : a[i] \in Event
    OBVIOUS
  <2> QED BY <2>1 DEF Event, EventRecord
<1>2. D \in SUBSET (1 .. n)
  BY <1>1
<1>3. \A i \in D : \A j \in 1 .. i : j \in D
  <2> SUFFICES ASSUME NEW i \in D, NEW j \in 1 .. i PROVE j \in D
    OBVIOUS
  <2>1. i \in 1 .. n /\ j \in 1 .. n /\ a[i].at <= e.at
    BY <1>1
  <2>2. a[j].at <= a[i].at
    BY <1>1, <2>1 DEF Sorted
  <2> QED BY <1>1, <2>1, <2>2
<1> HIDE DEF D
<1>4. Cardinality(D) \in 0 .. n /\ D = 1 .. Cardinality(D)
  BY <1>1, <1>2, <1>3, InitialSegment
<1>5. p \in 1 .. n + 1
  BY <1>1, <1>4
<1>6. /\ \A k \in 1 .. p - 1 : a[k].at <= e.at
      /\ \A k \in p .. n : e.at <= a[k].at
  <2>1. \A k \in 1 .. n : a[k].at <= e.at <=> k < p
    <3> SUFFICES ASSUME NEW k \in 1 .. n PROVE a[k].at <= e.at <=> k < p
      OBVIOUS
    <3>1. a[k].at <= e.at <=> k \in D
      BY <1>1 DEF D
    <3>2. k \in D <=> k \in 1 .. Cardinality(D)
      BY <1>4
    <3> QED BY <1>1, <1>4, <3>1, <3>2
  <2>2. ASSUME NEW k \in 1 .. p - 1 PROVE a[k].at <= e.at
    BY <1>1, <1>5, <2>1
  <2>3. ASSUME NEW k \in p .. n PROVE e.at <= a[k].at
    <3>1. k \in 1 .. n /\ ~(k < p)
      BY <1>1, <1>5
    <3> QED BY <1>1, <2>1, <3>1
  <2> QED BY <2>2, <2>3
<1> HIDE DEF p
<1>7. b \in Seq(Event) /\ Inserted(a, p, e, b)
  BY <1>5, InsertAtFacts
<1> HIDE DEF b, n
<1>8. Sorted(b)
  <2> SUFFICES ASSUME NEW i \in 1 .. Len(b), NEW j \in 1 .. Len(b), i < j
               PROVE  b[i].at <= b[j].at
    BY DEF Sorted
  <2>0. Len(b) = n + 1
    BY <1>7 DEF Inserted, n
  <2>1. /\ b[i] = IF i < p THEN a[i] ELSE IF i = p THEN e ELSE a[i - 1]
        /\ b[j] = IF j < p THEN a[j] ELSE IF j = p THEN e ELSE a[j - 1]
    BY <1>7 DEF Inserted
  <2>s. \A x, y \in 1 .. n : x < y => a[x].at <= a[y].at
    BY DEF Sorted, n
  <2>2. CASE j < p
    BY <1>1, <1>5, <2>0, <2>1, <2>2, <2>s
  <2>3. CASE j = p
    <3>1. i \in 1 .. p - 1
      BY <1>1, <1>5, <2>0, <2>3
    <3> QED BY <1>1, <1>5, <1>6, <2>1, <2>3, <3>1
  <2>4. CASE j > p /\ i < p
    <3>1. i \in 1 .. n /\ j - 1 \in 1 .. n /\ (i < j - 1 \/ i = j - 1)
      BY <1>1, <1>5, <2>0, <2>4
    <3>2. b[i] = a[i] /\ b[j] = a[j - 1]
      BY <1>1, <1>5, <2>0, <2>1, <2>4
    <3> QED BY <1>1, <2>s, <3>1, <3>2
  <2>5. CASE j > p /\ i = p
    <3>1. j - 1 \in p .. n /\ b[i] = e /\ b[j] = a[j - 1]
      BY <1>1, <1>5, <2>0, <2>1, <2>5
    <3> QED BY <1>6, <3>1
  <2>6. CASE j > p /\ i > p
    <3>1. i - 1 \in 1 .. n /\ j - 1 \in 1 .. n /\ i - 1 < j - 1 /\ b[i] = a[i - 1] /\ b[j] = a[j - 1]
      BY <1>1, <1>5, <2>0, <2>1, <2>6
    <3> QED BY <2>s, <3>1
  <2> QED BY <1>1, <1>5, <2>0, <2>2, <2>3, <2>4, <2>5, <2>6
<1> QED BY <1>7, <1>8 DEF b, p, D

-----------------------------------------------------------------------------
(* The parts of the invariant.                                             *)

\* The member functions' states: six fields, and no others.
IsState(s) == s = [ctl |-> s.ctl, parents |-> s.parents, pending |-> s.pending,
                   agenda |-> s.agenda, waiting |-> s.waiting, stats |-> s.stats]

IsParent(p) ==
    /\ p = [txn |-> p.txn, admitted |-> p.admitted, remaining |-> p.remaining,
            arrival |-> p.arrival, stages |-> p.stages]
    /\ p.txn \in Transactions /\ p.admitted \in 0 .. Len(p.txn.accesses) /\ p.remaining \in Int
    /\ p.arrival \in IF KeepRecords THEN Int ELSE {None}

WellFormed(s) ==
    /\ IsState(s)
    /\ s.ctl \in [Channels -> TimedController]
    /\ s.parents = [id \in DOMAIN s.parents |-> s.parents[id]]
    /\ DOMAIN s.parents \in SUBSET Ids /\ IsFiniteSet(DOMAIN s.parents)
    /\ \A id \in DOMAIN s.parents : IsParent(s.parents[id])
    /\ s.pending \in Seq(Ids) /\ s.agenda \in Seq(Event) /\ Sorted(s.agenda)
    /\ s.waiting \in SUBSET Ids /\ s.waiting \cap DOMAIN s.parents = {}

\* A channel without refresh has no refresh times.
NoDue(c) == RefreshInterval = 0 => c.next_refresh_due = None /\ c.refresh_due_at = None

QueueFits(c) ==
    /\ ReadCapacity # 0 => Cardinality(Reads(c)) <= ReadCapacity
    /\ WriteCapacity # 0 => Cardinality(Writes(c)) <= WriteCapacity

Fits(s) == /\ Cardinality(DOMAIN s.parents) <= MaxActive
           /\ \A ch \in Channels : QueueFits(s.ctl[ch]) /\ NoDue(s.ctl[ch])

\* Every parent that is not fully admitted is pending.
Covers(s) == /\ \A i \in 1 .. Len(s.pending) : s.pending[i] \in DOMAIN s.parents
             /\ \A id \in DOMAIN s.parents :
                    Unadmitted(s.parents[id]) => \E i \in 1 .. Len(s.pending) : s.pending[i] = id

\* Accesses on their way, in the middle of an action, from a queue to the agenda or
\* from the agenda to finish_access: how many of a transaction, and of a channel.
Limbo  == [owed : [Ids -> Int], on : [Channels -> Int]]
Nobody == [owed |-> [id \in Ids |-> 0], on |-> [ch \in Channels |-> 0]]

\* Only active transactions have accesses that are queued, in flight or in limbo.
Known(s, limbo) ==
    /\ \A ch \in Channels : \A i \in 1 .. Len(s.ctl[ch].queue) : s.ctl[ch].queue[i].id \in DOMAIN s.parents
    /\ \A i \in 1 .. Len(s.agenda) : \A k \in 1 .. Len(s.agenda[i].ids) : s.agenda[i].ids[k] \in DOMAIN s.parents
    /\ \A id \in Ids : limbo.owed[id] > 0 => id \in DOMAIN s.parents

Balanced(s, limbo) ==
    /\ \A id \in DOMAIN s.parents : s.parents[id].remaining = LiveOf(s, id) + limbo.owed[id]
    /\ \A ch \in Channels : /\ s.ctl[ch].outstanding = LiveOn(s, ch) + limbo.on[ch]
                            /\ ~s.ctl[ch].fault

Body(s, limbo) == /\ WellFormed(s) /\ Fits(s) /\ Covers(s)
                  /\ limbo \in Limbo /\ Known(s, limbo) /\ Balanced(s, limbo)

\* A parent with no access left that is queued or in flight has more to admit.
Awaited(s) == \A id \in DOMAIN s.parents : s.parents[id].remaining = 0 => Unadmitted(s.parents[id])

\* Every mark has its event.
HasEvent(events, kind, ch, when) ==
    \E i \in 1 .. Len(events) : events[i].kind = kind /\ events[i].ch = ch /\ events[i].at = when
Marked(s) == \A ch \in Channels :
    /\ s.ctl[ch].wakeup_at # None => HasEvent(s.agenda, "wake", ch, s.ctl[ch].wakeup_at)
    /\ s.ctl[ch].refresh_due_at # None => HasEvent(s.agenda, "refresh", ch, s.ctl[ch].refresh_due_at)

Sound(s, limbo) ==
    /\ Body(s, limbo) /\ Awaited(s) /\ Marked(s)
    /\ limbo \in [owed : [Ids -> Nat], on : [Channels -> Nat]]

\* A channel with accesses outstanding has claimed its next refresh.
IsArmed(c) == c.outstanding > 0 => c.refresh_due_at = c.next_refresh_due
Armed(s) == \A ch \in Channels : IsArmed(s.ctl[ch])

\* The pending parents are stopped by a full queue.
Done(s, id) == Unadmitted(s.parents[id]) =>
    ~can_reserve(s.ctl[NextAccess(s.parents[id]).ch], s.parents[id].txn.op)
Settled(s) == \A i \in 1 .. Len(s.pending) :
    Unadmitted(s.parents[s.pending[i]]) /\ Done(s, s.pending[i])

IInv == Sound(State, Nobody) /\ Armed(State) /\ Settled(State)

-----------------------------------------------------------------------------
(* Counting places.                                                        *)

\* A one-to-one correspondence preserves the count.
LEMMA SameCount ==
  ASSUME NEW S, IsFiniteSet(S), NEW T, NEW f \in [S -> T],
         \A x, y \in S : f[x] = f[y] => x = y, \A t \in T : \E x \in S : f[x] = t
  PROVE  IsFiniteSet(T) /\ Cardinality(T) = Cardinality(S)
<1>1. f \in Bijection(S, T)
  BY DEF Bijection, Injection, Surjection, IsInjective
<1>2. ExistsBijection(S, T)
  BY <1>1 DEF ExistsBijection
<1> QED BY <1>2, FS_Bijection

\* The count of a disjoint union.
LEMMA DisjointCount ==
  ASSUME NEW S, IsFiniteSet(S), NEW T, IsFiniteSet(T), S \cap T = {}
  PROVE  IsFiniteSet(S \cup T) /\ Cardinality(S \cup T) = Cardinality(S) + Cardinality(T)
<1>1. Cardinality(S \cap T) = 0
  BY FS_EmptySet
<1>2. Cardinality(S) \in Nat /\ Cardinality(T) \in Nat
  BY FS_CardinalityType
<1>3. IsFiniteSet(S \cup T) /\ Cardinality(S \cup T) = Cardinality(S) + Cardinality(T) - Cardinality(S \cap T)
  BY FS_Union
<1> QED BY <1>1, <1>2, <1>3

\* The positions N, each paired with tag.
Tagged(tag, N) == {<<tag, i>> : i \in N}

\* Pairing every position with the same channel preserves the count.
LEMMA TaggedCount ==
  ASSUME NEW tag, NEW N \in SUBSET Nat, IsFiniteSet(N)
  PROVE  IsFiniteSet(Tagged(tag, N)) /\ Cardinality(Tagged(tag, N)) = Cardinality(N)
<1> DEFINE T == {<<tag, i>> : i \in N}
           f == [i \in N |-> <<tag, i>>]
<1>1. f \in [N -> T]
  OBVIOUS
<1>2. \A x, y \in N : f[x] = f[y] => x = y
  OBVIOUS
<1>3. \A t \in T : \E x \in N : f[x] = t
  OBVIOUS
<1> HIDE DEF f, T
<1>4. IsFiniteSet(T) /\ Cardinality(T) = Cardinality(N)
  BY <1>1, <1>2, <1>3, SameCount
<1> QED BY <1>4 DEF T, Tagged

\* Two sets of places that agree but for channel ch differ in count as their
\* places on ch do.
LEMMA SlicedPairs ==
  ASSUME NEW K, NEW X \in SUBSET (K \X Nat), IsFiniteSet(X), NEW Y \in SUBSET (K \X Nat), NEW ch \in K,
         \A k \in K \ {ch} : \A i \in Nat : <<k, i>> \in X <=> <<k, i>> \in Y,
         NEW N \in SUBSET Nat, NEW M \in SUBSET Nat, IsFiniteSet(N), IsFiniteSet(M),
         \A i \in Nat : (<<ch, i>> \in X <=> i \in N) /\ (<<ch, i>> \in Y <=> i \in M)
  PROVE  IsFiniteSet(Y) /\ Cardinality(Y) + Cardinality(N) = Cardinality(X) + Cardinality(M)
<1> DEFINE C == {x \in X : x[1] # ch}
           A == {<<ch, i>> : i \in N}
           B == {<<ch, i>> : i \in M}
<1>1. X = C \cup A /\ C \cap A = {}
  <2>1. ASSUME NEW x \in X PROVE x \in C \cup A
    <3>1. x = <<x[1], x[2]>> /\ x[1] \in K /\ x[2] \in Nat
      OBVIOUS
    <3>2. CASE x[1] = ch
      <4>1. x[2] \in N
        BY <3>1, <3>2
      <4> QED BY <3>1, <3>2, <4>1
    <3> QED BY <3>2
  <2>2. ASSUME NEW x \in A PROVE x \in X /\ x \notin C
    <3>1. PICK i \in N : x = <<ch, i>>
      OBVIOUS
    <3> QED BY <3>1
  <2> QED BY <2>1, <2>2
<1>2. Y = C \cup B /\ C \cap B = {}
  <2>1. ASSUME NEW x \in Y PROVE x \in C \cup B
    <3>1. x = <<x[1], x[2]>> /\ x[1] \in K /\ x[2] \in Nat
      OBVIOUS
    <3>2. CASE x[1] = ch
      <4>1. x[2] \in M
        BY <3>1, <3>2
      <4> QED BY <3>1, <3>2, <4>1
    <3>3. CASE x[1] # ch
      <4>1. <<x[1], x[2]>> \in X
        BY <3>1, <3>3
      <4> QED BY <3>1, <3>3, <4>1
    <3> QED BY <3>2, <3>3
  <2>2. ASSUME NEW x \in B PROVE x \in Y /\ x \notin C
    <3>1. PICK i \in M : x = <<ch, i>>
      OBVIOUS
    <3> QED BY <3>1
  <2>3. ASSUME NEW x \in C PROVE x \in Y
    <3>1. x = <<x[1], x[2]>> /\ x[1] \in K \ {ch} /\ x[2] \in Nat
      OBVIOUS
    <3> QED BY <3>1
  <2> QED BY <2>1, <2>2, <2>3
<1>3. IsFiniteSet(A) /\ Cardinality(A) = Cardinality(N) /\ IsFiniteSet(B) /\ Cardinality(B) = Cardinality(M)
  <2>1. IsFiniteSet(Tagged(ch, N)) /\ Cardinality(Tagged(ch, N)) = Cardinality(N)
    BY TaggedCount
  <2>2. IsFiniteSet(Tagged(ch, M)) /\ Cardinality(Tagged(ch, M)) = Cardinality(M)
    BY TaggedCount
  <2> QED BY <2>1, <2>2 DEF Tagged
<1>4. IsFiniteSet(C)
  <2>1. C \in SUBSET X
    OBVIOUS
  <2> QED BY <2>1, FS_Subset
<1> HIDE DEF A, B, C
<1>5. Cardinality(X) = Cardinality(C) + Cardinality(A)
  BY <1>1, <1>3, <1>4, DisjointCount
<1>6. IsFiniteSet(Y) /\ Cardinality(Y) = Cardinality(C) + Cardinality(B)
  BY <1>2, <1>3, <1>4, DisjointCount
<1>7. Cardinality(A) \in Nat /\ Cardinality(B) \in Nat /\ Cardinality(C) \in Nat
  BY <1>3, <1>4, FS_CardinalityType
<1> QED BY <1>3, <1>5, <1>6, <1>7

\* Y is X with the pairs <<p, k>> of N put in, and those from p on moved up by one.
Shifted(X, Y, p, N) ==
    \A i, k \in Nat :
        <<i, k>> \in Y <=> \/ i < p /\ <<i, k>> \in X
                           \/ i > p /\ <<i - 1, k>> \in X
                           \/ i = p /\ k \in N

\* The places in the events of an agenda into which one event was put: those of the
\* other events, and those of the new one.
LEMMA ShiftedPairs ==
  ASSUME NEW X \in SUBSET (Nat \X Nat), IsFiniteSet(X), NEW Y \in SUBSET (Nat \X Nat), NEW p \in Nat,
         NEW N \in SUBSET Nat, IsFiniteSet(N), Shifted(X, Y, p, N)
  PROVE  IsFiniteSet(Y) /\ Cardinality(Y) = Cardinality(X) + Cardinality(N)
<1>s. \A i, k \in Nat :
        <<i, k>> \in Y <=> \/ i < p /\ <<i, k>> \in X
                           \/ i > p /\ <<i - 1, k>> \in X
                           \/ i = p /\ k \in N
  BY DEF Shifted
<1> USE <1>s
<1> DEFINE A == {x \in Y : x[1] # p}
           B == {<<p, k>> : k \in N}
           f == [x \in X |-> IF x[1] < p THEN x ELSE <<x[1] + 1, x[2]>>]
<1>0. \A x \in X : x = <<x[1], x[2]>> /\ x[1] \in Nat /\ x[2] \in Nat
  OBVIOUS
<1>y. \A x \in Y : x = <<x[1], x[2]>> /\ x[1] \in Nat /\ x[2] \in Nat
  OBVIOUS
<1>1. f \in [X -> A]
  <2> SUFFICES ASSUME NEW x \in X PROVE f[x] \in A
    OBVIOUS
  <2>1. CASE x[1] < p
    <3>1. <<x[1], x[2]>> \in Y
      BY <1>0, <2>1
    <3> QED BY <1>0, <2>1, <3>1
  <2>2. CASE ~(x[1] < p)
    <3>1. x[1] + 1 \in Nat /\ x[1] + 1 > p /\ (x[1] + 1) - 1 = x[1]
      BY <1>0, <2>2
    <3>2. <<x[1] + 1, x[2]>> \in Y
      BY <1>0, <3>1
    <3> QED BY <1>0, <2>2, <3>1, <3>2
  <2> QED BY <2>1, <2>2
<1>2. \A x, y \in X : f[x] = f[y] => x = y
  <2> SUFFICES ASSUME NEW x \in X, NEW y \in X, f[x] = f[y] PROVE x = y
    OBVIOUS
  <2>1. CASE x[1] < p /\ y[1] < p
    BY <2>1
  <2>2. CASE x[1] < p /\ ~(y[1] < p)
    <3>1. f[x][1] = x[1] /\ f[y][1] = y[1] + 1
      BY <2>2
    <3> QED BY <1>0, <2>2, <3>1
  <2>3. CASE ~(x[1] < p) /\ y[1] < p
    <3>1. f[x][1] = x[1] + 1 /\ f[y][1] = y[1]
      BY <2>3
    <3> QED BY <1>0, <2>3, <3>1
  <2>4. CASE ~(x[1] < p) /\ ~(y[1] < p)
    <3>1. x[1] + 1 = y[1] + 1 /\ x[2] = y[2]
      BY <2>4
    <3>2. x[1] = y[1]
      BY <1>0, <3>1
    <3> QED BY <1>0, <3>1, <3>2
  <2> QED BY <2>1, <2>2, <2>3, <2>4
<1>3. \A t \in A : \E x \in X : f[x] = t
  <2> SUFFICES ASSUME NEW t \in A PROVE \E x \in X : f[x] = t
    OBVIOUS
  <2>1. CASE t[1] < p
    <3>0. t \in Y /\ t = <<t[1], t[2]>> /\ t[1] \in Nat /\ t[2] \in Nat
      BY <1>y
    <3>1. <<t[1], t[2]>> \in Y
      BY <3>0
    <3>2. PICK i \in Nat, k \in Nat : t = <<i, k>>
      BY <3>0
    <3>3. i < p /\ <<i, k>> \in Y
      BY <2>1, <3>0, <3>2
    <3>x. (i < p /\ <<i, k>> \in X) \/ (i > p /\ <<i - 1, k>> \in X) \/ (i = p /\ k \in N)
      BY <3>3, Zenon
    <3>4. <<i, k>> \in X
      BY <3>3, <3>x
    <3> QED BY <2>1, <3>2, <3>4
  <2>2. CASE t[1] > p
    <3>0. t \in Y /\ t = <<t[1], t[2]>> /\ t[1] \in Nat /\ t[2] \in Nat /\ <<t[1], t[2]>> \in Y
      BY <1>y
    <3>1. <<t[1] - 1, t[2]>> \in X
      BY <2>2, <3>0
    <3> DEFINE x == <<t[1] - 1, t[2]>>
    <3>2. x[1] = t[1] - 1 /\ x[2] = t[2] /\ ~(x[1] < p) /\ x[1] + 1 = t[1]
      BY <1>y, <2>2
    <3>3. f[x] = <<t[1], t[2]>>
      BY <3>1, <3>2
    <3> QED BY <1>y, <3>1, <3>3
  <2> QED BY <1>y, <2>1, <2>2
<1> HIDE DEF f
<1>4. IsFiniteSet(A) /\ Cardinality(A) = Cardinality(X)
  BY <1>1, <1>2, <1>3, SameCount
<1>5. IsFiniteSet(B) /\ Cardinality(B) = Cardinality(N)
  <2>1. IsFiniteSet(Tagged(p, N)) /\ Cardinality(Tagged(p, N)) = Cardinality(N)
    BY TaggedCount
  <2> QED BY <2>1 DEF Tagged
<1>6. Y = A \cup B /\ A \cap B = {}
  <2>1. ASSUME NEW x \in Y PROVE x \in A \cup B
    <3>1. CASE x[1] = p
      <4>1. <<x[1], x[2]>> \in Y /\ x[1] \in Nat /\ x[2] \in Nat
        BY <1>y
      <4>2. PICK i \in Nat, k \in Nat : x = <<i, k>>
        BY <1>y
      <4>3. i = p /\ <<i, k>> \in Y
        BY <3>1, <4>2
      <4>x. (i < p /\ <<i, k>> \in X) \/ (i > p /\ <<i - 1, k>> \in X) \/ (i = p /\ k \in N)
        BY <4>3, Zenon
      <4>4. k \in N
        BY <4>3, <4>x
      <4> QED BY <4>2, <4>3, <4>4
    <3> QED BY <3>1
  <2>2. ASSUME NEW x \in B PROVE x \in Y /\ x \notin A
    <3>1. PICK i \in N : x = <<p, i>>
      OBVIOUS
    <3>2. i \in Nat
      OBVIOUS
    <3> QED BY <3>1, <3>2
  <2> QED BY <2>1, <2>2
<1> HIDE DEF A, B
<1>7. IsFiniteSet(A \cup B) /\ Cardinality(A \cup B) = Cardinality(A) + Cardinality(B)
  BY <1>4, <1>5, <1>6, DisjointCount, Zenon
<1>8. IsFiniteSet(Y) /\ Cardinality(Y) = Cardinality(A) + Cardinality(B)
  BY <1>6, <1>7, Zenon
<1> QED BY <1>4, <1>5, <1>8

QueueOf(s, id)  == {x \in Queued(s) : IdQueued(s, x) = id}
QueueOn(s, ch)  == {x \in Queued(s) : x[1] = ch}
FlightOf(s, id) == {x \in InFlight(s) : IdInFlight(s, x) = id}
FlightOn(s, ch) == {x \in InFlight(s) : s.agenda[x[1]].ch = ch}

\* The places in the queues of the channels are finitely many pairs of a channel and a
\* position.
LEMMA QueuedFacts ==
  ASSUME NEW s, s.ctl \in [Channels -> TimedController]
  PROVE  /\ Queued(s) \in SUBSET (Channels \X Nat) /\ IsFiniteSet(Queued(s))
         /\ \A ch \in Channels : s.ctl[ch].queue \in Seq(QueuedAccess) /\ DOMAIN s.ctl[ch].queue = 1 .. Len(s.ctl[ch].queue)
         /\ \A ch \in Channels, i \in Nat : <<ch, i>> \in Queued(s) <=> i \in 1 .. Len(s.ctl[ch].queue)
<1> DEFINE places(ch) == {<<ch, i>> : i \in DOMAIN s.ctl[ch].queue}
<1>1. ASSUME NEW ch \in Channels
      PROVE  /\ s.ctl[ch].queue \in Seq(QueuedAccess) /\ DOMAIN s.ctl[ch].queue = 1 .. Len(s.ctl[ch].queue)
             /\ Len(s.ctl[ch].queue) \in Nat
             /\ IsFiniteSet(places(ch)) /\ places(ch) \in SUBSET (Channels \X Nat)
  <2>1. s.ctl[ch].queue \in Seq(QueuedAccess)
    BY DEF TimedController, Controller
  <2>2. DOMAIN s.ctl[ch].queue = 1 .. Len(s.ctl[ch].queue) /\ Len(s.ctl[ch].queue) \in Nat
    BY <2>1
  <2>3. IsFiniteSet(DOMAIN s.ctl[ch].queue) /\ DOMAIN s.ctl[ch].queue \in SUBSET Nat
    BY <2>2, FS_Interval
  <2>4. IsFiniteSet(places(ch))
    <3>1. IsFiniteSet(Tagged(ch, DOMAIN s.ctl[ch].queue))
      BY <2>3, TaggedCount
    <3> QED BY <3>1 DEF Tagged
  <2>5. places(ch) \in SUBSET (Channels \X Nat)
    BY <2>2
  <2> QED BY <2>1, <2>2, <2>4, <2>5
<1>2. Queued(s) = UNION {places(ch) : ch \in Channels}
  BY DEF Queued
<1>3. IsFiniteSet(Queued(s))
  <2> DEFINE f == [ch \in Channels |-> places(ch)]
             F == {f[ch] : ch \in Channels}
  <2>1. {places(ch) : ch \in Channels} = F
    OBVIOUS
  <2>2. IsFiniteSet(Channels)
    BY SystemAssumption
  <2>3. DOMAIN f = Channels
    OBVIOUS
  <2>4. \A T \in F : IsFiniteSet(T)
    BY <1>1
  <2> HIDE DEF f
  <2>5. IsFiniteSet(F)
    BY <2>2, <2>3, FiniteImage
  <2> HIDE DEF F
  <2>6. IsFiniteSet(UNION F)
    BY <2>4, <2>5, FS_UNION
  <2> QED BY <1>2, <2>1, <2>6
<1>4. ASSUME NEW ch \in Channels, NEW i \in Nat
      PROVE  <<ch, i>> \in Queued(s) <=> i \in 1 .. Len(s.ctl[ch].queue)
  <2>1. ASSUME <<ch, i>> \in Queued(s) PROVE i \in 1 .. Len(s.ctl[ch].queue)
    <3>1. PICK k \in Channels : <<ch, i>> \in places(k)
      BY <1>2, <2>1
    <3>2. k = ch /\ i \in DOMAIN s.ctl[ch].queue
      BY <3>1
    <3> QED BY <1>1, <3>2
  <2>2. ASSUME i \in 1 .. Len(s.ctl[ch].queue) PROVE <<ch, i>> \in Queued(s)
    <3>1. <<ch, i>> \in places(ch)
      BY <1>1, <2>2
    <3> QED BY <1>2, <3>1
  <2> QED BY <2>1, <2>2
<1>5. Queued(s) \in SUBSET (Channels \X Nat)
  BY <1>1, <1>2
<1> QED BY <1>1, <1>3, <1>4, <1>5

\* The places in the ids of the scheduled events are finitely many pairs of positions.
LEMMA InFlightFacts ==
  ASSUME NEW s, s.agenda \in Seq(Event)
  PROVE  /\ InFlight(s) \in SUBSET (Nat \X Nat) /\ IsFiniteSet(InFlight(s))
         /\ \A i, k \in Nat : <<i, k>> \in InFlight(s) <=>
                i \in 1 .. Len(s.agenda) /\ k \in 1 .. Len(s.agenda[i].ids)
<1> DEFINE n == Len(s.agenda)
           places(i) == {<<i, k>> : k \in DOMAIN s.agenda[i].ids}
<1>0. DOMAIN s.agenda = 1 .. n /\ n \in Nat /\ IsFiniteSet(1 .. n)
  BY FS_Interval
<1>1. ASSUME NEW i \in 1 .. n
      PROVE  /\ s.agenda[i].ids \in Seq(Ids) /\ DOMAIN s.agenda[i].ids = 1 .. Len(s.agenda[i].ids)
             /\ Len(s.agenda[i].ids) \in Nat
             /\ IsFiniteSet(places(i)) /\ places(i) \in SUBSET (Nat \X Nat)
  <2>0. s.agenda[i] \in Event
    BY <1>0
  <2>1. s.agenda[i].ids \in Seq(Ids)
    BY <2>0 DEF Event, EventRecord
  <2>2. DOMAIN s.agenda[i].ids = 1 .. Len(s.agenda[i].ids) /\ Len(s.agenda[i].ids) \in Nat
    BY <2>1
  <2> DEFINE m == Len(s.agenda[i].ids)
  <2>m. m \in Nat
    BY <2>2
  <2> HIDE DEF m
  <2>i. IsFiniteSet(1 .. m) /\ 1 .. m \in SUBSET Nat
    BY <2>m, FS_Interval
  <2>3. IsFiniteSet(DOMAIN s.agenda[i].ids) /\ DOMAIN s.agenda[i].ids \in SUBSET Nat
    BY <2>2, <2>i DEF m
  <2>4. IsFiniteSet(places(i))
    <3>1. IsFiniteSet(Tagged(i, DOMAIN s.agenda[i].ids))
      BY <2>3, TaggedCount
    <3> QED BY <3>1 DEF Tagged
  <2>5. places(i) \in SUBSET (Nat \X Nat)
    BY <1>0, <2>2
  <2> QED BY <2>1, <2>2, <2>4, <2>5
<1>2. InFlight(s) = UNION {places(i) : i \in 1 .. n}
  BY <1>0 DEF InFlight
<1> HIDE DEF n
<1>3. IsFiniteSet(InFlight(s))
  <2> DEFINE f == [i \in 1 .. n |-> places(i)]
             F == {f[i] : i \in 1 .. n}
  <2>1. {places(i) : i \in 1 .. n} = F
    OBVIOUS
  <2>3. DOMAIN f = 1 .. n
    OBVIOUS
  <2>4. \A T \in F : IsFiniteSet(T)
    BY <1>1
  <2> HIDE DEF f
  <2>5. IsFiniteSet(F)
    BY <1>0, <2>3, FiniteImage
  <2> HIDE DEF F
  <2>6. IsFiniteSet(UNION F)
    BY <2>4, <2>5, FS_UNION
  <2> QED BY <1>2, <2>1, <2>6
<1>4. ASSUME NEW i \in Nat, NEW k \in Nat
      PROVE  <<i, k>> \in InFlight(s) <=> i \in 1 .. n /\ k \in 1 .. Len(s.agenda[i].ids)
  <2>1. ASSUME <<i, k>> \in InFlight(s) PROVE i \in 1 .. n /\ k \in 1 .. Len(s.agenda[i].ids)
    <3>1. PICK j \in 1 .. n : <<i, k>> \in places(j)
      BY <1>2, <2>1
    <3>2. j = i /\ k \in DOMAIN s.agenda[i].ids
      BY <3>1
    <3> QED BY <1>1, <3>2
  <2>2. ASSUME i \in 1 .. n, k \in 1 .. Len(s.agenda[i].ids) PROVE <<i, k>> \in InFlight(s)
    <3>1. <<i, k>> \in places(i)
      BY <1>1, <2>2
    <3> QED BY <1>2, <2>2, <3>1
  <2> QED BY <2>1, <2>2
<1>5. InFlight(s) \in SUBSET (Nat \X Nat)
  BY <1>1, <1>2
<1> QED BY <1>3, <1>4, <1>5 DEF n

\* LiveOf and LiveOn count the queued places and those in flight.
LEMMA CountsAreNat ==
  ASSUME NEW s, s.ctl \in [Channels -> TimedController], s.agenda \in Seq(Event), NEW id, NEW ch
  PROVE  /\ IsFiniteSet(QueueOf(s, id)) /\ IsFiniteSet(FlightOf(s, id))
         /\ IsFiniteSet(QueueOn(s, ch)) /\ IsFiniteSet(FlightOn(s, ch))
         /\ Cardinality(QueueOf(s, id)) \in Nat /\ Cardinality(FlightOf(s, id)) \in Nat
         /\ Cardinality(QueueOn(s, ch)) \in Nat /\ Cardinality(FlightOn(s, ch)) \in Nat
         /\ LiveOf(s, id) = Cardinality(QueueOf(s, id)) + Cardinality(FlightOf(s, id))
         /\ LiveOn(s, ch) = Cardinality(QueueOn(s, ch)) + Cardinality(FlightOn(s, ch))
<1>1. /\ QueueOf(s, id) \in SUBSET Queued(s) /\ QueueOn(s, ch) \in SUBSET Queued(s)
      /\ FlightOf(s, id) \in SUBSET InFlight(s) /\ FlightOn(s, ch) \in SUBSET InFlight(s)
  BY DEF QueueOf, QueueOn, FlightOf, FlightOn
<1>2. IsFiniteSet(Queued(s)) /\ IsFiniteSet(InFlight(s))
  BY QueuedFacts, InFlightFacts
<1>3. /\ IsFiniteSet(QueueOf(s, id)) /\ IsFiniteSet(FlightOf(s, id))
      /\ IsFiniteSet(QueueOn(s, ch)) /\ IsFiniteSet(FlightOn(s, ch))
  BY <1>1, <1>2, FS_Subset
<1>4. /\ Cardinality(QueueOf(s, id)) \in Nat /\ Cardinality(FlightOf(s, id)) \in Nat
      /\ Cardinality(QueueOn(s, ch)) \in Nat /\ Cardinality(FlightOn(s, ch)) \in Nat
  BY <1>3, FS_CardinalityType
<1>5. /\ LiveOf(s, id) = Cardinality(QueueOf(s, id)) + Cardinality(FlightOf(s, id))
      /\ LiveOn(s, ch) = Cardinality(QueueOn(s, ch)) + Cardinality(FlightOn(s, ch))
  BY DEF LiveOf, LiveOn, QueueOf, QueueOn, FlightOf, FlightOn
<1> QED BY <1>3, <1>4, <1>5

\* The queued places of a channel number as its queue is long.
LEMMA QueueOnCount ==
  ASSUME NEW s, s.ctl \in [Channels -> TimedController], NEW ch \in Channels
  PROVE  Cardinality(QueueOn(s, ch)) = Len(s.ctl[ch].queue) /\ Len(s.ctl[ch].queue) \in Nat
<1> DEFINE n == Len(s.ctl[ch].queue)
<1>1. n \in Nat
  BY QueuedFacts
<1>2. QueueOn(s, ch) = {<<ch, i>> : i \in 1 .. n}
  <2>1. ASSUME NEW x \in QueueOn(s, ch) PROVE x \in {<<ch, i>> : i \in 1 .. n}
    <3>1. x \in Queued(s) /\ x[1] = ch
      BY DEF QueueOn
    <3>2. PICK i \in Nat : x = <<ch, i>>
      BY <3>1, QueuedFacts
    <3>3. i \in 1 .. n
      BY <3>1, <3>2, QueuedFacts
    <3> QED BY <3>2, <3>3
  <2>2. ASSUME NEW i \in 1 .. n PROVE <<ch, i>> \in QueueOn(s, ch)
    <3>1. <<ch, i>> \in Queued(s)
      BY QueuedFacts
    <3> QED BY <3>1 DEF QueueOn
  <2> QED BY <2>1, <2>2
<1> HIDE DEF n
<1>3. IsFiniteSet(1 .. n) /\ Cardinality(1 .. n) = n /\ 1 .. n \in SUBSET Nat
  <2>1. IsFiniteSet(1 .. n) /\ Cardinality(1 .. n) = (IF 1 > n THEN 0 ELSE n - 1 + 1)
    BY <1>1, FS_Interval
  <2>2. CASE n = 0
    BY <2>1, <2>2
  <2>3. CASE n > 0
    <3>1. Cardinality(1 .. n) = n - 1 + 1
      BY <1>1, <2>1, <2>3
    <3>2. n - 1 + 1 = n
      BY <1>1
    <3>3. 1 .. n \in SUBSET Nat
      BY <1>1
    <3> QED BY <2>1, <3>1, <3>2, <3>3, Zenon
  <2> QED BY <1>1, <2>2, <2>3
<1>4. Cardinality({<<ch, i>> : i \in 1 .. n}) = n
  <2>1. Cardinality(Tagged(ch, 1 .. n)) = Cardinality(1 .. n)
    BY <1>3, TaggedCount
  <2> QED BY <1>3, <2>1 DEF Tagged
<1> QED BY <1>1, <1>2, <1>4 DEF n

\* The queued places of request id, channel by channel.
LEMMA QueueOfMember ==
  ASSUME NEW s, s.ctl \in [Channels -> TimedController], NEW ch \in Channels, NEW i \in Nat, NEW id
  PROVE  /\ <<ch, i>> \in QueueOf(s, id) <=> i \in 1 .. Len(s.ctl[ch].queue) /\ s.ctl[ch].queue[i].id = id
         /\ <<ch, i>> \in QueueOf(s, id) <=> i \in Mine(s.ctl[ch].queue, id)
         /\ QueueOf(s, id) \in SUBSET (Channels \X Nat)
         /\ Mine(s.ctl[ch].queue, id) \in SUBSET Nat /\ IsFiniteSet(Mine(s.ctl[ch].queue, id))
<1>1. <<ch, i>> \in Queued(s) <=> i \in 1 .. Len(s.ctl[ch].queue)
  BY QueuedFacts
<1>2. IdQueued(s, <<ch, i>>) = s.ctl[ch].queue[i].id
  BY DEF IdQueued
<1>3. QueueOf(s, id) \in SUBSET (Channels \X Nat)
  BY QueuedFacts DEF QueueOf
<1>4. Mine(s.ctl[ch].queue, id) = {j \in 1 .. Len(s.ctl[ch].queue) : s.ctl[ch].queue[j].id = id}
  BY QueuedFacts DEF Mine
<1>5. IsFiniteSet(1 .. Len(s.ctl[ch].queue)) /\ 1 .. Len(s.ctl[ch].queue) \in SUBSET Nat
  <2>1. Len(s.ctl[ch].queue) \in Nat
    BY QueuedFacts
  <2> QED BY <2>1, FS_Interval
<1>6. Mine(s.ctl[ch].queue, id) \in SUBSET (1 .. Len(s.ctl[ch].queue))
  BY <1>4
<1>7. IsFiniteSet(Mine(s.ctl[ch].queue, id))
  BY <1>5, <1>6, FS_Subset
<1>8. <<ch, i>> \in QueueOf(s, id) <=> <<ch, i>> \in Queued(s) /\ s.ctl[ch].queue[i].id = id
  BY <1>2 DEF QueueOf
<1> QED BY <1>1, <1>3, <1>4, <1>5, <1>6, <1>7, <1>8

\* The same accesses in the same places.
SameIds(q, r) == Len(r) = Len(q) /\ \A j \in 1 .. Len(q) : r[j].id = q[j].id

\* When one channel's queue changes, the queued places of a request change by what
\* that queue gained or lost.
LEMMA QueueChange ==
  ASSUME NEW s, s.ctl \in [Channels -> TimedController], NEW t, t.ctl \in [Channels -> TimedController],
         NEW ch \in Channels, \A k \in Channels \ {ch} : SameIds(s.ctl[k].queue, t.ctl[k].queue), NEW id
  PROVE  Cardinality(QueueOf(t, id)) + Cardinality(Mine(s.ctl[ch].queue, id))
           = Cardinality(QueueOf(s, id)) + Cardinality(Mine(t.ctl[ch].queue, id))
<1> DEFINE X == QueueOf(s, id)
           Y == QueueOf(t, id)
           N == Mine(s.ctl[ch].queue, id)
           M == Mine(t.ctl[ch].queue, id)
<1>0. 0 \in Nat
  OBVIOUS
<1>1. X \in SUBSET (Channels \X Nat) /\ Y \in SUBSET (Channels \X Nat)
      /\ N \in SUBSET Nat /\ M \in SUBSET Nat /\ IsFiniteSet(N) /\ IsFiniteSet(M)
  BY <1>0, QueueOfMember
<1>2. IsFiniteSet(X)
  <2>1. X \in SUBSET Queued(s)
    BY DEF QueueOf
  <2> QED BY <2>1, QueuedFacts, FS_Subset
<1>3. ASSUME NEW k \in Channels \ {ch}, NEW i \in Nat PROVE <<k, i>> \in X <=> <<k, i>> \in Y
  <2>1. <<k, i>> \in X <=> i \in 1 .. Len(s.ctl[k].queue) /\ s.ctl[k].queue[i].id = id
    BY QueueOfMember
  <2>2. <<k, i>> \in Y <=> i \in 1 .. Len(t.ctl[k].queue) /\ t.ctl[k].queue[i].id = id
    BY QueueOfMember
  <2> QED BY <2>1, <2>2 DEF SameIds
<1>4. ASSUME NEW i \in Nat PROVE (<<ch, i>> \in X <=> i \in N) /\ (<<ch, i>> \in Y <=> i \in M)
  BY QueueOfMember
<1> HIDE DEF X, Y, N, M
<1> QED BY <1>1, <1>2, <1>3, <1>4, SlicedPairs DEF X, Y, N, M

\* Queues that name the same requests leave every request's places as they are.
LEMMA SameQueues ==
  ASSUME NEW s, s.ctl \in [Channels -> TimedController], NEW t, t.ctl \in [Channels -> TimedController],
         \A k \in Channels : SameIds(s.ctl[k].queue, t.ctl[k].queue), NEW id
  PROVE  QueueOf(t, id) = QueueOf(s, id)
<1>1. ASSUME NEW k \in Channels, NEW i \in Nat PROVE <<k, i>> \in QueueOf(s, id) <=> <<k, i>> \in QueueOf(t, id)
  <2>1. <<k, i>> \in QueueOf(s, id) <=> i \in 1 .. Len(s.ctl[k].queue) /\ s.ctl[k].queue[i].id = id
    BY QueueOfMember
  <2>2. <<k, i>> \in QueueOf(t, id) <=> i \in 1 .. Len(t.ctl[k].queue) /\ t.ctl[k].queue[i].id = id
    BY QueueOfMember
  <2> QED BY <2>1, <2>2 DEF SameIds
<1>2. QueueOf(s, id) \in SUBSET (Channels \X Nat) /\ QueueOf(t, id) \in SUBSET (Channels \X Nat)
  BY QueuedFacts DEF QueueOf
<1>3. \A x \in Channels \X Nat : x \in QueueOf(s, id) <=> x \in QueueOf(t, id)
  <2> SUFFICES ASSUME NEW x \in Channels \X Nat PROVE x \in QueueOf(s, id) <=> x \in QueueOf(t, id)
    OBVIOUS
  <2>1. PICK k \in Channels, i \in Nat : x = <<k, i>>
    OBVIOUS
  <2> QED BY <1>1, <2>1
<1> QED BY <1>2, <1>3

\* A place in the agenda of a requester, and of a channel.
LEMMA FlightMember ==
  ASSUME NEW s, s.agenda \in Seq(Event), NEW i \in Nat, NEW k \in Nat, NEW id
  PROVE  <<i, k>> \in FlightOf(s, id) <=>
             i \in 1 .. Len(s.agenda) /\ k \in 1 .. Len(s.agenda[i].ids) /\ s.agenda[i].ids[k] = id
<1>1. <<i, k>> \in InFlight(s) <=> i \in 1 .. Len(s.agenda) /\ k \in 1 .. Len(s.agenda[i].ids)
  BY InFlightFacts
<1>2. IdInFlight(s, <<i, k>>) = s.agenda[i].ids[k]
  BY DEF IdInFlight
<1>3. <<i, k>> \in FlightOf(s, id) <=> <<i, k>> \in InFlight(s) /\ s.agenda[i].ids[k] = id
  BY <1>2 DEF FlightOf
<1> QED BY <1>1, <1>3

\* The same of a channel.
LEMMA FlightOnMember ==
  ASSUME NEW s, s.agenda \in Seq(Event), NEW i \in Nat, NEW k \in Nat, NEW ch
  PROVE  <<i, k>> \in FlightOn(s, ch) <=>
             i \in 1 .. Len(s.agenda) /\ k \in 1 .. Len(s.agenda[i].ids) /\ s.agenda[i].ch = ch
<1>1. <<i, k>> \in InFlight(s) <=> i \in 1 .. Len(s.agenda) /\ k \in 1 .. Len(s.agenda[i].ids)
  BY InFlightFacts
<1>2. <<i, k>>[1] = i
  OBVIOUS
<1>3. <<i, k>> \in FlightOn(s, ch) <=> <<i, k>> \in InFlight(s) /\ s.agenda[i].ch = ch
  BY <1>2 DEF FlightOn
<1> QED BY <1>1, <1>3

\* There are finitely many.
LEMMA FlightPairs ==
  ASSUME NEW s, s.agenda \in Seq(Event), NEW id
  PROVE  FlightOf(s, id) \in SUBSET (Nat \X Nat) /\ IsFiniteSet(FlightOf(s, id))
<1>1. FlightOf(s, id) \in SUBSET InFlight(s)
  BY DEF FlightOf
<1>2. InFlight(s) \in SUBSET (Nat \X Nat) /\ IsFiniteSet(InFlight(s))
  BY InFlightFacts
<1>3. IsFiniteSet(FlightOf(s, id))
  BY <1>1, <1>2, FS_Subset
<1> QED BY <1>1, <1>2, <1>3

\* The same of a channel.
LEMMA FlightOnPairs ==
  ASSUME NEW s, s.agenda \in Seq(Event), NEW ch
  PROVE  FlightOn(s, ch) \in SUBSET (Nat \X Nat) /\ IsFiniteSet(FlightOn(s, ch))
<1>1. FlightOn(s, ch) \in SUBSET InFlight(s)
  BY DEF FlightOn
<1>2. InFlight(s) \in SUBSET (Nat \X Nat) /\ IsFiniteSet(InFlight(s))
  BY InFlightFacts
<1>3. IsFiniteSet(FlightOn(s, ch))
  BY <1>1, <1>2, FS_Subset
<1> QED BY <1>1, <1>2, <1>3

\* What an event carries.
LEMMA EventTypes ==
  ASSUME NEW e \in Event
  PROVE  /\ e.ids \in Seq(Ids) /\ Len(e.ids) \in Nat /\ DOMAIN e.ids = 1 .. Len(e.ids)
         /\ e.at \in Nat /\ e.kind \in Kind /\ e.ch \in Channels
         /\ IsFiniteSet(1 .. Len(e.ids)) /\ Cardinality(1 .. Len(e.ids)) = Len(e.ids)
<1>1. e.ids \in Seq(Ids) /\ e.at \in Nat /\ e.kind \in Kind /\ e.ch \in Channels
  BY DEF Event, EventRecord
<1>2. Len(e.ids) \in Nat /\ DOMAIN e.ids = 1 .. Len(e.ids)
  BY <1>1
<1>3. IsFiniteSet(1 .. Len(e.ids)) /\ Cardinality(1 .. Len(e.ids)) = Len(e.ids)
  BY <1>2, FS_Interval
<1> QED BY <1>1, <1>2, <1>3

\* How often it names a transaction.
LEMMA EventIds ==
  ASSUME NEW e \in Event, NEW id
  PROVE  /\ Named(e.ids, id) \in SUBSET (1 .. Len(e.ids)) /\ Named(e.ids, id) \in SUBSET Nat
         /\ IsFiniteSet(Named(e.ids, id)) /\ Cardinality(Named(e.ids, id)) \in Nat
         /\ \A k \in Nat : k \in Named(e.ids, id) <=> k \in 1 .. Len(e.ids) /\ e.ids[k] = id
<1>1. Len(e.ids) \in Nat /\ DOMAIN e.ids = 1 .. Len(e.ids) /\ IsFiniteSet(1 .. Len(e.ids))
  BY EventTypes
<1>2. Named(e.ids, id) \in SUBSET (1 .. Len(e.ids))
  BY <1>1 DEF Named
<1>3. IsFiniteSet(Named(e.ids, id)) /\ Cardinality(Named(e.ids, id)) \in Nat
  BY <1>1, <1>2, FS_Subset, FS_CardinalityType
<1>4. \A k \in Nat : k \in Named(e.ids, id) <=> k \in 1 .. Len(e.ids) /\ e.ids[k] = id
  BY <1>1 DEF Named
<1>5. Named(e.ids, id) \in SUBSET Nat
  BY <1>2
<1> QED BY <1>2, <1>3, <1>4, <1>5

\* One place of an agenda that an event was put into.
LEMMA InsertedEntry ==
  ASSUME NEW a \in Seq(Event), NEW b \in Seq(Event), NEW p, NEW e, Inserted(a, p, e, b), NEW i \in Nat
  PROVE  /\ p \in Nat /\ Len(a) \in Nat /\ Len(b) = Len(a) + 1
         /\ i < p => (i \in 1 .. Len(b) <=> i \in 1 .. Len(a)) /\ (i \in 1 .. Len(a) => b[i] = a[i])
         /\ i > p => (i \in 1 .. Len(b) <=> i - 1 \in 1 .. Len(a)) /\ (i \in 1 .. Len(b) => b[i] = a[i - 1])
         /\ i = p => i \in 1 .. Len(b) /\ b[i] = e
<1>1. Len(a) \in Nat /\ Len(b) = Len(a) + 1 /\ p \in 1 .. Len(a) + 1
  BY DEF Inserted
<1>2. \A k \in 1 .. Len(b) : b[k] = IF k < p THEN a[k] ELSE IF k = p THEN e ELSE a[k - 1]
  BY DEF Inserted
<1>3. i < p => (i \in 1 .. Len(b) <=> i \in 1 .. Len(a)) /\ (i \in 1 .. Len(a) => b[i] = a[i])
  BY <1>1, <1>2
<1>4. i > p => (i \in 1 .. Len(b) <=> i - 1 \in 1 .. Len(a)) /\ (i \in 1 .. Len(b) => b[i] = a[i - 1])
  BY <1>1, <1>2
<1>5. i = p => i \in 1 .. Len(b) /\ b[i] = e
  BY <1>1, <1>2
<1> QED BY <1>1, <1>3, <1>4, <1>5

\* How many requesters an event has of a channel.
Load(e, ch) == IF e.ch = ch THEN Len(e.ids) ELSE 0

\* A transfer that is scheduled adds its requesters to those in flight, and the
\* event that is run takes its own away.
LEMMA FlightInserted ==
  ASSUME NEW s, s.agenda \in Seq(Event), NEW t, t.agenda \in Seq(Event), NEW p, NEW e \in Event,
         Inserted(s.agenda, p, e, t.agenda), NEW id
  PROVE  Cardinality(FlightOf(t, id)) = Cardinality(FlightOf(s, id)) + Cardinality(Named(e.ids, id))
<1> DEFINE a == s.agenda
           b == t.agenda
<1>i. a \in Seq(Event) /\ b \in Seq(Event) /\ Inserted(a, p, e, b)
  OBVIOUS
<1>0. p \in Nat /\ 0 \in Nat
  BY InsertedEntry
<1>1. ASSUME NEW i \in Nat, NEW k \in Nat
      PROVE  <<i, k>> \in FlightOf(t, id) <=> \/ i < p /\ <<i, k>> \in FlightOf(s, id)
                                              \/ i > p /\ <<i - 1, k>> \in FlightOf(s, id)
                                              \/ i = p /\ k \in Named(e.ids, id)
  <2>1. <<i, k>> \in FlightOf(t, id) <=>
               i \in 1 .. Len(b) /\ k \in 1 .. Len(b[i].ids) /\ b[i].ids[k] = id
    BY FlightMember
  <2>2. CASE i < p
    <3>1. <<i, k>> \in FlightOf(s, id) <=>
               i \in 1 .. Len(a) /\ k \in 1 .. Len(a[i].ids) /\ a[i].ids[k] = id
      BY FlightMember
    <3>2. (i \in 1 .. Len(b) <=> i \in 1 .. Len(a)) /\ (i \in 1 .. Len(a) => b[i] = a[i])
      BY <2>2, InsertedEntry
    <3> HIDE DEF a, b
    <3> QED BY <1>0, <2>1, <2>2, <3>1, <3>2
  <2>3. CASE i > p
    <3>0. i - 1 \in Nat
      BY <1>0, <2>3
    <3>1. <<i - 1, k>> \in FlightOf(s, id) <=>
               i - 1 \in 1 .. Len(a) /\ k \in 1 .. Len(a[i - 1].ids) /\ a[i - 1].ids[k] = id
      BY <3>0, FlightMember
    <3>2. (i \in 1 .. Len(b) <=> i - 1 \in 1 .. Len(a)) /\ (i \in 1 .. Len(b) => b[i] = a[i - 1])
      <4> HIDE DEF a, b
      <4>1. i > p => (i \in 1 .. Len(b) <=> i - 1 \in 1 .. Len(a)) /\ (i \in 1 .. Len(b) => b[i] = a[i - 1])
        BY <1>i, InsertedEntry
      <4> QED BY <2>3, <4>1
    <3> HIDE DEF a, b
    <3> QED BY <1>0, <2>1, <2>3, <3>1, <3>2
  <2>4. CASE i = p
    <3>1. i \in 1 .. Len(b) /\ b[i] = e
      BY <2>4, InsertedEntry
    <3>2. k \in Named(e.ids, id) <=> k \in 1 .. Len(e.ids) /\ e.ids[k] = id
      BY EventIds
    <3> HIDE DEF a, b
    <3> QED BY <1>0, <2>1, <2>4, <3>1, <3>2
  <2> QED BY <1>0, <2>2, <2>3, <2>4
<1>2. /\ FlightOf(s, id) \in SUBSET (Nat \X Nat) /\ IsFiniteSet(FlightOf(s, id))
      /\ FlightOf(t, id) \in SUBSET (Nat \X Nat)
  BY FlightPairs, FlightOnPairs
<1>3. Named(e.ids, id) \in SUBSET Nat /\ IsFiniteSet(Named(e.ids, id))
  BY EventIds
<1>4. Shifted(FlightOf(s, id), FlightOf(t, id), p, Named(e.ids, id))
  BY <1>1 DEF Shifted
<1> QED BY <1>0, <1>2, <1>3, <1>4, ShiftedPairs

\* The same of a channel.
LEMMA FlightOnInserted ==
  ASSUME NEW s, s.agenda \in Seq(Event), NEW t, t.agenda \in Seq(Event), NEW p, NEW e \in Event,
         Inserted(s.agenda, p, e, t.agenda), NEW ch
  PROVE  Cardinality(FlightOn(t, ch)) = Cardinality(FlightOn(s, ch)) + Load(e, ch)
<1> DEFINE a == s.agenda
           b == t.agenda
<1>i. a \in Seq(Event) /\ b \in Seq(Event) /\ Inserted(a, p, e, b)
  OBVIOUS
<1>0. p \in Nat /\ 0 \in Nat
  BY InsertedEntry
<1> DEFINE N == IF e.ch = ch THEN 1 .. Len(e.ids) ELSE {}
<1>2. ASSUME NEW i \in Nat, NEW k \in Nat
      PROVE  <<i, k>> \in FlightOn(t, ch) <=> \/ i < p /\ <<i, k>> \in FlightOn(s, ch)
                                              \/ i > p /\ <<i - 1, k>> \in FlightOn(s, ch)
                                              \/ i = p /\ k \in N
  <2>1. <<i, k>> \in FlightOn(t, ch) <=>
               i \in 1 .. Len(b) /\ k \in 1 .. Len(b[i].ids) /\ b[i].ch = ch
    BY FlightOnMember
  <2>2. CASE i < p
    <3>1. <<i, k>> \in FlightOn(s, ch) <=>
               i \in 1 .. Len(a) /\ k \in 1 .. Len(a[i].ids) /\ a[i].ch = ch
      BY FlightOnMember
    <3>2. (i \in 1 .. Len(b) <=> i \in 1 .. Len(a)) /\ (i \in 1 .. Len(a) => b[i] = a[i])
      BY <2>2, InsertedEntry
    <3> HIDE DEF a, b
    <3> QED BY <1>0, <2>1, <2>2, <3>1, <3>2
  <2>3. CASE i > p
    <3>0. i - 1 \in Nat
      BY <1>0, <2>3
    <3>1. <<i - 1, k>> \in FlightOn(s, ch) <=>
               i - 1 \in 1 .. Len(a) /\ k \in 1 .. Len(a[i - 1].ids) /\ a[i - 1].ch = ch
      BY <3>0, FlightOnMember
    <3>2. (i \in 1 .. Len(b) <=> i - 1 \in 1 .. Len(a)) /\ (i \in 1 .. Len(b) => b[i] = a[i - 1])
      <4> HIDE DEF a, b
      <4>1. i > p => (i \in 1 .. Len(b) <=> i - 1 \in 1 .. Len(a)) /\ (i \in 1 .. Len(b) => b[i] = a[i - 1])
        BY <1>i, InsertedEntry
      <4> QED BY <2>3, <4>1
    <3> HIDE DEF a, b
    <3> QED BY <1>0, <2>1, <2>3, <3>1, <3>2
  <2>4. CASE i = p
    <3>1. i \in 1 .. Len(b) /\ b[i] = e
      BY <2>4, InsertedEntry
    <3> HIDE DEF a, b
    <3> QED BY <1>0, <2>1, <2>4, <3>1
  <2> QED BY <1>0, <2>2, <2>3, <2>4
<1>3. /\ FlightOn(s, ch) \in SUBSET (Nat \X Nat) /\ IsFiniteSet(FlightOn(s, ch))
      /\ FlightOn(t, ch) \in SUBSET (Nat \X Nat)
  BY FlightOnPairs
<1>5. N \in SUBSET Nat /\ IsFiniteSet(N) /\ Cardinality(N) = Load(e, ch)
  <2>1. IsFiniteSet(1 .. Len(e.ids)) /\ Cardinality(1 .. Len(e.ids)) = Len(e.ids)
    BY EventTypes
  <2>2. IsFiniteSet({}) /\ Cardinality({}) = 0
    BY FS_EmptySet
  <2> QED BY <2>1, <2>2 DEF Load
<1> HIDE DEF N
<1>6. Shifted(FlightOn(s, ch), FlightOn(t, ch), p, N)
  BY <1>2 DEF Shifted
<1>7. Cardinality(FlightOn(t, ch)) = Cardinality(FlightOn(s, ch)) + Cardinality(N)
  BY <1>0, <1>3, <1>5, <1>6, ShiftedPairs
<1> QED BY <1>5, <1>7

\* The same events, at other times.
SameEvents(a, b) ==
    /\ Len(b) = Len(a)
    /\ \A i \in 1 .. Len(a) : b[i].ids = a[i].ids /\ b[i].ch = a[i].ch /\ b[i].kind = a[i].kind

\* The clock moves no access.
LEMMA SameFlight ==
  ASSUME NEW s, s.agenda \in Seq(Event), NEW t, t.agenda \in Seq(Event), SameEvents(s.agenda, t.agenda),
         NEW id, NEW ch
  PROVE  FlightOf(t, id) = FlightOf(s, id) /\ FlightOn(t, ch) = FlightOn(s, ch)
<1>1. ASSUME NEW i \in Nat, NEW k \in Nat
      PROVE  /\ <<i, k>> \in FlightOf(s, id) <=> <<i, k>> \in FlightOf(t, id)
             /\ <<i, k>> \in FlightOn(s, ch) <=> <<i, k>> \in FlightOn(t, ch)
  <2>1. <<i, k>> \in FlightOf(s, id) <=>
               i \in 1 .. Len(s.agenda) /\ k \in 1 .. Len(s.agenda[i].ids) /\ s.agenda[i].ids[k] = id
    BY FlightMember
  <2>1c. <<i, k>> \in FlightOn(s, ch) <=>
               i \in 1 .. Len(s.agenda) /\ k \in 1 .. Len(s.agenda[i].ids) /\ s.agenda[i].ch = ch
    BY FlightOnMember
  <2>2. <<i, k>> \in FlightOf(t, id) <=>
               i \in 1 .. Len(t.agenda) /\ k \in 1 .. Len(t.agenda[i].ids) /\ t.agenda[i].ids[k] = id
    BY FlightMember
  <2>2c. <<i, k>> \in FlightOn(t, ch) <=>
               i \in 1 .. Len(t.agenda) /\ k \in 1 .. Len(t.agenda[i].ids) /\ t.agenda[i].ch = ch
    BY FlightOnMember
  <2> QED BY <2>1, <2>2, <2>1c, <2>2c DEF SameEvents
<1>2. /\ FlightOf(s, id) \in SUBSET (Nat \X Nat) /\ FlightOn(s, ch) \in SUBSET (Nat \X Nat)
      /\ FlightOf(t, id) \in SUBSET (Nat \X Nat) /\ FlightOn(t, ch) \in SUBSET (Nat \X Nat)
  BY FlightPairs, FlightOnPairs
<1>3. \A x \in Nat \X Nat : /\ x \in FlightOf(s, id) <=> x \in FlightOf(t, id)
                            /\ x \in FlightOn(s, ch) <=> x \in FlightOn(t, ch)
  <2> SUFFICES ASSUME NEW x \in Nat \X Nat
               PROVE  /\ x \in FlightOf(s, id) <=> x \in FlightOf(t, id)
                      /\ x \in FlightOn(s, ch) <=> x \in FlightOn(t, ch)
    OBVIOUS
  <2>1. PICK i \in Nat, k \in Nat : x = <<i, k>>
    OBVIOUS
  <2> QED BY <1>1, <2>1
<1>4. FlightOf(t, id) = FlightOf(s, id)
  BY <1>2, <1>3
<1>5. FlightOn(t, ch) = FlightOn(s, ch)
  BY <1>2, <1>3
<1> QED BY <1>4, <1>5

-----------------------------------------------------------------------------
(* Changes of one field: what each needs and keeps.                        *)

\* What is live depends on the controllers and the agenda alone.
LEMMA LiveSame ==
  ASSUME NEW s, NEW t, t.ctl = s.ctl, t.agenda = s.agenda, NEW id, NEW ch
  PROVE  LiveOf(t, id) = LiveOf(s, id) /\ LiveOn(t, ch) = LiveOn(s, ch)
BY DEF LiveOf, LiveOn, Queued, InFlight, IdQueued, IdInFlight

\* What a change of one field leaves.
LEMMA CtlFields ==
  ASSUME NEW s, IsState(s), NEW ctls
  PROVE  LET t == [s EXCEPT !.ctl = ctls]
         IN  /\ IsState(t) /\ t.ctl = ctls /\ t.parents = s.parents /\ t.pending = s.pending
             /\ t.agenda = s.agenda /\ t.waiting = s.waiting
BY DEF IsState

\* The same of the table of parents,
LEMMA ParentsFields ==
  ASSUME NEW s, IsState(s), NEW table
  PROVE  LET t == [s EXCEPT !.parents = table]
         IN  /\ IsState(t) /\ t.ctl = s.ctl /\ t.parents = table /\ t.pending = s.pending
             /\ t.agenda = s.agenda /\ t.waiting = s.waiting
BY DEF IsState

\* of the pending line,
LEMMA PendingFields ==
  ASSUME NEW s, IsState(s), NEW ids
  PROVE  LET t == [s EXCEPT !.pending = ids]
         IN  /\ IsState(t) /\ t.ctl = s.ctl /\ t.parents = s.parents /\ t.pending = ids
             /\ t.agenda = s.agenda /\ t.waiting = s.waiting
BY DEF IsState

\* of the agenda,
LEMMA AgendaFields ==
  ASSUME NEW s, IsState(s), NEW events
  PROVE  LET t == [s EXCEPT !.agenda = events]
         IN  /\ IsState(t) /\ t.ctl = s.ctl /\ t.parents = s.parents /\ t.pending = s.pending
             /\ t.agenda = events /\ t.waiting = s.waiting
BY DEF IsState

\* of the clients that wait for room,
LEMMA WaitingFields ==
  ASSUME NEW s, IsState(s), NEW ids
  PROVE  LET t == [s EXCEPT !.waiting = ids]
         IN  /\ IsState(t) /\ t.ctl = s.ctl /\ t.parents = s.parents /\ t.pending = s.pending
             /\ t.agenda = s.agenda /\ t.waiting = ids
BY DEF IsState

\* and of the statistics.
LEMMA StatsFields ==
  ASSUME NEW s, IsState(s), NEW numbers
  PROVE  LET t == [s EXCEPT !.stats = numbers]
         IN  /\ IsState(t) /\ t.ctl = s.ctl /\ t.parents = s.parents /\ t.pending = s.pending
             /\ t.agenda = s.agenda /\ t.waiting = s.waiting
BY DEF IsState

\* The controller d, with the accesses that come out of limbo or go into it, can
\* take the place of channel ch's.
Replaces(s, limbo, ch, d, after) ==
    /\ d \in TimedController /\ NoDue(d) /\ QueueFits(d) /\ ~d.fault
    /\ \A id \in Ids : Cardinality(Mine(s.ctl[ch].queue, id)) + limbo.owed[id]
                         = Cardinality(Mine(d.queue, id)) + after.owed[id]
    /\ s.ctl[ch].outstanding - Len(s.ctl[ch].queue) - limbo.on[ch]
         = d.outstanding - Len(d.queue) - after.on[ch]
    /\ \A k \in Channels \ {ch} : after.on[k] = limbo.on[k]
    /\ \A i \in 1 .. Len(d.queue) : d.queue[i].id \in DOMAIN s.parents
    /\ \A id \in Ids : after.owed[id] > 0 => id \in DOMAIN s.parents

\* What the accounts need to know of a controller.
LEMMA ControllerCounts ==
  ASSUME NEW c \in TimedController
  PROVE  c.outstanding \in Nat /\ c.outstanding \in Int /\ c.queue \in Seq(QueuedAccess) /\ Len(c.queue) \in Nat
<1>1. c.outstanding \in Nat /\ c.queue \in Seq(QueuedAccess)
  BY DEF TimedController, Controller
<1> QED BY <1>1

\* A controller takes the place of another.
LEMMA ControllerReplaced ==
  ASSUME NEW s, NEW limbo, Body(s, limbo), NEW ch \in Channels, NEW d, NEW after \in Limbo,
         Replaces(s, limbo, ch, d, after)
  PROVE  LET t == [s EXCEPT !.ctl[ch] = d]
         IN  /\ Body(t, after) /\ t.ctl = [s.ctl EXCEPT ![ch] = d] /\ t.parents = s.parents
             /\ t.pending = s.pending /\ t.agenda = s.agenda /\ t.waiting = s.waiting
<1> DEFINE ctls == [s.ctl EXCEPT ![ch] = d]
           t == [s EXCEPT !.ctl = ctls]
<1>1. [s EXCEPT !.ctl[ch] = d] = t
  OBVIOUS
<1>2. IsState(s) /\ s.ctl \in [Channels -> TimedController] /\ s.agenda \in Seq(Event) /\ d \in TimedController
  BY DEF Body, WellFormed, Replaces
<1>3. /\ IsState(t) /\ t.ctl = ctls /\ t.parents = s.parents /\ t.pending = s.pending
      /\ t.agenda = s.agenda /\ t.waiting = s.waiting
  <2> HIDE DEF ctls
  <2> QED BY <1>2, CtlFields
<1>4. /\ ctls \in [Channels -> TimedController] /\ ctls[ch] = d
      /\ \A k \in Channels \ {ch} : ctls[k] = s.ctl[k]
  BY <1>2
<1> HIDE DEF t, ctls
<1>5. WellFormed(t)
  BY <1>3, <1>4 DEF Body, WellFormed
<1>6. Fits(t)
  BY <1>3, <1>4 DEF Body, Fits, Replaces
<1>7. Covers(t)
  BY <1>3 DEF Body, Covers
<1>8. Known(t, after)
  <2>1. ASSUME NEW k \in Channels, NEW i \in 1 .. Len(t.ctl[k].queue) PROVE t.ctl[k].queue[i].id \in DOMAIN t.parents
    BY <1>3, <1>4 DEF Body, Known, Replaces
  <2> QED BY <1>3, <2>1 DEF Body, Known, Replaces
<1>9. Balanced(t, after)
  <2>0. t.ctl \in [Channels -> TimedController] /\ t.agenda \in Seq(Event)
    BY <1>2, <1>3, <1>4
  <2>1. ASSUME NEW id \in DOMAIN t.parents PROVE t.parents[id].remaining = LiveOf(t, id) + after.owed[id]
    <3>1. id \in Ids /\ s.parents[id].remaining = LiveOf(s, id) + limbo.owed[id]
      BY <1>3 DEF Body, WellFormed, Balanced
    <3>2. \A k \in Channels \ {ch} : SameIds(s.ctl[k].queue, t.ctl[k].queue)
      BY <1>3, <1>4 DEF SameIds
    <3>3. Cardinality(QueueOf(t, id)) + Cardinality(Mine(s.ctl[ch].queue, id))
            = Cardinality(QueueOf(s, id)) + Cardinality(Mine(d.queue, id))
      BY <1>2, <1>3, <1>4, <2>0, <3>2, QueueChange
    <3>4. FlightOf(t, id) = FlightOf(s, id)
      BY <1>3 DEF FlightOf, InFlight, IdInFlight
    <3>5. Cardinality(Mine(s.ctl[ch].queue, id)) + limbo.owed[id] = Cardinality(Mine(d.queue, id)) + after.owed[id]
      BY <3>1 DEF Replaces
    <3>6. limbo.owed[id] \in Int /\ after.owed[id] \in Int
      BY <3>1 DEF Body, Limbo
    <3>7. Cardinality(Mine(s.ctl[ch].queue, id)) \in Nat /\ Cardinality(Mine(d.queue, id)) \in Nat
      <4>1. IsFiniteSet(Mine(s.ctl[ch].queue, id))
        <5>1. 0 \in Nat
          OBVIOUS
        <5> QED BY <1>2, <5>1, QueueOfMember
      <4>2. IsFiniteSet(Mine(t.ctl[ch].queue, id))
        <5>1. 0 \in Nat
          OBVIOUS
        <5> QED BY <2>0, <5>1, QueueOfMember
      <4> QED BY <1>3, <1>4, <4>1, <4>2, FS_CardinalityType
    <3>8. /\ Cardinality(QueueOf(s, id)) \in Nat /\ Cardinality(FlightOf(s, id)) \in Nat
          /\ LiveOf(s, id) = Cardinality(QueueOf(s, id)) + Cardinality(FlightOf(s, id))
      BY <1>2, CountsAreNat
    <3>9. /\ Cardinality(QueueOf(t, id)) \in Nat
          /\ LiveOf(t, id) = Cardinality(QueueOf(t, id)) + Cardinality(FlightOf(t, id))
      BY <2>0, CountsAreNat
    <3> HIDE DEF Body
    <3> QED BY <1>3, <3>1, <3>3, <3>4, <3>5, <3>6, <3>7, <3>8, <3>9
  <2>2. ASSUME NEW k \in Channels PROVE t.ctl[k].outstanding = LiveOn(t, k) + after.on[k] /\ ~t.ctl[k].fault
    <3>1. s.ctl[k].outstanding = LiveOn(s, k) + limbo.on[k] /\ ~s.ctl[k].fault
      BY DEF Body, Balanced
    <3>2. FlightOn(t, k) = FlightOn(s, k)
      BY <1>3 DEF FlightOn, InFlight
    <3>3. Cardinality(QueueOn(s, k)) = Len(s.ctl[k].queue) /\ Len(s.ctl[k].queue) \in Nat
      BY <1>2, QueueOnCount
    <3>4. Cardinality(QueueOn(t, k)) = Len(t.ctl[k].queue) /\ Len(t.ctl[k].queue) \in Nat
      BY <2>0, QueueOnCount
    <3>5. LiveOn(s, k) = Cardinality(QueueOn(s, k)) + Cardinality(FlightOn(s, k)) /\ Cardinality(FlightOn(s, k)) \in Nat
      BY <1>2, CountsAreNat
    <3>6. LiveOn(t, k) = Cardinality(QueueOn(t, k)) + Cardinality(FlightOn(t, k))
      BY <2>0, CountsAreNat
    <3>7. limbo.on[k] \in Int /\ after.on[k] \in Int
      BY DEF Body, Limbo
    <3>8. s.ctl[k].outstanding \in Int /\ t.ctl[k].outstanding \in Int
      <4>1. s.ctl[k] \in TimedController /\ t.ctl[k] \in TimedController
        BY <1>2, <2>0
      <4>2. s.ctl[k].outstanding \in Int
        BY <4>1, ControllerCounts
      <4>3. t.ctl[k].outstanding \in Int
        BY <4>1, ControllerCounts
      <4> QED BY <4>2, <4>3
    <3>9. CASE k # ch
      <4>1. after.on[k] = limbo.on[k] /\ t.ctl[k] = s.ctl[k]
        BY <1>3, <1>4, <3>9 DEF Replaces
      <4> QED BY <3>1, <3>2, <3>3, <3>4, <3>5, <3>6, <4>1
    <3>10. CASE k = ch
      <4>1. /\ s.ctl[k].outstanding - Len(s.ctl[k].queue) - limbo.on[k]
                 = t.ctl[k].outstanding - Len(t.ctl[k].queue) - after.on[k]
            /\ ~t.ctl[k].fault
        BY <1>3, <1>4, <3>10 DEF Replaces
      <4> DEFINE flight == Cardinality(FlightOn(s, k))
      <4>2. flight \in Nat /\ LiveOn(s, k) = Len(s.ctl[k].queue) + flight /\ LiveOn(t, k) = Len(t.ctl[k].queue) + flight
        BY <3>2, <3>3, <3>4, <3>5, <3>6
      <4> HIDE DEF flight
      <4>3. s.ctl[k].outstanding = Len(s.ctl[k].queue) + flight + limbo.on[k]
        BY <3>1, <4>2
      <4>4. t.ctl[k].outstanding = Len(t.ctl[k].queue) + flight + after.on[k]
        <5> DEFINE a == s.ctl[k].outstanding
                   b == t.ctl[k].outstanding
                   q == Len(s.ctl[k].queue)
                   r == Len(t.ctl[k].queue)
                   l == limbo.on[k]
                   m == after.on[k]
        <5>1. a \in Int /\ b \in Int /\ q \in Int /\ r \in Int /\ l \in Int /\ m \in Int /\ flight \in Int
          BY <3>3, <3>4, <3>7, <3>8, <4>2
        <5>2. a = q + flight + l /\ a - q - l = b - r - m
          BY <4>1, <4>3
        <5> HIDE DEF a, b, q, r, l, m
        <5>3. b = r + flight + m
          BY <5>1, <5>2
        <5> QED BY <5>3 DEF b, r, m
      <4> QED BY <4>1, <4>2, <4>4
    <3> QED BY <3>9, <3>10
  <2> QED BY <2>1, <2>2 DEF Balanced
<1>10. Body(t, after)
  BY <1>5, <1>6, <1>7, <1>8, <1>9 DEF Body
<1> QED BY <1>1, <1>3, <1>10 DEF ctls

\* Nothing of a request is live exactly when no queue and no event names it.
LEMMA LiveIffNamed ==
  ASSUME NEW s, s.ctl \in [Channels -> TimedController], s.agenda \in Seq(Event), NEW id
  PROVE  /\ LiveOf(s, id) \in Nat
         /\ LiveOf(s, id) = 0 <=>
              /\ \A ch \in Channels : \A i \in 1 .. Len(s.ctl[ch].queue) : s.ctl[ch].queue[i].id # id
              /\ \A i \in 1 .. Len(s.agenda) : \A k \in 1 .. Len(s.agenda[i].ids) : s.agenda[i].ids[k] # id
<1> DEFINE Q == QueueOf(s, id)
           F == FlightOf(s, id)
<1>1. /\ IsFiniteSet(Q) /\ IsFiniteSet(F) /\ Cardinality(Q) \in Nat /\ Cardinality(F) \in Nat
      /\ LiveOf(s, id) = Cardinality(Q) + Cardinality(F)
  <2>1. /\ IsFiniteSet(QueueOf(s, id)) /\ IsFiniteSet(FlightOf(s, id))
        /\ Cardinality(QueueOf(s, id)) \in Nat /\ Cardinality(FlightOf(s, id)) \in Nat
        /\ LiveOf(s, id) = Cardinality(QueueOf(s, id)) + Cardinality(FlightOf(s, id))
    BY CountsAreNat
  <2> QED BY <2>1
<1>2. (Cardinality(Q) = 0 <=> Q = {}) /\ (Cardinality(F) = 0 <=> F = {})
  BY <1>1, FS_EmptySet
<1>3. Q = {} <=> \A ch \in Channels : \A i \in 1 .. Len(s.ctl[ch].queue) : s.ctl[ch].queue[i].id # id
  <2>1. ASSUME Q = {}, NEW ch \in Channels, NEW i \in 1 .. Len(s.ctl[ch].queue)
        PROVE  s.ctl[ch].queue[i].id # id
    <3>1. i \in Nat
      OBVIOUS
    <3>2. <<ch, i>> \in Q <=> i \in 1 .. Len(s.ctl[ch].queue) /\ s.ctl[ch].queue[i].id = id
      BY <3>1, QueueOfMember
    <3> QED BY <2>1, <3>2
  <2>2. ASSUME Q # {} PROVE \E ch \in Channels : \E i \in 1 .. Len(s.ctl[ch].queue) : s.ctl[ch].queue[i].id = id
    <3>1. PICK x \in Q : TRUE
      BY <2>2
    <3>2. Q \in SUBSET (Channels \X Nat)
      BY QueuedFacts DEF QueueOf
    <3>3. PICK ch \in Channels, i \in Nat : x = <<ch, i>>
      BY <3>1, <3>2
    <3>4. <<ch, i>> \in Q <=> i \in 1 .. Len(s.ctl[ch].queue) /\ s.ctl[ch].queue[i].id = id
      BY QueueOfMember
    <3> QED BY <3>1, <3>3, <3>4
  <2> QED BY <2>1, <2>2
<1>4. F = {} <=> \A i \in 1 .. Len(s.agenda) : \A k \in 1 .. Len(s.agenda[i].ids) : s.agenda[i].ids[k] # id
  <2>1. ASSUME F = {}, NEW i \in 1 .. Len(s.agenda), NEW k \in 1 .. Len(s.agenda[i].ids)
        PROVE  s.agenda[i].ids[k] # id
    <3>1. i \in Nat /\ k \in Nat
      OBVIOUS
    <3>2. <<i, k>> \in F <=>
               i \in 1 .. Len(s.agenda) /\ k \in 1 .. Len(s.agenda[i].ids) /\ s.agenda[i].ids[k] = id
      BY <3>1, FlightMember
    <3> QED BY <2>1, <3>2
  <2>2. ASSUME F # {}
        PROVE  \E i \in 1 .. Len(s.agenda) : \E k \in 1 .. Len(s.agenda[i].ids) : s.agenda[i].ids[k] = id
    <3>1. PICK x \in F : TRUE
      BY <2>2
    <3>2. F \in SUBSET (Nat \X Nat)
      BY FlightPairs
    <3>3. PICK i \in Nat, k \in Nat : x = <<i, k>>
      BY <3>1, <3>2
    <3>4. <<i, k>> \in F <=>
               i \in 1 .. Len(s.agenda) /\ k \in 1 .. Len(s.agenda[i].ids) /\ s.agenda[i].ids[k] = id
      BY FlightMember
    <3> QED BY <3>1, <3>3, <3>4
  <2> QED BY <2>1, <2>2
<1> HIDE DEF Q, F
<1>5. LiveOf(s, id) \in Nat /\ (LiveOf(s, id) = 0 <=> Cardinality(Q) = 0 /\ Cardinality(F) = 0)
  BY <1>1
<1> QED BY <1>2, <1>3, <1>4, <1>5

\* What Body says of the types and the sizes.
LEMMA BodyTypes ==
  ASSUME NEW s, NEW limbo, Body(s, limbo)
  PROVE  /\ IsState(s) /\ s.ctl \in [Channels -> TimedController] /\ s.agenda \in Seq(Event) /\ Sorted(s.agenda)
         /\ \A ch \in Channels : s.ctl[ch] \in TimedController /\ NoDue(s.ctl[ch]) /\ QueueFits(s.ctl[ch]) /\ ~s.ctl[ch].fault
         /\ \A i \in 1 .. Len(s.agenda) : s.agenda[i] \in Event
         /\ \A id \in DOMAIN s.parents : id \in Ids /\ IsParent(s.parents[id]) /\ id \notin s.waiting
         /\ s.waiting \in SUBSET Ids /\ DOMAIN s.parents \in SUBSET Ids /\ s.pending \in Seq(Ids)
         /\ \A i \in 1 .. Len(s.pending) : s.pending[i] \in DOMAIN s.parents
         /\ limbo \in Limbo
BY DEF Body, WellFormed, Fits, Balanced, Covers

\* The parent p may take the place of parent id: what it counts as outstanding and what
\* limbo owes it change alike, and a parent with accesses to admit was on the pending line.
Substitutes(s, limbo, id, p, after) ==
    /\ id \in DOMAIN s.parents /\ IsParent(p) /\ (Unadmitted(p) => Unadmitted(s.parents[id]))
    /\ after \in Limbo /\ after.on = limbo.on
    /\ \A x \in Ids \ {id} : after.owed[x] = limbo.owed[x]
    /\ p.remaining - after.owed[id] = s.parents[id].remaining - limbo.owed[id]

\* A parent takes the place of another.
LEMMA ParentReplaced ==
  ASSUME NEW s, NEW limbo, Body(s, limbo), NEW id, NEW p, NEW after, Substitutes(s, limbo, id, p, after)
  PROVE  LET t == [s EXCEPT !.parents[id] = p]
         IN  /\ Body(t, after) /\ t.parents = [s.parents EXCEPT ![id] = p] /\ t.ctl = s.ctl
             /\ t.pending = s.pending /\ t.agenda = s.agenda /\ t.waiting = s.waiting
<1> DEFINE table == [s.parents EXCEPT ![id] = p]
           t == [s EXCEPT !.parents = table]
<1>p. /\ id \in DOMAIN s.parents /\ IsParent(p) /\ (Unadmitted(p) => Unadmitted(s.parents[id]))
      /\ after \in Limbo /\ after.on = limbo.on
      /\ \A x \in Ids \ {id} : after.owed[x] = limbo.owed[x]
      /\ p.remaining - after.owed[id] = s.parents[id].remaining - limbo.owed[id]
  BY DEF Substitutes
<1> USE <1>p
<1>1. [s EXCEPT !.parents[id] = p] = t
  OBVIOUS
<1>2. IsState(s) /\ s.ctl \in [Channels -> TimedController] /\ s.agenda \in Seq(Event)
  BY BodyTypes
<1>3. /\ IsState(t) /\ t.parents = table /\ t.ctl = s.ctl /\ t.pending = s.pending
      /\ t.agenda = s.agenda /\ t.waiting = s.waiting
  <2> HIDE DEF table
  <2> QED BY <1>2 DEF IsState
<1>4. /\ DOMAIN table = DOMAIN s.parents /\ table[id] = p /\ table = [x \in DOMAIN table |-> table[x]]
      /\ \A x \in DOMAIN s.parents \ {id} : table[x] = s.parents[x]
  OBVIOUS
<1> HIDE DEF t, table
<1>5. WellFormed(t)
  BY <1>3, <1>4 DEF Body, WellFormed
<1>6. Fits(t)
  BY <1>3, <1>4 DEF Body, Fits
<1>7. Covers(t)
  <2>1. \A x \in DOMAIN t.parents : Unadmitted(t.parents[x]) => Unadmitted(s.parents[x])
    BY <1>3, <1>4
  <2> QED BY <1>3, <1>4, <2>1 DEF Body, Covers
<1>8. Known(t, after)
  <2>1. \A x \in Ids : after.owed[x] > 0 => x \in DOMAIN t.parents
    BY <1>3, <1>4 DEF Body, Known
  <2> QED BY <1>3, <1>4, <2>1 DEF Body, Known
<1>9. Balanced(t, after)
  <2>1. ASSUME NEW x \in DOMAIN t.parents PROVE t.parents[x].remaining = LiveOf(t, x) + after.owed[x]
    <3>1. x \in Ids /\ s.parents[x].remaining = LiveOf(s, x) + limbo.owed[x]
      BY <1>3, <1>4 DEF Body, WellFormed, Balanced
    <3>2. LiveOf(t, x) = LiveOf(s, x)
      BY <1>3, LiveSame
    <3>3. LiveOf(s, x) \in Nat
      BY <1>2, LiveIffNamed
    <3>4. limbo.owed[x] \in Int /\ after.owed[x] \in Int
      BY <3>1 DEF Body, Limbo
    <3>5. CASE x # id
      BY <1>3, <1>4, <3>1, <3>2, <3>5
    <3>6. CASE x = id
      <4>1. t.parents[x] = p /\ p.remaining \in Int /\ s.parents[id].remaining \in Int
        BY <1>3, <1>4, <3>6, BodyTypes DEF IsParent
      <4> DEFINE live == LiveOf(s, x)
      <4>2. live \in Nat /\ s.parents[id].remaining = live + limbo.owed[id] /\ LiveOf(t, x) = live
        BY <3>1, <3>2, <3>3, <3>6
      <4> HIDE DEF live
      <4> QED BY <3>4, <3>6, <4>1, <4>2
    <3> QED BY <3>5, <3>6
  <2>2. ASSUME NEW k \in Channels PROVE t.ctl[k].outstanding = LiveOn(t, k) + after.on[k] /\ ~t.ctl[k].fault
    <3>1. LiveOn(t, k) = LiveOn(s, k)
      BY <1>3, LiveSame
    <3> QED BY <1>3, <3>1 DEF Body, Balanced
  <2> QED BY <2>1, <2>2 DEF Balanced
<1>10. Body(t, after)
  BY <1>5, <1>6, <1>7, <1>8, <1>9 DEF Body
<1> QED BY <1>1, <1>3, <1>10 DEF table

\* Limbo between actions, and wherever a client can be called: nothing is overdrawn.
Owing == [owed : [Ids -> Nat], on : [Channels -> Nat]]

\* Accounts without an overdraft are accounts.
LEMMA OwingFacts ==
  ASSUME NEW limbo \in Owing
  PROVE  /\ limbo \in Limbo /\ \A id \in Ids : limbo.owed[id] \in Nat /\ (limbo.owed[id] > 0 \/ limbo.owed[id] = 0)
         /\ \A ch \in Channels : limbo.on[ch] \in Nat
<1>1. limbo.owed \in [Ids -> Nat] /\ limbo.on \in [Channels -> Nat]
  BY DEF Owing
<1>2. limbo.owed \in [Ids -> Int] /\ limbo.on \in [Channels -> Int]
  BY <1>1
<1>3. limbo \in Limbo
  BY <1>2 DEF Owing, Limbo
<1> QED BY <1>1, <1>3

\* A parent leaves the table when nothing of it is left.
LEMMA ParentFreed ==
  ASSUME NEW s, NEW limbo \in Owing, Body(s, limbo), Settled(s), NEW id \in DOMAIN s.parents,
         s.parents[id].remaining = 0, ~Unadmitted(s.parents[id])
  PROVE  LET t == Freed(s, id)
         IN  /\ Body(t, limbo) /\ DOMAIN t.parents = DOMAIN s.parents \ {id} /\ t.ctl = s.ctl
             /\ \A x \in DOMAIN t.parents : t.parents[x] = s.parents[x]
             /\ t.pending = s.pending /\ t.agenda = s.agenda /\ t.waiting = s.waiting
<1> DEFINE table == [x \in DOMAIN s.parents \ {id} |-> s.parents[x]]
           t == [s EXCEPT !.parents = table]
<1>1. Freed(s, id) = t
  BY DEF Freed
<1>2. IsState(s) /\ s.ctl \in [Channels -> TimedController] /\ s.agenda \in Seq(Event) /\ id \in Ids
  BY BodyTypes
<1>3. /\ IsState(t) /\ t.parents = table /\ t.ctl = s.ctl /\ t.pending = s.pending
      /\ t.agenda = s.agenda /\ t.waiting = s.waiting
  <2> HIDE DEF table
  <2> QED BY <1>2 DEF IsState
<1>4. /\ DOMAIN table = DOMAIN s.parents \ {id} /\ table = [x \in DOMAIN table |-> table[x]]
      /\ \A x \in DOMAIN table : table[x] = s.parents[x]
  OBVIOUS
<1> HIDE DEF t, table
<1>5. LiveOf(s, id) = 0 /\ limbo.owed[id] = 0
  <2>1. s.parents[id].remaining = LiveOf(s, id) + limbo.owed[id]
    BY DEF Body, Balanced
  <2>2. LiveOf(s, id) \in Nat /\ limbo.owed[id] \in Nat
    BY <1>2, LiveIffNamed, OwingFacts
  <2> QED BY <2>1, <2>2
<1>6. /\ \A ch \in Channels : \A i \in 1 .. Len(s.ctl[ch].queue) : s.ctl[ch].queue[i].id # id
      /\ \A i \in 1 .. Len(s.agenda) : \A k \in 1 .. Len(s.agenda[i].ids) : s.agenda[i].ids[k] # id
  BY <1>2, <1>5, LiveIffNamed
<1>7. \A i \in 1 .. Len(s.pending) : s.pending[i] # id
  BY DEF Settled
<1>8. WellFormed(t)
  <2>1. IsFiniteSet(DOMAIN table)
    BY <1>4, FS_RemoveElement DEF Body, WellFormed
  <2> QED BY <1>3, <1>4, <2>1 DEF Body, WellFormed
<1>9. Fits(t)
  <2>1. Cardinality(DOMAIN table) <= MaxActive
    <3>1. IsFiniteSet(DOMAIN s.parents) /\ Cardinality(DOMAIN s.parents) <= MaxActive
      BY DEF Body, WellFormed, Fits
    <3>2. Cardinality(DOMAIN s.parents) \in Nat
      BY <3>1, FS_CardinalityType
    <3>3. Cardinality(DOMAIN table) = Cardinality(DOMAIN s.parents) - 1
      BY <1>4, <3>1, FS_RemoveElement
    <3> QED BY <3>1, <3>2, <3>3, SystemAssumption
  <2> QED BY <1>3, <2>1 DEF Body, Fits
<1>10. Covers(t)
  BY <1>3, <1>4, <1>7 DEF Body, Covers
<1>11. Known(t, limbo)
  <2>1. \A x \in Ids : limbo.owed[x] > 0 => x \in DOMAIN t.parents
    BY <1>3, <1>4, <1>5 DEF Body, Known
  <2> QED BY <1>3, <1>4, <1>6, <2>1 DEF Body, Known
<1>12. Balanced(t, limbo)
  <2>1. ASSUME NEW x \in DOMAIN t.parents PROVE t.parents[x].remaining = LiveOf(t, x) + limbo.owed[x]
    <3>1. x \in DOMAIN s.parents /\ t.parents[x] = s.parents[x]
      BY <1>3, <1>4
    <3>2. LiveOf(t, x) = LiveOf(s, x)
      BY <1>3, LiveSame
    <3> QED BY <3>1, <3>2 DEF Body, Balanced
  <2>2. ASSUME NEW k \in Channels PROVE t.ctl[k].outstanding = LiveOn(t, k) + limbo.on[k] /\ ~t.ctl[k].fault
    <3>1. LiveOn(t, k) = LiveOn(s, k)
      BY <1>3, LiveSame
    <3> QED BY <1>3, <3>1 DEF Body, Balanced
  <2> QED BY <2>1, <2>2 DEF Balanced
<1>13. Body(t, limbo)
  BY <1>8, <1>9, <1>10, <1>11, <1>12 DEF Body
<1> QED BY <1>1, <1>3, <1>4, <1>13

\* A new parent enters the table, and waits for admission at the back.
Entered(s, id, p) ==
    [s EXCEPT !.parents = [x \in DOMAIN @ \cup {id} |-> IF x = id THEN p ELSE @[x]],
              !.pending = Append(@, id)]

\* try_submit_now enters a parent with nothing outstanding at the end of the line.
LEMMA ParentEntered ==
  ASSUME NEW s, NEW limbo \in Owing, Body(s, limbo), NEW id \in Ids, id \notin DOMAIN s.parents,
         id \notin s.waiting, Cardinality(DOMAIN s.parents) < MaxActive,
         NEW p, IsParent(p), p.remaining = 0
  PROVE  LET t == Entered(s, id, p)
         IN  /\ Body(t, limbo) /\ DOMAIN t.parents = DOMAIN s.parents \cup {id} /\ t.ctl = s.ctl
             /\ t.parents[id] = p
             /\ \A x \in DOMAIN s.parents : t.parents[x] = s.parents[x]
             /\ t.pending = Append(s.pending, id) /\ t.agenda = s.agenda /\ t.waiting = s.waiting
<1> DEFINE table == [x \in DOMAIN s.parents \cup {id} |-> IF x = id THEN p ELSE s.parents[x]]
           ids == Append(s.pending, id)
           u == [s EXCEPT !.parents = table]
           t == [u EXCEPT !.pending = ids]
<1>2. IsState(s) /\ s.ctl \in [Channels -> TimedController] /\ s.agenda \in Seq(Event) /\ s.pending \in Seq(Ids)
  BY BodyTypes
<1>3. /\ IsState(u) /\ u.parents = table /\ u.ctl = s.ctl /\ u.pending = s.pending
      /\ u.agenda = s.agenda /\ u.waiting = s.waiting
  <2> HIDE DEF table
  <2> QED BY <1>2 DEF IsState
<1>4. /\ DOMAIN table = DOMAIN s.parents \cup {id} /\ table = [x \in DOMAIN table |-> table[x]]
      /\ table[id] = p /\ \A x \in DOMAIN s.parents : table[x] = s.parents[x]
  OBVIOUS
<1>1. Entered(s, id, p) = t
  <2>1. [s EXCEPT !.parents = table, !.pending = ids] = t
    <3> HIDE DEF table, ids
    <3> QED BY <1>2 DEF IsState
  <2> QED BY <2>1 DEF Entered
<1> HIDE DEF table
<1>5. /\ IsState(t) /\ t.parents = table /\ t.ctl = s.ctl /\ t.pending = ids
      /\ t.agenda = s.agenda /\ t.waiting = s.waiting
  <2> HIDE DEF ids, u
  <2> QED BY <1>3, PendingFields
<1>6. /\ ids \in Seq(Ids) /\ Len(ids) = Len(s.pending) + 1 /\ Len(s.pending) \in Nat
      /\ ids[Len(ids)] = id /\ \A i \in 1 .. Len(s.pending) : ids[i] = s.pending[i]
  BY <1>2
<1> HIDE DEF t, u, ids
<1>7. WellFormed(t)
  <2>1. IsFiniteSet(DOMAIN table)
    BY <1>4, FS_AddElement DEF Body, WellFormed
  <2> QED BY <1>4, <1>5, <1>6, <2>1 DEF Body, WellFormed
<1>8. Fits(t)
  <2>1. Cardinality(DOMAIN table) <= MaxActive
    <3>1. IsFiniteSet(DOMAIN s.parents)
      BY DEF Body, WellFormed
    <3>2. Cardinality(DOMAIN s.parents) \in Nat
      BY <3>1, FS_CardinalityType
    <3>3. Cardinality(DOMAIN table) = Cardinality(DOMAIN s.parents) + 1
      BY <1>4, <3>1, FS_AddElement
    <3> QED BY <3>1, <3>2, <3>3, SystemAssumption
  <2> QED BY <1>5, <2>1 DEF Body, Fits
<1>9. Covers(t)
  <2>1. ASSUME NEW i \in 1 .. Len(t.pending) PROVE t.pending[i] \in DOMAIN t.parents
    <3>1. CASE i = Len(ids)
      BY <1>4, <1>5, <1>6, <3>1
    <3>2. CASE i # Len(ids)
      <4>1. i \in 1 .. Len(s.pending)
        BY <1>5, <1>6, <3>2
      <4> QED BY <1>4, <1>5, <1>6, <4>1 DEF Body, Covers
    <3> QED BY <3>1, <3>2
  <2>2. ASSUME NEW x \in DOMAIN t.parents, Unadmitted(t.parents[x]) PROVE \E i \in 1 .. Len(t.pending) : t.pending[i] = x
    <3>1. CASE x = id
      <4>1. Len(ids) \in 1 .. Len(t.pending)
        BY <1>5, <1>6
      <4> QED BY <1>5, <1>6, <3>1, <4>1
    <3>2. CASE x # id
      <4>1. x \in DOMAIN s.parents /\ Unadmitted(s.parents[x])
        BY <1>4, <1>5, <2>2, <3>2
      <4>2. PICK i \in 1 .. Len(s.pending) : s.pending[i] = x
        BY <4>1 DEF Body, Covers
      <4>3. i \in 1 .. Len(t.pending) /\ t.pending[i] = x
        BY <1>5, <1>6, <4>2
      <4> QED BY <4>3
    <3> QED BY <3>1, <3>2
  <2> QED BY <2>1, <2>2 DEF Covers
<1>10. Known(t, limbo)
  BY <1>4, <1>5 DEF Body, Known
<1>11. LiveOf(s, id) = 0 /\ limbo.owed[id] = 0
  <2>1. /\ \A ch \in Channels : \A i \in 1 .. Len(s.ctl[ch].queue) : s.ctl[ch].queue[i].id # id
        /\ \A i \in 1 .. Len(s.agenda) : \A k \in 1 .. Len(s.agenda[i].ids) : s.agenda[i].ids[k] # id
    BY DEF Body, Known
  <2>2. limbo.owed[id] = 0
    BY OwingFacts DEF Body, Known
  <2> QED BY <1>2, <2>1, <2>2, LiveIffNamed
<1>12. Balanced(t, limbo)
  <2>1. ASSUME NEW x \in DOMAIN t.parents PROVE t.parents[x].remaining = LiveOf(t, x) + limbo.owed[x]
    <3>2. LiveOf(t, x) = LiveOf(s, x)
      BY <1>5, LiveSame
    <3>3. CASE x = id
      BY <1>4, <1>5, <1>11, <3>2, <3>3
    <3>4. CASE x # id
      <4>1. x \in DOMAIN s.parents /\ t.parents[x] = s.parents[x]
        BY <1>4, <1>5, <3>4
      <4> QED BY <3>2, <4>1 DEF Body, Balanced
    <3> QED BY <3>3, <3>4
  <2>2. ASSUME NEW k \in Channels PROVE t.ctl[k].outstanding = LiveOn(t, k) + limbo.on[k] /\ ~t.ctl[k].fault
    <3>1. LiveOn(t, k) = LiveOn(s, k)
      BY <1>5, LiveSame
    <3> QED BY <1>5, <3>1 DEF Body, Balanced
  <2> QED BY <2>1, <2>2 DEF Balanced
<1>13. Body(t, limbo)
  BY <1>7, <1>8, <1>9, <1>10, <1>12 DEF Body
<1> QED BY <1>1, <1>4, <1>5, <1>13 DEF ids

\* Body depends neither on the order of the line nor on the clients that wait.
LEMMA BodyKept ==
  ASSUME NEW s, NEW limbo, Body(s, limbo), NEW t, IsState(t), t.ctl = s.ctl, t.parents = s.parents, t.agenda = s.agenda,
         t.pending \in Seq(Ids), Covers(t), t.waiting \in SUBSET Ids, t.waiting \cap DOMAIN t.parents = {}
  PROVE  Body(t, limbo)
<1>1. WellFormed(t)
  BY DEF Body, WellFormed
<1>2. Fits(t)
  BY DEF Body, Fits
<1>3. Known(t, limbo)
  BY DEF Body, Known
<1>4. Balanced(t, limbo)
  <2>1. ASSUME NEW x \in DOMAIN t.parents PROVE t.parents[x].remaining = LiveOf(t, x) + limbo.owed[x]
    <3>2. LiveOf(t, x) = LiveOf(s, x)
      BY LiveSame
    <3> QED BY <3>2 DEF Body, Balanced
  <2>2. ASSUME NEW k \in Channels PROVE t.ctl[k].outstanding = LiveOn(t, k) + limbo.on[k] /\ ~t.ctl[k].fault
    <3>1. LiveOn(t, k) = LiveOn(s, k)
      BY LiveSame
    <3> QED BY <3>1 DEF Body, Balanced
  <2> QED BY <2>1, <2>2 DEF Balanced
<1> QED BY <1>1, <1>2, <1>3, <1>4 DEF Body

\* A line that still covers every parent with accesses to admit may replace the line.
LEMMA PendingReplaced ==
  ASSUME NEW s, NEW limbo, Body(s, limbo), NEW ids \in Seq(Ids),
         \A i \in 1 .. Len(ids) : ids[i] \in DOMAIN s.parents,
         \A id \in DOMAIN s.parents : Unadmitted(s.parents[id]) => \E i \in 1 .. Len(ids) : ids[i] = id
  PROVE  LET t == [s EXCEPT !.pending = ids]
         IN  /\ Body(t, limbo) /\ t.ctl = s.ctl /\ t.parents = s.parents /\ t.pending = ids
             /\ t.agenda = s.agenda /\ t.waiting = s.waiting
<1> DEFINE t == [s EXCEPT !.pending = ids]
<1>1. /\ IsState(t) /\ t.ctl = s.ctl /\ t.parents = s.parents /\ t.pending = ids
      /\ t.agenda = s.agenda /\ t.waiting = s.waiting
  BY BodyTypes, PendingFields
<1> HIDE DEF t
<1>2. Covers(t)
  BY <1>1 DEF Covers
<1>3. t.waiting \in SUBSET Ids /\ t.waiting \cap DOMAIN t.parents = {}
  BY <1>1 DEF Body, WellFormed
<1>4. Body(t, limbo)
  BY <1>1, <1>2, <1>3, BodyKept
<1> QED BY <1>1, <1>4 DEF t

\* Clients without a parent may wait.
LEMMA WaitingReplaced ==
  ASSUME NEW s, NEW limbo, Body(s, limbo), NEW ids \in SUBSET Ids, ids \cap DOMAIN s.parents = {}
  PROVE  LET t == [s EXCEPT !.waiting = ids]
         IN  /\ Body(t, limbo) /\ t.ctl = s.ctl /\ t.parents = s.parents /\ t.pending = s.pending
             /\ t.agenda = s.agenda /\ t.waiting = ids
<1> DEFINE t == [s EXCEPT !.waiting = ids]
<1>1. /\ IsState(t) /\ t.ctl = s.ctl /\ t.parents = s.parents /\ t.pending = s.pending
      /\ t.agenda = s.agenda /\ t.waiting = ids
  BY BodyTypes, WaitingFields
<1> HIDE DEF t
<1>2. Covers(t) /\ t.pending \in Seq(Ids)
  BY <1>1 DEF Covers, Body, WellFormed
<1>4. Body(t, limbo)
  BY <1>1, <1>2, BodyKept
<1> QED BY <1>1, <1>4 DEF t

\* The statistics disturb nothing,
LEMMA StatsReplaced ==
  ASSUME NEW s, NEW limbo, Body(s, limbo), NEW numbers
  PROVE  LET t == [s EXCEPT !.stats = numbers]
         IN  /\ Body(t, limbo) /\ t.ctl = s.ctl /\ t.parents = s.parents /\ t.pending = s.pending
             /\ t.agenda = s.agenda /\ t.waiting = s.waiting
<1> DEFINE t == [s EXCEPT !.stats = numbers]
<1>1. /\ IsState(t) /\ t.ctl = s.ctl /\ t.parents = s.parents /\ t.pending = s.pending
      /\ t.agenda = s.agenda /\ t.waiting = s.waiting
  BY BodyTypes, StatsFields
<1> HIDE DEF t
<1>2. Covers(t) /\ t.pending \in Seq(Ids) /\ t.waiting \in SUBSET Ids /\ t.waiting \cap DOMAIN t.parents = {}
  BY <1>1 DEF Covers, Body, WellFormed
<1>4. Body(t, limbo)
  BY <1>1, <1>2, BodyKept
<1> QED BY <1>1, <1>4 DEF t

\* so counting an occurrence disturbs nothing.
LEMMA CountedFacts ==
  ASSUME NEW s, NEW limbo, Body(s, limbo), NEW counter, NEW n
  PROVE  LET t == Counted(s, counter, n)
         IN  /\ Body(t, limbo) /\ t.ctl = s.ctl /\ t.parents = s.parents /\ t.pending = s.pending
             /\ t.agenda = s.agenda /\ t.waiting = s.waiting
<1> DEFINE numbers == [s.stats EXCEPT ![counter] = @ + n]
<1>1. Counted(s, counter, n) = IF KeepRecords THEN [s EXCEPT !.stats = numbers] ELSE s
  BY DEF Counted
<1> HIDE DEF numbers
<1> QED BY <1>1, StatsReplaced

\* The requesters `ids' of a transfer on channel ch leave limbo.
Delivers(limbo, ids, ch, after) ==
    /\ \A id \in Ids : limbo.owed[id] = after.owed[id] + Cardinality(Named(ids, id))
    /\ \A k \in Channels : limbo.on[k] = after.on[k] + IF ch = k THEN Len(ids) ELSE 0

\* One agenda is the other with the event e put in: what is in flight in the one
\* is in flight in the other, or in limbo.
LEMMA AgendaBalance ==
  ASSUME NEW s, s.ctl \in [Channels -> TimedController], s.agenda \in Seq(Event), NEW limbo \in Limbo,
         NEW t, t.ctl = s.ctl, t.agenda \in Seq(Event), t.parents = s.parents, NEW after \in Limbo,
         NEW e \in Event, NEW p, Inserted(s.agenda, p, e, t.agenda),
         DOMAIN s.parents \in SUBSET Ids, Delivers(limbo, e.ids, e.ch, after)
  PROVE  Balanced(s, limbo) <=> Balanced(t, after)
<1>1. ASSUME NEW id \in Ids
      PROVE  LiveOf(s, id) + limbo.owed[id] = LiveOf(t, id) + after.owed[id]
  <2> DEFINE n == Cardinality(Named(e.ids, id))
             q == Cardinality(QueueOf(s, id))
             f == Cardinality(FlightOf(s, id))
             g == Cardinality(FlightOf(t, id))
             l == limbo.owed[id]
             m == after.owed[id]
  <2>1. q \in Nat /\ f \in Nat /\ LiveOf(s, id) = q + f
    BY CountsAreNat
  <2>2. LiveOf(t, id) = Cardinality(QueueOf(t, id)) + g
    BY CountsAreNat
  <2>3. QueueOf(t, id) = QueueOf(s, id)
    BY DEF QueueOf, Queued, IdQueued
  <2>4. g = f + n
    BY FlightInserted
  <2>5. n \in Nat
    BY EventIds
  <2>6. l \in Int /\ m \in Int /\ l = m + n
    BY DEF Limbo, Delivers
  <2>7. LiveOf(t, id) = q + g
    BY <2>2, <2>3
  <2> HIDE DEF n, q, f, g, l, m
  <2>8. LiveOf(s, id) + l = LiveOf(t, id) + m
    BY <2>1, <2>4, <2>5, <2>6, <2>7
  <2> QED BY <2>8 DEF l, m
<1>2. ASSUME NEW k \in Channels
      PROVE  LiveOn(s, k) + limbo.on[k] = LiveOn(t, k) + after.on[k]
  <2> DEFINE n == Load(e, k)
             q == Cardinality(QueueOn(s, k))
             f == Cardinality(FlightOn(s, k))
             g == Cardinality(FlightOn(t, k))
             l == limbo.on[k]
             m == after.on[k]
  <2>1. q \in Nat /\ f \in Nat /\ LiveOn(s, k) = q + f
    BY CountsAreNat
  <2>2. LiveOn(t, k) = Cardinality(QueueOn(t, k)) + g
    BY CountsAreNat
  <2>3. QueueOn(t, k) = QueueOn(s, k)
    BY DEF QueueOn, Queued
  <2>4. g = f + n
    BY FlightOnInserted
  <2>5. n \in Nat
    <3>1. Len(e.ids) \in Nat
      BY EventTypes
    <3> QED BY <3>1 DEF Load
  <2>6. l \in Int /\ m \in Int /\ l = m + n
    BY DEF Limbo, Delivers, Load
  <2>7. LiveOn(t, k) = q + g
    BY <2>2, <2>3
  <2> HIDE DEF n, q, f, g, l, m
  <2>8. LiveOn(s, k) + l = LiveOn(t, k) + m
    BY <2>1, <2>4, <2>5, <2>6, <2>7
  <2> QED BY <2>8 DEF l, m
<1> QED BY <1>1, <1>2 DEF Balanced

\* An event without accesses delivers nothing.
LEMMA NothingDelivered ==
  ASSUME NEW limbo \in Limbo, NEW ch
  PROVE  Delivers(limbo, <<>>, ch, limbo)
<1>1. ASSUME NEW id \in Ids PROVE limbo.owed[id] = limbo.owed[id] + Cardinality(Named(<<>>, id))
  <2>1. Named(<<>>, id) = {}
    BY DEF Named
  <2>2. Cardinality(Named(<<>>, id)) = 0
    BY <2>1, FS_EmptySet
  <2>3. limbo.owed[id] \in Int
    BY DEF Limbo
  <2> QED BY <2>2, <2>3
<1>2. ASSUME NEW k \in Channels PROVE limbo.on[k] = limbo.on[k] + IF ch = k THEN Len(<<>>) ELSE 0
  <2>1. limbo.on[k] \in Int /\ Len(<<>>) = 0
    BY DEF Limbo
  <2> QED BY <2>1
<1> QED BY <1>1, <1>2 DEF Delivers

\* Whoever is owed an access after a delivery was owed one before it.
LEMMA DeliveryOwes ==
  ASSUME NEW limbo \in Limbo, NEW ids \in Seq(Ids), NEW ch, NEW after \in Limbo, Delivers(limbo, ids, ch, after),
         NEW id \in Ids
  PROVE  after.owed[id] > 0 => limbo.owed[id] > 0
<1>1. Named(ids, id) \in SUBSET (1 .. Len(ids)) /\ IsFiniteSet(1 .. Len(ids))
  BY FS_Interval DEF Named
<1>2. Cardinality(Named(ids, id)) \in Nat
  BY <1>1, FS_Subset, FS_CardinalityType
<1>3. limbo.owed[id] \in Int /\ after.owed[id] \in Int
  BY DEF Limbo
<1>4. limbo.owed[id] = after.owed[id] + Cardinality(Named(ids, id))
  BY DEF Delivers
<1> QED BY <1>2, <1>3, <1>4

\* The events of a are among those of b.
KeepsEvents(a, b) == \A kind \in Kind, ch \in Channels, when \in Int :
    HasEvent(a, kind, ch, when) => HasEvent(b, kind, ch, when)

\* An insertion keeps every event, and has the new one.
LEMMA InsertedEvents ==
  ASSUME NEW a \in Seq(Event), NEW b \in Seq(Event), NEW p, NEW e \in Event, Inserted(a, p, e, b)
  PROVE  KeepsEvents(a, b) /\ HasEvent(b, e.kind, e.ch, e.at)
<1>1. Len(a) \in Nat /\ Len(b) = Len(a) + 1 /\ p \in 1 .. Len(a) + 1
  BY DEF Inserted
<1>2. \A k \in 1 .. Len(b) : b[k] = IF k < p THEN a[k] ELSE IF k = p THEN e ELSE a[k - 1]
  BY DEF Inserted
<1>3. ASSUME NEW i \in 1 .. Len(a)
      PROVE  \E k \in 1 .. Len(b) : b[k] = a[i]
  <2>1. CASE i < p
    <3>1. i \in 1 .. Len(b) /\ b[i] = a[i]
      BY <1>1, <1>2, <2>1
    <3> QED BY <3>1
  <2>2. CASE ~(i < p)
    <3>1. i + 1 \in 1 .. Len(b) /\ i + 1 > p /\ (i + 1) - 1 = i
      BY <1>1, <2>2
    <3>2. b[i + 1] = a[i]
      <4> DEFINE j == i + 1
      <4>1. j \in 1 .. Len(b) /\ j > p /\ j - 1 = i /\ j \in Int /\ p \in Int
        BY <1>1, <3>1
      <4> HIDE DEF j
      <4>2. b[j] = a[j - 1]
        BY <1>2, <4>1
      <4> QED BY <4>1, <4>2 DEF j
    <3> QED BY <3>1, <3>2
  <2> QED BY <2>1, <2>2
<1>4. p \in 1 .. Len(b) /\ b[p] = e
  BY <1>1, <1>2
<1>5. KeepsEvents(a, b)
  BY <1>3 DEF KeepsEvents, HasEvent
<1>6. HasEvent(b, e.kind, e.ch, e.at)
  BY <1>4 DEF HasEvent
<1> QED BY <1>5, <1>6

\* What stays: the fields that scheduling leaves alone.
SameBut(s, t) == /\ t.ctl = s.ctl /\ t.parents = s.parents /\ t.pending = s.pending /\ t.waiting = s.waiting

\* The agenda b is that of s with the event e at place p; what is owed after it is after.
Gains(s, limbo, p, e, b, after) ==
    /\ e \in Event /\ b \in Seq(Event) /\ Sorted(b) /\ Inserted(s.agenda, p, e, b)
    /\ after \in Limbo /\ Delivers(limbo, e.ids, e.ch, after)
    /\ \A k \in 1 .. Len(e.ids) : e.ids[k] \in DOMAIN s.parents

\* An agenda with one event more keeps the accounts.
LEMMA AgendaReplaced ==
  ASSUME NEW s, NEW limbo, Body(s, limbo), NEW p, NEW e, NEW b, NEW after, Gains(s, limbo, p, e, b, after),
         NEW t, t = [s EXCEPT !.agenda = b]
  PROVE  Body(t, after) /\ SameBut(s, t) /\ t.agenda = b
<1>g. /\ e \in Event /\ b \in Seq(Event) /\ Sorted(b) /\ Inserted(s.agenda, p, e, b)
      /\ after \in Limbo /\ Delivers(limbo, e.ids, e.ch, after)
      /\ \A k \in 1 .. Len(e.ids) : e.ids[k] \in DOMAIN s.parents
  BY DEF Gains
<1>0. /\ IsState(s) /\ s.ctl \in [Channels -> TimedController] /\ s.agenda \in Seq(Event)
      /\ DOMAIN s.parents \in SUBSET Ids /\ limbo \in Limbo
  BY BodyTypes
<1>1. /\ IsState(t) /\ t.ctl = s.ctl /\ t.parents = s.parents /\ t.pending = s.pending
      /\ t.agenda = b /\ t.waiting = s.waiting
  BY <1>0 DEF IsState
<1>2. WellFormed(t)
  BY <1>1, <1>g DEF Body, WellFormed
<1>3. Fits(t) /\ Covers(t)
  BY <1>1 DEF Body, Fits, Covers
<1>4. Known(t, after)
  <2>1. \A k \in Channels : \A i \in 1 .. Len(t.ctl[k].queue) : t.ctl[k].queue[i].id \in DOMAIN t.parents
    BY <1>1 DEF Body, Known
  <2>2. ASSUME NEW i \in 1 .. Len(t.agenda), NEW k \in 1 .. Len(t.agenda[i].ids)
        PROVE  t.agenda[i].ids[k] \in DOMAIN t.parents
    <3>1. Len(s.agenda) \in Nat /\ Len(b) = Len(s.agenda) + 1 /\ p \in 1 .. Len(s.agenda) + 1
      BY <1>0, <1>g DEF Inserted
    <3>2. b[i] = IF i < p THEN s.agenda[i] ELSE IF i = p THEN e ELSE s.agenda[i - 1]
      BY <1>1, <1>g DEF Inserted
    <3>3. ASSUME NEW j \in 1 .. Len(s.agenda), b[i] = s.agenda[j] PROVE b[i].ids[k] \in DOMAIN s.parents
      BY <1>1, <3>3 DEF Body, Known
    <3>i. i \in 1 .. Len(s.agenda) + 1
      BY <1>1, <3>1
    <3>4. CASE i < p
      <4>1. i \in 1 .. Len(s.agenda)
        BY <3>i, <3>1, <3>4
      <4> QED BY <1>1, <3>2, <3>3, <3>4, <4>1
    <3>5. CASE i = p
      BY <1>1, <1>g, <3>2, <3>5
    <3>6. CASE i > p
      <4>1. i - 1 \in 1 .. Len(s.agenda) /\ ~(i < p) /\ i # p
        BY <3>i, <3>1, <3>6
      <4> QED BY <1>1, <3>2, <3>3, <4>1
    <3> QED BY <3>1, <3>i, <3>4, <3>5, <3>6
  <2>3. ASSUME NEW id \in Ids, after.owed[id] > 0 PROVE id \in DOMAIN t.parents
    <3>1. e.ids \in Seq(Ids)
      BY <1>g, EventTypes
    <3>2. limbo.owed[id] > 0
      BY <1>0, <1>g, <2>3, <3>1, DeliveryOwes
    <3> QED BY <1>1, <3>2 DEF Body, Known
  <2> QED BY <2>1, <2>2, <2>3 DEF Known
<1>5. Balanced(t, after)
  <2>1. t.agenda \in Seq(Event) /\ Inserted(s.agenda, p, e, t.agenda)
    BY <1>1, <1>g
  <2>2. Balanced(s, limbo)
    BY DEF Body
  <2>3. Balanced(s, limbo) <=> Balanced(t, after)
    BY <1>0, <1>1, <1>g, <2>1, AgendaBalance
  <2> QED BY <2>2, <2>3, Zenon
<1>6. Body(t, after)
  BY <1>g, <1>2, <1>3, <1>4, <1>5 DEF Body
<1> QED BY <1>1, <1>6 DEF SameBut

-----------------------------------------------------------------------------
(* The agenda: scheduling and taking an event.                             *)

\* What an event carries with it: the accesses it completes, and their stages.
Carries(s, kind, served) ==
    /\ kind = "complete" \/ served.ids = <<>>
    /\ served.ids \in Seq(Ids) /\ served.stages \in Seq(Stage)
    /\ \A k \in 1 .. Len(served.ids) : served.ids[k] \in DOMAIN s.parents

\* schedule_event keeps the accounts, adds its event and drops none.
LEMMA EventScheduled ==
  ASSUME NEW s, NEW limbo, Body(s, limbo), NEW when \in Nat, NEW kind \in Kind, NEW ch \in Channels,
         NEW served, Carries(s, kind, served), NEW after \in Limbo, Delivers(limbo, served.ids, ch, after)
  PROVE  LET t == schedule_event(s, when, kind, ch, served)
         IN  /\ Body(t, after) /\ SameBut(s, t)
             /\ KeepsEvents(s.agenda, t.agenda) /\ HasEvent(t.agenda, kind, ch, when)
<1> DEFINE e == [at |-> when, kind |-> kind, ch |-> ch, ids |-> served.ids, stages |-> served.stages]
           p == Cardinality({i \in DOMAIN s.agenda : s.agenda[i].at <= when}) + 1
           b == InsertAt(s.agenda, p, e)
           t == schedule_event(s, when, kind, ch, served)
<1>1. e \in Event /\ e.at = when /\ e.kind = kind /\ e.ch = ch /\ e.ids = served.ids
  BY DEF Event, EventRecord, Carries
<1>2. s.agenda \in Seq(Event) /\ Sorted(s.agenda)
  BY BodyTypes
<1>3. t = [s EXCEPT !.agenda = b]
  BY DEF schedule_event
<1>4. p = Cardinality({i \in DOMAIN s.agenda : s.agenda[i].at <= e.at}) + 1
  BY <1>1
<1> HIDE DEF e, p
<1>5. b \in Seq(Event) /\ Inserted(s.agenda, p, e, b) /\ Sorted(b)
  BY <1>1, <1>2, <1>4, SortedInsertion
<1> HIDE DEF b, t
<1>6. \A k \in 1 .. Len(e.ids) : e.ids[k] \in DOMAIN s.parents
  BY <1>1 DEF Carries
<1>7. Delivers(limbo, e.ids, e.ch, after)
  BY <1>1
<1>8. Body(t, after) /\ SameBut(s, t) /\ t.agenda = b
  <2>1. Gains(s, limbo, p, e, b, after)
    BY <1>1, <1>5, <1>6, <1>7 DEF Gains
  <2> QED BY <1>3, <2>1, AgendaReplaced
<1>9. KeepsEvents(s.agenda, b) /\ HasEvent(b, e.kind, e.ch, e.at)
  BY <1>1, <1>2, <1>5, InsertedEvents
<1> QED BY <1>1, <1>8, <1>9 DEF t

\* The event without accesses carries nothing.
LEMMA NoAccessCarried ==
  ASSUME NEW s, NEW kind
  PROVE  Carries(s, kind, NoAccess) /\ NoAccess.ids = <<>>
<1>1. NoAccess.ids = <<>> /\ NoAccess.stages = <<>>
  BY DEF NoAccess
<1>2. <<>> \in Seq(Ids) /\ <<>> \in Seq(Stage) /\ Len(<<>>) = 0
  OBVIOUS
<1> QED BY <1>1, <1>2 DEF Carries

\* A wake-up, a refresh event or a capacity hint is scheduled.
LEMMA PlainEventScheduled ==
  ASSUME NEW s, NEW limbo, Body(s, limbo), NEW when \in Nat, NEW kind \in Kind, NEW ch \in Channels
  PROVE  LET t == schedule_event(s, when, kind, ch, NoAccess)
         IN  /\ Body(t, limbo) /\ SameBut(s, t)
             /\ KeepsEvents(s.agenda, t.agenda) /\ HasEvent(t.agenda, kind, ch, when)
<1>1. limbo \in Limbo
  BY BodyTypes
<1>2. Delivers(limbo, NoAccess.ids, ch, limbo)
  BY <1>1, NothingDelivered, NoAccessCarried
<1> QED BY <1>1, <1>2, NoAccessCarried, EventScheduled

\* The rest of an agenda is the agenda from which its head was taken.
LEMMA TailInserts ==
  ASSUME NEW a \in Seq(Event), a # <<>>
  PROVE  /\ Tail(a) \in Seq(Event) /\ a[1] \in Event /\ Inserted(Tail(a), 1, a[1], a)
         /\ Len(a) \in Nat /\ Len(a) > 0 /\ Len(Tail(a)) = Len(a) - 1
         /\ \A k \in 1 .. Len(Tail(a)) : Tail(a)[k] = a[k + 1]
<1>1. Len(a) \in Nat /\ Len(a) > 0
  BY EmptySeq
<1>2. /\ Tail(a) \in Seq(Event) /\ Len(Tail(a)) = Len(a) - 1
      /\ \A k \in 1 .. Len(Tail(a)) : Tail(a)[k] = a[k + 1]
  BY <1>1, HeadTailProperties
<1>3. a[1] \in Event
  BY <1>1
<1>4. ASSUME NEW k \in 1 .. Len(a)
      PROVE  a[k] = IF k < 1 THEN Tail(a)[k] ELSE IF k = 1 THEN a[1] ELSE Tail(a)[k - 1]
  <2>1. CASE k = 1
    BY <2>1
  <2>2. CASE k # 1
    <3>1. k - 1 \in 1 .. Len(Tail(a)) /\ (k - 1) + 1 = k /\ ~(k < 1)
      BY <1>1, <1>2, <2>2
    <3>2. Tail(a)[k - 1] = a[(k - 1) + 1]
      BY <1>2, <3>1
    <3> QED BY <2>2, <3>1, <3>2
  <2> QED BY <2>1, <2>2
<1>5. Inserted(Tail(a), 1, a[1], a)
  BY <1>1, <1>2, <1>4 DEF Inserted
<1> QED BY <1>1, <1>2, <1>3, <1>5

\* The events of a other than e are among those of b.
KeepsOthers(a, e, b) == \A kind \in Kind, ch \in Channels, when \in Int :
    HasEvent(a, kind, ch, when) => \/ HasEvent(b, kind, ch, when)
                                   \/ e.kind = kind /\ e.ch = ch /\ e.at = when

\* The scheduler takes the head of the agenda: its accesses are in limbo.
LEMMA EventTaken ==
  ASSUME NEW s, NEW limbo, Body(s, limbo), s.agenda # <<>>, NEW after \in Limbo,
         Delivers(after, s.agenda[1].ids, s.agenda[1].ch, limbo)
  PROVE  LET t == [s EXCEPT !.agenda = Tail(@)]
         IN  /\ Body(t, after) /\ SameBut(s, t) /\ t.agenda = Tail(s.agenda)
             /\ KeepsOthers(s.agenda, s.agenda[1], t.agenda)
<1> DEFINE a == s.agenda
           b == Tail(a)
           e == a[1]
           t == [s EXCEPT !.agenda = b]
<1>0. /\ IsState(s) /\ s.ctl \in [Channels -> TimedController] /\ a \in Seq(Event) /\ Sorted(a)
      /\ DOMAIN s.parents \in SUBSET Ids /\ limbo \in Limbo
  BY BodyTypes
<1>1. /\ b \in Seq(Event) /\ e \in Event /\ Inserted(b, 1, e, a)
      /\ Len(a) \in Nat /\ Len(a) > 0 /\ Len(b) = Len(a) - 1
      /\ \A k \in 1 .. Len(b) : b[k] = a[k + 1]
  BY <1>0, TailInserts
<1> HIDE DEF b
<1>2. /\ IsState(t) /\ t.ctl = s.ctl /\ t.parents = s.parents /\ t.pending = s.pending
      /\ t.agenda = b /\ t.waiting = s.waiting
  BY <1>0, AgendaFields
<1>t. t = [s EXCEPT !.agenda = Tail(@)]
  BY DEF b
<1> HIDE DEF t
<1>3. Sorted(b)
  <2> SUFFICES ASSUME NEW i \in 1 .. Len(b), NEW j \in 1 .. Len(b), i < j
               PROVE  b[i].at <= b[j].at
    BY DEF Sorted
  <2>1. i + 1 \in 1 .. Len(a) /\ j + 1 \in 1 .. Len(a) /\ i + 1 < j + 1
    BY <1>1
  <2>2. a[i + 1].at <= a[j + 1].at
    BY <1>0, <2>1 DEF Sorted
  <2> QED BY <1>1, <2>2
<1>4. WellFormed(t)
  BY <1>1, <1>2, <1>3 DEF Body, WellFormed
<1>5. Fits(t) /\ Covers(t)
  BY <1>2 DEF Body, Fits, Covers
<1>6. ASSUME NEW k \in 1 .. Len(e.ids) PROVE e.ids[k] \in DOMAIN s.parents
  <2>1. 1 \in 1 .. Len(a)
    BY <1>1
  <2> QED BY <2>1 DEF Body, Known
<1>7. Known(t, after)
  <2>1. \A k \in Channels : \A i \in 1 .. Len(t.ctl[k].queue) : t.ctl[k].queue[i].id \in DOMAIN t.parents
    BY <1>2 DEF Body, Known
  <2>2. ASSUME NEW i \in 1 .. Len(t.agenda), NEW k \in 1 .. Len(t.agenda[i].ids)
        PROVE  t.agenda[i].ids[k] \in DOMAIN t.parents
    <3>1. i + 1 \in 1 .. Len(a) /\ b[i] = a[i + 1]
      BY <1>1, <1>2
    <3>2. \A x \in 1 .. Len(a[i + 1].ids) : a[i + 1].ids[x] \in DOMAIN s.parents
      BY <3>1 DEF Body, Known
    <3> QED BY <1>2, <3>1, <3>2
  <2>3. ASSUME NEW id \in Ids, after.owed[id] > 0 PROVE id \in DOMAIN t.parents
    <3> DEFINE n == Cardinality(Named(e.ids, id))
    <3>1. after.owed[id] = limbo.owed[id] + n
      BY DEF Delivers
    <3>2. CASE n = 0
      <4>1. limbo.owed[id] \in Int
        BY <1>0 DEF Limbo
      <4>2. limbo.owed[id] > 0
        <5> HIDE DEF n
        <5> QED BY <2>3, <3>1, <3>2, <4>1
      <4> QED BY <1>2, <4>2 DEF Body, Known
    <3>3. CASE n # 0
      <4>1. Named(e.ids, id) # {}
        BY <3>3, FS_EmptySet
      <4>2. PICK k \in Named(e.ids, id) : TRUE
        BY <4>1
      <4>3. k \in 1 .. Len(e.ids) /\ e.ids[k] = id
        <5>1. Named(e.ids, id) \in SUBSET (1 .. Len(e.ids))
          BY <1>1, EventIds
        <5> QED BY <4>2, <5>1 DEF Named
      <4> QED BY <1>2, <1>6, <4>3
    <3> QED BY <3>2, <3>3
  <2> QED BY <2>1, <2>2, <2>3 DEF Known
<1>8. Balanced(t, after)
  <2>1. t.ctl \in [Channels -> TimedController] /\ t.agenda \in Seq(Event) /\ s.agenda \in Seq(Event)
    BY <1>0, <1>1, <1>2
  <2>2. Inserted(t.agenda, 1, e, s.agenda) /\ Delivers(after, e.ids, e.ch, limbo)
    BY <1>1, <1>2
  <2>3. s.ctl = t.ctl /\ s.parents = t.parents /\ DOMAIN t.parents \in SUBSET Ids
    BY <1>0, <1>2
  <2>4. Balanced(t, after) <=> Balanced(s, limbo)
    <3> HIDE DEF a, e
    <3> QED BY <1>0, <1>1, <2>1, <2>2, <2>3, AgendaBalance DEF a
  <2> QED BY <2>4 DEF Body
<1>9. KeepsOthers(a, e, b)
  <2> SUFFICES ASSUME NEW kind \in Kind, NEW ch \in Channels, NEW when \in Int, HasEvent(a, kind, ch, when)
               PROVE  HasEvent(b, kind, ch, when) \/ (e.kind = kind /\ e.ch = ch /\ e.at = when)
    BY DEF KeepsOthers
  <2>1. PICK i \in 1 .. Len(a) : a[i].kind = kind /\ a[i].ch = ch /\ a[i].at = when
    BY DEF HasEvent
  <2>2. CASE i = 1
    BY <2>1, <2>2
  <2>3. CASE i # 1
    <3>1. i - 1 \in 1 .. Len(b) /\ (i - 1) + 1 = i
      BY <1>1, <2>3
    <3>2. b[i - 1] = a[(i - 1) + 1]
      BY <1>1, <3>1
    <3>3. b[i - 1] = a[i]
      BY <3>1, <3>2
    <3> QED BY <2>1, <3>1, <3>3 DEF HasEvent
  <2> QED BY <2>2, <2>3
<1>10. Body(t, after)
  BY <1>4, <1>5, <1>7, <1>8 DEF Body
<1> QED BY <1>2, <1>9, <1>10, <1>t DEF SameBut, b

-----------------------------------------------------------------------------
(* Advance: the clock moves on.                                             *)

\* The controller r is c after the clock moved by d.
SameChannel(c, r, d) ==
    /\ r \in TimedController /\ SameEntries(c.queue, r.queue) /\ r.outstanding = c.outstanding /\ r.fault = c.fault
    /\ r.wakeup_at = Later(c.wakeup_at, d) /\ r.refresh_due_at = Later(c.refresh_due_at, d)
    /\ r.next_refresh_due = Later(c.next_refresh_due, d)

SameParent(p, q) == q.txn = p.txn /\ q.admitted = p.admitted /\ q.remaining = p.remaining

\* The state t is s after the clock moved by d.
Moved(s, t, d) ==
    /\ t.pending = s.pending /\ t.waiting = s.waiting
    /\ DOMAIN t.parents = DOMAIN s.parents /\ t.parents = [id \in DOMAIN t.parents |-> t.parents[id]]
    /\ \A id \in DOMAIN s.parents : IsParent(t.parents[id]) /\ SameParent(s.parents[id], t.parents[id])
    /\ t.ctl \in [Channels -> TimedController] /\ \A ch \in Channels : SameChannel(s.ctl[ch], t.ctl[ch], d)
    /\ t.agenda \in Seq(Event) /\ SameEvents(s.agenda, t.agenda)
    /\ \A i \in 1 .. Len(s.agenda) : t.agenda[i].at = s.agenda[i].at - d

\* The same accesses fill a queue as much.
LEMMA SameFit ==
  ASSUME NEW c \in TimedController, NEW r \in TimedController, SameEntries(c.queue, r.queue)
  PROVE  Reads(r) = Reads(c) /\ Writes(r) = Writes(c) /\ (QueueFits(c) <=> QueueFits(r)) /\ Len(r.queue) = Len(c.queue)
<1>1. c.queue \in Seq(QueuedAccess) /\ r.queue \in Seq(QueuedAccess) /\ Len(r.queue) = Len(c.queue)
  BY ControllerCounts DEF SameEntries
<1>2. DOMAIN c.queue = 1 .. Len(c.queue) /\ DOMAIN r.queue = 1 .. Len(c.queue)
  BY <1>1
<1>3. \A j \in 1 .. Len(c.queue) : r.queue[j].op = c.queue[j].op
  BY DEF SameEntries
<1>4. Reads(r) = Reads(c) /\ Writes(r) = Writes(c)
  BY <1>2, <1>3 DEF Reads, Writes
<1> QED BY <1>1, <1>4 DEF QueueFits

\* An event that lies d later than now is still one when the clock has moved by d.
LEMMA EventMoved ==
  ASSUME NEW e \in Event, NEW d \in Nat, d <= e.at
  PROVE  LET f == [e EXCEPT !.at = e.at - d]
         IN  f \in Event /\ f.at = e.at - d /\ f.ids = e.ids /\ f.ch = e.ch /\ f.kind = e.kind
<1> DEFINE n == e.at - d
<1>1. e.at \in Nat
  BY EventTypes
<1>2. n \in Nat
  BY <1>1
<1> HIDE DEF n
<1>3. [e EXCEPT !.at = n] \in Event /\ [e EXCEPT !.at = n].at = n
  BY <1>2 DEF Event, EventRecord
<1>4. LET f == [e EXCEPT !.at = n] IN f.ids = e.ids /\ f.ch = e.ch /\ f.kind = e.kind
  BY DEF Event, EventRecord
<1> QED BY <1>3, <1>4 DEF n

\* Advance moves the clock.
LEMMA AdvanceMoves ==
  ASSUME NEW s, NEW limbo, Body(s, limbo), NEW d \in Nat, \A i \in 1 .. Len(s.agenda) : d <= s.agenda[i].at
  PROVE  IsState(Advance(s, d)) /\ Moved(s, Advance(s, d), d)
<1> DEFINE t == Advance(s, d)
           ctls == [ch \in Channels |-> Rebase(s.ctl[ch], d)]
           table == IF KeepRecords
                    THEN [id \in DOMAIN s.parents |-> [s.parents[id] EXCEPT !.arrival = s.parents[id].arrival - d]]
                    ELSE s.parents
           events == [i \in DOMAIN s.agenda |-> [s.agenda[i] EXCEPT !.at = s.agenda[i].at - d]]
<1>0. /\ IsState(s) /\ s.ctl \in [Channels -> TimedController] /\ s.agenda \in Seq(Event)
      /\ \A id \in DOMAIN s.parents : IsParent(s.parents[id])
  BY BodyTypes
<1>2. /\ IsState(t) /\ t.ctl = ctls /\ t.parents = table /\ t.agenda = events
      /\ t.pending = s.pending /\ t.waiting = s.waiting
  <2>1. t = [s EXCEPT !.ctl = ctls, !.parents = SinceArrival(s.parents, d), !.agenda = UntilEvent(s.agenda, d)]
    BY DEF Advance
  <2>2. SinceArrival(s.parents, d) = table /\ UntilEvent(s.agenda, d) = events
    BY DEF SinceArrival, UntilEvent
  <2> HIDE DEF ctls, table, events, t
  <2>3. t = [s EXCEPT !.ctl = ctls, !.parents = table, !.agenda = events]
    BY <2>1, <2>2
  <2> QED BY <1>0, <2>3 DEF IsState
<1>3. ctls \in [Channels -> TimedController] /\ \A ch \in Channels : SameChannel(s.ctl[ch], ctls[ch], d)
  <2>1. ASSUME NEW ch \in Channels PROVE Rebase(s.ctl[ch], d) \in TimedController /\ SameChannel(s.ctl[ch], Rebase(s.ctl[ch], d), d)
    <3>1. s.ctl[ch] \in TimedController /\ d \in Int
      BY <1>0
    <3>2. s.ctl[ch] \in Controller /\ Rebase(s.ctl[ch], d) \in TimedController
      BY <3>1, TimedIsController, RebaseIsTimed
    <3> QED BY <3>1, <3>2, RebaseFacts DEF SameChannel
  <2> QED BY <2>1
<1>p. s.parents = [id \in DOMAIN s.parents |-> s.parents[id]]
  BY DEF Body, WellFormed
<1>4. /\ DOMAIN table = DOMAIN s.parents /\ table = [id \in DOMAIN table |-> table[id]]
      /\ \A id \in DOMAIN s.parents : IsParent(table[id]) /\ SameParent(s.parents[id], table[id])
  <2>1. CASE KeepRecords
    <3>1. DOMAIN table = DOMAIN s.parents /\ table = [id \in DOMAIN table |-> table[id]]
      BY <2>1
    <3>2. ASSUME NEW id \in DOMAIN s.parents PROVE IsParent(table[id]) /\ SameParent(s.parents[id], table[id])
      <4> DEFINE p == s.parents[id]
                 late == p.arrival - d
                 q == [p EXCEPT !.arrival = late]
      <4>1. table[id] = q
        BY <2>1
      <4>2. IsParent(p)
        BY <1>0
      <4>3. p.arrival \in Int
        BY <2>1, <4>2 DEF IsParent
      <4>4. late \in Int
        BY <4>3
      <4> HIDE DEF p, late
      <4>5. /\ q.txn = p.txn /\ q.admitted = p.admitted /\ q.remaining = p.remaining /\ q.arrival = late
            /\ q = [txn |-> q.txn, admitted |-> q.admitted, remaining |-> q.remaining, arrival |-> q.arrival, stages |-> q.stages]
        BY <4>2 DEF IsParent
      <4> HIDE DEF q
      <4>6. IsParent(q)
        BY <2>1, <4>2, <4>4, <4>5 DEF IsParent
      <4> QED BY <4>1, <4>5, <4>6 DEF p, SameParent
    <3> QED BY <3>1, <3>2
  <2>2. CASE ~KeepRecords
    <3>1. table = s.parents
      BY <2>2
    <3> QED BY <1>0, <1>p, <3>1 DEF SameParent
  <2> QED BY <2>1, <2>2
<1>5. /\ events \in Seq(Event) /\ SameEvents(s.agenda, events)
      /\ \A i \in 1 .. Len(s.agenda) : events[i].at = s.agenda[i].at - d
  <2>1. Len(s.agenda) \in Nat /\ DOMAIN s.agenda = 1 .. Len(s.agenda)
    BY <1>0
  <2>2. ASSUME NEW i \in 1 .. Len(s.agenda)
        PROVE  /\ events[i] \in Event /\ events[i].at = s.agenda[i].at - d
               /\ events[i].ids = s.agenda[i].ids /\ events[i].ch = s.agenda[i].ch /\ events[i].kind = s.agenda[i].kind
    <3>1. s.agenda[i] \in Event /\ d <= s.agenda[i].at
      BY <1>0
    <3>2. events[i] = [s.agenda[i] EXCEPT !.at = s.agenda[i].at - d]
      BY <2>1
    <3> QED BY <3>1, <3>2, EventMoved
  <2>3. events \in Seq(Event)
    <3>1. DOMAIN events = 1 .. Len(s.agenda) /\ events = [i \in 1 .. Len(s.agenda) |-> events[i]]
      BY <2>1
    <3>2. \A i \in 1 .. Len(s.agenda) : events[i] \in Event
      BY <2>2
    <3> DEFINE n == Len(s.agenda)
    <3> HIDE DEF events, n
    <3>3. events \in [1 .. n -> Event]
      BY <3>1, <3>2 DEF n
    <3>4. n \in Nat
      BY <2>1 DEF n
    <3> QED BY <3>3, <3>4
  <2>4. Len(events) = Len(s.agenda)
    BY <2>1, <2>3
  <2> HIDE DEF events
  <2> QED BY <2>2, <2>3, <2>4 DEF SameEvents
<1> HIDE DEF ctls, table, events, t
<1>6. Moved(s, t, d)
  BY <1>2, <1>3, <1>4, <1>5 DEF Moved
<1> QED BY <1>2, <1>6 DEF t

\* The accounts do not depend on the clock.
LEMMA MovedBody ==
  ASSUME NEW s, NEW limbo, Body(s, limbo), NEW d \in Nat, NEW t, IsState(t), Moved(s, t, d)
  PROVE  Body(t, limbo)
<1>0. /\ s.ctl \in [Channels -> TimedController] /\ s.agenda \in Seq(Event) /\ Sorted(s.agenda)
      /\ \A ch \in Channels : s.ctl[ch] \in TimedController /\ NoDue(s.ctl[ch]) /\ QueueFits(s.ctl[ch]) /\ ~s.ctl[ch].fault
      /\ \A i \in 1 .. Len(s.agenda) : s.agenda[i] \in Event
      /\ DOMAIN s.parents \in SUBSET Ids /\ limbo \in Limbo
  BY BodyTypes
<1>1. /\ t.pending = s.pending /\ t.waiting = s.waiting /\ DOMAIN t.parents = DOMAIN s.parents
      /\ t.parents = [id \in DOMAIN t.parents |-> t.parents[id]]
      /\ t.ctl \in [Channels -> TimedController]
      /\ t.agenda \in Seq(Event) /\ SameEvents(s.agenda, t.agenda)
  BY DEF Moved
<1>2. ASSUME NEW id \in DOMAIN s.parents PROVE IsParent(t.parents[id]) /\ SameParent(s.parents[id], t.parents[id])
  BY DEF Moved
<1>3. ASSUME NEW ch \in Channels PROVE t.ctl[ch] \in TimedController /\ SameChannel(s.ctl[ch], t.ctl[ch], d)
  BY <1>1 DEF Moved
<1>4. Sorted(t.agenda)
  <2> SUFFICES ASSUME NEW i \in 1 .. Len(t.agenda), NEW j \in 1 .. Len(t.agenda), i < j
               PROVE  t.agenda[i].at <= t.agenda[j].at
    BY DEF Sorted
  <2>1. i \in 1 .. Len(s.agenda) /\ j \in 1 .. Len(s.agenda)
    BY <1>1 DEF SameEvents
  <2>2. s.agenda[i].at <= s.agenda[j].at
    BY <1>0, <2>1 DEF Sorted
  <2>3. s.agenda[i].at \in Nat /\ s.agenda[j].at \in Nat
    BY <1>0, <2>1, EventTypes
  <2>4. t.agenda[i].at = s.agenda[i].at - d /\ t.agenda[j].at = s.agenda[j].at - d
    BY <2>1 DEF Moved
  <2> DEFINE x == s.agenda[i].at
             y == s.agenda[j].at
  <2>5. x \in Nat /\ y \in Nat /\ x <= y
    BY <2>2, <2>3
  <2>6. t.agenda[i].at = x - d /\ t.agenda[j].at = y - d
    BY <2>4
  <2> HIDE DEF x, y
  <2>7. x - d <= y - d
    BY <2>5
  <2> QED BY <2>6, <2>7, Zenon
<1>5. WellFormed(t)
  BY <1>1, <1>2, <1>4 DEF Body, WellFormed
<1>6. Fits(t)
  <2>1. ASSUME NEW ch \in Channels PROVE QueueFits(t.ctl[ch]) /\ NoDue(t.ctl[ch])
    <3>1. QueueFits(t.ctl[ch])
      BY <1>0, <1>3, SameFit DEF SameChannel
    <3>2. s.ctl[ch].next_refresh_due \in Optional(Int) /\ s.ctl[ch].refresh_due_at \in Optional(Int)
      <4>1. s.ctl[ch] \in TimedController
        BY <1>0
      <4> QED BY <4>1 DEF TimedController, Controller
    <3>d. d \in Int
      OBVIOUS
    <3>3. Later(s.ctl[ch].next_refresh_due, d) = None <=> s.ctl[ch].next_refresh_due = None
      BY <3>2, <3>d, LaterFacts, Zenon
    <3>c. Later(s.ctl[ch].refresh_due_at, d) = None <=> s.ctl[ch].refresh_due_at = None
      BY <3>2, <3>d, LaterFacts, Zenon
    <3>4. NoDue(t.ctl[ch])
      BY <1>0, <1>3, <3>3, <3>c DEF NoDue, SameChannel
    <3> QED BY <3>1, <3>4
  <2> QED BY <1>1, <2>1 DEF Body, Fits
<1>7. Covers(t)
  <2>1. \A id \in DOMAIN s.parents : Unadmitted(t.parents[id]) <=> Unadmitted(s.parents[id])
    BY <1>2 DEF Unadmitted, SameParent
  <2> QED BY <1>1, <2>1 DEF Body, Covers
<1>8. Known(t, limbo)
  <2>1. ASSUME NEW k \in Channels, NEW i \in 1 .. Len(t.ctl[k].queue) PROVE t.ctl[k].queue[i].id \in DOMAIN t.parents
    <3>1. i \in 1 .. Len(s.ctl[k].queue) /\ t.ctl[k].queue[i].id = s.ctl[k].queue[i].id
      BY <1>3 DEF SameChannel, SameEntries
    <3>2. s.ctl[k].queue[i].id \in DOMAIN s.parents
      BY <3>1 DEF Body, Known
    <3> QED BY <1>1, <3>1, <3>2
  <2>2. ASSUME NEW i \in 1 .. Len(t.agenda), NEW k \in 1 .. Len(t.agenda[i].ids)
        PROVE  t.agenda[i].ids[k] \in DOMAIN t.parents
    <3>1. i \in 1 .. Len(s.agenda) /\ t.agenda[i].ids = s.agenda[i].ids
      BY <1>1 DEF SameEvents
    <3>2. s.agenda[i].ids[k] \in DOMAIN s.parents
      BY <3>1 DEF Body, Known
    <3> QED BY <1>1, <3>1, <3>2
  <2> QED BY <1>1, <2>1, <2>2 DEF Body, Known
<1>9. Balanced(t, limbo)
  <2>0. \A k \in Channels : SameIds(s.ctl[k].queue, t.ctl[k].queue)
    BY <1>3 DEF SameChannel, SameEntries, SameIds
  <2>1. ASSUME NEW id \in DOMAIN t.parents PROVE t.parents[id].remaining = LiveOf(t, id) + limbo.owed[id]
    <3>1. QueueOf(t, id) = QueueOf(s, id)
      BY <1>0, <1>1, <2>0, SameQueues
    <3>2. FlightOf(t, id) = FlightOf(s, id) /\ FlightOn(t, id) = FlightOn(s, id)
      BY <1>0, <1>1, SameFlight
    <3>3. LiveOf(t, id) = LiveOf(s, id)
      BY <3>1, <3>2 DEF LiveOf, QueueOf, FlightOf
    <3>4. t.parents[id].remaining = s.parents[id].remaining
      BY <1>1, <1>2 DEF SameParent
    <3> QED BY <1>1, <3>3, <3>4 DEF Body, Balanced
  <2>2. ASSUME NEW k \in Channels PROVE t.ctl[k].outstanding = LiveOn(t, k) + limbo.on[k] /\ ~t.ctl[k].fault
    <3>1. Cardinality(QueueOn(t, k)) = Len(t.ctl[k].queue) /\ Cardinality(QueueOn(s, k)) = Len(s.ctl[k].queue)
      BY <1>0, <1>1, QueueOnCount
    <3>2. FlightOf(t, k) = FlightOf(s, k) /\ FlightOn(t, k) = FlightOn(s, k)
      BY <1>0, <1>1, SameFlight
    <3>3. Cardinality(QueueOn(t, k)) = Cardinality(QueueOn(s, k))
      BY <2>0, <3>1 DEF SameIds
    <3>4. LiveOn(t, k) = LiveOn(s, k)
      BY <3>2, <3>3 DEF LiveOn, QueueOn, FlightOn
    <3>5. t.ctl[k].outstanding = s.ctl[k].outstanding /\ t.ctl[k].fault = s.ctl[k].fault
      BY <1>3 DEF SameChannel
    <3> QED BY <3>4, <3>5 DEF Body, Balanced
  <2> QED BY <2>1, <2>2 DEF Balanced
<1> QED BY <1>0, <1>5, <1>6, <1>7, <1>8, <1>9 DEF Body

\* A mark has its event, unless it is the mark of the event (kind, ch, when).
MarkOf(s, mark, as, k, kind, ch, when) ==
    mark # None => HasEvent(s.agenda, as, k, mark) \/ (kind = as /\ ch = k /\ when = mark)
MarkedBut(s, kind, ch, when) == \A k \in Channels :
    /\ MarkOf(s, s.ctl[k].wakeup_at, "wake", k, kind, ch, when)
    /\ MarkOf(s, s.ctl[k].refresh_due_at, "refresh", k, kind, ch, when)

\* Marks are integers.
LEMMA MarkTypes ==
  ASSUME NEW c \in TimedController
  PROVE  /\ c.wakeup_at \in Optional(Int) /\ c.refresh_due_at \in Optional(Int) /\ c.next_refresh_due \in Optional(Int)
         /\ c.wakeup_at # None => c.wakeup_at \in Int
         /\ c.refresh_due_at # None => c.refresh_due_at \in Int
         /\ c.next_refresh_due # None => c.next_refresh_due \in Int
<1>1. /\ c.wakeup_at \in Optional(Int) /\ c.refresh_due_at \in Optional(Int) /\ c.next_refresh_due \in Optional(Int)
  BY DEF TimedController, Controller
<1> QED BY <1>1 DEF Optional

\* The head of the agenda is taken: its mark alone may be without an event.
LEMMA MarksButHead ==
  ASSUME NEW s, Marked(s), NEW t, s.ctl \in [Channels -> TimedController], t.ctl = s.ctl, NEW e,
         KeepsOthers(s.agenda, e, t.agenda)
  PROVE  MarkedBut(t, e.kind, e.ch, e.at)
<1> SUFFICES ASSUME NEW k \in Channels
             PROVE  /\ MarkOf(t, t.ctl[k].wakeup_at, "wake", k, e.kind, e.ch, e.at)
                    /\ MarkOf(t, t.ctl[k].refresh_due_at, "refresh", k, e.kind, e.ch, e.at)
  BY DEF MarkedBut
<1>0. s.ctl[k] \in TimedController /\ "wake" \in Kind /\ "refresh" \in Kind
  BY DEF Kind
<1>1. ASSUME s.ctl[k].wakeup_at # None
      PROVE  HasEvent(t.agenda, "wake", k, s.ctl[k].wakeup_at) \/ (e.kind = "wake" /\ e.ch = k /\ e.at = s.ctl[k].wakeup_at)
  <2>1. HasEvent(s.agenda, "wake", k, s.ctl[k].wakeup_at)
    BY <1>1 DEF Marked
  <2>2. s.ctl[k].wakeup_at \in Int
    BY <1>0, <1>1, MarkTypes
  <2> QED BY <1>0, <2>1, <2>2 DEF KeepsOthers
<1>2. ASSUME s.ctl[k].refresh_due_at # None
      PROVE  HasEvent(t.agenda, "refresh", k, s.ctl[k].refresh_due_at) \/ (e.kind = "refresh" /\ e.ch = k /\ e.at = s.ctl[k].refresh_due_at)
  <2>1. HasEvent(s.agenda, "refresh", k, s.ctl[k].refresh_due_at)
    BY <1>2 DEF Marked
  <2>2. s.ctl[k].refresh_due_at \in Int
    BY <1>0, <1>2, MarkTypes
  <2> QED BY <1>0, <2>1, <2>2 DEF KeepsOthers
<1> QED BY <1>1, <1>2 DEF MarkOf

\* The events move with the clock.
LEMMA HasEventMoved ==
  ASSUME NEW s, NEW t, NEW d, Moved(s, t, d), NEW kind, NEW ch, NEW when, HasEvent(s.agenda, kind, ch, when)
  PROVE  HasEvent(t.agenda, kind, ch, when - d)
<1>1. PICK i \in 1 .. Len(s.agenda) : s.agenda[i].kind = kind /\ s.agenda[i].ch = ch /\ s.agenda[i].at = when
  BY DEF HasEvent
<1>2. /\ i \in 1 .. Len(t.agenda) /\ t.agenda[i].kind = kind /\ t.agenda[i].ch = ch
      /\ t.agenda[i].at = s.agenda[i].at - d
  BY <1>1 DEF Moved, SameEvents
<1> QED BY <1>1, <1>2 DEF HasEvent

\* And with them their marks.
LEMMA MarkMoved ==
  ASSUME NEW s, NEW t, NEW d \in Int, Moved(s, t, d), NEW mark \in Optional(Int), NEW as, NEW k,
         NEW kind, NEW ch, NEW when \in Int, MarkOf(s, mark, as, k, kind, ch, when)
  PROVE  MarkOf(t, Later(mark, d), as, k, kind, ch, when - d)
<1> SUFFICES ASSUME Later(mark, d) # None
             PROVE  HasEvent(t.agenda, as, k, Later(mark, d)) \/ (kind = as /\ ch = k /\ when - d = Later(mark, d))
  BY DEF MarkOf
<1>1. mark # None /\ Later(mark, d) = mark - d /\ mark \in Int
  BY LaterFacts
<1>2. CASE HasEvent(s.agenda, as, k, mark)
  BY <1>1, <1>2, HasEventMoved
<1>3. CASE kind = as /\ ch = k /\ when = mark
  BY <1>1, <1>3
<1> QED BY <1>1, <1>2, <1>3 DEF MarkOf

\* All of them.
LEMMA MarksMoved ==
  ASSUME NEW s, s.ctl \in [Channels -> TimedController], NEW t, NEW d \in Int, Moved(s, t, d),
         NEW kind, NEW ch, NEW when \in Int, MarkedBut(s, kind, ch, when)
  PROVE  MarkedBut(t, kind, ch, when - d)
<1> SUFFICES ASSUME NEW k \in Channels
             PROVE  /\ MarkOf(t, t.ctl[k].wakeup_at, "wake", k, kind, ch, when - d)
                    /\ MarkOf(t, t.ctl[k].refresh_due_at, "refresh", k, kind, ch, when - d)
  BY DEF MarkedBut
<1>1. /\ t.ctl[k].wakeup_at = Later(s.ctl[k].wakeup_at, d)
      /\ t.ctl[k].refresh_due_at = Later(s.ctl[k].refresh_due_at, d)
  BY DEF Moved, SameChannel
<1>2. s.ctl[k].wakeup_at \in Optional(Int) /\ s.ctl[k].refresh_due_at \in Optional(Int)
  <2>1. s.ctl[k] \in TimedController
    OBVIOUS
  <2> QED BY <2>1, MarkTypes
<1>3. /\ MarkOf(s, s.ctl[k].wakeup_at, "wake", k, kind, ch, when)
      /\ MarkOf(s, s.ctl[k].refresh_due_at, "refresh", k, kind, ch, when)
  BY DEF MarkedBut
<1>4. MarkOf(t, Later(s.ctl[k].wakeup_at, d), "wake", k, kind, ch, when - d)
  BY <1>2, <1>3, MarkMoved
<1>5. MarkOf(t, Later(s.ctl[k].refresh_due_at, d), "refresh", k, kind, ch, when - d)
  BY <1>2, <1>3, MarkMoved
<1> QED BY <1>1, <1>4, <1>5

\* No mark is excepted for an event that no mark stands for.
LEMMA MarkedAll ==
  ASSUME NEW s, NEW kind, NEW ch, NEW when
  PROVE  /\ Marked(s) => MarkedBut(s, kind, ch, when)
         /\ MarkedBut(s, kind, ch, when) /\ kind # "wake" /\ kind # "refresh" => Marked(s)
BY DEF Marked, MarkedBut, MarkOf

\* The next access of a parent that is not fully admitted.
LEMMA NextAccessFacts ==
  ASSUME NEW p, IsParent(p), Unadmitted(p)
  PROVE  LET at == NextAccess(p)
         IN  /\ at \in [ch : Channels, bank : Bank, row : Nat, col : Nat] /\ at.ch \in Channels
             /\ p.admitted \in Nat /\ p.admitted + 1 \in 1 .. Len(p.txn.accesses) /\ p.txn \in Transactions
             /\ p.txn.op \in {"Read", "Write"} /\ p.txn.priority \in Nat
             /\ Len(p.txn.accesses) \in Nat /\ DOMAIN p.txn.accesses = 1 .. Len(p.txn.accesses)
<1>1. /\ p.txn \in Transactions /\ p.txn.op \in {"Read", "Write"} /\ p.txn.priority \in Nat
      /\ p.txn.accesses \in Seq([ch : Channels, bank : Bank, row : Nat, col : Nat])
  BY SystemAssumption DEF IsParent
<1>2. Len(p.txn.accesses) \in Nat /\ DOMAIN p.txn.accesses = 1 .. Len(p.txn.accesses)
  BY <1>1
<1>3. p.admitted \in 0 .. Len(p.txn.accesses) /\ p.admitted < Len(p.txn.accesses)
  BY DEF IsParent, Unadmitted
<1>4. p.admitted \in Nat /\ p.admitted + 1 \in 1 .. Len(p.txn.accesses)
  BY <1>2, <1>3
<1>5. NextAccess(p) \in [ch : Channels, bank : Bank, row : Nat, col : Nat]
  <2> DEFINE k == p.admitted + 1
             accesses == p.txn.accesses
             A == [ch : Channels, bank : Bank, row : Nat, col : Nat]
  <2>1. k \in 1 .. Len(accesses) /\ accesses \in Seq(A)
    BY <1>1, <1>4
  <2> HIDE DEF k, accesses, A
  <2>2. accesses[k] \in A
    BY <2>1
  <2> QED BY <2>2 DEF NextAccess, k, accesses, A
<1> QED BY <1>1, <1>2, <1>4, <1>5

\* What else the clock does not change.
LEMMA MovedRest ==
  ASSUME NEW s, NEW limbo, Body(s, limbo), NEW t, NEW d \in Nat, Moved(s, t, d)
  PROVE  /\ (Awaited(s) => Awaited(t)) /\ (Armed(s) => Armed(t)) /\ (Settled(s) => Settled(t))
         /\ \A id \in DOMAIN s.parents : Done(s, id) => Done(t, id)
<1>0. /\ \A ch \in Channels : s.ctl[ch] \in TimedController /\ t.ctl[ch] \in TimedController /\ SameChannel(s.ctl[ch], t.ctl[ch], d)
      /\ \A id \in DOMAIN s.parents : IsParent(s.parents[id]) /\ SameParent(s.parents[id], t.parents[id])
      /\ DOMAIN t.parents = DOMAIN s.parents /\ t.pending = s.pending
      /\ \A i \in 1 .. Len(s.pending) : s.pending[i] \in DOMAIN s.parents
  <2>1. s.ctl \in [Channels -> TimedController] /\ t.ctl \in [Channels -> TimedController]
    BY BodyTypes DEF Moved
  <2> QED BY <2>1, BodyTypes DEF Moved
<1>1. ASSUME Awaited(s) PROVE Awaited(t)
  BY <1>0, <1>1 DEF Awaited, SameParent, Unadmitted
<1>2. ASSUME Armed(s) PROVE Armed(t)
  <2> SUFFICES ASSUME NEW ch \in Channels PROVE IsArmed(t.ctl[ch])
    BY DEF Armed
  <2>1. IsArmed(s.ctl[ch])
    BY <1>2 DEF Armed
  <2> QED BY <1>0, <2>1 DEF IsArmed, SameChannel
<1>3. ASSUME NEW id \in DOMAIN s.parents, Done(s, id) PROVE Done(t, id)
  <2>1. ASSUME Unadmitted(t.parents[id])
        PROVE  ~can_reserve(t.ctl[NextAccess(t.parents[id]).ch], t.parents[id].txn.op)
    <3>1. /\ Unadmitted(s.parents[id]) /\ NextAccess(t.parents[id]) = NextAccess(s.parents[id])
          /\ t.parents[id].txn = s.parents[id].txn
      BY <1>0, <2>1 DEF SameParent, Unadmitted, NextAccess
    <3> DEFINE ch == NextAccess(s.parents[id]).ch
    <3>2. ch \in Channels
      BY <1>0, <3>1, NextAccessFacts
    <3>3. ~can_reserve(s.ctl[ch], s.parents[id].txn.op)
      BY <1>3, <3>1 DEF Done
    <3> HIDE DEF ch
    <3>4. Reads(t.ctl[ch]) = Reads(s.ctl[ch]) /\ Writes(t.ctl[ch]) = Writes(s.ctl[ch])
      BY <1>0, <3>2, SameFit DEF SameChannel
    <3>5. ~can_reserve(t.ctl[ch], s.parents[id].txn.op)
      BY <3>3, <3>4 DEF can_reserve
    <3> QED BY <3>1, <3>5 DEF ch
  <2> QED BY <2>1 DEF Done
<1>4. ASSUME Settled(s) PROVE Settled(t)
  <2> SUFFICES ASSUME NEW i \in 1 .. Len(s.pending)
               PROVE  Unadmitted(t.parents[s.pending[i]]) /\ Done(t, s.pending[i])
    BY <1>0 DEF Settled
  <2>1. s.pending[i] \in DOMAIN s.parents /\ Unadmitted(s.parents[s.pending[i]]) /\ Done(s, s.pending[i])
    BY <1>0, <1>4 DEF Settled
  <2>2. Unadmitted(t.parents[s.pending[i]])
    BY <1>0, <2>1 DEF Unadmitted, SameParent
  <2> QED BY <1>3, <2>1, <2>2
<1> QED BY <1>1, <1>2, <1>3, <1>4

\* Limbo when the accesses of one event, or of one transfer, are on their way.
InLimbo(ids, ch) == [owed |-> [id \in Ids |-> Cardinality(Named(ids, id))],
                     on   |-> [k \in Channels |-> IF ch = k THEN Len(ids) ELSE 0]]

\* It is what they have to be delivered from.
LEMMA InLimboFacts ==
  ASSUME NEW ids \in Seq(Ids), NEW ch
  PROVE  /\ InLimbo(ids, ch) \in Owing /\ Nobody \in Owing /\ Delivers(InLimbo(ids, ch), ids, ch, Nobody)
         /\ ids = <<>> => InLimbo(ids, ch) = Nobody
<1>1. Len(ids) \in Nat
  OBVIOUS
<1>2. ASSUME NEW id \in Ids PROVE Cardinality(Named(ids, id)) \in Nat
  <2>1. Named(ids, id) \in SUBSET (1 .. Len(ids)) /\ IsFiniteSet(1 .. Len(ids))
    BY FS_Interval DEF Named
  <2> QED BY <2>1, FS_Subset, FS_CardinalityType
<1>3. InLimbo(ids, ch) \in Owing
  BY <1>1, <1>2 DEF InLimbo, Owing
<1>4. Nobody \in Owing
  BY DEF Nobody, Owing
<1>5. Delivers(InLimbo(ids, ch), ids, ch, Nobody)
  BY <1>1, <1>2 DEF InLimbo, Nobody, Delivers
<1>6. ASSUME ids = <<>> PROVE InLimbo(ids, ch) = Nobody
  <2>1. ASSUME NEW id \in Ids PROVE Cardinality(Named(ids, id)) = 0
    <3>1. Named(ids, id) = {}
      BY <1>6 DEF Named
    <3> QED BY <3>1, FS_EmptySet
  <2>2. Len(ids) = 0
    BY <1>6
  <2> QED BY <2>1, <2>2 DEF InLimbo, Nobody
<1> QED BY <1>3, <1>4, <1>5, <1>6

\* The invariant, of the state as a record.
LEMMA Invariant ==
  ASSUME IInv
  PROVE  /\ Body(State, Nobody) /\ Awaited(State) /\ Marked(State) /\ Armed(State) /\ Settled(State)
         /\ State.ctl = ctl /\ State.parents = parents /\ State.pending = pending /\ State.agenda = agenda
         /\ State.waiting = waiting /\ State.stats = stats
         /\ agenda \in Seq(Event) /\ Sorted(agenda)
<1>1. /\ State.ctl = ctl /\ State.parents = parents /\ State.pending = pending /\ State.agenda = agenda
      /\ State.waiting = waiting /\ State.stats = stats
  BY DEF State
<1>2. Body(State, Nobody) /\ Awaited(State) /\ Marked(State) /\ Armed(State) /\ Settled(State)
  BY DEF IInv, Sound
<1>3. agenda \in Seq(Event) /\ Sorted(agenda)
  BY <1>1, <1>2, BodyTypes
<1> QED BY <1>1, <1>2, <1>3

\* When the scheduler has taken the head of the agenda, at its time, its accesses are
\* in limbo, and its mark may be without an event; nothing else has changed.
AtEventOf(t, e) ==
    /\ e \in Event /\ InLimbo(e.ids, e.ch) \in Owing
    /\ Body(t, InLimbo(e.ids, e.ch)) /\ Awaited(t) /\ Armed(t) /\ Settled(t)
    /\ MarkedBut(t, e.kind, e.ch, 0)
    /\ \A k \in 1 .. Len(e.ids) : e.ids[k] \in DOMAIN t.parents

\* That is the state in which its callback runs.
LEMMA AtEventFacts ==
  ASSUME IInv, agenda # <<>>
  PROVE  AtEventOf(AtEvent, agenda[1])
<1> DEFINE e == agenda[1]
           d == e.at
           limbo == InLimbo(e.ids, e.ch)
           s == [State EXCEPT !.agenda = Tail(@)]
           t == Advance(s, d)
<1>0. /\ agenda \in Seq(Event) /\ Sorted(agenda) /\ e \in Event
      /\ Tail(agenda) \in Seq(Event) /\ Len(agenda) \in Nat /\ Len(agenda) > 0 /\ Len(Tail(agenda)) = Len(agenda) - 1
      /\ \A k \in 1 .. Len(Tail(agenda)) : Tail(agenda)[k] = agenda[k + 1]
  BY Invariant, TailInserts
<1>e. d \in Nat /\ e.ids \in Seq(Ids)
  BY <1>0, EventTypes
<1>1. limbo \in Owing /\ limbo \in Limbo /\ Delivers(limbo, e.ids, e.ch, Nobody)
  BY <1>e, InLimboFacts, OwingFacts
<1>2. Body(s, limbo) /\ SameBut(State, s) /\ s.agenda = Tail(agenda) /\ KeepsOthers(agenda, e, s.agenda)
  BY <1>1, Invariant, EventTaken
<1> HIDE DEF s, limbo, d
<1>3. \A i \in 1 .. Len(s.agenda) : d <= s.agenda[i].at
  <2> SUFFICES ASSUME NEW i \in 1 .. Len(s.agenda) PROVE d <= s.agenda[i].at
    OBVIOUS
  <2>1. /\ s.agenda[i] = agenda[i + 1] /\ i + 1 \in 1 .. Len(agenda) /\ 1 \in 1 .. Len(agenda) /\ 1 < i + 1
    BY <1>0, <1>2
  <2>2. agenda[1].at <= agenda[i + 1].at
    BY <1>0, <2>1 DEF Sorted
  <2> QED BY <2>1, <2>2 DEF d
<1>4. IsState(t) /\ Moved(s, t, d)
  BY <1>2, <1>3, <1>e, AdvanceMoves
<1>5. Body(t, limbo)
  BY <1>2, <1>4, <1>e, MovedBody
<1>6. Awaited(s) /\ Armed(s) /\ Settled(s)
  BY <1>2, Invariant DEF SameBut, Awaited, Armed, Settled, Done
<1>7. Awaited(t) /\ Armed(t) /\ Settled(t)
  BY <1>2, <1>4, <1>6, <1>e, MovedRest
<1>8. s.ctl = State.ctl /\ State.ctl \in [Channels -> TimedController] /\ s.ctl \in [Channels -> TimedController]
  BY <1>2, Invariant, BodyTypes DEF SameBut
<1>9. MarkedBut(s, e.kind, e.ch, d)
  <2>1. KeepsOthers(State.agenda, e, s.agenda)
    BY <1>2, Invariant
  <2>2. MarkedBut(s, e.kind, e.ch, e.at)
    BY <1>8, <2>1, Invariant, MarksButHead
  <2> QED BY <2>2 DEF d
<1>10. MarkedBut(t, e.kind, e.ch, 0)
  <2>1. d \in Int /\ d - d = 0
    BY <1>e
  <2>2. MarkedBut(t, e.kind, e.ch, d - d)
    BY <1>4, <1>8, <1>9, <2>1, MarksMoved
  <2> QED BY <2>1, <2>2
<1>11. ASSUME NEW k \in 1 .. Len(e.ids) PROVE e.ids[k] \in DOMAIN t.parents
  <2>1. 1 \in 1 .. Len(agenda) /\ State.agenda = agenda
    BY <1>0, Invariant
  <2>2. e.ids[k] \in DOMAIN State.parents
    BY <2>1, Invariant DEF Body, Known
  <2>3. DOMAIN t.parents = DOMAIN s.parents /\ s.parents = State.parents
    BY <1>2, <1>4 DEF Moved, SameBut
  <2> QED BY <2>2, <2>3
<1>12. AtEvent = t
  BY DEF AtEvent, s, d
<1> HIDE DEF t, e
<1>13. AtEventOf(t, e)
  BY <1>0, <1>1, <1>5, <1>7, <1>10, <1>11 DEF AtEventOf, limbo
<1> QED BY <1>12, <1>13 DEF e

\* Nothing has changed for a client that submits before the next event.
LEMMA SubmitTimeFacts ==
  ASSUME IInv, NEW d \in Nat, agenda # <<>> => d <= agenda[1].at
  PROVE  LET t == Advance(State, d)
         IN  /\ Sound(t, Nobody) /\ Armed(t) /\ Settled(t)
             /\ DOMAIN t.parents = DOMAIN parents /\ t.waiting = waiting
<1> DEFINE t == Advance(State, d)
<1>1. \A i \in 1 .. Len(State.agenda) : d <= State.agenda[i].at
  <2> SUFFICES ASSUME NEW i \in 1 .. Len(agenda) PROVE d <= agenda[i].at
    BY Invariant
  <2>0. agenda \in Seq(Event) /\ agenda # <<>> /\ Sorted(agenda)
    BY Invariant
  <2>1. Len(agenda) \in Nat /\ 1 \in 1 .. Len(agenda)
    BY <2>0
  <2>2. agenda[1].at \in Nat /\ agenda[i].at \in Nat
    <3>1. agenda[1] \in Event /\ agenda[i] \in Event
      BY <2>0, <2>1
    <3> QED BY <3>1, EventTypes
  <2>3. agenda[1].at <= agenda[i].at
    <3>1. CASE i = 1
      BY <2>2, <3>1
    <3>2. CASE i # 1
      <4>1. 1 < i
        BY <2>1, <3>2
      <4> QED BY <2>0, <2>1, <4>1 DEF Sorted
    <3> QED BY <3>1, <3>2
  <2> QED BY <2>0, <2>2, <2>3
<1>2. Body(State, Nobody)
  BY Invariant
<1>3. IsState(t) /\ Moved(State, t, d)
  BY <1>1, <1>2, AdvanceMoves
<1> HIDE DEF t
<1>4. Body(t, Nobody)
  BY <1>2, <1>3, MovedBody
<1>5. Awaited(t) /\ Armed(t) /\ Settled(t)
  BY <1>2, <1>3, Invariant, MovedRest
<1>6. Marked(t)
  <2>1. MarkedBut(State, "complete", 0, 0)
    BY Invariant, MarkedAll
  <2>2. State.ctl \in [Channels -> TimedController]
    BY <1>2, BodyTypes
  <2>3. d \in Int /\ 0 \in Int
    OBVIOUS
  <2>4. MarkedBut(t, "complete", 0, 0 - d)
    BY <1>3, <2>1, <2>2, <2>3, MarksMoved
  <2> QED BY <2>4, MarkedAll
<1>7. Nobody \in Owing
  BY DEF Nobody, Owing
<1>8. Sound(t, Nobody)
  BY <1>4, <1>5, <1>6, <1>7 DEF Sound, Owing
<1>9. DOMAIN t.parents = DOMAIN parents /\ t.waiting = waiting
  BY <1>3, Invariant DEF Moved
<1> QED BY <1>5, <1>8, <1>9 DEF t

-----------------------------------------------------------------------------
(* schedule_controller_wake, schedule_refresh_due, and WakeChannel.         *)

\* The accesses, and when the channels' refreshes are due, are the same.
SameWorkload(s, t) ==
    /\ t.parents = s.parents /\ t.pending = s.pending /\ t.waiting = s.waiting
    /\ \A k \in Channels : /\ t.ctl[k].queue = s.ctl[k].queue /\ t.ctl[k].outstanding = s.ctl[k].outstanding
                           /\ t.ctl[k].next_refresh_due = s.ctl[k].next_refresh_due

\* Only the marks of d differ from c's.
Remarked(c, d) == /\ d \in TimedController /\ d.queue = c.queue /\ d.outstanding = c.outstanding /\ d.fault = c.fault
                  /\ d.next_refresh_due = c.next_refresh_due /\ NoDue(d)

\* A controller whose accesses stay takes the place of channel ch's.
LEMMA SameQueueReplaced ==
  ASSUME NEW s, NEW limbo, Body(s, limbo), NEW ch \in Channels, NEW d \in TimedController,
         d.queue = s.ctl[ch].queue, d.outstanding = s.ctl[ch].outstanding, d.fault = s.ctl[ch].fault, NoDue(d)
  PROVE  LET t == [s EXCEPT !.ctl[ch] = d]
         IN  /\ Body(t, limbo) /\ t.ctl = [s.ctl EXCEPT ![ch] = d] /\ t.parents = s.parents
             /\ t.pending = s.pending /\ t.agenda = s.agenda /\ t.waiting = s.waiting
<1>0. /\ s.ctl[ch] \in TimedController /\ NoDue(s.ctl[ch]) /\ QueueFits(s.ctl[ch]) /\ ~s.ctl[ch].fault /\ limbo \in Limbo
  BY BodyTypes
<1>1. QueueFits(d) /\ ~d.fault
  BY <1>0 DEF QueueFits, Reads, Writes
<1>2. \A i \in 1 .. Len(d.queue) : d.queue[i].id \in DOMAIN s.parents
  BY DEF Body, Known
<1>3. \A id \in Ids : limbo.owed[id] > 0 => id \in DOMAIN s.parents
  BY DEF Body, Known
<1>4. Replaces(s, limbo, ch, d, limbo)
  BY <1>0, <1>1, <1>2, <1>3 DEF Replaces
<1> QED BY <1>0, <1>4, ControllerReplaced

\* Marking one.
LEMMA MarksReplaced ==
  ASSUME NEW s, NEW limbo, Body(s, limbo), NEW ch \in Channels, NEW d, Remarked(s.ctl[ch], d)
  PROVE  LET t == [s EXCEPT !.ctl[ch] = d]
         IN  /\ Body(t, limbo) /\ SameWorkload(s, t) /\ t.agenda = s.agenda
             /\ t.ctl[ch] = d /\ \A k \in Channels \ {ch} : t.ctl[k] = s.ctl[k]
<1> DEFINE t == [s EXCEPT !.ctl[ch] = d]
<1>1. /\ Body(t, limbo) /\ t.ctl = [s.ctl EXCEPT ![ch] = d] /\ t.parents = s.parents
      /\ t.pending = s.pending /\ t.agenda = s.agenda /\ t.waiting = s.waiting
  BY SameQueueReplaced DEF Remarked
<1> HIDE DEF t
<1>2. s.ctl \in [Channels -> TimedController]
  BY BodyTypes
<1>3. t.ctl[ch] = d /\ \A k \in Channels \ {ch} : t.ctl[k] = s.ctl[k]
  BY <1>1, <1>2
<1>4. SameWorkload(s, t)
  BY <1>1, <1>3 DEF SameWorkload, Remarked
<1> QED BY <1>1, <1>3, <1>4 DEF t

\* The marks of other channels, and the other mark, are the same.
SameRefreshMarks(s, t) == \A k \in Channels : t.ctl[k].refresh_due_at = s.ctl[k].refresh_due_at

\* schedule_controller_wake marks the wake-up, and schedules it.
LEMMA WakeScheduled ==
  ASSUME NEW s, NEW limbo, Body(s, limbo), Marked(s), NEW ch \in Channels, NEW when \in Int
  PROVE  LET t == schedule_controller_wake(s, ch, when)
         IN  Body(t, limbo) /\ Marked(t) /\ SameWorkload(s, t) /\ SameRefreshMarks(s, t)
<1> DEFINE t == schedule_controller_wake(s, ch, when)
           at == Max({when, 0})
           d == [s.ctl[ch] EXCEPT !.wakeup_at = at]
           u == [s EXCEPT !.ctl[ch] = d]
<1>1. at \in Nat
  <2>1. 0 \in Int
    OBVIOUS
  <2>2. Max({when, 0}) \in Int /\ Max({when, 0}) >= 0
    BY <2>1, MaxOfTwo
  <2> HIDE DEF at
  <2>3. at \in Int /\ at >= 0
    BY <2>2 DEF at
  <2> QED BY <2>3
<1>2. t = IF ~wakes_sooner(s.ctl[ch], at) THEN s ELSE schedule_event(u, at, "wake", ch, NoAccess)
  BY DEF schedule_controller_wake
<1>3. s.ctl[ch] \in TimedController /\ NoDue(s.ctl[ch]) /\ s.ctl \in [Channels -> TimedController]
  BY BodyTypes
<1> HIDE DEF at, t
<1>4. Remarked(s.ctl[ch], d) /\ d.wakeup_at = at /\ d.refresh_due_at = s.ctl[ch].refresh_due_at
  <2>1. at \in Optional(Int)
    BY <1>1 DEF Optional
  <2>0. d \in TimedController
    BY <1>3, <2>1, MarksAreTimed
  <2>2. d \in TimedController /\ d.wakeup_at = at /\ d.refresh_due_at = s.ctl[ch].refresh_due_at
    BY <1>3, <2>0, <2>1 DEF TimedController, Controller
  <2>3. d.queue = s.ctl[ch].queue /\ d.outstanding = s.ctl[ch].outstanding /\ d.fault = s.ctl[ch].fault
    BY <1>3 DEF TimedController, Controller
  <2>4. d.next_refresh_due = s.ctl[ch].next_refresh_due
    BY <1>3 DEF TimedController, Controller
  <2> HIDE DEF d
  <2> QED BY <1>3, <2>2, <2>3, <2>4 DEF Remarked, NoDue
<1> HIDE DEF d
<1>5. /\ Body(u, limbo) /\ SameWorkload(s, u) /\ u.agenda = s.agenda
      /\ u.ctl[ch] = d /\ \A k \in Channels \ {ch} : u.ctl[k] = s.ctl[k]
  BY <1>4, MarksReplaced
<1> HIDE DEF u
<1>6. CASE ~wakes_sooner(s.ctl[ch], at)
  BY <1>2, <1>6 DEF t, SameWorkload, SameRefreshMarks
<1>7. CASE wakes_sooner(s.ctl[ch], at)
  <2> DEFINE v == schedule_event(u, at, "wake", ch, NoAccess)
  <2>1. "wake" \in Kind
    BY DEF Kind
  <2>2. Body(v, limbo) /\ SameBut(u, v) /\ KeepsEvents(u.agenda, v.agenda) /\ HasEvent(v.agenda, "wake", ch, at)
    BY <1>1, <1>5, <2>1, PlainEventScheduled
  <2> HIDE DEF v
  <2>3. v.ctl = u.ctl /\ SameWorkload(s, v)
    BY <1>5, <2>2 DEF SameBut, SameWorkload
  <2>4. \A k \in Channels : v.ctl[k].refresh_due_at = s.ctl[k].refresh_due_at
    BY <1>4, <1>5, <2>3
  <2>5. ASSUME NEW k \in Channels, v.ctl[k].wakeup_at # None
        PROVE  HasEvent(v.agenda, "wake", k, v.ctl[k].wakeup_at)
    <3>1. CASE k = ch
      BY <1>4, <1>5, <2>2, <2>3, <3>1
    <3>2. CASE k # ch
      <4>1. v.ctl[k] = s.ctl[k] /\ s.ctl[k] \in TimedController
        BY <1>3, <1>5, <2>3, <3>2
      <4>2. HasEvent(u.agenda, "wake", k, s.ctl[k].wakeup_at)
        BY <1>5, <2>5, <4>1 DEF Marked
      <4>3. s.ctl[k].wakeup_at \in Int
        BY <2>5, <4>1, MarkTypes
      <4> QED BY <2>1, <2>2, <4>1, <4>2, <4>3 DEF KeepsEvents
    <3> QED BY <3>1, <3>2
  <2>6. ASSUME NEW k \in Channels, v.ctl[k].refresh_due_at # None
        PROVE  HasEvent(v.agenda, "refresh", k, v.ctl[k].refresh_due_at)
    <3>1. v.ctl[k].refresh_due_at = s.ctl[k].refresh_due_at /\ s.ctl[k] \in TimedController /\ "refresh" \in Kind
      BY <1>3, <2>4 DEF Kind
    <3>2. HasEvent(u.agenda, "refresh", k, s.ctl[k].refresh_due_at)
      BY <1>5, <2>6, <3>1 DEF Marked
    <3>3. s.ctl[k].refresh_due_at \in Int
      BY <2>6, <3>1, MarkTypes
    <3> QED BY <2>2, <3>1, <3>2, <3>3 DEF KeepsEvents
  <2>7. Marked(v)
    BY <2>5, <2>6 DEF Marked
  <2> QED BY <1>2, <1>7, <2>2, <2>3, <2>4, <2>7 DEF v, t, SameRefreshMarks
<1> QED BY <1>6, <1>7

\* The next refresh can be claimed: it has been, or it lies ahead.
Claimable(c) == \/ c.next_refresh_due = None \/ c.refresh_due_at = c.next_refresh_due
                \/ c.next_refresh_due \in Nat

\* Whatever is due next is claimed.
Claimed(c) == c.next_refresh_due # None => c.refresh_due_at = c.next_refresh_due

\* schedule_refresh_due claims the next refresh, and schedules it.
LEMMA RefreshScheduled ==
  ASSUME NEW s, NEW limbo, Body(s, limbo), Marked(s), NEW ch \in Channels, Claimable(s.ctl[ch])
  PROVE  LET t == schedule_refresh_due(s, ch)
         IN  /\ Body(t, limbo) /\ Marked(t) /\ SameWorkload(s, t) /\ Claimed(t.ctl[ch])
             /\ \A k \in Channels \ {ch} : t.ctl[k].refresh_due_at = s.ctl[k].refresh_due_at
<1> DEFINE t == schedule_refresh_due(s, ch)
           due == s.ctl[ch].next_refresh_due
           d == [s.ctl[ch] EXCEPT !.refresh_due_at = due]
           u == [s EXCEPT !.ctl[ch] = d]
<1>2. t = IF ~refresh_unclaimed(s.ctl[ch]) THEN s ELSE schedule_event(u, due, "refresh", ch, NoAccess)
  BY DEF schedule_refresh_due
<1>3. s.ctl[ch] \in TimedController /\ NoDue(s.ctl[ch]) /\ s.ctl \in [Channels -> TimedController]
  BY BodyTypes
<1> HIDE DEF t
<1>6. CASE ~refresh_unclaimed(s.ctl[ch])
  <2>1. t = s /\ Claimed(s.ctl[ch])
    BY <1>2, <1>6 DEF refresh_unclaimed, Claimed
  <2> QED BY <2>1 DEF t, SameWorkload
<1>7. CASE refresh_unclaimed(s.ctl[ch])
  <2>0. due \in Nat
    BY <1>7 DEF refresh_unclaimed, Claimable
  <2>a. due = s.ctl[ch].next_refresh_due
    OBVIOUS
  <2> HIDE DEF due
  <2>1. Remarked(s.ctl[ch], d) /\ d.refresh_due_at = due /\ d.wakeup_at = s.ctl[ch].wakeup_at
    <3>1. due \in Optional(Int)
      BY <2>0 DEF Optional
    <3>0. d \in TimedController
      BY <1>3, <3>1, MarksAreTimed
    <3>2. d \in TimedController /\ d.refresh_due_at = due /\ d.wakeup_at = s.ctl[ch].wakeup_at
      BY <1>3, <3>0, <3>1 DEF TimedController, Controller
    <3>3. d.queue = s.ctl[ch].queue /\ d.outstanding = s.ctl[ch].outstanding /\ d.fault = s.ctl[ch].fault
      BY <1>3 DEF TimedController, Controller
    <3>4. d.next_refresh_due = s.ctl[ch].next_refresh_due
      BY <1>3 DEF TimedController, Controller
    <3>5. RefreshInterval # 0
      BY <1>3, <1>7 DEF NoDue, refresh_unclaimed
    <3> HIDE DEF d
    <3> QED BY <3>2, <3>3, <3>4, <3>5 DEF Remarked, NoDue
  <2> HIDE DEF d
  <2>2. /\ Body(u, limbo) /\ SameWorkload(s, u) /\ u.agenda = s.agenda
        /\ u.ctl[ch] = d /\ \A k \in Channels \ {ch} : u.ctl[k] = s.ctl[k]
    BY <2>1, MarksReplaced
  <2> HIDE DEF u
  <2> DEFINE v == schedule_event(u, due, "refresh", ch, NoAccess)
  <2>3. "wake" \in Kind /\ "refresh" \in Kind
    BY DEF Kind
  <2>4. Body(v, limbo) /\ SameBut(u, v) /\ KeepsEvents(u.agenda, v.agenda) /\ HasEvent(v.agenda, "refresh", ch, due)
    BY <2>0, <2>2, <2>3, PlainEventScheduled
  <2> HIDE DEF v
  <2>5. v.ctl = u.ctl /\ SameWorkload(s, v)
    BY <2>2, <2>4 DEF SameBut, SameWorkload
  <2>6. ASSUME NEW k \in Channels, v.ctl[k].refresh_due_at # None
        PROVE  HasEvent(v.agenda, "refresh", k, v.ctl[k].refresh_due_at)
    <3>1. CASE k = ch
      BY <2>1, <2>2, <2>4, <2>5, <3>1
    <3>2. CASE k # ch
      <4>1. v.ctl[k] = s.ctl[k] /\ s.ctl[k] \in TimedController
        BY <1>3, <2>2, <2>5, <3>2
      <4>2. HasEvent(u.agenda, "refresh", k, s.ctl[k].refresh_due_at)
        BY <2>2, <2>6, <4>1 DEF Marked
      <4>3. s.ctl[k].refresh_due_at \in Int
        BY <2>6, <4>1, MarkTypes
      <4> QED BY <2>3, <2>4, <4>1, <4>2, <4>3 DEF KeepsEvents
    <3> QED BY <3>1, <3>2
  <2>7. ASSUME NEW k \in Channels, v.ctl[k].wakeup_at # None
        PROVE  HasEvent(v.agenda, "wake", k, v.ctl[k].wakeup_at)
    <3>1. v.ctl[k].wakeup_at = s.ctl[k].wakeup_at /\ s.ctl[k] \in TimedController
      BY <1>3, <2>1, <2>2, <2>5
    <3>2. HasEvent(u.agenda, "wake", k, s.ctl[k].wakeup_at)
      BY <2>2, <2>7, <3>1 DEF Marked
    <3>3. s.ctl[k].wakeup_at \in Int
      BY <2>7, <3>1, MarkTypes
    <3> QED BY <2>3, <2>4, <3>1, <3>2, <3>3 DEF KeepsEvents
  <2>8. Marked(v)
    BY <2>6, <2>7 DEF Marked
  <2>9. Claimed(v.ctl[ch]) /\ \A k \in Channels \ {ch} : v.ctl[k].refresh_due_at = s.ctl[k].refresh_due_at
    <3>1. v.ctl[ch].refresh_due_at = due /\ v.ctl[ch].next_refresh_due = due
      BY <2>1, <2>2, <2>5, <2>a DEF SameWorkload
    <3> QED BY <2>2, <2>5, <3>1 DEF Claimed
  <2> QED BY <1>2, <1>7, <2>4, <2>5, <2>8, <2>9 DEF v, t, due
<1> QED BY <1>6, <1>7

\* The next refresh lies ahead, if there is refresh.
Rearmed(c) == RefreshInterval = 0 \/ c.next_refresh_due \in Nat

\* A channel whose next refresh is claimed is armed.
LEMMA ClaimedArms ==
  ASSUME NEW c, NoDue(c), Rearmed(c), Claimed(c)
  PROVE  c.refresh_due_at = c.next_refresh_due
<1>1. CASE RefreshInterval = 0
  BY <1>1 DEF NoDue
<1>2. CASE c.next_refresh_due \in Nat
  BY <1>2, StandardAssumption DEF Claimed
<1> QED BY <1>1, <1>2 DEF Rearmed

\* The marks that WakeTouched leaves: claimed, or as they were.
KeptOrClaimed(s, t) == \A k \in Channels :
    t.ctl[k].refresh_due_at = s.ctl[k].refresh_due_at \/ t.ctl[k].refresh_due_at = t.ctl[k].next_refresh_due

\* A channel that got an access claims its refresh and is woken.
LEMMA WakeChannelFacts ==
  ASSUME NEW s, NEW limbo, Body(s, limbo), Marked(s), NEW ch \in Channels, Rearmed(s.ctl[ch])
  PROVE  LET t == WakeChannel(s, ch)
         IN  /\ Body(t, limbo) /\ Marked(t) /\ SameWorkload(s, t) /\ KeptOrClaimed(s, t)
             /\ t.ctl[ch].refresh_due_at = t.ctl[ch].next_refresh_due
<1> DEFINE u == schedule_refresh_due(s, ch)
           t == schedule_controller_wake(u, ch, 0)
<1>0. s.ctl[ch] \in TimedController /\ NoDue(s.ctl[ch])
  BY BodyTypes
<1>1. Claimable(s.ctl[ch])
  BY <1>0 DEF Claimable, Rearmed, NoDue
<1>2. /\ Body(u, limbo) /\ Marked(u) /\ SameWorkload(s, u) /\ Claimed(u.ctl[ch])
      /\ \A k \in Channels \ {ch} : u.ctl[k].refresh_due_at = s.ctl[k].refresh_due_at
  BY <1>1, RefreshScheduled
<1> HIDE DEF u
<1>3. 0 \in Int
  OBVIOUS
<1>4. Body(t, limbo) /\ Marked(t) /\ SameWorkload(u, t) /\ SameRefreshMarks(u, t)
  BY <1>2, <1>3, WakeScheduled
<1> HIDE DEF t
<1>5. SameWorkload(s, t)
  BY <1>2, <1>4 DEF SameWorkload
<1>6. u.ctl[ch].refresh_due_at = u.ctl[ch].next_refresh_due
  <2>1. NoDue(u.ctl[ch])
    BY <1>2, BodyTypes
  <2>2. Rearmed(u.ctl[ch])
    BY <1>2 DEF SameWorkload, Rearmed
  <2> QED BY <1>2, <2>1, <2>2, ClaimedArms
<1>7. t.ctl[ch].refresh_due_at = t.ctl[ch].next_refresh_due
  BY <1>4, <1>6 DEF SameWorkload, SameRefreshMarks
<1>8. KeptOrClaimed(s, t)
  BY <1>2, <1>4, <1>7 DEF SameRefreshMarks, KeptOrClaimed
<1>9. WakeChannel(s, ch) = t
  BY DEF WakeChannel, u, t
<1> QED BY <1>4, <1>5, <1>7, <1>8, <1>9

Woken == INSTANCE LoopTheory WITH Op <- WakeChannel

\* Every channel that got an access is woken.
LEMMA WakeLoop ==
  ASSUME NEW s, NEW limbo, Body(s, limbo), Marked(s), NEW touched \in SUBSET Channels,
         \A ch \in touched : Rearmed(s.ctl[ch])
  PROVE  LET t == FoldLeft(WakeChannel, s, Ascending(touched))
         IN  /\ Body(t, limbo) /\ Marked(t) /\ SameWorkload(s, t) /\ KeptOrClaimed(s, t)
             /\ \A ch \in touched : t.ctl[ch].refresh_due_at = t.ctl[ch].next_refresh_due
<1> DEFINE seq == Ascending(touched)
           n == Len(seq)
<1>1. /\ seq \in Seq(touched) /\ Len(seq) = Cardinality(touched)
      /\ Numbers(seq, Cardinality(touched), touched)
  <2>0. IsFiniteSet(Channels) /\ Channels \subseteq Nat
    BY SystemAssumption
  <2>1. IsFiniteSet(touched)
    BY <2>0, FS_Subset
  <2>2. touched \in SUBSET Int
    BY <2>0
  <2> QED BY <2>1, <2>2, AscendingFacts
<1>2. n \in Nat /\ \A i \in 1 .. n : seq[i] \in touched
  BY <1>1
<1>3. \A ch \in touched : \E i \in 1 .. n : seq[i] = ch
  BY <1>1 DEF Numbers
<1>4. FoldLeft(WakeChannel, s, seq) = Woken!Looped(s, seq)
  BY DEF FoldLeft, MapThenFoldSet, Max, Woken!Looped
<1> HIDE DEF seq
<1>5. PICK run : /\ run[0] = s
                 /\ \A k \in 1 .. n : run[k] = WakeChannel(run[k - 1], seq[k])
                 /\ run[n] = Woken!Looped(s, seq)
  BY <1>1, Woken!LoopRuns
<1> DEFINE S == {k \in 0 .. n :
              /\ Body(run[k], limbo) /\ Marked(run[k]) /\ SameWorkload(s, run[k]) /\ KeptOrClaimed(s, run[k])
              /\ \A i \in 1 .. k : run[k].ctl[seq[i]].refresh_due_at = run[k].ctl[seq[i]].next_refresh_due}
<1>7. 0 \in S
  BY <1>2, <1>5 DEF SameWorkload, KeptOrClaimed
<1>8. ASSUME NEW k \in 0 .. n - 1, k \in S PROVE k + 1 \in S
  <2>1. k + 1 \in 1 .. n /\ (k + 1) - 1 = k /\ k + 1 \in 0 .. n
    BY <1>2
  <2> DEFINE u == run[k]
             v == run[k + 1]
             ch == seq[k + 1]
  <2>2. v = WakeChannel(u, ch) /\ ch \in Channels /\ ch \in touched
    BY <1>2, <1>5, <2>1
  <2>3. Body(u, limbo) /\ Marked(u) /\ SameWorkload(s, u) /\ KeptOrClaimed(s, u)
    BY <1>8
  <2>4. \A i \in 1 .. k : u.ctl[seq[i]].refresh_due_at = u.ctl[seq[i]].next_refresh_due
    BY <1>8
  <2> HIDE DEF u, v, ch
  <2>5. Rearmed(u.ctl[ch])
    BY <2>2, <2>3 DEF Rearmed, SameWorkload
  <2>6. /\ Body(v, limbo) /\ Marked(v) /\ SameWorkload(u, v) /\ KeptOrClaimed(u, v)
        /\ v.ctl[ch].refresh_due_at = v.ctl[ch].next_refresh_due
    BY <2>2, <2>3, <2>5, WakeChannelFacts
  <2>7. SameWorkload(s, v)
    BY <2>3, <2>6 DEF SameWorkload
  <2>8. KeptOrClaimed(s, v)
    <3> SUFFICES ASSUME NEW x \in Channels
                 PROVE  v.ctl[x].refresh_due_at = s.ctl[x].refresh_due_at \/ v.ctl[x].refresh_due_at = v.ctl[x].next_refresh_due
      BY DEF KeptOrClaimed
    <3>1. v.ctl[x].next_refresh_due = u.ctl[x].next_refresh_due
      BY <2>6 DEF SameWorkload
    <3> QED BY <2>3, <2>6, <3>1 DEF KeptOrClaimed
  <2>9. ASSUME NEW i \in 1 .. k + 1 PROVE v.ctl[seq[i]].refresh_due_at = v.ctl[seq[i]].next_refresh_due
    <3>1. CASE i = k + 1
      BY <2>6, <3>1 DEF ch
    <3>2. CASE i # k + 1
      <4>1. i \in 1 .. k /\ i \in 1 .. n
        BY <1>2, <2>1, <3>2
      <4>2. seq[i] \in Channels
        BY <1>2, <4>1
      <4>3. v.ctl[seq[i]].next_refresh_due = u.ctl[seq[i]].next_refresh_due
        BY <2>6, <4>2 DEF SameWorkload
      <4> QED BY <2>4, <2>6, <4>1, <4>2, <4>3 DEF KeptOrClaimed
    <3> QED BY <3>1, <3>2
  <2> QED BY <2>1, <2>6, <2>7, <2>8, <2>9 DEF v
<1>9. n \in S
  <2> HIDE DEF S, n
  <2>1. \A k \in 0 .. n : k \in S
    BY <1>2, <1>7, <1>8, UpTo
  <2> QED BY <1>2, <2>1
<1> DEFINE t == run[n]
<1>10. /\ Body(t, limbo) /\ Marked(t) /\ SameWorkload(s, t) /\ KeptOrClaimed(s, t)
       /\ \A i \in 1 .. n : t.ctl[seq[i]].refresh_due_at = t.ctl[seq[i]].next_refresh_due
  BY <1>9
<1> HIDE DEF t
<1>11. \A ch \in touched : t.ctl[ch].refresh_due_at = t.ctl[ch].next_refresh_due
  BY <1>3, <1>10
<1> QED BY <1>4, <1>5, <1>10, <1>11 DEF seq, t

-----------------------------------------------------------------------------
(* pump_admissions.                                                        *)

\* One place more, if it is one of those that are counted.
LEMMA OneMore ==
  ASSUME NEW n \in Nat, NEW S \in SUBSET (1 .. n), NEW T \in SUBSET (1 .. n + 1),
         \A i \in 1 .. n : i \in T <=> i \in S
  PROVE  /\ Cardinality(S) \in Nat
         /\ n + 1 \in T => Cardinality(T) = Cardinality(S) + 1
         /\ n + 1 \notin T => Cardinality(T) = Cardinality(S)
<1>1. IsFiniteSet(1 .. n)
  BY FS_Interval
<1>2. IsFiniteSet(S) /\ Cardinality(S) \in Nat
  BY <1>1, FS_Subset, FS_CardinalityType
<1>3. n + 1 \notin S
  OBVIOUS
<1>4. ASSUME n + 1 \in T PROVE Cardinality(T) = Cardinality(S) + 1
  <2>0. \A x : x \in T <=> x \in S \/ x = n + 1
    <3>1. ASSUME NEW x \in T PROVE x \in S \/ x = n + 1
      <4>1. x \in 1 .. n \/ x = n + 1
        OBVIOUS
      <4> QED BY <4>1
    <3> QED BY <1>4, <3>1
  <2>1. T = S \cup {n + 1}
    BY <2>0
  <2> QED BY <1>2, <1>3, <2>1, FS_AddElement
<1>5. ASSUME n + 1 \notin T PROVE Cardinality(T) = Cardinality(S)
  <2>0. \A x : x \in T <=> x \in S
    <3>1. ASSUME NEW x \in T PROVE x \in S
      <4>1. x \in 1 .. n
        BY <1>5
      <4> QED BY <4>1
    <3> QED BY <3>1
  <2>1. T = S
    BY <2>0
  <2> QED BY <2>1
<1> QED BY <1>2, <1>4, <1>5

\* An access that is queued is one more of its transaction, and of its operation.
LEMMA AppendedFacts ==
  ASSUME NEW q \in Seq(QueuedAccess), NEW a \in QueuedAccess, NEW r, r = Append(q, a)
  PROVE  /\ r \in Seq(QueuedAccess) /\ Len(q) \in Nat /\ Len(r) = Len(q) + 1
         /\ \A i \in 1 .. Len(q) : r[i] = q[i]
         /\ r[Len(q) + 1] = a
         /\ DOMAIN q = 1 .. Len(q) /\ DOMAIN r = 1 .. Len(q) + 1
BY AppendProperties

\* r is the queue q with the access a at its end.
IsAppended(q, a, r) == r = Append(q, a)

\* It is one more of its transaction.
LEMMA AppendedMine ==
  ASSUME NEW q \in Seq(QueuedAccess), NEW a \in QueuedAccess, NEW r, IsAppended(q, a, r), NEW id
  PROVE  /\ Cardinality(Mine(q, id)) \in Nat
         /\ a.id = id => Cardinality(Mine(r, id)) = Cardinality(Mine(q, id)) + 1
         /\ a.id # id => Cardinality(Mine(r, id)) = Cardinality(Mine(q, id))
<1> DEFINE n == Len(q)
<1>1. /\ n \in Nat /\ DOMAIN q = 1 .. n /\ DOMAIN r = 1 .. n + 1 /\ n + 1 \in 1 .. n + 1
      /\ \A i \in 1 .. n : r[i] = q[i] /\ i \in 1 .. n + 1
      /\ r[n + 1] = a
  BY AppendedFacts DEF IsAppended
<1> HIDE DEF n
<1>2. /\ Mine(q, id) \in SUBSET (1 .. n) /\ Mine(r, id) \in SUBSET (1 .. n + 1)
      /\ \A i \in 1 .. n : i \in Mine(r, id) <=> i \in Mine(q, id)
      /\ n + 1 \in Mine(r, id) <=> a.id = id
  BY <1>1 DEF Mine
<1>3. /\ Cardinality(Mine(q, id)) \in Nat
      /\ n + 1 \in Mine(r, id) => Cardinality(Mine(r, id)) = Cardinality(Mine(q, id)) + 1
      /\ n + 1 \notin Mine(r, id) => Cardinality(Mine(r, id)) = Cardinality(Mine(q, id))
  BY <1>1, <1>2, OneMore
<1> QED BY <1>2, <1>3

\* It is one more of its operation.
LEMMA AppendedReads ==
  ASSUME NEW q \in Seq(QueuedAccess), NEW a \in QueuedAccess, NEW r, r = Append(q, a)
  PROVE  /\ Cardinality(ReadsOf(q)) \in Nat
         /\ Cardinality(ReadsOf(r)) = Cardinality(ReadsOf(q)) + IF a.op = "Read" THEN 1 ELSE 0
<1> DEFINE n == Len(q)
<1>1. /\ n \in Nat /\ DOMAIN q = 1 .. n /\ DOMAIN r = 1 .. n + 1 /\ n + 1 \in 1 .. n + 1
      /\ \A i \in 1 .. n : r[i] = q[i] /\ i \in 1 .. n + 1
      /\ r[n + 1] = a
  BY AppendedFacts
<1> HIDE DEF n
<1>2. /\ ReadsOf(q) \in SUBSET (1 .. n) /\ ReadsOf(r) \in SUBSET (1 .. n + 1)
      /\ \A i \in 1 .. n : i \in ReadsOf(r) <=> i \in ReadsOf(q)
      /\ n + 1 \in ReadsOf(r) <=> a.op = "Read"
  BY <1>1 DEF ReadsOf
<1>3. /\ Cardinality(ReadsOf(q)) \in Nat
      /\ n + 1 \in ReadsOf(r) => Cardinality(ReadsOf(r)) = Cardinality(ReadsOf(q)) + 1
      /\ n + 1 \notin ReadsOf(r) => Cardinality(ReadsOf(r)) = Cardinality(ReadsOf(q))
  BY <1>1, <1>2, OneMore
<1> QED BY <1>2, <1>3

\* The same for writes.
LEMMA AppendedWrites ==
  ASSUME NEW q \in Seq(QueuedAccess), NEW a \in QueuedAccess, NEW r, r = Append(q, a)
  PROVE  /\ Cardinality(WritesOf(q)) \in Nat
         /\ Cardinality(WritesOf(r)) = Cardinality(WritesOf(q)) + IF a.op = "Write" THEN 1 ELSE 0
<1> DEFINE n == Len(q)
<1>1. /\ n \in Nat /\ DOMAIN q = 1 .. n /\ DOMAIN r = 1 .. n + 1 /\ n + 1 \in 1 .. n + 1
      /\ \A i \in 1 .. n : r[i] = q[i] /\ i \in 1 .. n + 1
      /\ r[n + 1] = a
  BY AppendedFacts
<1> HIDE DEF n
<1>2. /\ WritesOf(q) \in SUBSET (1 .. n) /\ WritesOf(r) \in SUBSET (1 .. n + 1)
      /\ \A i \in 1 .. n : i \in WritesOf(r) <=> i \in WritesOf(q)
      /\ n + 1 \in WritesOf(r) <=> a.op = "Write"
  BY <1>1 DEF WritesOf
<1>3. /\ Cardinality(WritesOf(q)) \in Nat
      /\ n + 1 \in WritesOf(r) => Cardinality(WritesOf(r)) = Cardinality(WritesOf(q)) + 1
      /\ n + 1 \notin WritesOf(r) => Cardinality(WritesOf(r)) = Cardinality(WritesOf(q))
  BY <1>1, <1>2, OneMore
<1> QED BY <1>2, <1>3

\* The controller d holds the accesses of c, and perhaps more.
Grown(c, d) ==
    /\ d.wakeup_at = c.wakeup_at /\ d.refresh_due_at = c.refresh_due_at
    /\ Len(d.queue) >= Len(c.queue) /\ (Len(d.queue) = Len(c.queue) => d = c)
    /\ Len(d.queue) > Len(c.queue) => Rearmed(d)
    /\ \A op \in {"Read", "Write"} : ~can_reserve(c, op) => ~can_reserve(d, op)

\* Admission to a controller that can take the access.
LEMMA Admitted1 ==
  ASSUME NEW c \in TimedController, NoDue(c), QueueFits(c), NEW access \in QueuedAccess, can_reserve(c, access.op)
  PROVE  LET d == admit_reserved(c, access)
         IN  /\ d \in TimedController /\ NoDue(d) /\ QueueFits(d) /\ Grown(c, d) /\ d.fault = c.fault
             /\ d.queue = Append(c.queue, access) /\ d.outstanding = c.outstanding + 1
<1> DEFINE d == admit_reserved(c, access)
<1>1. /\ d \in TimedController /\ d.queue = Append(c.queue, access) /\ d.outstanding = c.outstanding + 1
      /\ d.fault = c.fault /\ d.wakeup_at = c.wakeup_at /\ d.refresh_due_at = c.refresh_due_at
      /\ IF RefreshInterval = 0 THEN d.next_refresh_due = c.next_refresh_due
                                ELSE d.next_refresh_due \in Int /\ d.next_refresh_due > 0
  <2>1. c \in Controller /\ d \in TimedController
    BY TimedIsController, AdmitIsTimed
  <2> HIDE DEF d
  <2> QED BY <2>1, AdmitReservedFacts DEF d
<1> HIDE DEF d
<1>2. c.queue \in Seq(QueuedAccess) /\ Len(c.queue) \in Nat
  BY ControllerCounts
<1>3. Len(d.queue) = Len(c.queue) + 1
  BY <1>1, <1>2, AppendedFacts
<1>4. NoDue(d)
  BY <1>1 DEF NoDue
<1>5. Rearmed(d)
  BY <1>1 DEF Rearmed
<1>6. /\ Reads(d) = ReadsOf(d.queue) /\ Writes(d) = WritesOf(d.queue)
      /\ Reads(c) = ReadsOf(c.queue) /\ Writes(c) = WritesOf(c.queue)
  BY DEF Reads, Writes, ReadsOf, WritesOf
<1>7. /\ Cardinality(Reads(c)) \in Nat /\ Cardinality(Writes(c)) \in Nat
      /\ Cardinality(Reads(d)) = Cardinality(Reads(c)) + IF access.op = "Read" THEN 1 ELSE 0
      /\ Cardinality(Writes(d)) = Cardinality(Writes(c)) + IF access.op = "Write" THEN 1 ELSE 0
  <2> DEFINE q == c.queue
             r == d.queue
  <2>1. q \in Seq(QueuedAccess) /\ r = Append(q, access)
    BY <1>1, <1>2
  <2>2. Reads(d) = ReadsOf(r) /\ Writes(d) = WritesOf(r) /\ Reads(c) = ReadsOf(q) /\ Writes(c) = WritesOf(q)
    BY <1>6
  <2> HIDE DEF q, r
  <2>3. /\ Cardinality(ReadsOf(q)) \in Nat
        /\ Cardinality(ReadsOf(r)) = Cardinality(ReadsOf(q)) + IF access.op = "Read" THEN 1 ELSE 0
    BY <2>1, AppendedReads, Zenon
  <2>4. /\ Cardinality(WritesOf(q)) \in Nat
        /\ Cardinality(WritesOf(r)) = Cardinality(WritesOf(q)) + IF access.op = "Write" THEN 1 ELSE 0
    BY <2>1, AppendedWrites, Zenon
  <2> QED BY <2>2, <2>3, <2>4, Zenon
<1>8. access.op \in {"Read", "Write"}
  BY DEF QueuedAccess
<1>c. ReadCapacity \in Nat /\ WriteCapacity \in Nat
  BY ControllerAssumption
<1>9. QueueFits(d)
  BY <1>7, <1>8, <1>c DEF QueueFits, can_reserve
<1>10. \A op \in {"Read", "Write"} : ~can_reserve(c, op) => ~can_reserve(d, op)
  BY <1>7, <1>c DEF can_reserve
<1>11. Grown(c, d)
  BY <1>1, <1>2, <1>3, <1>5, <1>10 DEF Grown
<1> QED BY <1>1, <1>4, <1>9, <1>11 DEF d

\* The state t is s with more accesses admitted.
Admits(s, t, limbo) ==
    /\ Body(t, limbo) /\ Awaited(t) /\ t.pending = s.pending /\ t.agenda = s.agenda /\ t.waiting = s.waiting
    /\ DOMAIN t.parents = DOMAIN s.parents
    /\ \A id \in DOMAIN s.parents : t.parents[id].txn = s.parents[id].txn /\ (Done(s, id) => Done(t, id))
    /\ \A k \in Channels : Grown(s.ctl[k], t.ctl[k])

\* A controller has the accesses it has.
LEMMA GrownReflexive ==
  ASSUME NEW c \in TimedController
  PROVE  Grown(c, c)
BY ControllerCounts DEF Grown

\* More and more.
LEMMA GrownTransitive ==
  ASSUME NEW c \in TimedController, NEW d \in TimedController, NEW e \in TimedController, Grown(c, d), Grown(d, e)
  PROVE  Grown(c, e)
<1>1. Len(c.queue) \in Nat /\ Len(d.queue) \in Nat /\ Len(e.queue) \in Nat
  BY ControllerCounts
<1>2. Len(d.queue) >= Len(c.queue) /\ Len(e.queue) >= Len(d.queue)
  BY DEF Grown
<1>3. Len(e.queue) = Len(c.queue) => e = c
  BY <1>1, <1>2 DEF Grown
<1>4. Len(e.queue) > Len(c.queue) => Rearmed(e)
  <2>1. CASE Len(e.queue) > Len(d.queue)
    BY <2>1 DEF Grown
  <2>2. CASE Len(e.queue) = Len(d.queue)
    BY <2>2 DEF Grown
  <2> QED BY <1>1, <1>2, <2>1, <2>2
<1>5. Len(e.queue) >= Len(c.queue)
  BY <1>1, <1>2
<1>6. e.wakeup_at = c.wakeup_at /\ e.refresh_due_at = c.refresh_due_at
  BY DEF Grown
<1>7. \A op \in {"Read", "Write"} : ~can_reserve(c, op) => ~can_reserve(e, op)
  BY DEF Grown
<1> QED BY <1>3, <1>4, <1>5, <1>6, <1>7 DEF Grown

\* Nothing admitted.
LEMMA AdmitsReflexive ==
  ASSUME NEW s, NEW limbo, Body(s, limbo), Awaited(s)
  PROVE  Admits(s, s, limbo)
<1>1. \A k \in Channels : Grown(s.ctl[k], s.ctl[k])
  BY BodyTypes, GrownReflexive
<1> QED BY <1>1 DEF Admits

\* One admission after another.
LEMMA AdmitsTransitive ==
  ASSUME NEW s, NEW t, NEW u, NEW limbo, Body(s, limbo), Admits(s, t, limbo), Admits(t, u, limbo)
  PROVE  Admits(s, u, limbo)
<1>1. Body(t, limbo) /\ Body(u, limbo)
  BY DEF Admits
<1>2. ASSUME NEW k \in Channels PROVE Grown(s.ctl[k], u.ctl[k])
  <2>1. s.ctl[k] \in TimedController /\ t.ctl[k] \in TimedController /\ u.ctl[k] \in TimedController
    BY <1>1, BodyTypes
  <2>2. Grown(s.ctl[k], t.ctl[k]) /\ Grown(t.ctl[k], u.ctl[k])
    BY DEF Admits
  <2> QED BY <2>1, <2>2, GrownTransitive
<1>3. \A id \in DOMAIN s.parents : u.parents[id].txn = s.parents[id].txn /\ (Done(s, id) => Done(u, id))
  BY DEF Admits
<1> QED BY <1>2, <1>3 DEF Admits

\* Two states with the same six fields are the same.
LEMMA SameState ==
  ASSUME NEW s, IsState(s), NEW t, IsState(t), t.ctl = s.ctl, t.parents = s.parents, t.pending = s.pending,
         t.agenda = s.agenda, t.waiting = s.waiting, t.stats = s.stats
  PROVE  t = s
BY DEF IsState

\* The access that is admitted is one a queue can hold.
LEMMA AccessFacts ==
  ASSUME NEW id \in Ids, NEW p, IsParent(p), Unadmitted(p)
  PROVE  LET a == Access(id, p.txn, p.arrival, NextAccess(p))
         IN  a \in QueuedAccess /\ a.id = id /\ a.op = p.txn.op
<1> DEFINE at == NextAccess(p)
           a == Access(id, p.txn, p.arrival, at)
<1>1. /\ at.bank \in Bank /\ at.row \in Nat /\ at.col \in Nat
      /\ p.txn \in Transactions /\ p.txn.op \in {"Read", "Write"} /\ p.txn.priority \in Nat
  <2>1. /\ at \in [ch : Channels, bank : Bank, row : Nat, col : Nat]
        /\ p.txn \in Transactions /\ p.txn.op \in {"Read", "Write"} /\ p.txn.priority \in Nat
    BY NextAccessFacts
  <2> HIDE DEF at
  <2> QED BY <2>1
<1>2. p.arrival \in IF KeepRecords THEN Int ELSE {None}
  BY DEF IsParent
<1>3. p.txn.domain \in {t.domain : t \in Transactions}
  BY <1>1
<1> HIDE DEF at
<1>4. None \in Optional(Int)
  BY DEF Optional
<1>5. a \in QueuedAccess
  BY <1>1, <1>2, <1>3, <1>4 DEF Access, QueuedAccess
<1>6. a.id = id /\ a.op = p.txn.op
  BY DEF Access
<1> QED BY <1>5, <1>6 DEF a, at

\* The parent of an admitted access, one access further.
LEMMA ParentAdmitted ==
  ASSUME NEW p, IsParent(p), Unadmitted(p)
  PROVE  LET q == [p EXCEPT !.admitted = p.admitted + 1, !.remaining = p.remaining + 1]
         IN  /\ IsParent(q) /\ q.txn = p.txn /\ q.admitted = p.admitted + 1 /\ q.remaining = p.remaining + 1
<1> DEFINE m == p.admitted + 1
           n == p.remaining + 1
           q == [p EXCEPT !.admitted = m, !.remaining = n]
<1>1. m \in 1 .. Len(p.txn.accesses) /\ Len(p.txn.accesses) \in Nat
  BY NextAccessFacts
<1>2. m \in 0 .. Len(p.txn.accesses)
  BY <1>1
<1>3. n \in Int
  BY DEF IsParent
<1> HIDE DEF m, n
<1>p. p = [txn |-> p.txn, admitted |-> p.admitted, remaining |-> p.remaining, arrival |-> p.arrival, stages |-> p.stages]
  BY DEF IsParent
<1>q. q = [p EXCEPT !.admitted = m, !.remaining = n]
  OBVIOUS
<1> HIDE DEF q
<1>4. q = [txn |-> q.txn, admitted |-> q.admitted, remaining |-> q.remaining, arrival |-> q.arrival, stages |-> q.stages]
  BY <1>p, <1>q
<1>e. q.txn = p.txn /\ q.admitted = m /\ q.remaining = n
  BY <1>p, <1>q
<1>f. q.arrival = p.arrival
  BY <1>p, <1>q
<1>5. p.txn \in Transactions /\ p.arrival \in IF KeepRecords THEN Int ELSE {None}
  BY DEF IsParent
<1>6. IsParent(q)
  BY <1>2, <1>3, <1>4, <1>5, <1>e, <1>f DEF IsParent
<1> QED BY <1>e, <1>6 DEF q, m, n

\* The accounts when one access of transaction id is owed less.
OneLess(limbo, id) == [limbo EXCEPT !.owed = [x \in Ids |-> IF x = id THEN limbo.owed[x] - 1 ELSE limbo.owed[x]]]

\* It is an account.
LEMMA OneLessFacts ==
  ASSUME NEW limbo \in Limbo, NEW id \in Ids
  PROVE  LET l == OneLess(limbo, id)
         IN  /\ l \in Limbo /\ l.on = limbo.on /\ l.owed[id] = limbo.owed[id] - 1
             /\ \A x \in Ids \ {id} : l.owed[x] = limbo.owed[x]
             /\ \A x \in Ids : limbo.owed[x] \in Int
<1> DEFINE f == [x \in Ids |-> IF x = id THEN limbo.owed[x] - 1 ELSE limbo.owed[x]]
           l == [limbo EXCEPT !.owed = f]
<1>1. \A x \in Ids : limbo.owed[x] \in Int
  BY DEF Limbo
<1>2. f \in [Ids -> Int] /\ f[id] = limbo.owed[id] - 1 /\ \A x \in Ids \ {id} : f[x] = limbo.owed[x]
  BY <1>1
<1> HIDE DEF f
<1>3. l \in Limbo /\ l.on = limbo.on /\ l.owed = f
  BY <1>2 DEF Limbo
<1> QED BY <1>1, <1>2, <1>3 DEF OneLess, f

\* Admission of the next access of parent id to channel ch, which can take it.
LEMMA AdmitFacts ==
  ASSUME NEW s, NEW limbo, Body(s, limbo), Awaited(s), limbo \in Owing, NEW id \in DOMAIN s.parents,
         Unadmitted(s.parents[id]), can_reserve(s.ctl[NextAccess(s.parents[id]).ch], s.parents[id].txn.op)
  PROVE  LET t == Admit(s, id, s.parents[id], NextAccess(s.parents[id]))
         IN  Admits(s, t, limbo) /\ t.parents[id].admitted = s.parents[id].admitted + 1
<1> DEFINE p  == s.parents[id]
           at == NextAccess(p)
           ch == at.ch
           c  == s.ctl[ch]
           a  == Access(id, p.txn, p.arrival, at)
           d  == admit_reserved(c, a)
           q  == [p EXCEPT !.admitted = p.admitted + 1, !.remaining = p.remaining + 1]
           u  == [s EXCEPT !.ctl[ch] = d]
           v  == [u EXCEPT !.parents[id] = q]
           w  == [s EXCEPT !.parents[id].admitted = @ + 1, !.parents[id].remaining = @ + 1,
                           !.ctl[ch] = admit_reserved(@, a)]
           t  == Counted(w, "modeled", 1)
<1>0. /\ IsState(s) /\ s.ctl \in [Channels -> TimedController] /\ id \in Ids /\ IsParent(p) /\ limbo \in Limbo
      /\ s.parents = [x \in DOMAIN s.parents |-> s.parents[x]]
  BY BodyTypes DEF Body, WellFormed
<1>1. ch \in Channels
  BY <1>0, NextAccessFacts
<1>2. a \in QueuedAccess /\ a.id = id /\ a.op = p.txn.op
  BY <1>0, AccessFacts
<1>3. c \in TimedController /\ NoDue(c) /\ QueueFits(c) /\ ~c.fault
  BY <1>1, BodyTypes
<1>4. /\ IsParent(q) /\ q.txn = p.txn /\ q.admitted = p.admitted + 1 /\ q.remaining = p.remaining + 1
  BY <1>0, ParentAdmitted
<1>5. can_reserve(c, a.op)
  BY <1>2
<1> HIDE DEF a
<1>6. /\ d \in TimedController /\ NoDue(d) /\ QueueFits(d) /\ Grown(c, d) /\ d.fault = c.fault
      /\ d.queue = Append(c.queue, a) /\ d.outstanding = c.outstanding + 1
  <2> HIDE DEF c
  <2> QED BY <1>2, <1>3, <1>5, Admitted1
<1> HIDE DEF d, q
<1>7. w = v
  <2>1. w.ctl = [s.ctl EXCEPT ![ch] = d]
    BY <1>0, <1>1 DEF IsState, d
  <2>2. w.parents = [s.parents EXCEPT ![id] = q]
    <3>1. w.parents = [s.parents EXCEPT ![id].admitted = @ + 1, ![id].remaining = @ + 1]
      BY <1>0 DEF IsState
    <3> QED BY <1>0, <3>1 DEF q
  <2>3. w.pending = s.pending /\ w.agenda = s.agenda
    BY <1>0 DEF IsState
  <2>4. w.waiting = s.waiting /\ w.stats = s.stats
    BY <1>0 DEF IsState
  <2>5. IsState(w)
    <3> DEFINE ctls == w.ctl
               table == w.parents
    <3>1. w = [s EXCEPT !.parents = table, !.ctl = ctls]
      BY <1>0 DEF IsState
    <3> HIDE DEF ctls, table, w
    <3>2. s = [ctl |-> s.ctl, parents |-> s.parents, pending |-> s.pending,
               agenda |-> s.agenda, waiting |-> s.waiting, stats |-> s.stats]
      BY <1>0 DEF IsState
    <3>3. w = [ctl |-> ctls, parents |-> table, pending |-> s.pending,
               agenda |-> s.agenda, waiting |-> s.waiting, stats |-> s.stats]
      BY <3>1, <3>2
    <3> QED BY <3>3 DEF IsState
  <2>6. /\ IsState(u) /\ u.ctl = [s.ctl EXCEPT ![ch] = d] /\ u.parents = s.parents
        /\ u.pending = s.pending /\ u.agenda = s.agenda /\ u.waiting = s.waiting /\ u.stats = s.stats
    BY <1>0 DEF IsState
  <2> HIDE DEF u
  <2>7. /\ IsState(v) /\ v.ctl = u.ctl /\ v.parents = [u.parents EXCEPT ![id] = q]
        /\ v.pending = u.pending /\ v.agenda = u.agenda /\ v.waiting = u.waiting /\ v.stats = u.stats
    BY <2>6 DEF IsState
  <2> HIDE DEF v, w
  <2> QED BY <2>1, <2>2, <2>3, <2>4, <2>5, <2>6, <2>7, SameState
<1> HIDE DEF w
<1> DEFINE less == OneLess(limbo, id)
<1>8. /\ less \in Limbo /\ less.on = limbo.on /\ less.owed[id] = limbo.owed[id] - 1
      /\ \A x \in Ids \ {id} : less.owed[x] = limbo.owed[x]
      /\ \A x \in Ids : limbo.owed[x] \in Int
  <2>1. limbo \in Limbo
    BY OwingFacts
  <2> QED BY <1>0, <2>1, OneLessFacts
<1> HIDE DEF less
<1>9. Replaces(s, limbo, ch, d, less)
  <2> HIDE DEF p, d, q, u, v, w, t
  <2>1. d \in TimedController /\ NoDue(d) /\ QueueFits(d) /\ ~d.fault
    BY <1>3, <1>6
  <2>2. c.queue \in Seq(QueuedAccess) /\ Len(c.queue) \in Nat /\ c.outstanding \in Nat
    BY <1>3, ControllerCounts
  <2>3. ASSUME NEW x \in Ids
        PROVE  Cardinality(Mine(c.queue, x)) + limbo.owed[x] = Cardinality(Mine(d.queue, x)) + less.owed[x]
    <3>1. /\ Cardinality(Mine(c.queue, x)) \in Nat
          /\ a.id = x => Cardinality(Mine(d.queue, x)) = Cardinality(Mine(c.queue, x)) + 1
          /\ a.id # x => Cardinality(Mine(d.queue, x)) = Cardinality(Mine(c.queue, x))
      <4>1. a \in QueuedAccess /\ c.queue \in Seq(QueuedAccess) /\ d.queue = Append(c.queue, a)
        BY <1>2, <1>6, <2>2
      <4> DEFINE old == c.queue
                 new == d.queue
      <4>2. a \in QueuedAccess /\ old \in Seq(QueuedAccess) /\ new = Append(old, a)
        BY <4>1
      <4>4. IsAppended(old, a, new)
        BY <4>2 DEF IsAppended
      <4> HIDE DEF old, new
      <4>3. /\ Cardinality(Mine(old, x)) \in Nat
            /\ a.id = x => Cardinality(Mine(new, x)) = Cardinality(Mine(old, x)) + 1
            /\ a.id # x => Cardinality(Mine(new, x)) = Cardinality(Mine(old, x))
        BY <4>2, <4>4, AppendedMine
      <4> QED BY <4>3 DEF old, new
    <3>o. limbo.owed[x] \in Int /\ a.id = id
      BY <1>2, <1>8
    <3> DEFINE m == Cardinality(Mine(c.queue, x))
               n == Cardinality(Mine(d.queue, x))
               o == limbo.owed[x]
               r == less.owed[x]
    <3>4. m \in Nat /\ o \in Int
      BY <3>1, <3>o
    <3>2. CASE x = id
      <4>1. n = m + 1 /\ r = o - 1
        BY <1>8, <3>1, <3>2, <3>o
      <4> HIDE DEF m, n, o, r
      <4>2. m + o = n + r
        BY <3>4, <4>1
      <4> QED BY <4>2 DEF m, n, o, r
    <3>3. CASE x # id
      <4>1. n = m /\ r = o
        BY <1>8, <3>1, <3>3, <3>o
      <4> QED BY <4>1
    <3> QED BY <3>2, <3>3
  <2>4. c.outstanding - Len(c.queue) - limbo.on[ch] = d.outstanding - Len(d.queue) - less.on[ch]
    <3>1. Len(d.queue) = Len(c.queue) + 1
      <4> HIDE DEF c
      <4> QED BY <1>2, <1>6, <2>2, AppendedFacts
    <3>2. limbo.on[ch] \in Int
      BY <1>0, <1>1 DEF Limbo
    <3>3. less.on[ch] = limbo.on[ch] /\ d.outstanding = c.outstanding + 1
      BY <1>6, <1>8
    <3> DEFINE n == Len(c.queue)
               m == c.outstanding
               o == limbo.on[ch]
    <3>4. n \in Nat /\ m \in Nat /\ o \in Int
      BY <2>2, <3>2
    <3> HIDE DEF n, m, o
    <3>5. m - n - o = (m + 1) - (n + 1) - o
      BY <3>4
    <3> HIDE DEF c
    <3> QED BY <3>1, <3>3, <3>5 DEF n, m, o
  <2>5. \A i \in 1 .. Len(d.queue) : d.queue[i].id \in DOMAIN s.parents
    <3>1. /\ Len(d.queue) = Len(c.queue) + 1 /\ d.queue[Len(c.queue) + 1] = a
          /\ \A i \in 1 .. Len(c.queue) : d.queue[i] = c.queue[i]
      <4> HIDE DEF c
      <4> QED BY <1>2, <1>6, <2>2, AppendedFacts
    <3>2. \A i \in 1 .. Len(c.queue) : c.queue[i].id \in DOMAIN s.parents
      BY <1>1 DEF Body, Known
    <3> SUFFICES ASSUME NEW i \in 1 .. Len(d.queue) PROVE d.queue[i].id \in DOMAIN s.parents
      OBVIOUS
    <3>3. i \in 1 .. Len(c.queue) \/ i = Len(c.queue) + 1
      <4> DEFINE n == Len(c.queue)
      <4>1. n \in Nat /\ i \in 1 .. n + 1
        BY <2>2, <3>1
      <4> HIDE DEF n
      <4>2. i \in 1 .. n \/ i = n + 1
        BY <4>1
      <4> QED BY <4>2 DEF n
    <3> QED BY <1>2, <3>1, <3>2, <3>3
  <2>6. ASSUME NEW x \in Ids, less.owed[x] > 0 PROVE x \in DOMAIN s.parents
    <3>1. CASE x = id
      BY <3>1
    <3>2. CASE x # id
      BY <1>8, <2>6, <3>2 DEF Body, Known
    <3> QED BY <3>1, <3>2
  <2> QED BY <1>8, <2>1, <2>3, <2>4, <2>5, <2>6 DEF Replaces
<1>10. /\ Body(u, less) /\ u.ctl = [s.ctl EXCEPT ![ch] = d] /\ u.parents = s.parents
       /\ u.pending = s.pending /\ u.agenda = s.agenda /\ u.waiting = s.waiting
  BY <1>1, <1>8, <1>9, ControllerReplaced
<1> HIDE DEF u
<1>11. p.remaining \in Nat
  <2>1. p.remaining = LiveOf(s, id) + limbo.owed[id]
    BY DEF Body, Balanced
  <2>2. s.agenda \in Seq(Event)
    BY BodyTypes
  <2>3. LiveOf(s, id) \in Nat
    BY <1>0, <2>2, LiveIffNamed
  <2>4. limbo.owed[id] \in Nat
    BY <1>0, OwingFacts
  <2> QED BY <2>1, <2>3, <2>4
<1>12. /\ Body(v, limbo) /\ v.parents = [u.parents EXCEPT ![id] = q] /\ v.ctl = u.ctl
       /\ v.pending = u.pending /\ v.agenda = u.agenda /\ v.waiting = u.waiting
  <2>1. u.parents[id] = p /\ id \in DOMAIN u.parents
    BY <1>10
  <2>2. \A x \in Ids \ {id} : limbo.owed[x] = less.owed[x]
    BY <1>8
  <2>3. q.remaining - limbo.owed[id] = u.parents[id].remaining - less.owed[id]
    <3>1. limbo.owed[id] \in Nat
      BY <1>0, OwingFacts
    <3> DEFINE m == p.remaining
               o == limbo.owed[id]
    <3>2. /\ q.remaining = m + 1 /\ limbo.owed[id] = o /\ m \in Nat /\ o \in Nat
          /\ less.owed[id] = o - 1 /\ u.parents[id].remaining = m
      BY <1>4, <1>8, <1>11, <2>1, <3>1
    <3> HIDE DEF m, o, p, q, u, less
    <3>3. m + 1 - o = m - (o - 1)
      BY <3>2
    <3> QED BY <3>2, <3>3
  <2>4. Unadmitted(q) => Unadmitted(u.parents[id])
    BY <2>1
  <2>5. limbo \in Limbo /\ limbo.on = less.on
    BY <1>0, <1>8
  <2> HIDE DEF p
  <2>6. Substitutes(u, less, id, q, limbo)
    BY <1>4, <2>1, <2>2, <2>3, <2>4, <2>5 DEF Substitutes
  <2> HIDE DEF q
  <2> QED BY <1>10, <2>6, ParentReplaced
<1> HIDE DEF v
<1>13. /\ Body(t, limbo) /\ t.ctl = v.ctl /\ t.parents = v.parents /\ t.pending = v.pending
       /\ t.agenda = v.agenda /\ t.waiting = v.waiting
  BY <1>7, <1>12, CountedFacts
<1>14. Admit(s, id, s.parents[id], NextAccess(s.parents[id])) = t
  BY DEF Admit, a, w
<1> HIDE DEF t
<1>15. /\ t.ctl[ch] = d /\ \A k \in Channels \ {ch} : t.ctl[k] = s.ctl[k]
  BY <1>0, <1>1, <1>10, <1>12, <1>13
<1>16. /\ DOMAIN t.parents = DOMAIN s.parents /\ t.parents[id] = q
       /\ \A x \in DOMAIN s.parents \ {id} : t.parents[x] = s.parents[x]
  BY <1>10, <1>12, <1>13
<1>17. Awaited(t)
  <2>1. q.remaining # 0
    BY <1>4, <1>11
  <2> QED BY <1>16, <2>1 DEF Awaited
<1>18. ASSUME NEW k \in Channels PROVE Grown(s.ctl[k], t.ctl[k])
  <2>1. CASE k = ch
    BY <1>6, <1>15, <2>1
  <2>2. CASE k # ch
    <3>1. s.ctl[k] \in TimedController
      BY BodyTypes
    <3> QED BY <1>15, <2>2, <3>1, GrownReflexive
  <2> QED BY <2>1, <2>2
<1>19. ASSUME NEW x \in DOMAIN s.parents
       PROVE  t.parents[x].txn = s.parents[x].txn /\ (Done(s, x) => Done(t, x))
  <2>1. CASE x = id
    <3>1. ~Done(s, id)
      BY DEF Done
    <3> QED BY <1>4, <1>16, <2>1, <3>1
  <2>2. CASE x # id
    <3>1. t.parents[x] = s.parents[x]
      BY <1>16, <2>2
    <3>2. ASSUME Unadmitted(s.parents[x]), Done(s, x) PROVE Done(t, x)
      <4>1. IsParent(s.parents[x])
        BY BodyTypes
      <4> DEFINE k == NextAccess(s.parents[x]).ch
                 op == s.parents[x].txn.op
      <4>2. k \in Channels /\ op \in {"Read", "Write"}
        BY <3>2, <4>1, NextAccessFacts
      <4>3. ~can_reserve(s.ctl[k], op)
        BY <3>2 DEF Done
      <4>4. ~can_reserve(t.ctl[k], op)
        <5> HIDE DEF k, op
        <5> QED BY <1>18, <4>2, <4>3 DEF Grown
      <4> QED BY <3>1, <4>4 DEF Done
    <3> QED BY <3>1, <3>2 DEF Done
  <2> QED BY <2>1, <2>2
<1>20. Admits(s, t, limbo)
  <2>1. t.pending = s.pending /\ t.agenda = s.agenda /\ t.waiting = s.waiting
    BY <1>10, <1>12, <1>13
  <2> QED BY <1>13, <1>16, <1>17, <1>18, <1>19, <2>1 DEF Admits
<1> QED BY <1>4, <1>14, <1>16, <1>20

\* One turn of the inner loop: the parent admits an access, or can admit none.
LEMMA AdmitNextFacts ==
  ASSUME NEW s, NEW limbo, Body(s, limbo), Awaited(s), limbo \in Owing, NEW id \in DOMAIN s.parents
  PROVE  LET t == AdmitNext(s, id)
         IN  Admits(s, t, limbo) /\ (Done(t, id) \/ t.parents[id].admitted = s.parents[id].admitted + 1)
<1> DEFINE p == s.parents[id]
           at == NextAccess(p)
<1>1. CASE Unadmitted(p) /\ can_reserve(s.ctl[at.ch], p.txn.op)
  <2>1. AdmitNext(s, id) = Admit(s, id, p, at)
    BY <1>1 DEF AdmitNext
  <2> QED BY <1>1, <2>1, AdmitFacts
<1>2. CASE ~(Unadmitted(p) /\ can_reserve(s.ctl[at.ch], p.txn.op))
  <2>1. AdmitNext(s, id) = s
    BY <1>2 DEF AdmitNext
  <2>2. Done(s, id)
    BY <1>2 DEF Done
  <2> QED BY <2>1, <2>2, AdmitsReflexive
<1> QED BY <1>1, <1>2

Nexts == INSTANCE LoopTheory WITH Op <- AdmitNext

\* The inner loop leaves the parent with nothing to admit, or stopped by a full queue.
LEMMA AdmitParentFacts ==
  ASSUME NEW s, NEW limbo, Body(s, limbo), Awaited(s), limbo \in Owing, NEW id \in DOMAIN s.parents
  PROVE  LET t == AdmitParent(s, id)
         IN  Admits(s, t, limbo) /\ Done(t, id)
<1> DEFINE accesses == s.parents[id].txn.accesses
           seq == [i \in DOMAIN accesses |-> id]
           n == Len(accesses)
<1>1. n \in Nat /\ DOMAIN accesses = 1 .. n
  <2>1. IsParent(s.parents[id])
    BY BodyTypes
  <2>2. s.parents[id].txn \in Transactions
    BY <2>1 DEF IsParent
  <2>3. accesses \in Seq([ch : Channels, bank : Bank, row : Nat, col : Nat])
    BY <2>2, SystemAssumption
  <2> DEFINE A == [ch : Channels, bank : Bank, row : Nat, col : Nat]
  <2>4. accesses \in Seq(A)
    BY <2>3
  <2> HIDE DEF A, accesses
  <2> QED BY <2>4
<1> HIDE DEF accesses, n
<1>2. seq \in Seq({id}) /\ Len(seq) = n /\ \A i \in 1 .. n : seq[i] = id
  BY <1>1
<1>3. AdmitParent(s, id) = Nexts!Looped(s, seq)
  BY DEF AdmitParent, FoldLeft, MapThenFoldSet, Max, Nexts!Looped, accesses
<1> HIDE DEF seq
<1>4. PICK run : /\ run[0] = s
                 /\ \A k \in 1 .. n : run[k] = AdmitNext(run[k - 1], seq[k])
                 /\ run[n] = Nexts!Looped(s, seq)
  BY <1>2, Nexts!LoopRuns
<1> DEFINE S == {k \in 0 .. n :
              /\ Admits(s, run[k], limbo)
              /\ Done(run[k], id) \/ run[k].parents[id].admitted >= k}
<1>5. 0 \in S
  <2>1. Admits(s, s, limbo)
    BY AdmitsReflexive
  <2>2. s.parents[id].admitted >= 0
    <3>1. IsParent(s.parents[id])
      BY BodyTypes
    <3> QED BY <3>1 DEF IsParent
  <2> QED BY <1>1, <1>4, <2>1, <2>2
<1>6. ASSUME NEW k \in 0 .. n - 1, k \in S PROVE k + 1 \in S
  <2>1. k + 1 \in 1 .. n /\ (k + 1) - 1 = k /\ k + 1 \in 0 .. n /\ k \in Int
    BY <1>1
  <2> DEFINE u == run[k]
             v == run[k + 1]
  <2>2. v = AdmitNext(u, id)
    BY <1>2, <1>4, <2>1
  <2>3. Admits(s, u, limbo) /\ (Done(u, id) \/ u.parents[id].admitted >= k)
    BY <1>6
  <2> HIDE DEF u, v
  <2>4. Body(u, limbo) /\ Awaited(u) /\ id \in DOMAIN u.parents
    BY <2>3 DEF Admits
  <2>5. Admits(u, v, limbo) /\ (Done(v, id) \/ v.parents[id].admitted = u.parents[id].admitted + 1)
    BY <2>2, <2>4, AdmitNextFacts
  <2>6. Admits(s, v, limbo)
    BY <2>3, <2>5, AdmitsTransitive
  <2>7. Done(v, id) \/ v.parents[id].admitted >= k + 1
    <3>1. Done(u, id) => Done(v, id)
      BY <2>4, <2>5 DEF Admits
    <3>2. IsParent(u.parents[id])
      BY <2>4, BodyTypes
    <3>3. u.parents[id].admitted \in Int
      BY <3>2 DEF IsParent
    <3> QED BY <2>1, <2>3, <2>5, <3>1, <3>3
  <2> QED BY <2>1, <2>6, <2>7 DEF v
<1>7. n \in S
  <2> HIDE DEF S
  <2>1. \A k \in 0 .. n : k \in S
    BY <1>1, <1>5, <1>6, UpTo
  <2> QED BY <1>1, <2>1
<1> DEFINE t == run[n]
<1>8. Admits(s, t, limbo) /\ (Done(t, id) \/ t.parents[id].admitted >= n)
  BY <1>7
<1> HIDE DEF t
<1>9. Done(t, id)
  <2> SUFFICES ASSUME t.parents[id].admitted >= n PROVE Done(t, id)
    BY <1>8
  <2>1. Body(t, limbo) /\ id \in DOMAIN t.parents /\ t.parents[id].txn = s.parents[id].txn
    BY <1>8 DEF Admits
  <2>2. IsParent(t.parents[id])
    BY <2>1, BodyTypes
  <2>3. t.parents[id].admitted \in Int
    BY <2>2 DEF IsParent
  <2>4. ~Unadmitted(t.parents[id])
    <3>1. Len(t.parents[id].txn.accesses) = n
      BY <2>1 DEF n, accesses
    <3> QED BY <1>1, <2>3, <3>1 DEF Unadmitted
  <2> QED BY <2>4 DEF Done
<1> QED BY <1>3, <1>4, <1>8, <1>9 DEF t

Parents == INSTANCE LoopTheory WITH Op <- AdmitParent

\* The outer loop leaves every pending parent so.
LEMMA AdmitAllFacts ==
  ASSUME NEW s, NEW limbo, Body(s, limbo), Awaited(s), limbo \in Owing
  PROVE  LET t == AdmitAll(s)
         IN  Admits(s, t, limbo) /\ \A i \in 1 .. Len(s.pending) : Done(t, s.pending[i])
<1> DEFINE seq == s.pending
           n == Len(seq)
<1>1. seq \in Seq(Ids) /\ n \in Nat /\ \A i \in 1 .. n : seq[i] \in DOMAIN s.parents
  BY BodyTypes
<1>2. AdmitAll(s) = Parents!Looped(s, seq)
  BY DEF AdmitAll, FoldLeft, MapThenFoldSet, Max, Parents!Looped
<1> HIDE DEF seq
<1>3. PICK run : /\ run[0] = s
                 /\ \A k \in 1 .. n : run[k] = AdmitParent(run[k - 1], seq[k])
                 /\ run[n] = Parents!Looped(s, seq)
  BY <1>1, Parents!LoopRuns
<1> DEFINE S == {k \in 0 .. n : Admits(s, run[k], limbo) /\ \A i \in 1 .. k : Done(run[k], seq[i])}
<1>4. 0 \in S
  <2>1. Admits(s, s, limbo)
    BY AdmitsReflexive
  <2> QED BY <1>1, <1>3, <2>1
<1>5. ASSUME NEW k \in 0 .. n - 1, k \in S PROVE k + 1 \in S
  <2>1. k + 1 \in 1 .. n /\ (k + 1) - 1 = k /\ k + 1 \in 0 .. n /\ k \in Int
    BY <1>1
  <2> DEFINE u == run[k]
             v == run[k + 1]
             id == seq[k + 1]
  <2>2. v = AdmitParent(u, id) /\ id \in DOMAIN s.parents
    BY <1>1, <1>3, <2>1
  <2>3. Admits(s, u, limbo) /\ \A i \in 1 .. k : Done(u, seq[i])
    BY <1>5
  <2> HIDE DEF u, v
  <2>4. Body(u, limbo) /\ Awaited(u) /\ DOMAIN u.parents = DOMAIN s.parents
    BY <2>3 DEF Admits
  <2>5. Admits(u, v, limbo) /\ Done(v, id)
    <3> HIDE DEF id
    <3> QED BY <2>2, <2>4, AdmitParentFacts
  <2>6. Admits(s, v, limbo)
    BY <2>3, <2>5, AdmitsTransitive
  <2>7. ASSUME NEW i \in 1 .. k + 1 PROVE Done(v, seq[i])
    <3>1. CASE i = k + 1
      BY <2>5, <3>1
    <3>2. CASE i # k + 1
      <4>1. i \in 1 .. k /\ i \in 1 .. n
        BY <1>1, <2>1, <3>2
      <4>2. seq[i] \in DOMAIN u.parents /\ Done(u, seq[i])
        BY <1>1, <2>3, <2>4, <4>1
      <4> QED BY <2>5, <4>2 DEF Admits
    <3> QED BY <3>1, <3>2
  <2> QED BY <2>1, <2>6, <2>7 DEF v
<1>6. n \in S
  <2> HIDE DEF S, n
  <2>1. \A k \in 0 .. n : k \in S
    BY <1>1, <1>4, <1>5, UpTo
  <2> QED BY <1>1, <2>1
<1> DEFINE t == run[n]
<1>7. Admits(s, t, limbo) /\ \A i \in 1 .. n : Done(t, seq[i])
  BY <1>6
<1> HIDE DEF t
<1> QED BY <1>2, <1>3, <1>7 DEF t, seq

\* What is erased from the pending parents is what is fully admitted.
LEMMA DropAdmittedFacts ==
  ASSUME NEW s, NEW limbo, Body(s, limbo), \A i \in 1 .. Len(s.pending) : Done(s, s.pending[i])
  PROVE  LET t == DropAdmitted(s)
         IN  /\ Body(t, limbo) /\ Settled(t) /\ t.ctl = s.ctl /\ t.parents = s.parents
             /\ t.agenda = s.agenda /\ t.waiting = s.waiting
<1> DEFINE old == s.pending
           P == {i \in DOMAIN old : Unadmitted(s.parents[old[i]])}
           new == Picked(old, P)
           n == Cardinality(P)
           t == [s EXCEPT !.pending = new]
<1>1. IsState(s) /\ old \in Seq(Ids) /\ DOMAIN old = 1 .. Len(old) /\ \A i \in 1 .. Len(old) : old[i] \in DOMAIN s.parents
  BY BodyTypes
<1>2. DropAdmitted(s) = t
  BY DEF DropAdmitted
<1> HIDE DEF t, old
<1>3. P \in SUBSET DOMAIN old /\ \A i \in P : i \in 1 .. Len(old) /\ Unadmitted(s.parents[old[i]])
  BY <1>1
<1>4. \A i \in 1 .. Len(old) : Unadmitted(s.parents[old[i]]) => i \in P
  BY <1>1
<1> HIDE DEF P
<1>5. /\ n \in Nat /\ new \in Seq(Ids) /\ Len(new) = n
      /\ \A k \in 1 .. n : Ascending(P)[k] \in P /\ new[k] = old[Ascending(P)[k]]
      /\ \A p \in P : \E k \in 1 .. n : Ascending(P)[k] = p
  BY <1>1, <1>3, PickedFacts
<1> HIDE DEF new, n
<1>6. ASSUME NEW k \in 1 .. n PROVE new[k] \in DOMAIN s.parents /\ Unadmitted(s.parents[new[k]]) /\ Done(s, new[k])
  <2>1. Ascending(P)[k] \in 1 .. Len(old) /\ Unadmitted(s.parents[old[Ascending(P)[k]]])
    BY <1>3, <1>5
  <2>2. Done(s, old[Ascending(P)[k]])
    BY <2>1 DEF old
  <2> QED BY <1>1, <1>5, <2>1, <2>2
<1>7. ASSUME NEW id \in DOMAIN s.parents, Unadmitted(s.parents[id]) PROVE \E k \in 1 .. n : new[k] = id
  <2>1. PICK i \in 1 .. Len(old) : old[i] = id
    BY <1>7 DEF Body, Covers, old
  <2>2. i \in P
    BY <1>4, <1>7, <2>1
  <2>3. PICK k \in 1 .. n : Ascending(P)[k] = i
    BY <1>5, <2>2
  <2>4. new[k] = id
    BY <1>5, <2>1, <2>3
  <2> QED BY <2>4
<1>8. /\ Body(t, limbo) /\ t.ctl = s.ctl /\ t.parents = s.parents /\ t.pending = new
      /\ t.agenda = s.agenda /\ t.waiting = s.waiting
  BY <1>5, <1>6, <1>7, PendingReplaced DEF t
<1>9. Settled(t)
  <2> SUFFICES ASSUME NEW k \in 1 .. n PROVE Unadmitted(t.parents[new[k]]) /\ Done(t, new[k])
    BY <1>5, <1>8 DEF Settled
  <2> QED BY <1>6, <1>8 DEF Done
<1> QED BY <1>2, <1>8, <1>9

\* Marks and claims do not give a queue room.
LEMMA StillDone ==
  ASSUME NEW s, NEW t, SameWorkload(s, t), NEW limbo, Body(s, limbo)
  PROVE  /\ \A id \in DOMAIN s.parents : Done(s, id) => Done(t, id)
         /\ Settled(s) => Settled(t)
         /\ Awaited(s) => Awaited(t)
         /\ DOMAIN t.parents = DOMAIN s.parents
<1>1. ASSUME NEW id \in DOMAIN s.parents, Done(s, id) PROVE Done(t, id)
  <2> SUFFICES ASSUME Unadmitted(s.parents[id]) PROVE Done(t, id)
    BY DEF SameWorkload, Done
  <2> DEFINE k == NextAccess(s.parents[id]).ch
             op == s.parents[id].txn.op
  <2>1. k \in Channels
    <3>1. IsParent(s.parents[id])
      BY BodyTypes
    <3> QED BY <3>1, NextAccessFacts
  <2>2. ~can_reserve(s.ctl[k], op)
    BY <1>1 DEF Done
  <2> HIDE DEF k, op
  <2>3. t.ctl[k].queue = s.ctl[k].queue
    BY <2>1 DEF SameWorkload
  <2>4. ~can_reserve(t.ctl[k], op)
    BY <2>2, <2>3 DEF can_reserve, Reads, Writes
  <2> QED BY <2>4 DEF Done, SameWorkload, k, op
<1>2. t.parents = s.parents /\ t.pending = s.pending
  BY DEF SameWorkload
<1>3. Settled(s) => Settled(t)
  <2>1. \A i \in 1 .. Len(s.pending) : s.pending[i] \in DOMAIN s.parents
    BY BodyTypes
  <2> QED BY <1>1, <1>2, <2>1 DEF Settled
<1> QED BY <1>1, <1>2, <1>3 DEF Awaited

\* After pump_admissions nothing that could be admitted is pending.
LEMMA PumpFacts ==
  ASSUME NEW s, NEW limbo, Body(s, limbo), Awaited(s), Marked(s), Armed(s), limbo \in Owing
  PROVE  LET t == pump_admissions(s)
         IN  /\ Body(t, limbo) /\ Awaited(t) /\ Marked(t) /\ Armed(t) /\ Settled(t)
             /\ DOMAIN t.parents = DOMAIN s.parents /\ t.waiting = s.waiting
<1> DEFINE a == AdmitAll(s)
           b == DropAdmitted(a)
           touched == {ch \in Channels : Len(a.ctl[ch].queue) > Len(s.ctl[ch].queue)}
           t == FoldLeft(WakeChannel, b, Ascending(touched))
<1>1. pump_admissions(s) = t
  BY DEF pump_admissions, Admitted, WakeTouched
<1>2. Admits(s, a, limbo) /\ \A i \in 1 .. Len(s.pending) : Done(a, s.pending[i])
  BY AdmitAllFacts
<1> HIDE DEF a
<1>3. /\ Body(a, limbo) /\ Awaited(a) /\ a.pending = s.pending /\ a.agenda = s.agenda /\ a.waiting = s.waiting
      /\ DOMAIN a.parents = DOMAIN s.parents /\ \A k \in Channels : Grown(s.ctl[k], a.ctl[k])
  BY <1>2 DEF Admits
<1>4. /\ Body(b, limbo) /\ Settled(b) /\ b.ctl = a.ctl /\ b.parents = a.parents
      /\ b.agenda = a.agenda /\ b.waiting = a.waiting
  BY <1>2, <1>3, DropAdmittedFacts
<1> HIDE DEF b
<1>5. Marked(b)
  <2> SUFFICES ASSUME NEW k \in Channels
               PROVE  /\ a.ctl[k].wakeup_at = s.ctl[k].wakeup_at
                      /\ a.ctl[k].refresh_due_at = s.ctl[k].refresh_due_at
    BY <1>3, <1>4 DEF Marked
  <2> QED BY <1>3 DEF Grown
<1>6. touched \in SUBSET Channels /\ \A ch \in touched : Rearmed(b.ctl[ch])
  BY <1>3, <1>4 DEF Grown
<1>7. ASSUME NEW k \in Channels, k \notin touched PROVE b.ctl[k] = s.ctl[k]
  <2>1. Len(a.ctl[k].queue) \in Nat /\ Len(s.ctl[k].queue) \in Nat
    <3>1. a.ctl[k] \in TimedController /\ s.ctl[k] \in TimedController
      BY <1>3, BodyTypes
    <3> QED BY <3>1, ControllerCounts
  <2>2. Len(a.ctl[k].queue) = Len(s.ctl[k].queue)
    <3>1. Len(a.ctl[k].queue) >= Len(s.ctl[k].queue)
      BY <1>3 DEF Grown
    <3>2. ~ (Len(a.ctl[k].queue) > Len(s.ctl[k].queue))
      BY <1>7
    <3> QED BY <2>1, <3>1, <3>2
  <2> QED BY <1>3, <1>4, <2>2 DEF Grown
<1> HIDE DEF touched
<1>8. /\ Body(t, limbo) /\ Marked(t) /\ SameWorkload(b, t) /\ KeptOrClaimed(b, t)
      /\ \A ch \in touched : t.ctl[ch].refresh_due_at = t.ctl[ch].next_refresh_due
  BY <1>4, <1>5, <1>6, WakeLoop
<1> HIDE DEF t
<1>9. Armed(t)
  <2> SUFFICES ASSUME NEW k \in Channels, t.ctl[k].outstanding > 0
               PROVE  t.ctl[k].refresh_due_at = t.ctl[k].next_refresh_due
    BY DEF Armed, IsArmed
  <2>1. CASE k \in touched
    BY <1>8, <2>1
  <2>2. CASE k \notin touched
    <3>1. b.ctl[k] = s.ctl[k]
      BY <1>7, <2>2
    <3>2. b.ctl[k].refresh_due_at = b.ctl[k].next_refresh_due
      <4>1. b.ctl[k].outstanding > 0
        BY <1>8 DEF SameWorkload
      <4> QED BY <3>1, <4>1 DEF Armed, IsArmed
    <3>3. t.ctl[k].next_refresh_due = b.ctl[k].next_refresh_due
      BY <1>8 DEF SameWorkload
    <3> QED BY <1>8, <3>2, <3>3 DEF KeptOrClaimed
  <2> QED BY <2>1, <2>2
<1>10. Awaited(t) /\ Settled(t) /\ DOMAIN t.parents = DOMAIN b.parents
  <2>1. Awaited(b)
    BY <1>3, <1>4 DEF Awaited
  <2> QED BY <1>4, <1>8, <2>1, StillDone
<1>11. t.waiting = s.waiting /\ DOMAIN t.parents = DOMAIN s.parents
  BY <1>3, <1>4, <1>8, <1>10 DEF SameWorkload
<1> QED BY <1>1, <1>8, <1>9, <1>10, <1>11

-----------------------------------------------------------------------------
(* try_submit_now.                                                          *)

\* The state between two calls: everything but the accesses in limbo is settled.
Steady(s, limbo) == Body(s, limbo) /\ Awaited(s) /\ Marked(s) /\ Armed(s) /\ Settled(s) /\ limbo \in Owing

\* It only depends on the fields that the accounts are about.
LEMMA SteadySame ==
  ASSUME NEW s, NEW limbo, Steady(s, limbo), NEW t, Body(t, limbo), t.ctl = s.ctl, t.parents = s.parents,
         t.pending = s.pending, t.agenda = s.agenda
  PROVE  Steady(t, limbo)
BY DEF Steady, Awaited, Marked, Armed, Settled, Done

\* A transaction arrives with everything to admit.
LEMMA NewParentFacts ==
  ASSUME NEW txn \in Transactions, NEW arrival \in Int
  PROVE  LET p == NewParent(txn, arrival)
         IN  IsParent(p) /\ p.remaining = 0 /\ p.txn = txn /\ Unadmitted(p)
<1> DEFINE p == NewParent(txn, arrival)
           A == [ch : Channels, bank : Bank, row : Nat, col : Nat]
<1>1. txn.accesses \in Seq(A) /\ txn.accesses # <<>>
  BY SystemAssumption
<1> HIDE DEF A
<1>2. Len(txn.accesses) \in Nat /\ Len(txn.accesses) > 0
  BY <1>1
<1>3. /\ p = [txn |-> txn, admitted |-> 0, remaining |-> 0, arrival |-> Recorded(arrival), stages |-> None]
      /\ p.txn = txn /\ p.admitted = 0 /\ p.remaining = 0 /\ p.arrival = Recorded(arrival) /\ p.stages = None
  BY DEF NewParent
<1>4. Recorded(arrival) \in IF KeepRecords THEN Int ELSE {None}
  BY DEF Recorded
<1> HIDE DEF p
<1>5. IsParent(p)
  BY <1>2, <1>3, <1>4 DEF IsParent
<1> QED BY <1>2, <1>3, <1>5 DEF Unadmitted, p

\* A submission that finds credit and room enters, one that does not waits.
LEMMA SubmitNowFacts ==
  ASSUME NEW s, NEW limbo, Steady(s, limbo), NEW id \in Ids, id \notin DOMAIN s.parents, id \notin s.waiting,
         NEW txn \in Transactions, NEW arrival \in Int
  PROVE  LET t == try_submit_now(s, id, txn, arrival)
         IN  Steady(t, limbo) /\ DOMAIN s.parents \in SUBSET DOMAIN t.parents
<1>0. Body(s, limbo) /\ Awaited(s) /\ Marked(s) /\ Armed(s) /\ Settled(s) /\ limbo \in Owing
  BY DEF Steady
<1>1. CASE HasCredit(s, txn)
  <2> DEFINE p == NewParent(txn, arrival)
             e == Entered(s, id, p)
             c == Counted(e, "submitted", 1)
             t == pump_admissions(c)
  <2>1. try_submit_now(s, id, txn, arrival) = t
    <3> HIDE DEF p
    <3>1. e = [s EXCEPT !.parents = [x \in DOMAIN @ \cup {id} |-> IF x = id THEN p ELSE @[x]],
                        !.pending = Append(@, id)]
      BY DEF Entered
    <3> HIDE DEF e
    <3> QED BY <1>1, <3>1 DEF try_submit_now, p
  <2>2. IsParent(p) /\ p.remaining = 0 /\ Unadmitted(p)
    BY NewParentFacts
  <2> HIDE DEF p
  <2>3. /\ Body(e, limbo) /\ DOMAIN e.parents = DOMAIN s.parents \cup {id} /\ e.ctl = s.ctl
        /\ e.parents[id] = p
        /\ \A x \in DOMAIN s.parents : e.parents[x] = s.parents[x]
        /\ e.pending = Append(s.pending, id) /\ e.agenda = s.agenda /\ e.waiting = s.waiting
    BY <1>0, <1>1, <2>2, ParentEntered DEF HasCredit
  <2> HIDE DEF e
  <2>4. /\ Body(c, limbo) /\ c.ctl = e.ctl /\ c.parents = e.parents /\ c.agenda = e.agenda
    BY <2>3, CountedFacts
  <2> HIDE DEF c
  <2>5. Awaited(c)
    BY <1>0, <2>2, <2>3, <2>4 DEF Awaited
  <2>6. Marked(c) /\ Armed(c)
    BY <1>0, <2>3, <2>4 DEF Marked, Armed
  <2>7. /\ Body(t, limbo) /\ Awaited(t) /\ Marked(t) /\ Armed(t) /\ Settled(t)
        /\ DOMAIN t.parents = DOMAIN c.parents
    BY <1>0, <2>4, <2>5, <2>6, PumpFacts
  <2> HIDE DEF t
  <2> QED BY <1>0, <2>1, <2>3, <2>4, <2>7 DEF Steady
<1>2. CASE ~HasCredit(s, txn)
  <2> DEFINE ids == s.waiting \cup {id}
             t == [s EXCEPT !.waiting = ids]
  <2>1. try_submit_now(s, id, txn, arrival) = t
    <3>1. IsState(s)
      BY <1>0, BodyTypes
    <3> QED BY <1>2, <3>1 DEF try_submit_now, IsState
  <2>2. ids \in SUBSET Ids /\ ids \cap DOMAIN s.parents = {}
    <3>1. s.waiting \in SUBSET Ids /\ s.waiting \cap DOMAIN s.parents = {}
      BY <1>0 DEF Body, WellFormed
    <3> QED BY <3>1
  <2> HIDE DEF ids
  <2>3. /\ Body(t, limbo) /\ t.ctl = s.ctl /\ t.parents = s.parents /\ t.pending = s.pending
        /\ t.agenda = s.agenda
    BY <1>0, <2>2, WaitingReplaced
  <2> HIDE DEF t
  <2>4. Steady(t, limbo)
    BY <2>3, SteadySame
  <2> QED BY <2>1, <2>3, <2>4
<1> QED BY <1>1, <1>2

-----------------------------------------------------------------------------
(* drive, and scheduling its completion.                                   *)

\* An event scheduled leaves everything else as it is.
LEMMA SteadyScheduled ==
  ASSUME NEW s, NEW t, NEW after \in Owing, Body(t, after), Awaited(s), Marked(s), Armed(s), Settled(s),
         SameBut(s, t), KeepsEvents(s.agenda, t.agenda)
  PROVE  Steady(t, after)
<1>1. t.ctl = s.ctl /\ t.parents = s.parents /\ t.pending = s.pending
  BY DEF SameBut
<1>2. Awaited(t) /\ Armed(t) /\ Settled(t)
  BY <1>1 DEF Awaited, Armed, Settled, Done
<1>3. Marked(t)
  <2> SUFFICES ASSUME NEW k \in Channels
               PROVE  /\ s.ctl[k].wakeup_at # None => HasEvent(t.agenda, "wake", k, s.ctl[k].wakeup_at)
                      /\ s.ctl[k].refresh_due_at # None => HasEvent(t.agenda, "refresh", k, s.ctl[k].refresh_due_at)
    BY <1>1 DEF Marked
  <2>1. s.ctl[k] \in TimedController
    BY <1>1, BodyTypes
  <2>2. /\ s.ctl[k].wakeup_at # None => s.ctl[k].wakeup_at \in Int
        /\ s.ctl[k].refresh_due_at # None => s.ctl[k].refresh_due_at \in Int
    BY <2>1, MarkTypes
  <2>3. "wake" \in Kind /\ "refresh" \in Kind
    BY DEF Kind
  <2> QED BY <2>2, <2>3 DEF Marked, KeepsEvents
<1> QED BY <1>2, <1>3 DEF Steady

\* A wake-up asked for keeps the state steady.
LEMMA SteadyWoken ==
  ASSUME NEW s, NEW limbo, Steady(s, limbo), NEW ch \in Channels, NEW when \in Int
  PROVE  LET t == schedule_controller_wake(s, ch, when)
         IN  Steady(t, limbo) /\ SameWorkload(s, t) /\ SameRefreshMarks(s, t)
<1> DEFINE t == schedule_controller_wake(s, ch, when)
<1>1. Body(t, limbo) /\ Marked(t) /\ SameWorkload(s, t) /\ SameRefreshMarks(s, t)
  BY WakeScheduled DEF Steady
<1> HIDE DEF t
<1>2. Armed(t)
  BY <1>1 DEF Steady, Armed, IsArmed, SameWorkload, SameRefreshMarks
<1>3. Awaited(t) /\ Settled(t)
  BY <1>1, StillDone DEF Steady
<1> QED BY <1>1, <1>2, <1>3 DEF Steady, t

\* A controller that kept its accesses and its marks takes the place of channel ch's.
LEMMA IdleDrive ==
  ASSUME NEW s, NEW limbo, Steady(s, limbo), NEW ch \in Channels, NEW step, Drives(s.ctl[ch], step),
         step.c \in TimedController, step.ids = <<>>
  PROVE  Steady(Driven(s, ch, step), limbo)
<1> DEFINE c == s.ctl[ch]
           d == step.c
           t == [s EXCEPT !.ctl[ch] = d]
<1>0. Body(s, limbo) /\ Awaited(s) /\ Marked(s) /\ Armed(s) /\ Settled(s) /\ limbo \in Owing
  BY DEF Steady
<1>1. c \in TimedController /\ NoDue(c) /\ QueueFits(c) /\ ~c.fault
  BY <1>0, BodyTypes
<1>2. d \in TimedController /\ SameMarks(c, d) /\ d.fault = c.fault /\ SameEntries(c.queue, d.queue)
  BY DEF Drives
<1>3. Driven(s, ch, step) = t
  BY DEF Driven
<1> HIDE DEF c, d
<1>4. /\ Reads(d) = Reads(c) /\ Writes(d) = Writes(c) /\ QueueFits(d) /\ Len(d.queue) = Len(c.queue)
      /\ \A j \in 1 .. Len(c.queue) : d.queue[j].id = c.queue[j].id
  BY <1>1, <1>2, SameFit DEF SameEntries
<1>5. Replaces(s, limbo, ch, d, limbo)
  <2>1. NoDue(d)
    BY <1>1, <1>2 DEF NoDue, SameMarks
  <2>2. ASSUME NEW id PROVE Mine(d.queue, id) = Mine(c.queue, id)
    <3>1. DOMAIN c.queue = 1 .. Len(c.queue) /\ DOMAIN d.queue = 1 .. Len(d.queue)
      <4>1. c.queue \in Seq(QueuedAccess) /\ d.queue \in Seq(QueuedAccess)
        BY <1>1, <1>2, ControllerCounts
      <4> QED BY <4>1
    <3> QED BY <1>4, <3>1 DEF Mine
  <2>3. d.outstanding = c.outstanding
    BY <1>2 DEF SameMarks
  <2>4. \A i \in 1 .. Len(d.queue) : d.queue[i].id \in DOMAIN s.parents
    <3>1. \A i \in 1 .. Len(c.queue) : c.queue[i].id \in DOMAIN s.parents
      BY <1>0 DEF Body, Known, c
    <3> QED BY <1>4, <3>1
  <2>5. \A id \in Ids : limbo.owed[id] > 0 => id \in DOMAIN s.parents
    BY <1>0 DEF Body, Known
  <2> QED BY <1>1, <1>2, <1>4, <2>1, <2>2, <2>3, <2>4, <2>5 DEF Replaces, c
<1>6. /\ Body(t, limbo) /\ t.ctl = [s.ctl EXCEPT ![ch] = d] /\ t.parents = s.parents
      /\ t.pending = s.pending /\ t.agenda = s.agenda /\ t.waiting = s.waiting
  <2>1. limbo \in Limbo
    BY <1>0, OwingFacts
  <2> QED BY <1>0, <1>5, <2>1, ControllerReplaced
<1> HIDE DEF t
<1>7. s.ctl \in [Channels -> TimedController]
  BY <1>0, BodyTypes
<1>8. t.ctl[ch] = d /\ \A k \in Channels \ {ch} : t.ctl[k] = s.ctl[k]
  BY <1>6, <1>7
<1>9. ASSUME NEW k \in Channels
      PROVE  /\ SameMarks(s.ctl[k], t.ctl[k])
             /\ Reads(t.ctl[k]) = Reads(s.ctl[k]) /\ Writes(t.ctl[k]) = Writes(s.ctl[k])
  <2>1. CASE k = ch
    BY <1>2, <1>4, <1>8, <2>1 DEF c
  <2>2. CASE k # ch
    BY <1>8, <2>2 DEF SameMarks
  <2> QED BY <2>1, <2>2
<1>10. Awaited(t)
  BY <1>0, <1>6 DEF Awaited
<1>11. Marked(t)
  BY <1>0, <1>6, <1>9 DEF Marked, SameMarks
<1>12. Armed(t)
  BY <1>0, <1>9 DEF Armed, IsArmed, SameMarks
<1>13. Settled(t)
  <2> SUFFICES ASSUME NEW i \in 1 .. Len(s.pending)
               PROVE  Unadmitted(s.parents[s.pending[i]]) /\ Done(t, s.pending[i])
    BY <1>6 DEF Settled
  <2> DEFINE id == s.pending[i]
             k == NextAccess(s.parents[id]).ch
             op == s.parents[id].txn.op
  <2>1. Unadmitted(s.parents[id]) /\ Done(s, id) /\ id \in DOMAIN s.parents
    BY <1>0, BodyTypes DEF Settled
  <2>2. k \in Channels
    <3>1. IsParent(s.parents[id])
      BY <1>0, <2>1, BodyTypes
    <3> QED BY <2>1, <3>1, NextAccessFacts
  <2>3. ~can_reserve(s.ctl[k], op)
    BY <2>1 DEF Done
  <2> HIDE DEF k, op
  <2>4. ~can_reserve(t.ctl[k], op)
    BY <1>9, <2>2, <2>3 DEF can_reserve
  <2> HIDE DEF id
  <2>5. Done(t, id)
    BY <1>6, <2>4 DEF Done, k, op
  <2> QED BY <2>1, <2>5 DEF id
<1> QED BY <1>0, <1>3, <1>6, <1>10, <1>11, <1>12, <1>13 DEF Steady

\* A controller that started a transfer takes the place of channel ch's: what it
\* serves is in limbo.
LEMMA TransferDrive ==
  ASSUME NEW s, Steady(s, Nobody), NEW ch \in Channels, NEW step, Drives(s.ctl[ch], step),
         step.c \in TimedController, step.ids # <<>>
  PROVE  LET t == Driven(s, ch, step)
         IN  /\ Body(t, InLimbo(step.ids, ch)) /\ Awaited(t) /\ Marked(t) /\ Armed(t)
             /\ t.parents = s.parents
             /\ \A k \in 1 .. Len(step.ids) : step.ids[k] \in DOMAIN s.parents
<1> DEFINE c == s.ctl[ch]
           d == step.c
           ids == step.ids
           after == InLimbo(ids, ch)
           t == [s EXCEPT !.ctl[ch] = d]
<1>0. Body(s, Nobody) /\ Awaited(s) /\ Marked(s) /\ Armed(s)
  BY DEF Steady
<1>1. c \in TimedController /\ NoDue(c) /\ QueueFits(c) /\ ~c.fault
  BY <1>0, BodyTypes
<1>2. /\ d \in TimedController /\ SameMarks(c, d) /\ d.fault = c.fault
      /\ ids \in Seq(Ids) /\ GivesUp(c.queue, ids, d.queue)
  BY DEF Drives
<1>3. Driven(s, ch, step) = t
  BY DEF Driven
<1>s. s.ctl \in [Channels -> TimedController]
  BY <1>0, BodyTypes
<1> HIDE DEF c, d, ids
<1>4. after \in Owing /\ after \in Limbo /\ Nobody \in Limbo
  BY <1>2, InLimboFacts, OwingFacts
<1>5. /\ \A id \in Ids : after.owed[id] = Cardinality(Named(ids, id)) /\ Nobody.owed[id] = 0
      /\ \A k \in Channels : after.on[k] = (IF ch = k THEN Len(ids) ELSE 0) /\ Nobody.on[k] = 0
  BY DEF InLimbo, Nobody
<1> HIDE DEF after
<1>6. \A i \in 1 .. Len(c.queue) : c.queue[i].id \in DOMAIN s.parents
  BY <1>0 DEF Body, Known, c
<1>7. \A k \in 1 .. Len(ids) : ids[k] \in DOMAIN s.parents
  BY <1>2, <1>6 DEF GivesUp
<1>8. Replaces(s, Nobody, ch, d, after)
  <2>1. NoDue(d) /\ ~d.fault
    BY <1>1, <1>2 DEF NoDue, SameMarks
  <2>2. QueueFits(d)
    <3>1. /\ Reads(d) = ReadsOf(d.queue) /\ Writes(d) = WritesOf(d.queue)
          /\ Reads(c) = ReadsOf(c.queue) /\ Writes(c) = WritesOf(c.queue)
      BY DEF Reads, Writes, ReadsOf, WritesOf
    <3>2. ReadCapacity \in Nat /\ WriteCapacity \in Nat
      BY ControllerAssumption
    <3>3. /\ Cardinality(ReadsOf(d.queue)) \in Nat /\ Cardinality(WritesOf(d.queue)) \in Nat
          /\ Cardinality(ReadsOf(c.queue)) \in Nat /\ Cardinality(WritesOf(c.queue)) \in Nat
      <4>1. d.queue \in Seq(QueuedAccess) /\ c.queue \in Seq(QueuedAccess)
        BY <1>1, <1>2, ControllerCounts
      <4>2. ASSUME NEW q \in Seq(QueuedAccess)
            PROVE  Cardinality(ReadsOf(q)) \in Nat /\ Cardinality(WritesOf(q)) \in Nat
        <5>1. IsFiniteSet(DOMAIN q)
          <6>1. DOMAIN q = 1 .. Len(q) /\ Len(q) \in Nat
            OBVIOUS
          <6> QED BY <6>1, FS_Interval
        <5>2. IsFiniteSet(ReadsOf(q)) /\ IsFiniteSet(WritesOf(q))
          BY <5>1, FS_Subset DEF ReadsOf, WritesOf
        <5> QED BY <5>2, FS_CardinalityType
      <4> QED BY <4>1, <4>2
    <3>4. /\ Cardinality(ReadsOf(d.queue)) <= Cardinality(ReadsOf(c.queue))
          /\ Cardinality(WritesOf(d.queue)) <= Cardinality(WritesOf(c.queue))
      BY <1>2 DEF GivesUp
    <3> QED BY <1>1, <3>1, <3>2, <3>3, <3>4 DEF QueueFits
  <2>3. ASSUME NEW id \in Ids
        PROVE  Cardinality(Mine(c.queue, id)) + Nobody.owed[id] = Cardinality(Mine(d.queue, id)) + after.owed[id]
    <3>1. Cardinality(Mine(c.queue, id)) = Cardinality(Mine(d.queue, id)) + Cardinality(Named(ids, id))
      BY <1>2 DEF GivesUp
    <3>2. Cardinality(Mine(c.queue, id)) \in Nat
      <4>1. c.queue \in Seq(QueuedAccess)
        BY <1>1, ControllerCounts
      <4>2. DOMAIN c.queue = 1 .. Len(c.queue) /\ Len(c.queue) \in Nat
        BY <4>1
      <4>3. IsFiniteSet(DOMAIN c.queue)
        BY <4>2, FS_Interval
      <4>4. IsFiniteSet(Mine(c.queue, id))
        BY <4>3, FS_Subset DEF Mine
      <4> QED BY <4>4, FS_CardinalityType
    <3> QED BY <1>5, <3>1, <3>2
  <2>4. c.outstanding - Len(c.queue) - Nobody.on[ch] = d.outstanding - Len(d.queue) - after.on[ch]
    <3>1. Len(c.queue) = Len(d.queue) + Len(ids) /\ d.outstanding = c.outstanding
      BY <1>2 DEF GivesUp, SameMarks
    <3>2. c.outstanding \in Nat /\ Len(d.queue) \in Nat
      BY <1>1, <1>2, ControllerCounts
    <3>3. Len(ids) \in Nat
      BY <1>2
    <3>4. Nobody.on[ch] = 0 /\ after.on[ch] = Len(ids)
      BY <1>5
    <3> QED BY <3>1, <3>2, <3>3, <3>4
  <2>5. \A k \in Channels \ {ch} : after.on[k] = Nobody.on[k]
    BY <1>5
  <2>6. \A i \in 1 .. Len(d.queue) : d.queue[i].id \in DOMAIN s.parents
    BY <1>2, <1>6 DEF GivesUp
  <2>7. ASSUME NEW id \in Ids, after.owed[id] > 0 PROVE id \in DOMAIN s.parents
    <3>1. Named(ids, id) # {}
      <4>1. Cardinality({}) = 0
        BY FS_EmptySet
      <4>2. after.owed[id] = Cardinality(Named(ids, id))
        BY <1>5
      <4>3. Cardinality(Named(ids, id)) # 0
        BY <2>7, <4>2
      <4> QED BY <4>1, <4>3
    <3> QED BY <1>7, <3>1 DEF Named
  <2> QED BY <1>2, <2>1, <2>2, <2>3, <2>4, <2>5, <2>6, <2>7 DEF Replaces, c
<1>9. /\ Body(t, after) /\ t.ctl = [s.ctl EXCEPT ![ch] = d] /\ t.parents = s.parents
      /\ t.pending = s.pending /\ t.agenda = s.agenda /\ t.waiting = s.waiting
  BY <1>0, <1>4, <1>8, ControllerReplaced
<1> HIDE DEF t
<1>10. ASSUME NEW k \in Channels PROVE SameMarks(s.ctl[k], t.ctl[k])
  <2>1. CASE k = ch
    BY <1>2, <1>9, <1>s, <2>1 DEF c
  <2>2. CASE k # ch
    BY <1>9, <1>s, <2>2 DEF SameMarks
  <2> QED BY <2>1, <2>2
<1>11. Awaited(t)
  BY <1>0, <1>9 DEF Awaited
<1>12. Marked(t)
  BY <1>0, <1>9, <1>10 DEF Marked, SameMarks
<1>13. Armed(t)
  BY <1>0, <1>10 DEF Armed, IsArmed, SameMarks
<1> QED BY <1>3, <1>7, <1>9, <1>11, <1>12, <1>13 DEF after, ids

\* The next refresh of a channel with queued accesses is claimed, and still to come.
LEMMA RefreshIsAhead ==
  ASSUME NEW s, Steady(s, Nobody), NEW ch \in Channels, s.ctl[ch].queue # <<>>
  PROVE  s.ctl[ch].next_refresh_due = None \/ s.ctl[ch].next_refresh_due >= 0
<1> DEFINE c == s.ctl[ch]
<1>0. Body(s, Nobody) /\ Marked(s) /\ Armed(s)
  BY DEF Steady
<1>1. c \in TimedController /\ s.ctl \in [Channels -> TimedController] /\ s.agenda \in Seq(Event)
      /\ \A i \in 1 .. Len(s.agenda) : s.agenda[i] \in Event
  BY <1>0, BodyTypes
<1>2. c.outstanding = LiveOn(s, ch) + Nobody.on[ch]
  BY <1>0 DEF Body, Balanced
<1>3. Nobody.on[ch] = 0
  BY DEF Nobody
<1>4. c.outstanding \in Int /\ c.queue \in Seq(QueuedAccess) /\ Len(c.queue) \in Nat
  BY <1>1, ControllerCounts
<1>5. Len(c.queue) > 0
  BY <1>4
<1>6. Cardinality(QueueOn(s, ch)) = Len(c.queue)
  BY <1>1, QueueOnCount
<1>7. LiveOn(s, ch) = Cardinality(QueueOn(s, ch)) + Cardinality(FlightOn(s, ch)) /\ Cardinality(FlightOn(s, ch)) \in Nat
  BY <1>1, CountsAreNat
<1>8. c.outstanding > 0
  BY <1>2, <1>3, <1>4, <1>5, <1>6, <1>7
<1>9. c.refresh_due_at = c.next_refresh_due
  BY <1>0, <1>8 DEF Armed, IsArmed
<1>10. SUFFICES ASSUME c.next_refresh_due # None PROVE c.next_refresh_due >= 0
  OBVIOUS
<1>11. PICK i \in 1 .. Len(s.agenda) : s.agenda[i].at = c.refresh_due_at
  BY <1>0, <1>9, <1>10 DEF Marked, HasEvent
<1>12. s.agenda[i].at \in Nat
  BY <1>1 DEF Event, EventRecord
<1> QED BY <1>9, <1>11, <1>12

\* drive_controller leaves nothing in limbo.
LEMMA DriveToFacts ==
  ASSUME NEW s, Steady(s, Nobody), NEW ch \in Channels
  PROVE  Steady(drive_controller(s, ch), Nobody)
<1> DEFINE step == drive(s.ctl[ch])
           t == IF step.ids = <<>> THEN Driven(s, ch, step)
                ELSE TransferStarted(pump_admissions(Transferred(Driven(s, ch, step), step)), ch, step)
<1>1. drive_controller(s, ch) = AskedWake(t, ch, step.wake_at)
  BY DEF drive_controller, DriveTo
<1>2. Drives(s.ctl[ch], step)
  <2>1. s.ctl[ch] \in TimedController
    BY BodyTypes DEF Steady
  <2> QED BY <2>1, TimedIsController, DriveFacts
<1>c. step.c \in TimedController
  <2>1. s.ctl[ch] \in TimedController
    BY BodyTypes DEF Steady
  <2>2. s.ctl[ch].queue # <<>> => s.ctl[ch].next_refresh_due = None \/ s.ctl[ch].next_refresh_due >= 0
    BY RefreshIsAhead
  <2> QED BY <2>1, <2>2, DriveIsTimed
<1> HIDE DEF step
<1>3. Steady(t, Nobody)
  <2>1. CASE step.ids = <<>>
    <3>1. t = Driven(s, ch, step)
      BY <2>1
    <3> QED BY <1>2, <1>c, <2>1, <3>1, IdleDrive
  <2>2. CASE step.ids # <<>>
    <3> DEFINE limbo == InLimbo(step.ids, ch)
               a == Driven(s, ch, step)
               b == Counted(a, "physical", 1)
               c == Counted(b, "merged", Len(step.ids) - 1)
               p == pump_admissions(c)
               e == schedule_event(p, step.done_at, "complete", ch, step)
               f == schedule_event(e, 0, "capacity", ch, NoAccess)
    <3>1. t = f
      BY <2>2 DEF TransferStarted, Transferred
    <3>2. /\ Body(a, limbo) /\ Awaited(a) /\ Marked(a) /\ Armed(a) /\ a.parents = s.parents
          /\ \A k \in 1 .. Len(step.ids) : step.ids[k] \in DOMAIN s.parents
      BY <1>2, <1>c, <2>2, TransferDrive
    <3>3. limbo \in Owing /\ Nobody \in Owing /\ Delivers(limbo, step.ids, ch, Nobody) /\ Nobody \in Limbo
      BY <1>2, InLimboFacts, OwingFacts DEF Drives
    <3> HIDE DEF a, limbo, t
    <3>4. Body(b, limbo) /\ b.ctl = a.ctl /\ b.parents = a.parents /\ b.agenda = a.agenda
      BY <3>2, CountedFacts
    <3> HIDE DEF b
    <3>5. Body(c, limbo) /\ c.ctl = b.ctl /\ c.parents = b.parents /\ c.agenda = b.agenda
      BY <3>4, CountedFacts
    <3> HIDE DEF c
    <3>6. Awaited(c) /\ Marked(c) /\ Armed(c)
      BY <3>2, <3>4, <3>5 DEF Awaited, Marked, Armed
    <3>7. /\ Body(p, limbo) /\ Awaited(p) /\ Marked(p) /\ Armed(p) /\ Settled(p)
          /\ DOMAIN p.parents = DOMAIN c.parents
      BY <3>3, <3>5, <3>6, PumpFacts
    <3> HIDE DEF p
    <3>8. Carries(p, "complete", step)
      BY <1>2, <2>2, <3>2, <3>4, <3>5, <3>7 DEF Carries, Drives
    <3>9. Body(e, Nobody) /\ SameBut(p, e) /\ KeepsEvents(p.agenda, e.agenda)
      <4>1. step.done_at \in Nat /\ "complete" \in Kind
        BY <1>2, <2>2 DEF Drives, Kind
      <4> QED BY <3>3, <3>7, <3>8, <4>1, EventScheduled
    <3> HIDE DEF e
    <3>10. Steady(e, Nobody)
      BY <3>3, <3>7, <3>9, SteadyScheduled
    <3>11. Body(f, Nobody) /\ SameBut(e, f) /\ KeepsEvents(e.agenda, f.agenda)
      <4>1. 0 \in Nat /\ "capacity" \in Kind
        BY DEF Kind
      <4> QED BY <3>9, <4>1, PlainEventScheduled
    <3> HIDE DEF f
    <3>12. Steady(f, Nobody)
      BY <3>3, <3>10, <3>11, SteadyScheduled DEF Steady
    <3> QED BY <3>1, <3>12
  <2> QED BY <2>1, <2>2
<1> HIDE DEF t
<1>4. CASE step.wake_at = None
  BY <1>1, <1>3, <1>4 DEF AskedWake
<1>5. CASE step.wake_at # None
  <2>1. step.wake_at \in Int
    BY <1>2, <1>5 DEF Drives, Optional
  <2> QED BY <1>1, <1>3, <1>5, <2>1, SteadyWoken DEF AskedWake
<1> QED BY <1>4, <1>5

-----------------------------------------------------------------------------
(* The callbacks of wakeups, refreshes and returned capacity.              *)

\* Full queues stay full when no access comes or goes.
LEMMA QueuesKept ==
  ASSUME NEW s, NEW t, NEW limbo, Body(s, limbo), t.parents = s.parents, t.pending = s.pending,
         \A k \in Channels : t.ctl[k].queue = s.ctl[k].queue
  PROVE  (Settled(s) => Settled(t)) /\ (Awaited(s) => Awaited(t))
<1>1. ASSUME NEW id \in DOMAIN s.parents, Unadmitted(s.parents[id]), Done(s, id) PROVE Done(t, id)
  <2> DEFINE k == NextAccess(s.parents[id]).ch
             op == s.parents[id].txn.op
  <2>1. k \in Channels
    <3>1. IsParent(s.parents[id])
      BY BodyTypes
    <3> QED BY <1>1, <3>1, NextAccessFacts
  <2>2. ~can_reserve(s.ctl[k], op)
    BY <1>1 DEF Done
  <2> HIDE DEF k, op
  <2>3. ~can_reserve(t.ctl[k], op)
    BY <2>1, <2>2 DEF can_reserve, Reads, Writes
  <2> QED BY <2>3 DEF Done, k, op
<1>2. \A i \in 1 .. Len(s.pending) : s.pending[i] \in DOMAIN s.parents
  BY BodyTypes
<1> QED BY <1>1, <1>2 DEF Settled, Awaited

\* A callback other than a completion's has no access in limbo.
LEMMA PlainEvent ==
  ASSUME NEW s, NEW e, AtEventOf(s, e), e.kind # "complete"
  PROVE  /\ Body(s, Nobody) /\ Awaited(s) /\ Armed(s) /\ Settled(s) /\ MarkedBut(s, e.kind, e.ch, 0)
         /\ e.ch \in Channels /\ Nobody \in Owing
<1>1. e \in Event /\ e.ids = <<>>
  BY DEF AtEventOf, Event
<1>2. e.ids \in Seq(Ids) /\ e.ch \in Channels
  BY <1>1, EventTypes
<1>3. InLimbo(e.ids, e.ch) = Nobody /\ Nobody \in Owing
  BY <1>1, <1>2, InLimboFacts
<1> QED BY <1>2, <1>3 DEF AtEventOf

\* The wake-up callback clears the mark of the event that ran,
LEMMA WakeIsCleared ==
  ASSUME NEW s, NEW e, AtEventOf(s, e), e.kind = "wake"
  PROVE  Steady([s EXCEPT !.ctl[e.ch] = clear_wakeup(s.ctl[e.ch], 0)], Nobody)
<1> DEFINE ch == e.ch
           c == s.ctl[ch]
           d == clear_wakeup(c, 0)
           t == [s EXCEPT !.ctl[ch] = d]
<1>0. /\ Body(s, Nobody) /\ Awaited(s) /\ Armed(s) /\ Settled(s) /\ MarkedBut(s, "wake", ch, 0)
      /\ ch \in Channels /\ Nobody \in Owing
  BY PlainEvent
<1> HIDE DEF ch
<1>1. c \in TimedController /\ NoDue(c) /\ s.ctl \in [Channels -> TimedController]
  BY <1>0, BodyTypes
<1>3. /\ Remarked(c, d) /\ d.refresh_due_at = c.refresh_due_at
      /\ d.wakeup_at = IF c.wakeup_at = 0 THEN None ELSE c.wakeup_at
  <2>1. d = IF c.wakeup_at = 0 THEN [c EXCEPT !.wakeup_at = None] ELSE c
    BY DEF clear_wakeup
  <2>2. d \in TimedController
    <3>1. None \in Optional(Int)
      BY DEF Optional
    <3>2. [c EXCEPT !.wakeup_at = None] \in TimedController
      BY <1>1, <3>1, MarksAreTimed
    <3> QED BY <1>1, <2>1, <3>2
  <2> HIDE DEF c
  <2>3. /\ d.queue = c.queue /\ d.outstanding = c.outstanding /\ d.fault = c.fault
        /\ d.next_refresh_due = c.next_refresh_due /\ d.refresh_due_at = c.refresh_due_at
    BY <1>1, <2>1 DEF TimedController, Controller
  <2>4. d.wakeup_at = IF c.wakeup_at = 0 THEN None ELSE c.wakeup_at
    BY <1>1, <2>1 DEF TimedController, Controller
  <2> QED BY <1>1, <2>2, <2>3, <2>4 DEF Remarked, NoDue
<1> HIDE DEF c, d
<1>4. /\ Body(t, Nobody) /\ SameWorkload(s, t) /\ t.agenda = s.agenda
      /\ t.ctl[ch] = d /\ \A k \in Channels \ {ch} : t.ctl[k] = s.ctl[k]
  BY <1>0, <1>3, MarksReplaced DEF c
<1> HIDE DEF t
<1>5. Marked(t)
  <2>1. ASSUME NEW k \in Channels, k # ch
        PROVE  /\ t.ctl[k].wakeup_at # None => HasEvent(t.agenda, "wake", k, t.ctl[k].wakeup_at)
               /\ t.ctl[k].refresh_due_at # None => HasEvent(t.agenda, "refresh", k, t.ctl[k].refresh_due_at)
    BY <1>0, <1>4, <2>1 DEF MarkedBut, MarkOf
  <2>2. t.ctl[ch].wakeup_at # None => HasEvent(t.agenda, "wake", ch, t.ctl[ch].wakeup_at)
    <3>1. MarkOf(s, c.wakeup_at, "wake", ch, "wake", ch, 0)
      BY <1>0 DEF MarkedBut, c
    <3> QED BY <1>3, <1>4, <3>1 DEF MarkOf
  <2>3. t.ctl[ch].refresh_due_at # None => HasEvent(t.agenda, "refresh", ch, t.ctl[ch].refresh_due_at)
    <3>1. MarkOf(s, c.refresh_due_at, "refresh", ch, "wake", ch, 0)
      BY <1>0 DEF MarkedBut, c
    <3> QED BY <1>3, <1>4, <3>1 DEF MarkOf
  <2> QED BY <2>1, <2>2, <2>3 DEF Marked
<1>6. Armed(t)
  <2> SUFFICES ASSUME NEW k \in Channels, t.ctl[k].outstanding > 0
               PROVE  t.ctl[k].refresh_due_at = t.ctl[k].next_refresh_due
    BY DEF Armed, IsArmed
  <2>1. t.ctl[k].refresh_due_at = s.ctl[k].refresh_due_at
    BY <1>3, <1>4 DEF c
  <2>2. t.ctl[k].outstanding = s.ctl[k].outstanding /\ t.ctl[k].next_refresh_due = s.ctl[k].next_refresh_due
    BY <1>4 DEF SameWorkload
  <2> QED BY <1>0, <2>1, <2>2 DEF Armed, IsArmed
<1>7. Awaited(t) /\ Settled(t)
  BY <1>0, <1>4, StillDone
<1>8. Steady(t, Nobody)
  BY <1>0, <1>4, <1>5, <1>6, <1>7 DEF Steady
<1> QED BY <1>8 DEF ch, c, d, t

\* and drives the channel.
LEMMA WakeCallbackFacts ==
  ASSUME NEW s, NEW e, AtEventOf(s, e), e.kind = "wake"
  PROVE  Steady(WakeCallback(s, e.ch), Nobody)
<1> DEFINE t == [s EXCEPT !.ctl[e.ch] = clear_wakeup(s.ctl[e.ch], 0)]
<1>1. Body(s, Nobody) /\ e.ch \in Channels
  BY PlainEvent
<1>2. s.ctl \in [Channels -> TimedController]
  BY <1>1, BodyTypes
<1>3. WakeCallback(s, e.ch) = drive_controller(t, e.ch)
  BY <1>1, <1>2 DEF WakeCallback
<1>4. Steady(t, Nobody)
  BY WakeIsCleared
<1> HIDE DEF t
<1> QED BY <1>1, <1>3, <1>4, DriveToFacts

\* The refresh callback lets a refresh fall due, wakes the channel, and claims the
\* next refresh unless the channel is idle.
LEMMA RefreshCallbackFacts ==
  ASSUME NEW s, NEW e, AtEventOf(s, e), e.kind = "refresh"
  PROVE  Steady(RefreshCallback(s, e.ch), Nobody)
<1> DEFINE ch == e.ch
           c == s.ctl[ch]
           d == handle_refresh_event(c)
           t == [s EXCEPT !.ctl[ch] = d]
           w == schedule_controller_wake(t, ch, 0)
           x == schedule_refresh_due(w, ch)
           z == RefreshCallback(s, ch)
<1>0. /\ Body(s, Nobody) /\ Awaited(s) /\ Armed(s) /\ Settled(s) /\ MarkedBut(s, "refresh", ch, 0)
      /\ ch \in Channels /\ Nobody \in Owing
  BY PlainEvent
<1> HIDE DEF ch
<1>1. c \in TimedController /\ NoDue(c) /\ s.ctl \in [Channels -> TimedController] /\ c.outstanding \in Nat
  BY <1>0, BodyTypes, ControllerCounts
<1>2. z = IF t.ctl[ch].outstanding = 0 THEN w ELSE x
  BY <1>0, <1>1 DEF RefreshCallback, WakeAndRefresh
<1>3. /\ d \in TimedController /\ d.queue = c.queue /\ d.outstanding = c.outstanding
      /\ d.fault = c.fault /\ d.wakeup_at = c.wakeup_at
      /\ c.refresh_due_at # 0 => d = c
      /\ c.refresh_due_at = 0 => /\ d.refresh_due_at = None
                                 /\ d.next_refresh_due = IF c.next_refresh_due = 0 THEN RefreshInterval
                                                         ELSE c.next_refresh_due
  <2>1. c \in Controller /\ d \in TimedController
    BY <1>1, TimedIsController, RefreshEventIsTimed
  <2> HIDE DEF c, d
  <2> QED BY <2>1, HandleRefreshFacts DEF d
<1>4. None \notin Int /\ RefreshInterval \in Nat
  BY StandardAssumption, ControllerAssumption
<1> HIDE DEF c, d, z
<1>5. NoDue(d)
  BY <1>1, <1>3, <1>4 DEF NoDue
<1>6. /\ Body(t, Nobody) /\ t.ctl = [s.ctl EXCEPT ![ch] = d] /\ t.parents = s.parents
      /\ t.pending = s.pending /\ t.agenda = s.agenda /\ t.waiting = s.waiting
  BY <1>0, <1>3, <1>5, SameQueueReplaced DEF c
<1> HIDE DEF t
<1>7. t.ctl[ch] = d /\ \A k \in Channels \ {ch} : t.ctl[k] = s.ctl[k]
  BY <1>0, <1>1, <1>6
<1>8. Marked(t)
  <2>1. ASSUME NEW k \in Channels, k # ch
        PROVE  /\ t.ctl[k].wakeup_at # None => HasEvent(t.agenda, "wake", k, t.ctl[k].wakeup_at)
               /\ t.ctl[k].refresh_due_at # None => HasEvent(t.agenda, "refresh", k, t.ctl[k].refresh_due_at)
    BY <1>0, <1>6, <1>7, <2>1 DEF MarkedBut, MarkOf
  <2>2. t.ctl[ch].wakeup_at # None => HasEvent(t.agenda, "wake", ch, t.ctl[ch].wakeup_at)
    <3>1. MarkOf(s, c.wakeup_at, "wake", ch, "refresh", ch, 0)
      BY <1>0 DEF MarkedBut, c
    <3> QED BY <1>3, <1>6, <1>7, <3>1 DEF MarkOf
  <2>3. t.ctl[ch].refresh_due_at # None => HasEvent(t.agenda, "refresh", ch, t.ctl[ch].refresh_due_at)
    <3>1. MarkOf(s, c.refresh_due_at, "refresh", ch, "refresh", ch, 0)
      BY <1>0 DEF MarkedBut, c
    <3> QED BY <1>3, <1>6, <1>7, <3>1 DEF MarkOf
  <2> QED BY <2>1, <2>2, <2>3 DEF Marked
<1>9. \A k \in Channels : t.ctl[k].queue = s.ctl[k].queue /\ t.ctl[k].outstanding = s.ctl[k].outstanding
  BY <1>3, <1>7 DEF c
<1>10. Settled(t) /\ Awaited(t)
  BY <1>0, <1>6, <1>9, QueuesKept
<1>11. Body(w, Nobody) /\ Marked(w) /\ SameWorkload(t, w) /\ SameRefreshMarks(t, w)
  BY <1>0, <1>6, <1>8, WakeScheduled
<1> HIDE DEF w
<1>12. Settled(w) /\ Awaited(w)
  BY <1>6, <1>10, <1>11, StillDone
<1>13. c.outstanding > 0 => c.refresh_due_at = c.next_refresh_due
  BY <1>0 DEF Armed, IsArmed, c
<1>14. ASSUME NEW k \in Channels \ {ch}, s.ctl[k].outstanding > 0
       PROVE  w.ctl[k].refresh_due_at = w.ctl[k].next_refresh_due
  <2>1. s.ctl[k].refresh_due_at = s.ctl[k].next_refresh_due
    BY <1>0, <1>14 DEF Armed, IsArmed
  <2> QED BY <1>7, <1>11, <2>1 DEF SameWorkload, SameRefreshMarks
<1>15. /\ w.ctl[ch].refresh_due_at = d.refresh_due_at /\ w.ctl[ch].next_refresh_due = d.next_refresh_due
       /\ \A k \in Channels : w.ctl[k].outstanding = s.ctl[k].outstanding
  BY <1>0, <1>7, <1>9, <1>11 DEF SameWorkload, SameRefreshMarks
<1>16. CASE c.outstanding = 0
  <2>1. z = w
    BY <1>2, <1>3, <1>7, <1>16
  <2>2. Armed(w)
    <3> SUFFICES ASSUME NEW k \in Channels, w.ctl[k].outstanding > 0
                 PROVE  w.ctl[k].refresh_due_at = w.ctl[k].next_refresh_due
      BY DEF Armed, IsArmed
    <3>1. k # ch
      BY <1>15, <1>16 DEF c
    <3> QED BY <1>14, <1>15, <3>1
  <2> QED BY <1>0, <1>11, <1>12, <2>1, <2>2 DEF Steady, z, ch
<1>17. CASE c.outstanding # 0
  <2>1. z = x
    BY <1>2, <1>3, <1>7, <1>17
  <2>2. c.refresh_due_at = c.next_refresh_due
    BY <1>1, <1>13, <1>17
  <2>3. \/ d.refresh_due_at = d.next_refresh_due
        \/ d.next_refresh_due \in Nat /\ d.next_refresh_due # None
    BY <1>3, <1>4, <2>2
  <2>4. Claimable(w.ctl[ch])
    BY <1>15, <2>3 DEF Claimable
  <2>5. /\ Body(x, Nobody) /\ Marked(x) /\ SameWorkload(w, x) /\ Claimed(x.ctl[ch])
        /\ \A k \in Channels \ {ch} : x.ctl[k].refresh_due_at = w.ctl[k].refresh_due_at
    BY <1>0, <1>11, <2>4, RefreshScheduled
  <2>6. w.ctl[ch].next_refresh_due = None => x = w
    BY DEF schedule_refresh_due, refresh_unclaimed
  <2> HIDE DEF x
  <2>7. x.ctl[ch].refresh_due_at = x.ctl[ch].next_refresh_due
    <3>1. CASE w.ctl[ch].next_refresh_due = None
      BY <1>15, <2>3, <2>6, <3>1
    <3>2. CASE w.ctl[ch].next_refresh_due # None
      <4>1. x.ctl[ch].next_refresh_due = w.ctl[ch].next_refresh_due
        BY <1>0, <2>5 DEF SameWorkload
      <4> QED BY <2>5, <3>2, <4>1 DEF Claimed
    <3> QED BY <3>1, <3>2
  <2>8. Armed(x)
    <3> SUFFICES ASSUME NEW k \in Channels, x.ctl[k].outstanding > 0
                 PROVE  x.ctl[k].refresh_due_at = x.ctl[k].next_refresh_due
      BY DEF Armed, IsArmed
    <3>1. CASE k = ch
      BY <2>7, <3>1
    <3>2. CASE k # ch
      <4>1. /\ x.ctl[k].outstanding = w.ctl[k].outstanding
            /\ x.ctl[k].next_refresh_due = w.ctl[k].next_refresh_due
        BY <2>5 DEF SameWorkload
      <4>2. w.ctl[k].refresh_due_at = w.ctl[k].next_refresh_due
        BY <1>14, <1>15, <3>2, <4>1
      <4> QED BY <2>5, <3>2, <4>1, <4>2
    <3> QED BY <3>1, <3>2
  <2>9. Settled(x) /\ Awaited(x)
    BY <1>11, <1>12, <2>5, StillDone
  <2> QED BY <1>0, <2>1, <2>5, <2>8, <2>9 DEF Steady, z, ch
<1> QED BY <1>16, <1>17

\* The capacity callback hints at every client that waits.
LEMMA CapacityCallbackFacts ==
  ASSUME NEW s, NEW e, AtEventOf(s, e), e.kind = "capacity"
  PROVE  Steady([s EXCEPT !.waiting = {}], Nobody)
<1> DEFINE t == [s EXCEPT !.waiting = {}]
<1>0. /\ Body(s, Nobody) /\ Awaited(s) /\ Armed(s) /\ Settled(s) /\ MarkedBut(s, "capacity", e.ch, 0)
      /\ Nobody \in Owing
  BY PlainEvent
<1>1. Marked(s)
  BY <1>0, MarkedAll
<1>2. Steady(s, Nobody)
  BY <1>0, <1>1 DEF Steady
<1>3. /\ Body(t, Nobody) /\ t.ctl = s.ctl /\ t.parents = s.parents /\ t.pending = s.pending
      /\ t.agenda = s.agenda
  <2>1. {} \in SUBSET Ids /\ {} \cap DOMAIN s.parents = {}
    OBVIOUS
  <2> QED BY <1>0, <2>1, WaitingReplaced
<1> HIDE DEF t
<1>4. Steady(t, Nobody)
  BY <1>2, <1>3, SteadySame
<1> QED BY <1>4 DEF t

-----------------------------------------------------------------------------
(* finish_access, for every access of a completion.                        *)

\* One access of transaction id on channel ch is no longer in limbo.
Finishes(limbo, id, ch, after) ==
    /\ limbo.owed[id] = after.owed[id] + 1 /\ \A x \in Ids \ {id} : limbo.owed[x] = after.owed[x]
    /\ limbo.on[ch] = after.on[ch] + 1 /\ \A k \in Channels \ {ch} : limbo.on[k] = after.on[k]

\* The accounts after the controller's part of it, and before the parent's.
HalfFinished(limbo, after) == [owed |-> limbo.owed, on |-> after.on]

\* The accounts halfway through finish_access: the channel's is settled, the
\* request's not yet.
LEMMA HalfFinishedFacts ==
  ASSUME NEW limbo \in Owing, NEW after \in Owing
  PROVE  LET half == HalfFinished(limbo, after)
         IN  half \in Limbo /\ half.owed = limbo.owed /\ half.on = after.on
<1>1. limbo.owed \in [Ids -> Nat] /\ after.on \in [Channels -> Nat]
  BY DEF Owing
<1>2. limbo.owed \in [Ids -> Int] /\ after.on \in [Channels -> Int]
  BY <1>1
<1> QED BY <1>2 DEF HalfFinished, Limbo

\* A controller with accesses outstanding counts one less.
LEMMA CompleteAccessFacts ==
  ASSUME NEW c \in TimedController, NoDue(c), c.outstanding > 0
  PROVE  LET d == complete_access(c)
         IN  /\ d \in TimedController /\ NoDue(d) /\ d.queue = c.queue /\ d.fault = c.fault
             /\ d.outstanding = c.outstanding - 1 /\ d.wakeup_at = c.wakeup_at
             /\ d.refresh_due_at = c.refresh_due_at /\ d.next_refresh_due = c.next_refresh_due
<1> DEFINE d == complete_access(c)
<1>1. c.outstanding \in Nat
  BY ControllerCounts
<1>2. d = [c EXCEPT !.outstanding = c.outstanding - 1]
  BY <1>1 DEF complete_access
<1>3. c.outstanding - 1 \in Nat
  BY <1>1
<1> HIDE DEF d
<1>4. /\ d \in TimedController /\ d.queue = c.queue /\ d.fault = c.fault
      /\ d.outstanding = c.outstanding - 1 /\ d.wakeup_at = c.wakeup_at
      /\ d.refresh_due_at = c.refresh_due_at /\ d.next_refresh_due = c.next_refresh_due
  <2>1. d \in TimedController
    <3> DEFINE n == c.outstanding - 1
    <3>1. n \in Nat /\ None \in Optional(Int)
      BY <1>3 DEF Optional
    <3>2. d = [c EXCEPT !.outstanding = n]
      BY <1>2
    <3> HIDE DEF n
    <3>3. /\ [c EXCEPT !.wakeup_at = None] \in TimedController
          /\ [c EXCEPT !.refresh_due_at = None] \in TimedController
          /\ [c EXCEPT !.outstanding = n] \in TimedController
      BY <3>1, MarksAreTimed
    <3> QED BY <3>2, <3>3
  <2> QED BY <1>2, <1>3, <2>1 DEF TimedController, Controller
<1>5. NoDue(d)
  BY <1>4 DEF NoDue
<1> QED BY <1>4, <1>5 DEF d

\* A parent with one access less to wait for.
LEMMA ParentFinished ==
  ASSUME NEW p, IsParent(p), NEW stages
  PROVE  LET q == [p EXCEPT !.remaining = p.remaining - 1, !.stages = stages]
         IN  /\ IsParent(q) /\ q.txn = p.txn /\ q.admitted = p.admitted /\ q.remaining = p.remaining - 1
             /\ (Unadmitted(q) <=> Unadmitted(p))
<1> DEFINE n == p.remaining - 1
           q == [p EXCEPT !.remaining = n, !.stages = stages]
<1>1. n \in Int
  BY DEF IsParent
<1> HIDE DEF n
<1>p. p = [txn |-> p.txn, admitted |-> p.admitted, remaining |-> p.remaining, arrival |-> p.arrival, stages |-> p.stages]
  BY DEF IsParent
<1>q. q = [p EXCEPT !.remaining = n, !.stages = stages]
  OBVIOUS
<1> HIDE DEF q
<1>2. q = [txn |-> q.txn, admitted |-> q.admitted, remaining |-> q.remaining, arrival |-> q.arrival, stages |-> q.stages]
  BY <1>p, <1>q
<1>3. q.txn = p.txn /\ q.admitted = p.admitted /\ q.remaining = n
  BY <1>p, <1>q
<1>4. q.arrival = p.arrival
  BY <1>p, <1>q
<1>5. p.txn \in Transactions /\ p.admitted \in 0 .. Len(p.txn.accesses) /\ p.arrival \in IF KeepRecords THEN Int ELSE {None}
  BY DEF IsParent
<1>6. IsParent(q)
  BY <1>1, <1>2, <1>3, <1>4, <1>5 DEF IsParent
<1> QED BY <1>3, <1>6 DEF Unadmitted, q, n

\* The state between the two parts of finish_access: of the parent id it is not
\* known that it has something left to wait for.
SteadyBut(s, id, limbo) ==
    /\ Body(s, limbo) /\ Marked(s) /\ Armed(s) /\ Settled(s) /\ limbo \in Owing
    /\ \A x \in DOMAIN s.parents \ {id} : s.parents[x].remaining = 0 => Unadmitted(s.parents[x])

Finished(s, access) ==
    [s EXCEPT !.ctl[access.ch] = complete_access(@),
              !.parents[access.id].remaining = @ - 1,
              !.parents[access.id].stages = access.stages]

\* Controller and parent count one access less.
LEMMA FinishedFacts ==
  ASSUME NEW s, NEW limbo, Steady(s, limbo), NEW access, access.id \in Ids, access.ch \in Channels,
         NEW after \in Owing, Finishes(limbo, access.id, access.ch, after)
  PROVE  LET t == Finished(s, access)
         IN  /\ SteadyBut(t, access.id, after) /\ access.id \in DOMAIN t.parents
             /\ DOMAIN t.parents = DOMAIN s.parents /\ t.waiting = s.waiting
<1> DEFINE id == access.id
           ch == access.ch
           stages == access.stages
           c == s.ctl[ch]
           d == complete_access(c)
           p == s.parents[id]
           q == [p EXCEPT !.remaining = p.remaining - 1, !.stages = stages]
           half == HalfFinished(limbo, after)
           u == [s EXCEPT !.ctl[ch] = d]
           v == [u EXCEPT !.parents[id] = q]
           w == [s EXCEPT !.ctl[ch] = complete_access(@),
                          !.parents[id].remaining = @ - 1, !.parents[id].stages = stages]
<1>w. Finished(s, access) = w
  BY DEF Finished
<1> HIDE DEF stages
<1>0. /\ id \in Ids /\ ch \in Channels /\ Finishes(limbo, id, ch, after)
      /\ Body(s, limbo) /\ Awaited(s) /\ Marked(s) /\ Armed(s) /\ Settled(s) /\ limbo \in Owing
  BY DEF Steady
<1> HIDE DEF id, ch
<1>1. /\ limbo.owed[id] > 0 /\ limbo.on[ch] > 0 /\ limbo.on[ch] \in Nat /\ limbo.owed[id] \in Nat
      /\ after.on[ch] \in Nat /\ after.owed[id] \in Nat
  <2>1. /\ limbo.on[ch] \in Nat /\ limbo.owed[id] \in Nat /\ after.on[ch] \in Nat /\ after.owed[id] \in Nat
    BY <1>0, OwingFacts
  <2> QED BY <1>0, <2>1 DEF Finishes
<1>2. id \in DOMAIN s.parents
  BY <1>0, <1>1 DEF Body, Known
<1>3. /\ c \in TimedController /\ NoDue(c) /\ QueueFits(c) /\ ~c.fault /\ IsState(s) /\ IsParent(p)
      /\ s.ctl \in [Channels -> TimedController] /\ s.agenda \in Seq(Event)
      /\ s.parents = [x \in DOMAIN s.parents |-> s.parents[x]]
  BY <1>0, <1>2, BodyTypes DEF Body, WellFormed
<1>4. c.outstanding > 0
  <2>1. c.outstanding = LiveOn(s, ch) + limbo.on[ch]
    BY <1>0 DEF Body, Balanced
  <2>2. LiveOn(s, ch) \in Nat
    <3>1. /\ Cardinality(QueueOn(s, ch)) \in Nat /\ Cardinality(FlightOn(s, ch)) \in Nat
          /\ LiveOn(s, ch) = Cardinality(QueueOn(s, ch)) + Cardinality(FlightOn(s, ch))
          /\ LiveOf(s, id) = Cardinality(QueueOf(s, id)) + Cardinality(FlightOf(s, id))
      BY <1>3, CountsAreNat
    <3> QED BY <3>1
  <2> QED BY <1>1, <2>1, <2>2
<1>5. /\ d \in TimedController /\ NoDue(d) /\ d.queue = c.queue /\ d.fault = c.fault
      /\ d.outstanding = c.outstanding - 1 /\ d.wakeup_at = c.wakeup_at
      /\ d.refresh_due_at = c.refresh_due_at /\ d.next_refresh_due = c.next_refresh_due
  BY <1>3, <1>4, CompleteAccessFacts
<1>6. /\ IsParent(q) /\ q.txn = p.txn /\ q.admitted = p.admitted /\ q.remaining = p.remaining - 1
      /\ (Unadmitted(q) <=> Unadmitted(p))
  BY <1>3, ParentFinished
<1> HIDE DEF d, q
<1>7. w = v
  <2>1. w.ctl = [s.ctl EXCEPT ![ch] = d]
    BY <1>0, <1>3 DEF IsState, d
  <2>2. w.parents = [s.parents EXCEPT ![id] = q]
    <3>1. w.parents = [s.parents EXCEPT ![id].remaining = @ - 1, ![id].stages = stages]
      BY <1>3 DEF IsState
    <3> QED BY <1>2, <1>3, <3>1 DEF q
  <2>3. w.pending = s.pending /\ w.agenda = s.agenda
    BY <1>3 DEF IsState
  <2>4. w.waiting = s.waiting /\ w.stats = s.stats
    BY <1>3 DEF IsState
  <2>5. IsState(w)
    <3> DEFINE x == [s EXCEPT !.ctl[ch] = complete_access(@)]
               y == [x EXCEPT !.parents[id].remaining = @ - 1]
               z == [y EXCEPT !.parents[id].stages = stages]
    <3>1. w = z
      OBVIOUS
    <3>2. IsState(x)
      BY <1>3 DEF IsState
    <3> HIDE DEF x
    <3>3. IsState(y)
      BY <3>2 DEF IsState
    <3> HIDE DEF y
    <3>4. IsState(z)
      BY <3>3 DEF IsState
    <3> HIDE DEF z, w
    <3> QED BY <3>1, <3>4
  <2>6. /\ IsState(u) /\ u.ctl = [s.ctl EXCEPT ![ch] = d] /\ u.parents = s.parents
        /\ u.pending = s.pending /\ u.agenda = s.agenda /\ u.waiting = s.waiting /\ u.stats = s.stats
    BY <1>3 DEF IsState
  <2> HIDE DEF u
  <2>7. /\ IsState(v) /\ v.ctl = u.ctl /\ v.parents = [u.parents EXCEPT ![id] = q]
        /\ v.pending = u.pending /\ v.agenda = u.agenda /\ v.waiting = u.waiting /\ v.stats = u.stats
    BY <2>6 DEF IsState
  <2> HIDE DEF v, w
  <2> QED BY <2>1, <2>2, <2>3, <2>4, <2>5, <2>6, <2>7, SameState
<1> HIDE DEF w
<1>8. half \in Limbo /\ half.owed = limbo.owed /\ half.on = after.on /\ after \in Limbo
  BY <1>0, HalfFinishedFacts, OwingFacts
<1> HIDE DEF half
<1>9. Replaces(s, limbo, ch, d, half)
  <2>1. QueueFits(d)
    BY <1>3, <1>5 DEF QueueFits, Reads, Writes
  <2>2. c.outstanding - Len(c.queue) - limbo.on[ch] = d.outstanding - Len(d.queue) - half.on[ch]
    <3>1. c.outstanding \in Nat /\ Len(c.queue) \in Nat
      BY <1>3, ControllerCounts
    <3>2. limbo.on[ch] = half.on[ch] + 1 /\ half.on[ch] \in Nat
      BY <1>0, <1>1, <1>8 DEF Finishes
    <3>3. Len(d.queue) = Len(c.queue) /\ d.outstanding = c.outstanding - 1
      BY <1>5
    <3> DEFINE n == c.outstanding
               l == Len(c.queue)
               h == half.on[ch]
    <3>4. n \in Nat /\ l \in Nat /\ h \in Nat
      BY <3>1, <3>2
    <3> HIDE DEF n, l, h
    <3>5. n - l - (h + 1) = (n - 1) - l - h
      BY <3>4
    <3> HIDE DEF c
    <3> QED BY <3>2, <3>3, <3>5 DEF n, l, h
  <2>3. \A k \in Channels \ {ch} : half.on[k] = limbo.on[k]
    BY <1>0, <1>8 DEF Finishes
  <2>4. \A i \in 1 .. Len(d.queue) : d.queue[i].id \in DOMAIN s.parents
    BY <1>0, <1>5 DEF Body, Known
  <2>5. \A x \in Ids : half.owed[x] > 0 => x \in DOMAIN s.parents
    BY <1>0, <1>8 DEF Body, Known
  <2> QED BY <1>3, <1>5, <1>8, <2>1, <2>2, <2>3, <2>4, <2>5 DEF Replaces
<1>10. /\ Body(u, half) /\ u.ctl = [s.ctl EXCEPT ![ch] = d] /\ u.parents = s.parents
       /\ u.pending = s.pending /\ u.agenda = s.agenda /\ u.waiting = s.waiting
  BY <1>0, <1>8, <1>9, ControllerReplaced
<1> HIDE DEF u
<1>11. /\ Body(v, after) /\ v.parents = [u.parents EXCEPT ![id] = q] /\ v.ctl = u.ctl
       /\ v.pending = u.pending /\ v.agenda = u.agenda /\ v.waiting = u.waiting
  <2>1. u.parents[id] = p /\ id \in DOMAIN u.parents
    BY <1>2, <1>10
  <2>2. \A x \in Ids \ {id} : after.owed[x] = half.owed[x]
    BY <1>0, <1>8 DEF Finishes
  <2>3. q.remaining - after.owed[id] = u.parents[id].remaining - half.owed[id]
    <3>1. p.remaining \in Int
      BY <1>3 DEF IsParent
    <3>2. half.owed[id] = after.owed[id] + 1
      BY <1>0, <1>8 DEF Finishes
    <3> DEFINE m == p.remaining
               o == after.owed[id]
    <3>3. /\ q.remaining = m - 1 /\ u.parents[id].remaining = m /\ m \in Int
          /\ half.owed[id] = o + 1 /\ after.owed[id] = o /\ o \in Int
      <4>2. o \in Int
        BY <1>1
      <4>3. q.remaining = m - 1 /\ u.parents[id].remaining = m
        BY <1>6, <2>1
      <4> QED BY <3>1, <3>2, <4>2, <4>3, Zenon
    <3> HIDE DEF m, o, p, q, u
    <3>4. m - 1 - o = m - (o + 1)
      BY <3>3
    <3> QED BY <3>3, <3>4
  <2>4. Unadmitted(q) => Unadmitted(u.parents[id])
    BY <1>6, <2>1
  <2>5. after.on = half.on
    BY <1>8
  <2> HIDE DEF p
  <2>6. Substitutes(u, half, id, q, after)
    BY <1>6, <1>8, <2>1, <2>2, <2>3, <2>4, <2>5 DEF Substitutes
  <2> QED BY <1>10, <2>6, ParentReplaced
<1> HIDE DEF v
<1>12. v.ctl[ch] = d /\ \A k \in Channels \ {ch} : v.ctl[k] = s.ctl[k]
  BY <1>0, <1>3, <1>10, <1>11
<1>13. /\ DOMAIN v.parents = DOMAIN s.parents /\ v.parents[id] = q
       /\ \A x \in DOMAIN s.parents \ {id} : v.parents[x] = s.parents[x]
  BY <1>2, <1>10, <1>11
<1>14. /\ v.pending = s.pending /\ v.agenda = s.agenda /\ v.waiting = s.waiting
  BY <1>10, <1>11
<1>15. ASSUME NEW k \in Channels
       PROVE  /\ v.ctl[k].wakeup_at = s.ctl[k].wakeup_at /\ v.ctl[k].refresh_due_at = s.ctl[k].refresh_due_at
              /\ v.ctl[k].next_refresh_due = s.ctl[k].next_refresh_due /\ v.ctl[k].queue = s.ctl[k].queue
              /\ v.ctl[k].outstanding > 0 => s.ctl[k].outstanding > 0
  <2>1. CASE k = ch
    BY <1>4, <1>5, <1>12, <2>1
  <2>2. CASE k # ch
    BY <1>12, <2>2
  <2> QED BY <2>1, <2>2
<1>16. Marked(v)
  BY <1>0, <1>14, <1>15 DEF Marked
<1>17. Armed(v)
  BY <1>0, <1>15 DEF Armed, IsArmed
<1>18. Settled(v)
  <2> SUFFICES ASSUME NEW i \in 1 .. Len(s.pending)
               PROVE  Unadmitted(v.parents[s.pending[i]]) /\ Done(v, s.pending[i])
    BY <1>14 DEF Settled
  <2> DEFINE x == s.pending[i]
             k == NextAccess(s.parents[x]).ch
             op == s.parents[x].txn.op
  <2>1. Unadmitted(s.parents[x]) /\ Done(s, x) /\ x \in DOMAIN s.parents
    BY <1>0, BodyTypes DEF Settled
  <2>2. k \in Channels
    <3>1. IsParent(s.parents[x])
      BY <1>0, <2>1, BodyTypes
    <3> QED BY <2>1, <3>1, NextAccessFacts
  <2>3. ~can_reserve(s.ctl[k], op)
    BY <2>1 DEF Done
  <2>4. /\ v.parents[x].txn = s.parents[x].txn /\ v.parents[x].admitted = s.parents[x].admitted
    BY <1>6, <1>13, <2>1
  <2> HIDE DEF x
  <2>5. Unadmitted(v.parents[x]) /\ NextAccess(v.parents[x]) = NextAccess(s.parents[x])
    BY <2>1, <2>4 DEF Unadmitted, NextAccess
  <2> HIDE DEF k, op
  <2>6. ~can_reserve(v.ctl[k], op)
    BY <1>15, <2>2, <2>3 DEF can_reserve, Reads, Writes
  <2>7. Done(v, x)
    BY <2>4, <2>5, <2>6 DEF Done, k, op
  <2> QED BY <2>5, <2>7 DEF x
<1>19. \A x \in DOMAIN v.parents \ {id} : v.parents[x].remaining = 0 => Unadmitted(v.parents[x])
  BY <1>0, <1>13 DEF Awaited
<1>20. SteadyBut(v, id, after)
  BY <1>11, <1>16, <1>17, <1>18, <1>19 DEF SteadyBut
<1> QED BY <1>w, <1>2, <1>7, <1>13, <1>14, <1>20 DEF id

\* A reply is a transaction or none, a retry names its client.
Reply == Transactions \cup {NoTransaction}
Resubmission == [id : Ids, txn : Transactions] \cup {NoTransaction}

\* What finish_access is called with.
IsFinish(access) == /\ access.id \in Ids /\ access.ch \in Channels
                    /\ access.reply \in Reply /\ access.retry \in Resubmission

\* The completion callback of a client submits a transaction or none.
LEMMA AnsweredFacts ==
  ASSUME NEW s, NEW limbo, Steady(s, limbo), NEW id \in Ids, id \notin DOMAIN s.parents, id \notin s.waiting,
         NEW reply \in Reply
  PROVE  Steady(Answered(s, id, reply), limbo)
<1>1. CASE reply = NoTransaction
  BY <1>1 DEF Answered
<1>2. CASE reply # NoTransaction
  <2>1. reply \in Transactions /\ 0 \in Int
    BY <1>2 DEF Reply
  <2> QED BY <1>2, <2>1, SubmitNowFacts DEF Answered
<1> QED BY <1>1, <1>2

\* So does the capacity callback, after which nobody waits.
LEMMA HintedFacts ==
  ASSUME NEW s, NEW limbo, Steady(s, limbo), NEW retry \in Resubmission
  PROVE  Steady(Hinted([s EXCEPT !.waiting = {}], retry), limbo)
<1> DEFINE t == [s EXCEPT !.waiting = {}]
<1>1. /\ Body(t, limbo) /\ t.ctl = s.ctl /\ t.parents = s.parents /\ t.pending = s.pending
      /\ t.agenda = s.agenda /\ t.waiting = {}
  <2>1. {} \in SUBSET Ids /\ {} \cap DOMAIN s.parents = {}
    OBVIOUS
  <2> QED BY <2>1, WaitingReplaced DEF Steady
<1> HIDE DEF t
<1>2. Steady(t, limbo)
  BY <1>1, SteadySame
<1>3. CASE retry = NoTransaction \/ retry.id \in DOMAIN t.parents
  BY <1>2, <1>3 DEF Hinted, t
<1>4. CASE ~(retry = NoTransaction \/ retry.id \in DOMAIN t.parents)
  <2>1. retry.id \in Ids /\ retry.txn \in Transactions /\ 0 \in Int
    BY <1>4 DEF Resubmission
  <2>2. retry.id \notin DOMAIN t.parents /\ retry.id \notin t.waiting
    BY <1>1, <1>4
  <2>3. Steady(try_submit_now(t, retry.id, retry.txn, 0), limbo)
    BY <1>2, <2>1, <2>2, SubmitNowFacts
  <2> QED BY <1>4, <2>3 DEF Hinted, t
<1> QED BY <1>3, <1>4

\* complete_parent frees the id before it answers.
LEMMA CompleteParentFacts ==
  ASSUME NEW s, NEW id \in Ids, NEW limbo, SteadyBut(s, id, limbo), id \in DOMAIN s.parents,
         s.parents[id].remaining = 0, ~Unadmitted(s.parents[id]), NEW reply \in Reply, NEW retry \in Resubmission
  PROVE  Steady(complete_parent(s, id, reply, retry), limbo)
<1> DEFINE c == Completed(s, id)
           f == Freed(c, id)
           a == Answered(f, id, reply)
<1>0. Body(s, limbo) /\ Marked(s) /\ Armed(s) /\ Settled(s) /\ limbo \in Owing
  BY DEF SteadyBut
<1>1. /\ Body(c, limbo) /\ c.ctl = s.ctl /\ c.parents = s.parents /\ c.pending = s.pending
      /\ c.agenda = s.agenda /\ c.waiting = s.waiting
  <2>1. CASE ~KeepRecords
    BY <1>0, <2>1 DEF Completed
  <2>2. CASE KeepRecords
    <3> DEFINE numbers == [s.stats EXCEPT !.completions = Append(@,
                 [id |-> id, latency |-> -s.parents[id].arrival, stages |-> s.parents[id].stages])]
               u == [s EXCEPT !.stats = numbers]
    <3>1. c = u
      BY <2>2 DEF Completed
    <3> HIDE DEF numbers, c
    <3>2. /\ Body(u, limbo) /\ u.ctl = s.ctl /\ u.parents = s.parents /\ u.pending = s.pending
          /\ u.agenda = s.agenda /\ u.waiting = s.waiting
      BY <1>0, StatsReplaced
    <3> HIDE DEF u
    <3> QED BY <3>1, <3>2
  <2> QED BY <2>1, <2>2
<1> HIDE DEF c
<1>2. Settled(c)
  BY <1>0, <1>1 DEF Settled, Done
<1>3. /\ Body(f, limbo) /\ DOMAIN f.parents = DOMAIN s.parents \ {id} /\ f.ctl = s.ctl
      /\ \A x \in DOMAIN f.parents : f.parents[x] = s.parents[x]
      /\ f.pending = s.pending /\ f.agenda = s.agenda /\ f.waiting = s.waiting
  BY <1>0, <1>1, <1>2, ParentFreed
<1> HIDE DEF f
<1>4. Awaited(f)
  BY <1>3 DEF Awaited, SteadyBut
<1>5. Marked(f) /\ Armed(f)
  BY <1>0, <1>3 DEF Marked, Armed
<1>6. Settled(f)
  <2> SUFFICES ASSUME NEW i \in 1 .. Len(s.pending)
               PROVE  Unadmitted(f.parents[s.pending[i]]) /\ Done(f, s.pending[i])
    BY <1>3 DEF Settled
  <2>1. s.pending[i] \in DOMAIN f.parents
    BY <1>3, BodyTypes
  <2>2. Unadmitted(s.parents[s.pending[i]]) /\ Done(s, s.pending[i])
    BY <1>0 DEF Settled
  <2> QED BY <1>3, <2>1, <2>2 DEF Done
<1>7. Steady(f, limbo)
  BY <1>0, <1>3, <1>4, <1>5, <1>6 DEF Steady
<1>8. id \notin DOMAIN f.parents /\ id \notin f.waiting
  BY <1>0, <1>3, BodyTypes
<1>9. Steady(a, limbo)
  BY <1>7, <1>8, AnsweredFacts
<1> HIDE DEF a
<1>10. Steady(Hinted([a EXCEPT !.waiting = {}], retry), limbo)
  BY <1>9, HintedFacts
<1> QED BY <1>10 DEF complete_parent, a, f, c

\* An access that finishes leaves limbo, and completes its parent if it is the last.
LEMMA FinishAccessFacts ==
  ASSUME NEW s, NEW limbo, Steady(s, limbo), NEW access, IsFinish(access),
         NEW after \in Owing, Finishes(limbo, access.id, access.ch, after)
  PROVE  Steady(finish_access(s, access), after)
<1> DEFINE id == access.id
           t == Finished(s, access)
<1>1. /\ id \in Ids /\ access.ch \in Channels /\ access.reply \in Reply /\ access.retry \in Resubmission
  BY DEF IsFinish
<1>2. finish_access(s, access) = CompleteIfLast(t, id, access.reply, access.retry)
  BY DEF finish_access, Finished
<1>3. SteadyBut(t, id, after) /\ id \in DOMAIN t.parents
  BY <1>1, FinishedFacts
<1> HIDE DEF t, id
<1>4. CASE t.parents[id].remaining = 0 /\ ~Unadmitted(t.parents[id])
  <2>1. Steady(complete_parent(t, id, access.reply, access.retry), after)
    BY <1>1, <1>3, <1>4, CompleteParentFacts
  <2> QED BY <1>2, <1>4, <2>1 DEF CompleteIfLast
<1>5. CASE ~(t.parents[id].remaining = 0 /\ ~Unadmitted(t.parents[id]))
  <2>1. Awaited(t)
    BY <1>3, <1>5 DEF SteadyBut, Awaited
  <2>2. Steady(t, after)
    BY <1>3, <2>1 DEF SteadyBut, Steady
  <2> QED BY <1>2, <1>5, <2>2 DEF CompleteIfLast
<1> QED BY <1>4, <1>5

\* The accesses of a transfer that are still in limbo after k of them finished.
Rest(ids, k, id) == {j \in DOMAIN ids : j > k /\ ids[j] = id}
Left(ids, ch, k) == [owed |-> [id \in Ids |-> Cardinality(Rest(ids, k, id))],
                     on   |-> [x \in Channels |-> IF ch = x THEN Len(ids) - k ELSE 0]]

\* What is left of id's accesses is one less when the next of them is one of id's.
LEMMA RestFacts ==
  ASSUME NEW ids \in Seq(Ids), NEW k \in 0 .. Len(ids) - 1, NEW id
  PROVE  /\ Cardinality(Rest(ids, k, id)) \in Nat /\ Cardinality(Rest(ids, k + 1, id)) \in Nat
         /\ ids[k + 1] = id => Cardinality(Rest(ids, k, id)) = Cardinality(Rest(ids, k + 1, id)) + 1
         /\ ids[k + 1] # id => Cardinality(Rest(ids, k, id)) = Cardinality(Rest(ids, k + 1, id))
<1> DEFINE n == Len(ids)
           R == Rest(ids, k, id)
           T == Rest(ids, k + 1, id)
<1>1. n \in Nat /\ DOMAIN ids = 1 .. n /\ k + 1 \in 1 .. n
  OBVIOUS
<1> HIDE DEF n
<1>2. \A j : j \in R <=> j \in 1 .. n /\ j > k /\ ids[j] = id
  BY <1>1 DEF Rest
<1>3. \A j : j \in T <=> j \in 1 .. n /\ j > k + 1 /\ ids[j] = id
  BY <1>1 DEF Rest
<1>4. R \in SUBSET (1 .. n) /\ T \in SUBSET (1 .. n)
  BY <1>2, <1>3
<1> HIDE DEF R, T
<1>5. IsFiniteSet(1 .. n)
  BY <1>1, FS_Interval
<1>6. IsFiniteSet(R) /\ IsFiniteSet(T)
  BY <1>4, <1>5, FS_Subset
<1>7. Cardinality(R) \in Nat /\ Cardinality(T) \in Nat
  BY <1>6, FS_CardinalityType
<1>8. ASSUME ids[k + 1] = id PROVE Cardinality(R) = Cardinality(T) + 1
  <2>1. \A j : j \in R <=> j \in T \cup {k + 1}
    <3> SUFFICES ASSUME NEW j PROVE j \in R <=> j \in T \/ j = k + 1
      OBVIOUS
    <3>1. k + 1 \in R
      BY <1>1, <1>2, <1>8
    <3>2. j \in 1 .. n => (j > k <=> j > k + 1 \/ j = k + 1)
      BY <1>1
    <3> QED BY <1>2, <1>3, <3>1, <3>2
  <2>2. R = T \cup {k + 1}
    BY <2>1
  <2>3. k + 1 \notin T
    BY <1>1, <1>3
  <2> QED BY <1>6, <2>2, <2>3, FS_AddElement
<1>9. ASSUME ids[k + 1] # id PROVE R = T
  <2>1. \A j : j \in R <=> j \in T
    <3> SUFFICES ASSUME NEW j PROVE j \in R <=> j \in T
      OBVIOUS
    <3>2. j \in 1 .. n => (j > k <=> j > k + 1 \/ j = k + 1)
      BY <1>1
    <3> QED BY <1>2, <1>3, <1>9, <3>2
  <2> QED BY <2>1
<1> QED BY <1>7, <1>8, <1>9 DEF R, T

\* The accounts of what is left.
LEMMA LeftFacts ==
  ASSUME NEW ids \in Seq(Ids), NEW ch, NEW k \in 0 .. Len(ids) - 1
  PROVE  /\ Left(ids, ch, k) \in Owing /\ Left(ids, ch, k + 1) \in Owing
         /\ ids[k + 1] \in Ids
         /\ ch \in Channels => Finishes(Left(ids, ch, k), ids[k + 1], ch, Left(ids, ch, k + 1))
<1> DEFINE a == Left(ids, ch, k)
           b == Left(ids, ch, k + 1)
           n == Len(ids)
<1>1. n \in Nat /\ k + 1 \in 1 .. n /\ n - k \in Nat /\ n - (k + 1) \in Nat /\ n - k = (n - (k + 1)) + 1 /\ ids[k + 1] \in Ids
  OBVIOUS
<1> HIDE DEF n
<1>2. /\ \A id \in Ids : a.owed[id] = Cardinality(Rest(ids, k, id)) /\ b.owed[id] = Cardinality(Rest(ids, k + 1, id))
      /\ \A x \in Channels : /\ a.on[x] = (IF ch = x THEN n - k ELSE 0)
                             /\ b.on[x] = (IF ch = x THEN n - (k + 1) ELSE 0)
  BY DEF Left, n
<1>3. a \in Owing /\ b \in Owing
  <2>1. \A id \in Ids : Cardinality(Rest(ids, k, id)) \in Nat /\ Cardinality(Rest(ids, k + 1, id)) \in Nat
    BY RestFacts
  <2> QED BY <1>1, <2>1 DEF Left, Owing, n
<1> HIDE DEF a, b
<1>4. ASSUME ch \in Channels PROVE Finishes(a, ids[k + 1], ch, b)
  <2> DEFINE me == ids[k + 1]
  <2>0. me \in Ids /\ ids[k + 1] = me
    BY <1>1
  <2>1. a.owed[me] = b.owed[me] + 1
    <3>1. Cardinality(Rest(ids, k, me)) = Cardinality(Rest(ids, k + 1, me)) + 1
      BY <2>0, RestFacts
    <3> HIDE DEF me
    <3> QED BY <1>2, <2>0, <3>1
  <2>2. ASSUME NEW x \in Ids \ {me} PROVE a.owed[x] = b.owed[x]
    <3>1. Cardinality(Rest(ids, k, x)) = Cardinality(Rest(ids, k + 1, x))
      BY <2>0, RestFacts
    <3> HIDE DEF me
    <3> QED BY <1>2, <3>1
  <2>3. a.on[ch] = b.on[ch] + 1 /\ \A x \in Channels \ {ch} : a.on[x] = b.on[x]
    BY <1>1, <1>2, <1>4
  <2> QED BY <2>1, <2>2, <2>3 DEF Finishes
<1> QED BY <1>1, <1>3, <1>4 DEF a, b

\* Nothing has finished, and everything has.
LEMMA LeftEnds ==
  ASSUME NEW ids \in Seq(Ids), NEW ch
  PROVE  Left(ids, ch, 0) = InLimbo(ids, ch) /\ Left(ids, ch, Len(ids)) = Nobody
<1> DEFINE n == Len(ids)
<1>1. n \in Nat /\ DOMAIN ids = 1 .. n
  OBVIOUS
<1>2. ASSUME NEW id PROVE Rest(ids, 0, id) = Named(ids, id)
  <2> HIDE DEF n
  <2>1. \A j : j \in Rest(ids, 0, id) <=> j \in Named(ids, id)
    BY <1>1 DEF Rest, Named
  <2> QED BY <2>1 DEF Rest, Named
<1>3. ASSUME NEW id PROVE Cardinality(Rest(ids, n, id)) = 0
  <2> HIDE DEF n
  <2>1. Rest(ids, n, id) = {}
    BY <1>1 DEF Rest
  <2> QED BY <2>1, FS_EmptySet
<1>4. Left(ids, ch, 0) = InLimbo(ids, ch)
  BY <1>1, <1>2 DEF Left, InLimbo
<1>5. Left(ids, ch, n) = Nobody
  BY <1>1, <1>3 DEF Left, Nobody
<1> QED BY <1>4, <1>5

Finishing == INSTANCE LoopTheory WITH Op <- finish_access

\* The completion callback finishes every access that the transfer served.
LEMMA CompletionCallbackFacts ==
  ASSUME NEW s, NEW e, AtEventOf(s, e), e.kind = "complete",
         NEW replies \in [DOMAIN e.ids -> Reply], NEW retry \in Resubmission
  PROVE  Steady(CompletionCallback(s, e, replies, retry), Nobody)
<1> DEFINE ids == e.ids
           ch == e.ch
           n == Len(ids)
           seq == [k \in DOMAIN ids |-> [id |-> ids[k], ch |-> ch, stages |-> StagesAt(e, k),
                                         reply |-> replies[k], retry |-> retry]]
           X == {seq[k] : k \in DOMAIN ids}
<1>0. /\ e \in Event /\ InLimbo(ids, ch) \in Owing /\ Body(s, InLimbo(ids, ch))
      /\ Awaited(s) /\ Armed(s) /\ Settled(s) /\ MarkedBut(s, "complete", ch, 0)
  BY DEF AtEventOf
<1>1. ids \in Seq(Ids) /\ ch \in Channels /\ n \in Nat /\ DOMAIN ids = 1 .. n
  BY <1>0, EventTypes
<1>2. Steady(s, Left(ids, ch, 0))
  <2>1. Marked(s)
    BY <1>0, MarkedAll
  <2>2. Left(ids, ch, 0) = InLimbo(ids, ch)
    BY <1>1, LeftEnds
  <2> QED BY <1>0, <2>1, <2>2 DEF Steady
<1>3. CompletionCallback(s, e, replies, retry) = Finishing!Looped(s, seq)
  BY DEF CompletionCallback, FoldLeft, MapThenFoldSet, Max, Finishing!Looped
<1>r. \A k \in DOMAIN ids : replies[k] \in Reply
  OBVIOUS
<1> HIDE DEF ids, ch
<1>4. /\ DOMAIN seq = 1 .. n /\ seq = [k \in 1 .. n |-> seq[k]]
      /\ \A k \in 1 .. n : /\ seq[k] \in X /\ seq[k].id = ids[k] /\ seq[k].ch = ch
                           /\ seq[k].reply = replies[k] /\ seq[k].retry = retry
  BY <1>1
<1>5. \A k \in 1 .. n : ids[k] \in Ids
  BY <1>1
<1>6. \A k \in 1 .. n : IsFinish(seq[k]) /\ seq[k].id = ids[k] /\ seq[k].ch = ch
  BY <1>1, <1>4, <1>5, <1>r DEF IsFinish, ids
<1>7. seq \in Seq(X) /\ Len(seq) = n
  <2> HIDE DEF seq, X, n
  <2> QED BY <1>1, <1>4
<1> HIDE DEF seq, X
<1>8. PICK run : /\ run[0] = s
                 /\ \A k \in 1 .. n : run[k] = finish_access(run[k - 1], seq[k])
                 /\ run[n] = Finishing!Looped(s, seq)
  BY <1>7, Finishing!LoopRuns
<1> DEFINE S == {k \in 0 .. n : Steady(run[k], Left(ids, ch, k))}
<1>9. 0 \in S
  BY <1>1, <1>2, <1>8
<1>10. ASSUME NEW k \in 0 .. n - 1, k \in S PROVE k + 1 \in S
  <2>1. k + 1 \in 1 .. n /\ (k + 1) - 1 = k /\ k + 1 \in 0 .. n
    BY <1>1
  <2> DEFINE u == run[k]
             v == run[k + 1]
             access == seq[k + 1]
             before == Left(ids, ch, k)
             after == Left(ids, ch, k + 1)
  <2>2. v = finish_access(u, access)
    BY <1>8, <2>1
  <2>3. Steady(u, before)
    BY <1>10
  <2>4. IsFinish(access) /\ access.id = ids[k + 1] /\ access.ch = ch
    BY <1>6, <2>1
  <2>5. after \in Owing /\ Finishes(before, ids[k + 1], ch, after)
    BY <1>1, LeftFacts
  <2> HIDE DEF u, v, access, before, after
  <2>6. Steady(v, after)
    BY <2>2, <2>3, <2>4, <2>5, FinishAccessFacts
  <2> QED BY <2>1, <2>6 DEF v, after
<1>11. n \in S
  <2> HIDE DEF S, n
  <2>1. \A k \in 0 .. n : k \in S
    BY <1>1, <1>9, <1>10, UpTo
  <2> QED BY <1>1, <2>1
<1>12. Left(ids, ch, n) = Nobody
  BY <1>1, LeftEnds
<1> QED BY <1>3, <1>8, <1>11, <1>12

-----------------------------------------------------------------------------
(* Every action keeps the invariant.                                       *)

\* A steady state with nothing in limbo, once stored, satisfies the invariant.
LEMMA Stored ==
  ASSUME NEW t, Steady(t, Nobody), Become(t)
  PROVE  IInv'
<1>1. IsState(t)
  BY BodyTypes DEF Steady
<1>2. State' = t
  BY <1>1 DEF Become, State, IsState
<1>3. Sound(t, Nobody) /\ Armed(t) /\ Settled(t)
  BY DEF Steady, Sound, Owing
<1>4. IInv' <=> Sound(State', Nobody) /\ Armed(State') /\ Settled(State')
  BY DEF IInv
<1> QED BY <1>2, <1>3, <1>4

\* A submission.
LEMMA SubmitKeeps ==
  ASSUME IInv, NEW id \in Ids, NEW txn \in Transactions, NEW d \in 0 .. MaxGap, Submit(id, txn, d, 0)
  PROVE  IInv'
<1> DEFINE s == Advance(State, d)
           t == try_submit_now(s, id, txn, 0)
<1>1. d \in Nat /\ (agenda # <<>> => d <= agenda[1].at) /\ id \notin DOMAIN parents /\ id \notin waiting /\ Become(t)
  BY SystemAssumption DEF Submit
<1>2. /\ Sound(s, Nobody) /\ Armed(s) /\ Settled(s) /\ DOMAIN s.parents = DOMAIN parents /\ s.waiting = waiting
  BY <1>1, SubmitTimeFacts
<1> HIDE DEF s
<1>3. Steady(s, Nobody)
  BY <1>2 DEF Steady, Sound, Owing
<1>4. Steady(t, Nobody)
  <2>1. id \notin DOMAIN s.parents /\ id \notin s.waiting /\ 0 \in Int
    BY <1>1, <1>2
  <2> QED BY <1>3, <2>1, SubmitNowFacts
<1> HIDE DEF t
<1> QED BY <1>1, <1>4, Stored

\* The event at the head of the agenda.
LEMMA DispatchFacts ==
  ASSUME IInv, NEW kind, Dispatch(kind)
  PROVE  AtEventOf(AtEvent, agenda[1]) /\ agenda[1].kind = kind
BY AtEventFacts DEF Dispatch, TakeTurn

\* A wake-up.
LEMMA RunWakeKeeps ==
  ASSUME IInv, RunWake
  PROVE  IInv'
<1> DEFINE t == WakeCallback(AtEvent, agenda[1].ch)
<1>1. AtEventOf(AtEvent, agenda[1]) /\ agenda[1].kind = "wake" /\ Become(t)
  BY DispatchFacts DEF RunWake
<1>2. Steady(t, Nobody)
  BY <1>1, WakeCallbackFacts
<1> HIDE DEF t
<1> QED BY <1>1, <1>2, Stored

\* A refresh event.
LEMMA RunRefreshKeeps ==
  ASSUME IInv, RunRefresh
  PROVE  IInv'
<1> DEFINE t == RefreshCallback(AtEvent, agenda[1].ch)
<1>1. AtEventOf(AtEvent, agenda[1]) /\ agenda[1].kind = "refresh" /\ Become(t)
  BY DispatchFacts DEF RunRefresh
<1>2. Steady(t, Nobody)
  BY <1>1, RefreshCallbackFacts
<1> HIDE DEF t
<1> QED BY <1>1, <1>2, Stored

\* A capacity hint.
LEMMA RunCapacityKeeps ==
  ASSUME IInv, RunCapacity
  PROVE  IInv'
<1> DEFINE t == [AtEvent EXCEPT !.waiting = {}]
<1>1. AtEventOf(AtEvent, agenda[1]) /\ agenda[1].kind = "capacity" /\ Become(t)
  BY DispatchFacts DEF RunCapacity
<1>2. Steady(t, Nobody)
  BY <1>1, CapacityCallbackFacts
<1> HIDE DEF t
<1> QED BY <1>1, <1>2, Stored

\* A completion, whatever the clients answer.
LEMMA RunCompletionKeeps ==
  ASSUME IInv, RunCompletion
  PROVE  IInv'
<1>1. AtEventOf(AtEvent, agenda[1]) /\ agenda[1].kind = "complete"
  BY DispatchFacts DEF RunCompletion
<1>2. PICK replies \in Replies(agenda[1].ids), retry \in Retries :
           Become(CompletionCallback(AtEvent, agenda[1], replies, retry))
  BY DEF RunCompletion
<1> DEFINE t == CompletionCallback(AtEvent, agenda[1], replies, retry)
<1>3. replies \in [DOMAIN agenda[1].ids -> Reply] /\ retry \in Resubmission
  <2>1. Offered \in SUBSET Transactions
    BY DEF Offered
  <2>2. {NoTransaction} \cup Offered \in SUBSET Reply
    BY <2>1 DEF Reply
  <2>3. replies \in [DOMAIN agenda[1].ids -> Reply]
    BY <2>2 DEF Replies
  <2>4. retry \in Resubmission
    BY <2>1 DEF Retries, Resubmission
  <2> QED BY <2>3, <2>4
<1>4. Steady(t, Nobody)
  BY <1>1, <1>3, CompletionCallbackFacts
<1>5. Become(t)
  BY <1>2
<1> HIDE DEF t
<1> QED BY <1>4, <1>5, Stored

\* A step of none of them leaves the state as it is.
LEMMA StateKeeps ==
  ASSUME IInv, UNCHANGED <<ctl, parents, pending, agenda, waiting, stats>>
  PROVE  IInv'
<1>1. State' = State
  BY DEF State
<1>2. IInv' <=> Sound(State', Nobody) /\ Armed(State') /\ Settled(State')
  BY DEF IInv
<1> QED BY <1>1, <1>2 DEF IInv

\* Every step keeps the invariant.
THEOREM InvariantKept ==
  ASSUME IInv, [Next]_vars
  PROVE  IInv'
<1>1. ASSUME NEW id \in Ids, NEW txn \in Transactions, NEW d \in 0 .. MaxGap, Submit(id, txn, d, 0) PROVE IInv'
  BY <1>1, SubmitKeeps
<1>2. CASE Exhaust
  BY <1>2, StateKeeps DEF Exhaust
<1>3. CASE RunWake
  BY <1>3, RunWakeKeeps
<1>4. CASE RunRefresh
  BY <1>4, RunRefreshKeeps
<1>5. CASE RunCapacity
  BY <1>5, RunCapacityKeeps
<1>6. CASE RunCompletion
  BY <1>6, RunCompletionKeeps
<1>7. CASE UNCHANGED vars
  BY <1>7, StateKeeps DEF vars
<1> QED BY <1>1, <1>2, <1>3, <1>4, <1>5, <1>6, <1>7 DEF Next

-----------------------------------------------------------------------------
(* The theorems.                                                           *)

\* Nothing is active, queued, in flight or marked when the system is constructed.
LEMMA InitFacts ==
  ASSUME Init
  PROVE  IInv
<1> DEFINE s == State
<1>1. /\ s.ctl = [ch \in Channels |-> NewController] /\ s.parents = [id \in {} |-> 0]
      /\ s.pending = <<>> /\ s.agenda = <<>> /\ s.waiting = {}
      /\ IsState(s)
  BY DEF Init, State, IsState
<1> HIDE DEF s
<1>2. /\ NewController \in TimedController /\ NewController.queue = <<>> /\ NewController.outstanding = 0
      /\ NewController.fault = FALSE /\ NewController.wakeup_at = None
      /\ NewController.refresh_due_at = None /\ NewController.next_refresh_due = None
  BY NewControllerFacts, NewIsTimed
<1>3. \A ch \in Channels : s.ctl[ch] = NewController
  BY <1>1
<1>4. s.ctl \in [Channels -> TimedController] /\ DOMAIN s.parents = {}
  BY <1>1, <1>2
<1>5. Len(s.agenda) = 0 /\ Len(s.pending) = 0 /\ Len(NewController.queue) = 0
  BY <1>1, <1>2
<1>6. WellFormed(s)
  <2>1. s.parents = [id \in DOMAIN s.parents |-> s.parents[id]]
    BY <1>1
  <2>2. s.pending \in Seq(Ids) /\ s.agenda \in Seq(Event) /\ Sorted(s.agenda)
    BY <1>1, <1>5 DEF Sorted
  <2>3. IsFiniteSet(DOMAIN s.parents)
    BY <1>4, FS_EmptySet
  <2> QED BY <1>1, <1>4, <2>1, <2>2, <2>3 DEF WellFormed
<1>7. Fits(s)
  <2>1. Cardinality({}) = 0
    BY FS_EmptySet
  <2>2. Reads(NewController) = {} /\ Writes(NewController) = {}
    BY <1>2 DEF Reads, Writes
  <2>3. QueueFits(NewController) /\ NoDue(NewController)
    BY <1>2, <2>1, <2>2, ControllerAssumption DEF QueueFits, NoDue
  <2>4. Cardinality(DOMAIN s.parents) <= MaxActive
    BY <1>4, <2>1, SystemAssumption
  <2> QED BY <1>3, <2>3, <2>4 DEF Fits
<1>8. Covers(s)
  BY <1>4, <1>5 DEF Covers
<1>9. Nobody \in Owing /\ Nobody \in Limbo
  <2>1. <<>> \in Seq(Ids)
    OBVIOUS
  <2> QED BY <2>1, InLimboFacts, OwingFacts
<1>10. Known(s, Nobody)
  BY <1>2, <1>3, <1>5, <1>9 DEF Known, Nobody
<1>11. Balanced(s, Nobody)
  <2> SUFFICES ASSUME NEW ch \in Channels
               PROVE  s.ctl[ch].outstanding = LiveOn(s, ch) + Nobody.on[ch] /\ ~s.ctl[ch].fault
    BY <1>4 DEF Balanced
  <2>1. s.agenda \in Seq(Event)
    BY <1>6 DEF WellFormed
  <2>2. /\ Cardinality(QueueOn(s, ch)) \in Nat /\ Cardinality(FlightOn(s, ch)) \in Nat
        /\ LiveOn(s, ch) = Cardinality(QueueOn(s, ch)) + Cardinality(FlightOn(s, ch))
        /\ LiveOf(s, 0) = Cardinality(QueueOf(s, 0)) + Cardinality(FlightOf(s, 0))
    BY <1>4, <2>1, CountsAreNat
  <2>3. Cardinality(QueueOn(s, ch)) = 0
    BY <1>3, <1>4, <1>5, QueueOnCount
  <2>4. Cardinality(FlightOn(s, ch)) = 0
    <3>1. \A x : x \notin FlightOn(s, ch)
      <4>1. FlightOn(s, ch) \in SUBSET (Nat \X Nat)
        BY <2>1, FlightOnPairs
      <4>2. ASSUME NEW i \in Nat, NEW k \in Nat PROVE <<i, k>> \notin FlightOn(s, ch)
        <5>1. <<i, k>> \in FlightOn(s, ch) <=>
                i \in 1 .. Len(s.agenda) /\ k \in 1 .. Len(s.agenda[i].ids) /\ s.agenda[i].ch = ch
          BY <2>1, FlightOnMember
        <5>2. 1 .. Len(s.agenda) = {}
          BY <1>5
        <5> QED BY <5>1, <5>2
      <4> QED BY <4>1, <4>2
    <3>2. FlightOn(s, ch) = {}
      BY <3>1
    <3> QED BY <3>2, FS_EmptySet
  <2>5. Nobody.on[ch] = 0
    BY DEF Nobody
  <2> QED BY <1>2, <1>3, <2>2, <2>3, <2>4, <2>5
<1>12. Awaited(s) /\ Settled(s)
  BY <1>4, <1>5 DEF Awaited, Settled
<1>13. Marked(s) /\ Armed(s)
  BY <1>2, <1>3 DEF Marked, Armed, IsArmed
<1> QED BY <1>6, <1>7, <1>8, <1>9, <1>10, <1>11, <1>12, <1>13 DEF IInv, Sound, Body, Owing, s

\* The invariant holds in every state that the system reaches.
THEOREM InvariantHolds == Spec => []IInv
<1>1. Init => IInv
  BY InitFacts
<1>2. IInv /\ [Next]_vars => IInv'
  BY InvariantKept
<1> QED BY <1>1, <1>2, PTL DEF Spec

\* What IInv says of the variables.
LEMMA InvariantSays ==
  ASSUME IInv
  PROVE  TypeOK /\ CapacitiesHold /\ AccessesAreConserved /\ NoAdmissibleAccessLeft /\ RfmBeforeActivation
         /\ HistoryIsOrdered /\ (Covered => TimingIsLegal)
<1> DEFINE s == State
<1>0. /\ s.ctl = ctl /\ s.parents = parents /\ s.pending = pending /\ s.agenda = agenda /\ s.waiting = waiting
      /\ Body(s, Nobody) /\ Awaited(s) /\ Marked(s) /\ Settled(s)
  BY Invariant
<1> HIDE DEF s
<1>1. /\ ctl \in [Channels -> TimedController] /\ agenda \in Seq(Event) /\ DOMAIN parents \in SUBSET Ids
      /\ waiting \in SUBSET Ids /\ waiting \cap DOMAIN parents = {} /\ pending \in Seq(Ids)
      /\ \A id \in DOMAIN parents : IsParent(parents[id])
      /\ \A ch \in Channels : ctl[ch] \in TimedController /\ QueueFits(ctl[ch]) /\ ~ctl[ch].fault
      /\ \A i \in 1 .. Len(agenda) : agenda[i] \in Event
      /\ \A i \in 1 .. Len(pending) : pending[i] \in DOMAIN parents
  BY <1>0, BodyTypes DEF Body, WellFormed
<1>2. DOMAIN agenda = 1 .. Len(agenda) /\ DOMAIN pending = 1 .. Len(pending)
  BY <1>1
<1>3. \A i \in 1 .. Len(agenda) : agenda[i].at \in Nat
  BY <1>1, EventTypes
<1>4. TypeOK
  <2>1. ASSUME NEW ch \in Channels
        PROVE  ctl[ch].wakeup_at \in Nat \cup {None} /\ ctl[ch].refresh_due_at \in Nat \cup {None}
    <3>1. /\ ctl[ch].wakeup_at # None => HasEvent(agenda, "wake", ch, ctl[ch].wakeup_at)
          /\ ctl[ch].refresh_due_at # None => HasEvent(agenda, "refresh", ch, ctl[ch].refresh_due_at)
      BY <1>0 DEF Marked
    <3> QED BY <1>3, <3>1 DEF HasEvent
  <2>2. ASSUME NEW id \in DOMAIN parents
        PROVE  parents[id].txn \in Transactions /\ parents[id].admitted \in 0 .. Len(parents[id].txn.accesses)
    BY <1>1 DEF IsParent
  <2>3. DOMAIN parents \subseteq Ids /\ waiting \subseteq Ids \ DOMAIN parents
    BY <1>1
  <2> QED BY <1>2, <1>3, <2>1, <2>2, <2>3 DEF TypeOK
<1>5. CapacitiesHold
  <2>1. Cardinality(DOMAIN parents) <= MaxActive
    BY <1>0 DEF Body, Fits
  <2> QED BY <1>1, <2>1 DEF CapacitiesHold, QueueFits
<1>6. AccessesAreConserved
  <2>1. ASSUME NEW id \in DOMAIN parents
        PROVE  parents[id].remaining = LiveOf(State, id) /\ (parents[id].remaining = 0 => Unadmitted(parents[id]))
    <3>1. parents[id].remaining = LiveOf(s, id) + Nobody.owed[id]
      BY <1>0 DEF Body, Balanced
    <3>2. LiveOf(s, id) \in Nat
      BY <1>0, <1>1, LiveIffNamed
    <3>3. Nobody.owed[id] = 0
      BY <1>1 DEF Nobody
    <3>4. parents[id].remaining = 0 => Unadmitted(parents[id])
      BY <1>0 DEF Awaited
    <3> QED BY <3>1, <3>2, <3>3, <3>4 DEF s
  <2>2. ASSUME NEW ch \in Channels
        PROVE  ctl[ch].outstanding = LiveOn(State, ch)
    <3>1. ctl[ch].outstanding = LiveOn(s, ch) + Nobody.on[ch]
      BY <1>0 DEF Body, Balanced
    <3>2. LiveOn(s, ch) \in Nat
      <4>1. /\ Cardinality(QueueOn(s, ch)) \in Nat /\ Cardinality(FlightOn(s, ch)) \in Nat
            /\ LiveOn(s, ch) = Cardinality(QueueOn(s, ch)) + Cardinality(FlightOn(s, ch))
            /\ LiveOf(s, 0) = Cardinality(QueueOf(s, 0)) + Cardinality(FlightOf(s, 0))
        BY <1>0, <1>1, CountsAreNat
      <4> QED BY <4>1
    <3>3. Nobody.on[ch] = 0
      BY DEF Nobody
    <3> QED BY <3>1, <3>2, <3>3 DEF s
  <2>3. ASSUME NEW ch \in Channels
        PROVE  \A i \in DOMAIN ctl[ch].queue : ctl[ch].queue[i].id \in DOMAIN parents
    <3>1. ctl[ch].queue \in Seq(QueuedAccess)
      BY <1>1, ControllerCounts
    <3>2. DOMAIN ctl[ch].queue = 1 .. Len(ctl[ch].queue)
      BY <3>1
    <3> QED BY <1>0, <3>2 DEF Body, Known
  <2> QED BY <1>1, <2>1, <2>2, <2>3 DEF AccessesAreConserved
<1>7. NoAdmissibleAccessLeft
  <2>1. \A x : x \in ToSet(pending) <=> x \in DOMAIN parents /\ Unadmitted(parents[x])
    <3> SUFFICES ASSUME NEW x PROVE x \in ToSet(pending) <=> x \in DOMAIN parents /\ Unadmitted(parents[x])
      OBVIOUS
    <3>1. x \in ToSet(pending) <=> \E i \in 1 .. Len(pending) : pending[i] = x
      BY <1>2 DEF ToSet
    <3>2. \A i \in 1 .. Len(pending) : pending[i] \in DOMAIN parents /\ Unadmitted(parents[pending[i]])
      BY <1>0, <1>1 DEF Settled
    <3>3. x \in DOMAIN parents /\ Unadmitted(parents[x]) => \E i \in 1 .. Len(pending) : pending[i] = x
      BY <1>0 DEF Body, Covers
    <3> QED BY <3>1, <3>2, <3>3
  <2>2. ToSet(pending) = {id \in DOMAIN parents : Unadmitted(parents[id])}
    BY <2>1
  <2>3. ASSUME NEW id \in ToSet(pending)
        PROVE  ~can_reserve(ctl[NextAccess(parents[id]).ch], parents[id].txn.op)
    <3>1. PICK i \in 1 .. Len(pending) : pending[i] = id
      BY <1>2 DEF ToSet
    <3>2. Unadmitted(parents[id]) /\ Done(s, id)
      BY <1>0, <3>1 DEF Settled
    <3> QED BY <1>0, <3>2 DEF Done
  <2> QED BY <2>2, <2>3 DEF NoAdmissibleAccessLeft
<1>8. RfmBeforeActivation
  <2> SUFFICES ASSUME NEW ch \in Channels, NEW b \in Bank
               PROVE  /\ ctl[ch].banks[b].rfm_pending => ctl[ch].banks[b].activation_count = 0
                      /\ RfmThreshold # 0 => ctl[ch].banks[b].activation_count < RfmThreshold
    BY DEF RfmBeforeActivation
  <2>1. ctl[ch].banks[b] \in SoundBank
    BY <1>1 DEF TimedController, Controller
  <2> QED BY <2>1 DEF SoundBank, WithinThreshold
<1>9. HistoryIsOrdered
  <2> SUFFICES ASSUME NEW ch \in Channels, NEW n \in 2 .. Len(ctl[ch].history)
               PROVE  ctl[ch].history[n - 1].at <= ctl[ch].history[n].at
    BY DEF HistoryIsOrdered
  <2> DEFINE history == ctl[ch].history
  <2>1. history \in Seq(Entry) /\ TimeOrdered(history)
    BY <1>1 DEF TimedController, WellTimed, Controller, Timely, Tracked
  <2> HIDE DEF history
  <2>2. n - 1 \in 1 .. Len(history) /\ n \in 1 .. Len(history) /\ n - 1 < n
    BY <2>1 DEF history
  <2>3. history[n - 1].at <= history[n].at
    BY <2>1, <2>2 DEF TimeOrdered
  <2> QED BY <2>3 DEF history
<1>10. ASSUME Covered PROVE TimingIsLegal
  <2>1. ASSUME NEW ch \in Channels PROVE Legal(ctl[ch].history)
    <3>1. Lawful(ctl[ch])
      BY <1>1, <1>10 DEF TimedController, WellTimed
    <3> QED BY <3>1 DEF Lawful
  <2> QED BY <2>1 DEF TimingIsLegal, Legal
<1> QED BY <1>4, <1>5, <1>6, <1>7, <1>8, <1>9, <1>10

\* Every state is of its type: ids, table entries, marks and event times.
THEOREM TypeCorrect == Spec => []TypeOK
<1>1. IInv => TypeOK
  BY InvariantSays
<1> QED BY <1>1, InvariantHolds, PTL

\* Queues and the table of active parents stay within their capacities
\* (can_reserve and submission credit), for every configuration and workload.
THEOREM CapacitiesAlwaysHold == Spec => []CapacitiesHold
<1>1. IInv => CapacitiesHold
  BY InvariantSays
<1> QED BY <1>1, InvariantHolds, PTL

\* Every admitted access is counted by its parent and by its controller until it
\* completes, and belongs to an active transaction: no logic error is thrown.
THEOREM AccessesAlwaysConserved == Spec => []AccessesAreConserved
<1>1. IInv => AccessesAreConserved
  BY InvariantSays
<1> QED BY <1>1, InvariantHolds, PTL

\* pump_admissions leaves exactly the unadmitted parents pending, each stopped by
\* a full queue.
THEOREM NothingAdmissibleIsLeft == Spec => []NoAdmissibleAccessLeft
<1>1. IInv => NoAdmissibleAccessLeft
  BY InvariantSays
<1> QED BY <1>1, InvariantHolds, PTL

\* A bank's activation count stays below the threshold, and is zero while its RFM
\* is pending.
THEOREM RfmAlwaysInTime == Spec => []RfmBeforeActivation
<1>1. IInv => RfmBeforeActivation
  BY InvariantSays
<1> QED BY <1>1, InvariantHolds, PTL

\* Commands are recorded in time order, although apply_idle_refresh records them on
\* a time cursor of its own, behind or ahead of the clock.
THEOREM HistoryAlwaysOrdered == Spec => []HistoryIsOrdered
<1>1. IInv => HistoryIsOrdered
  BY InvariantSays
<1> QED BY <1>1, InvariantHolds, PTL

\* A device of a standard: every recorded command keeps every timing constraint on every
\* bank that it reaches, although the engine enters a command of the whole channel for
\* one bank only, forgets old entries and is asked for times in the past and the future.
\* (The hypotheses are needed: a custom device breaks constraints, and without the second
\* a bank could be activated after a refresh while a precharge still goes on.)
THEOREM TimingAlwaysLegal ==
  ASSUME ~Custom, RefreshDominates
  PROVE  Spec => []TimingIsLegal
<1>1. IInv => TimingIsLegal
  BY InvariantSays DEF Covered
<1> QED BY <1>1, InvariantHolds, PTL
=============================================================================
