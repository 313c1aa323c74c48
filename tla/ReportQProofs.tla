---------------------------- MODULE ReportQProofs ----------------------------
(***************************************************************************)
(* What a report queue promises for any number of clients, events,         *)
(* reporters and calls, with the inductive invariant it rests on:          *)
(* EventsAccounted, SignalledInOrder and SuspensionHolds.                  *)
(***************************************************************************)
EXTENDS ReportQ, SequenceTheorems, FiniteSetTheorems, WellFoundedInduction, TLAPS

HistoryOK ==
  /\ held \in [Clients -> Nat]
  /\ accepted \in Seq(Events)
  /\ delivered \in [Reporters -> Seq(Events)]
  /\ deletes \in [Events -> Nat]
  /\ abandoned \in SUBSET Events
  /\ slips \in Nat /\ releases \in Nat

\* The thread has an event from the time it takes it until it deletes it, and the
\* lock of the list while it signals.
Holding == pc \in {"lockList", "signal", "delete"}

ThreadOK ==
  /\ currEvent # NULL <=> Holding
  /\ pc = "signal" => listLock # NULL /\ cursor >= 1
  /\ pc # "signal" => cursor = 0

\* The number of events that are no longer queued.
Taken == Len(accepted) - Len(eventQueue)

\* What is queued is what report() took last; it is in no other place.
QueueIsSuffix ==
  /\ \A i, j \in 1 .. Len(accepted) : accepted[i] = accepted[j] => i = j
  /\ Taken >= 0
  /\ \A i \in 1 .. Len(eventQueue) :
       /\ eventQueue[i] = accepted[Taken + i]
       /\ eventQueue[i] \notin abandoned
       /\ deletes[eventQueue[i]] = 0

\* The event that is signalled is the last one that was taken.
CurrentIsLast == Holding => Taken >= 1 /\ currEvent = accepted[Taken]

\* An event that was taken, and is not signalled, was either deleted or dropped.
TakenAccounted ==
  \A i \in 1 .. Taken :
    LET e == accepted[i] IN
    IF e = currEvent THEN deletes[e] = 0 /\ e \notin abandoned
                     ELSE deletes[e] = 1 <=> e \notin abandoned

DeletedOnce == \A e \in Events : deletes[e] <= 1
AbandonedAccepted == \A e \in abandoned : Contains(accepted, e)

\* What was delivered to d was taken, in that order.
InOrder(d) ==
  /\ \A i \in 1 .. Len(d) : \E m \in 1 .. Taken : d[i] = accepted[m]
  /\ \A i, j \in 1 .. Len(d) :
       i < j => \E m, n \in 1 .. Len(accepted) :
                  m < n /\ accepted[m] = d[i] /\ accepted[n] = d[j]

Has(d, e) == d # <<>> /\ d[Len(d)] = e
HasNot(d, e) == \A i \in 1 .. Len(d) : d[i] # e

DeliveredOK ==
  /\ \A r \in Reporters : InOrder(delivered[r])
  /\ pc = "lockList" => \A r \in Reporters : HasNot(delivered[r], currEvent)
  /\ pc = "signal" =>
       \A i \in 1 .. Len(reporters) :
         IF i < cursor THEN Has(delivered[reporters[i]], currEvent)
                       ELSE HasNot(delivered[reporters[i]], currEvent)

\* The suspension that the thread waits for was lifted once more than events slipped.
WakeIsRelease ==
  /\ slips <= releases
  /\ pc = "waitSuspended" /\ mpReportSuspended => slips < releases

\* The inductive invariant.
IInv ==
  /\ TypeOK /\ HistoryOK
  /\ ThreadOK
  /\ ReporterList!Sorted(reporters)
  /\ QueueIsSuffix /\ CurrentIsLast /\ TakenAccounted
  /\ DeletedOnce /\ AbandonedAccepted
  /\ DeliveredOK
  /\ WakeIsRelease

-----------------------------------------------------------------------------
\* A set of positions that is not empty has a first one.
LEMMA FirstPosition ==
  ASSUME NEW I, I \subseteq Nat, I # {}
  PROVE  ReporterList!Min(I) \in I
<1>1. \E x \in I : \A y \in I : ~(<<y, x>> \in OpToRel(<, Nat))
  BY WFMin, NatLessThanWellFounded
<1>2. \A x, y \in Nat : x < y => <<x, y>> \in OpToRel(<, Nat)
  BY DEF OpToRel
<1>3. \A x, y \in Nat : ~(x < y) => y <= x
  OBVIOUS
<1>4. \E x \in I : \A y \in I : x <= y
  BY <1>1, <1>2, <1>3, Zenon
<1> QED
  BY <1>4, Zenon DEF ReporterList!Min

\* InsertAt makes room for the element.
LEMMA Inserted ==
  ASSUME NEW S, NEW l \in Seq(S), NEW k \in 1 .. Len(l) + 1, NEW r \in S
  PROVE  LET a == ReporterList!InsertAt(l, k, r) IN
         /\ a \in Seq(S)
         /\ Len(a) = Len(l) + 1
         /\ \A i \in 1 .. Len(l) + 1 :
              a[i] = IF i < k THEN l[i] ELSE IF i = k THEN r ELSE l[i - 1]
<1> DEFINE u == SubSeq(l, 1, k - 1)
           v == SubSeq(l, k, Len(l))
           w == u \o <<r>>
           a == w \o v
<1>1. Len(l) \in Nat /\ k \in Nat /\ k - 1 \in 0 .. Len(l)
  OBVIOUS
<1>2. /\ u \in Seq(S) /\ Len(u) = k - 1
      /\ \A i \in 1 .. k - 1 : u[i] = l[i]
      /\ v \in Seq(S) /\ Len(v) = Len(l) - k + 1
      /\ \A i \in 1 .. Len(l) - k + 1 : v[i] = l[i + k - 1]
  BY <1>1
<1> HIDE DEF u, v
<1>3. /\ w \in Seq(S) /\ Len(w) = k
      /\ \A i \in 1 .. k : w[i] = IF i < k THEN l[i] ELSE r
  BY <1>1, <1>2
<1> HIDE DEF w
<1>4. /\ a \in Seq(S) /\ Len(a) = Len(l) + 1
      /\ \A i \in 1 .. Len(l) + 1 : a[i] = IF i <= k THEN w[i] ELSE v[i - k]
  BY <1>1, <1>2, <1>3
<1>5. \A i \in 1 .. Len(l) + 1 : i > k => v[i - k] = l[i - 1]
  <2> TAKE i \in 1 .. Len(l) + 1
  <2>1. i > k => i - k \in 1 .. Len(l) - k + 1 /\ (i - k) + k - 1 = i - 1
    BY <1>1
  <2> QED
    BY <1>2, <2>1
<1>6. a = ReporterList!InsertAt(l, k, r)
  BY DEF ReporterList!InsertAt, u, v, w
<1> HIDE DEF a
<1>7. \A i \in 1 .. Len(l) + 1 :
        a[i] = IF i < k THEN l[i] ELSE IF i = k THEN r ELSE l[i - 1]
  <2> TAKE i \in 1 .. Len(l) + 1
  <2>1. CASE i <= k
    <3>1. i \in 1 .. k
      BY <1>1, <2>1
    <3> QED
      BY <1>1, <1>3, <1>4, <2>1, <3>1
  <2>2. CASE i > k
    BY <1>1, <1>4, <1>5, <2>2
  <2> QED
    BY <1>1, <2>1, <2>2
<1> QED
  BY <1>4, <1>6, <1>7

\* RemoveAt closes the gap.
LEMMA RemovedAt ==
  ASSUME NEW S, NEW l \in Seq(S), NEW k \in 1 .. Len(l)
  PROVE  LET a == ReporterList!RemoveAt(l, k) IN
         /\ a \in Seq(S)
         /\ Len(a) = Len(l) - 1
         /\ \A i \in 1 .. Len(l) - 1 : a[i] = IF i < k THEN l[i] ELSE l[i + 1]
<1> DEFINE u == SubSeq(l, 1, k - 1)
           v == SubSeq(l, k + 1, Len(l))
           a == u \o v
<1>1. Len(l) \in Nat /\ k \in Nat /\ k - 1 \in 0 .. Len(l)
  OBVIOUS
<1>2. /\ u \in Seq(S) /\ Len(u) = k - 1
      /\ \A i \in 1 .. k - 1 : u[i] = l[i]
      /\ v \in Seq(S) /\ Len(v) = Len(l) - k
      /\ \A i \in 1 .. Len(l) - k : v[i] = l[i + k]
  BY <1>1
<1> HIDE DEF u, v
<1>3. /\ a \in Seq(S) /\ Len(a) = Len(l) - 1
      /\ \A i \in 1 .. Len(l) - 1 : a[i] = IF i < k THEN u[i] ELSE v[i - (k - 1)]
  <2>1. /\ a \in Seq(S) /\ Len(a) = Len(u) + Len(v)
        /\ \A i \in 1 .. Len(u) + Len(v) : a[i] = IF i <= Len(u) THEN u[i] ELSE v[i - Len(u)]
    BY <1>2, ConcatProperties
  <2>2. Len(u) + Len(v) = Len(l) - 1 /\ Len(u) = k - 1
    BY <1>1, <1>2
  <2>3. \A i \in 1 .. Len(l) - 1 : i <= k - 1 <=> i < k
    BY <1>1
  <2> HIDE DEF a
  <2> QED
    BY <2>1, <2>2, <2>3
<1>4. \A i \in 1 .. Len(l) - 1 : ~(i < k) => v[i - (k - 1)] = l[i + 1]
  <2> TAKE i \in 1 .. Len(l) - 1
  <2>1. ~(i < k) => i - (k - 1) \in 1 .. Len(l) - k /\ (i - (k - 1)) + k = i + 1
    BY <1>1
  <2> QED
    BY <1>2, <2>1
<1>5. a = ReporterList!RemoveAt(l, k)
  BY DEF ReporterList!RemoveAt, u, v
<1> HIDE DEF a
<1>6. \A i \in 1 .. Len(l) - 1 : a[i] = IF i < k THEN l[i] ELSE l[i + 1]
  BY <1>1, <1>2, <1>3, <1>4
<1> QED
  BY <1>3, <1>5, <1>6

\* The first reporter of a priority has a place in the list or after it.
LEMMA FirstOfPlace ==
  ASSUME NEW l \in Seq(Reporters), NEW p
  PROVE  LET k == ReporterList!FirstOf(l, p) IN
         /\ k \in 1 .. Len(l) + 1
         /\ k # Len(l) + 1 => PriorityOf[l[k]] = p
         /\ \A i \in 1 .. Len(l) : PriorityOf[l[i]] = p => k <= i
<1> DEFINE I == {i \in DOMAIN l : PriorityOf[l[i]] = p}
<1>1. I \subseteq 1 .. Len(l) /\ I \subseteq Nat /\ Len(l) \in Nat
  OBVIOUS
<1>2. I # {} => /\ ReporterList!Min(I) \in I
                /\ \A i \in I : ReporterList!Min(I) <= i
  <2>1. ASSUME I # {} PROVE \E x \in I : \A y \in I : ~(<<y, x>> \in OpToRel(<, Nat))
    BY <1>1, <2>1, WFMin, NatLessThanWellFounded
  <2>2. \A x, y \in Nat : x < y => <<x, y>> \in OpToRel(<, Nat)
    BY DEF OpToRel
  <2>3. \A x, y \in Nat : ~(x < y) => y <= x
    OBVIOUS
  <2>4. I # {} => \E x \in I : \A y \in I : x <= y
    BY <1>1, <2>1, <2>2, <2>3, Zenon
  <2> QED
    BY <2>4, Zenon DEF ReporterList!Min
<1>3. ReporterList!FirstOf(l, p) =
        IF I = {} THEN Len(l) + 1 ELSE ReporterList!Min(I)
  BY DEF ReporterList!FirstOf
<1> QED
  BY <1>1, <1>2, <1>3

\* add() keeps the list without doubles, and Normal before Low.
LEMMA AddedSorted ==
  ASSUME ReportQAssumption,
         NEW l \in Seq(Reporters), ReporterList!Sorted(l), NEW r \in Reporters
  PROVE  LET a == ReporterList!Added(l, r) IN
         /\ a \in Seq(Reporters)
         /\ ReporterList!Sorted(a)
<1> DEFINE p == ReporterList!NextPriority(PriorityOf[r])
           k == ReporterList!FirstOf(l, p)
           a == ReporterList!InsertAt(l, k, r)
<1>1. CASE \E i \in DOMAIN l : l[i] = r
  BY <1>1 DEF ReporterList!Added, ReporterList!Contains
<1>2. CASE \A i \in 1 .. Len(l) : l[i] # r
  <2>1. ReporterList!Added(l, r) = a
    BY <1>2 DEF ReporterList!Added, ReporterList!Contains
  <2>2. /\ k \in 1 .. Len(l) + 1
        /\ k # Len(l) + 1 => PriorityOf[l[k]] = p
        /\ \A i \in 1 .. Len(l) : PriorityOf[l[i]] = p => k <= i
    BY FirstOfPlace
  <2>3. PriorityOf[r] = "Normal" \/ PriorityOf[r] = "Low" => p = "Low"
    BY DEF ReporterList!NextPriority
  <2> HIDE DEF p, k
  <2>4. /\ a \in Seq(Reporters)
        /\ Len(a) = Len(l) + 1
        /\ \A i \in 1 .. Len(l) + 1 :
             a[i] = IF i < k THEN l[i] ELSE IF i = k THEN r ELSE l[i - 1]
    BY <2>2, Inserted
  <2> HIDE DEF a
  <2>5. Len(l) \in Nat /\ k \in Nat
    BY <2>2
  \* Each place of the new list is that of r, or has an old place.
  <2>6. \A i \in 1 .. Len(a) :
          \/ i = k /\ a[i] = r
          \/ \E m \in 1 .. Len(l) : a[i] = l[m] /\ i = IF m < k THEN m ELSE m + 1
    <3> TAKE i \in 1 .. Len(a)
    <3>0. CASE i = k
      BY <2>2, <2>4, <2>5, <3>0
    <3>1. CASE i < k
      BY <2>2, <2>4, <2>5, <3>1
    <3>2. CASE i > k
      <4>1. /\ i - 1 \in 1 .. Len(l) /\ a[i] = l[i - 1]
            /\ ~(i - 1 < k) /\ i = (i - 1) + 1
        BY <2>2, <2>4, <2>5, <3>2
      <4> QED
        BY <4>1
    <3> QED
      BY <2>4, <2>5, <3>0, <3>1, <3>2
  <2>7. \A i, j \in 1 .. Len(l) : l[i] = l[j] => i = j
    BY DEF ReporterList!Sorted, ReporterList!Unique
  <2>8. \A i, j \in 1 .. Len(a) : a[i] = a[j] => i = j
    <3> SUFFICES ASSUME NEW i \in 1 .. Len(a), NEW j \in 1 .. Len(a), a[i] = a[j]
                 PROVE  i = j
      OBVIOUS
    <3>1. CASE i = k \/ j = k
      <4>1. \A x \in 1 .. Len(a) : x # k => a[x] # r
        BY <1>2, <2>6
      <4>2. \A x \in 1 .. Len(a) : x = k => a[x] = r
        BY <2>4, <2>5
      <4> QED
        BY <3>1, <4>1, <4>2
    <3>2. CASE i # k /\ j # k
      <4>1. PICK m \in 1 .. Len(l) : a[i] = l[m] /\ i = IF m < k THEN m ELSE m + 1
        BY <2>6, <3>2
      <4>2. PICK n \in 1 .. Len(l) : a[j] = l[n] /\ j = IF n < k THEN n ELSE n + 1
        BY <2>6, <3>2
      <4>3. m = n
        BY <2>7, <4>1, <4>2
      <4> QED
        BY <4>1, <4>2, <4>3
    <3> QED
      BY <3>1, <3>2
  <2>9. \A i, j \in 1 .. Len(l) :
          PriorityOf[l[i]] = "Low" /\ PriorityOf[l[j]] = "Normal" => j < i
    BY DEF ReporterList!Sorted, ReporterList!Before
  <2>10. ASSUME NEW i \in 1 .. Len(a), NEW j \in 1 .. Len(a),
                PriorityOf[a[i]] = "Low", PriorityOf[a[j]] = "Normal"
         PROVE  j < i
    <3>1. i \in Nat /\ j \in Nat
      BY <2>4
    <3>2. CASE i = k /\ a[i] = r
      <4>1. j # k
        BY <2>10, <3>2
      <4>2. PICK n \in 1 .. Len(l) : a[j] = l[n] /\ j = IF n < k THEN n ELSE n + 1
        BY <2>6, <4>1
      <4>3. n < k
        BY <2>2, <2>3, <2>5, <2>9, <2>10, <3>2, <4>2
      <4> QED
        BY <3>2, <4>2, <4>3
    <3>3. CASE i # k
      <4>1. PICK m \in 1 .. Len(l) : a[i] = l[m] /\ i = IF m < k THEN m ELSE m + 1
        BY <2>6, <3>3
      <4>2. CASE j = k /\ a[j] = r
        BY <2>2, <2>3, <2>5, <2>10, <4>1, <4>2
      <4>3. CASE \E n \in 1 .. Len(l) : a[j] = l[n] /\ j = IF n < k THEN n ELSE n + 1
        BY <2>5, <2>9, <2>10, <4>1, <4>3
      <4> QED
        BY <2>6, <4>2, <4>3
    <3>4. i = k => a[i] = r
      BY <2>2, <2>4, <2>5
    <3> QED
      BY <3>2, <3>3, <3>4
  <2> QED
    BY <2>1, <2>4, <2>8, <2>10 DEF ReporterList!Sorted, ReporterList!Unique, ReporterList!Before
<1> QED
  BY <1>1, <1>2

\* remove() as well.
LEMMA RemovedSorted ==
  ASSUME NEW l \in Seq(Reporters), ReporterList!Sorted(l), NEW r \in Reporters
  PROVE  LET a == ReporterList!Removed(l, r) IN
         /\ a \in Seq(Reporters)
         /\ ReporterList!Sorted(a)
<1>1. CASE ~\E i \in 1 .. Len(l) : l[i] = r
  BY <1>1 DEF ReporterList!Removed, ReporterList!RemoveFirst
<1>2. CASE \E i \in 1 .. Len(l) : l[i] = r
  <2> DEFINE I == {i \in 1 .. Len(l) : l[i] = r}
             k == ReporterList!Min(I)
             a == ReporterList!RemoveAt(l, k)
  <2>1. k \in 1 .. Len(l)
    <3>1. I \subseteq Nat /\ I # {}
      BY <1>2
    <3>2. k \in I
      BY <3>1, FirstPosition, Zenon
    <3> QED
      BY <3>2
  <2>2. ReporterList!Removed(l, r) = a
    <3>1. I # {}
      BY <1>2
    <3> QED
      BY <1>2, <3>1, Zenon
      DEF ReporterList!Removed, ReporterList!RemoveFirst, ReporterList!SelectInSeq
  <2> HIDE DEF k
  <2>3. /\ a \in Seq(Reporters)
        /\ Len(a) = Len(l) - 1
        /\ \A i \in 1 .. Len(a) : a[i] = IF i < k THEN l[i] ELSE l[i + 1]
    BY <2>1, RemovedAt
  <2> HIDE DEF a
  <2>4. \A i, j \in 1 .. Len(l) : l[i] = l[j] => i = j
    BY DEF ReporterList!Sorted, ReporterList!Unique
  <2>5. \A i, j \in 1 .. Len(a) : a[i] = a[j] => i = j
    <3> SUFFICES ASSUME NEW i \in 1 .. Len(a), NEW j \in 1 .. Len(a), a[i] = a[j]
                 PROVE  i = j
      OBVIOUS
    <3>1. Len(l) \in Nat /\ k \in Nat /\ k <= Len(l)
      BY <2>1
    <3>2. \A x \in 1 .. Len(a) :
            /\ x < k => x \in 1 .. Len(l) /\ a[x] = l[x]
            /\ ~(x < k) => x + 1 \in 1 .. Len(l) /\ a[x] = l[x + 1]
      <4> TAKE x \in 1 .. Len(a)
      <4>1. /\ x \in Nat /\ x <= Len(l) - 1
            /\ x \in 1 .. Len(l) /\ x + 1 \in 1 .. Len(l)
        BY <2>3, <3>1
      <4>2. a[x] = IF x < k THEN l[x] ELSE l[x + 1]
        BY <2>3
      <4> QED
        BY <4>1, <4>2
    <3>3. i \in Nat /\ j \in Nat
      BY <2>3, <3>1
    <3>4. CASE i < k /\ j < k
      BY <2>4, <3>2, <3>4
    <3>5. CASE ~(i < k) /\ ~(j < k)
      <4>1. i + 1 = j + 1
        BY <2>4, <3>2, <3>5
      <4> QED
        BY <3>3, <4>1
    <3>6. CASE i < k /\ ~(j < k)
      <4>1. i = j + 1
        BY <2>4, <3>2, <3>6
      <4> QED
        BY <3>1, <3>3, <3>6, <4>1
    <3>7. CASE ~(i < k) /\ j < k
      <4>1. i + 1 = j
        BY <2>4, <3>2, <3>7
      <4> QED
        BY <3>1, <3>3, <3>7, <4>1
    <3> QED
      BY <3>4, <3>5, <3>6, <3>7
  <2>6. \A i, j \in 1 .. Len(l) :
          PriorityOf[l[i]] = "Low" /\ PriorityOf[l[j]] = "Normal" => j < i
    BY DEF ReporterList!Sorted, ReporterList!Before
  <2>7. ASSUME NEW i \in 1 .. Len(a), NEW j \in 1 .. Len(a),
               PriorityOf[a[i]] = "Low", PriorityOf[a[j]] = "Normal"
        PROVE  j < i
    <3>1. Len(l) \in Nat /\ k \in Nat /\ i \in Nat /\ j \in Nat
      BY <2>1, <2>3
    <3>2. PICK m \in 1 .. Len(l) : a[i] = l[m] /\ m = IF i < k THEN i ELSE i + 1
      BY <2>1, <2>3, <3>1
    <3>3. PICK n \in 1 .. Len(l) : a[j] = l[n] /\ n = IF j < k THEN j ELSE j + 1
      BY <2>1, <2>3, <3>1
    <3>4. n < m
      BY <2>6, <2>7, <3>2, <3>3
    <3> QED
      BY <3>1, <3>2, <3>3, <3>4
  <2> QED
    BY <2>2, <2>3, <2>5, <2>7 DEF ReporterList!Sorted, ReporterList!Unique, ReporterList!Before
<1> QED
  BY <1>1, <1>2

-----------------------------------------------------------------------------
\* A step of the thread that looks for an event leaves the queue as it is, or takes
\* the first event; it does that while suspended only when it was told to resume.
Stay ==
  /\ pc' \in {"top", "waitNewEvent", "waitSuspended", "finished"}
  /\ UNCHANGED <<eventQueue, currEvent, slips>>
  /\ pc' = "waitSuspended" => ~mpReportSuspended'

Pop ==
  /\ eventQueue # <<>>
  /\ pc' = "lockList"
  /\ currEvent' = Head(eventQueue)
  /\ eventQueue' = Tail(eventQueue)
  /\ slips' = IF suspended > 0 THEN slips + 1 ELSE slips
  /\ suspended > 0 => pc = "waitSuspended" /\ mpReportSuspended

Looks == TopEmpty \/ TopEvents \/ WakeNewEvent \/ WakeSuspended

\* What the thread does when it looks: it stays, or takes the first event.
LEMMA LooksAre ==
  ASSUME Looks
  PROVE  /\ pc \in {"top", "waitNewEvent", "waitSuspended"}
         /\ ThreadUnchanged
         /\ UNCHANGED mpNewEvent \/ mpNewEvent' = FALSE
         /\ UNCHANGED mpReportSuspended \/ mpReportSuspended' = FALSE
         /\ Stay \/ Pop
<1> USE DEF CheckSuspended, CheckTerminate, PopEvent, Stay, Pop
<1>1. CASE TopEmpty
  BY <1>1 DEF TopEmpty
<1>2. CASE TopEvents
  BY <1>2 DEF TopEvents
<1>3. CASE WakeNewEvent
  BY <1>3 DEF WakeNewEvent
<1>4. CASE WakeSuspended
  BY <1>4 DEF WakeSuspended, signals
<1> QED
  BY <1>1, <1>2, <1>3, <1>4 DEF Looks

\* report() queues an event that is new, or deletes it.
LEMMA ReportsNew ==
  ASSUME NEW e \in Events, report(e),
         eventQueue \in Seq(Events), accepted \in Seq(Events), deletes \in [Events -> Nat]
  PROVE  /\ deletes[e] = 0 /\ ~Contains(accepted, e)
         /\ \/ /\ deletes' = [deletes EXCEPT ![e] = @ + 1]
               /\ UNCHANGED <<eventQueue, accepted>>
            \/ /\ eventQueue' = Append(eventQueue, e)
               /\ accepted' = Append(accepted, e)
               /\ UNCHANGED deletes
         /\ eventQueue' \in Seq(Events) /\ accepted' \in Seq(Events)
         /\ deletes' \in [Events -> Nat]
<1>1. deletes[e] = 0 /\ ~Contains(accepted, e)
  BY Zenon DEF report
<1>2. \/ deletes' = [deletes EXCEPT ![e] = @ + 1] /\ UNCHANGED <<eventQueue, accepted>>
      \/ /\ eventQueue' = Append(eventQueue, e) /\ accepted' = Append(accepted, e)
         /\ UNCHANGED deletes
  BY Zenon DEF report
<1>3. CASE deletes' = [deletes EXCEPT ![e] = @ + 1] /\ UNCHANGED <<eventQueue, accepted>>
  BY <1>1, <1>3
<1>4. CASE /\ eventQueue' = Append(eventQueue, e) /\ accepted' = Append(accepted, e)
           /\ UNCHANGED deletes
  BY <1>1, <1>4
<1> QED
  BY <1>2, <1>3, <1>4

\* The steps keep the types.
LEMMA TypesKept ==
  ASSUME IInv, [Next]_vars
  PROVE  TypeOK' /\ HistoryOK'
<1> USE ReportQAssumption DEF IInv, TypeOK, HistoryOK, queue, signals, thread, list, history, Call
<1>1. CASE UNCHANGED vars
  BY <1>1 DEF vars
<1>2. CASE Looks
  <2>1. eventQueue # <<>> => Head(eventQueue) \in Events /\ Tail(eventQueue) \in Seq(Events)
    OBVIOUS
  <2>2. Stay \/ Pop
    BY <1>2, LooksAre
  <2>3. /\ eventQueue' \in Seq(Events) /\ currEvent' \in Events \cup {NULL}
        /\ slips' \in Nat
        /\ pc' \in {"none", "top", "waitNewEvent", "waitSuspended", "lockList",
                   "signal", "delete", "finished"}
    <3>1. CASE Stay
      BY <3>1 DEF Stay
    <3>2. CASE Pop
      BY <2>1, <3>2 DEF Pop
    <3> QED
      BY <2>2, <3>1, <3>2
  <2>4. mpNewEvent' \in BOOLEAN /\ mpReportSuspended' \in BOOLEAN
    BY <1>2, LooksAre
  <2>5. ThreadUnchanged
    BY <1>2, LooksAre
  <2>6. TypeOK'
    BY <2>3, <2>4, <2>5 DEF ThreadUnchanged
  <2>7. HistoryOK'
    BY <2>3, <2>5 DEF ThreadUnchanged
  <2> QED
    BY <2>6, <2>7
<1>3. CASE LockReporters
  BY <1>3 DEF LockReporters
<1>4. CASE SignalReporter
  <2>1. currEvent \in Events /\ cursor \in 1 .. Len(reporters)
    BY <1>4 DEF SignalReporter, ThreadOK, Holding
  <2>2. reporters[cursor] \in Reporters
    BY <2>1
  <2>3. delivered' \in [Reporters -> Seq(Events)]
    BY <1>4, <2>1, <2>2 DEF SignalReporter
  <2> QED
    BY <1>4, <2>1, <2>3 DEF SignalReporter
<1>5. CASE UnlockReporters
  BY <1>5 DEF UnlockReporters
<1>6. CASE DeleteEvent
  <2>1. currEvent \in Events
    BY <1>6 DEF DeleteEvent, ThreadOK, Holding
  <2>2. deletes' \in [Events -> Nat]
    BY <1>6, <2>1 DEF DeleteEvent
  <2> QED
    BY <1>6, <2>2 DEF DeleteEvent
<1>7. ASSUME NEW e \in Events, report(e) PROVE TypeOK' /\ HistoryOK'
  <2>1. eventQueue \in Seq(Events) /\ accepted \in Seq(Events) /\ deletes \in [Events -> Nat]
    OBVIOUS
  <2>2. /\ eventQueue' \in Seq(Events) /\ accepted' \in Seq(Events)
        /\ deletes' \in [Events -> Nat]
    BY <1>7, <2>1, ReportsNew, Zenon
  <2>3. mpNewEvent' \in BOOLEAN
    BY <1>7, Zenon DEF report
  <2> QED
    BY <1>7, <2>1, <2>2, <2>3 DEF report
<1>8. ASSUME NEW c \in Clients, suspend(c) PROVE TypeOK' /\ HistoryOK'
  BY <1>8 DEF suspend
<1>9. ASSUME NEW c \in Clients, resume(c) PROVE TypeOK' /\ HistoryOK'
  BY <1>9 DEF resume
<1>10. ASSUME NEW r \in Reporters, RegisterReporter(r) PROVE TypeOK' /\ HistoryOK'
  <2>1. /\ reporters' = ReporterList!Added(reporters, r)
        /\ pc # "signal" /\ UNCHANGED cursor /\ ~Contains(reporters, r)
    BY <1>10 DEF RegisterReporter, EditList, ThreadOK
  <2>2. reporters' \in Seq(Reporters) /\ Len(reporters') \in Nat /\ cursor = 0
    BY <2>1, AddedSorted DEF ThreadOK
  <2>3. cursor' \in 0 .. Len(reporters') + 1
    BY <2>1, <2>2
  <2> QED
    BY <1>10, <2>2, <2>3 DEF RegisterReporter, EditList
<1>11. ASSUME NEW r \in Reporters, UnregisterReporter(r) PROVE TypeOK' /\ HistoryOK'
  <2>1. /\ reporters' = ReporterList!Removed(reporters, r)
        /\ pc # "signal" /\ UNCHANGED cursor
    BY <1>11 DEF UnregisterReporter, EditList, ThreadOK
  <2>2. reporters' \in Seq(Reporters) /\ Len(reporters') \in Nat /\ cursor = 0
    BY <2>1, RemovedSorted DEF ThreadOK
  <2>3. cursor' \in 0 .. Len(reporters') + 1
    BY <2>1, <2>2
  <2> QED
    BY <1>11, <2>2, <2>3 DEF UnregisterReporter, EditList
<1>12. CASE start \/ stop
  <2>1. isInFlushMode' \in BOOLEAN
    BY <1>12, Zenon DEF start, stop, SetFlushMode
  <2>2. /\ UNCHANGED <<eventQueue, terminateThread, suspended, signals, thread, list, joining>>
        /\ UNCHANGED <<held, history, releases>>
    BY <1>12, Zenon DEF start, stop, SetFlushMode
  <2> QED
    BY <2>1, <2>2, Zenon
<1>13. CASE DoInit
  <2>1. abandoned' \in SUBSET Events
    BY <1>13 DEF DoInit, ToSet
  <2>2. eventQueue' \in Seq(Events)
    BY <1>13 DEF DoInit
  <2> QED
    BY <1>13, <2>1, <2>2 DEF DoInit
<1>14. CASE terminate
  BY <1>14 DEF terminate
<1>15. CASE JoinReturns
  BY <1>15 DEF JoinReturns
<1> QED
  BY <1>1, <1>2, <1>3, <1>4, <1>5, <1>6, <1>7, <1>8, <1>9, <1>10, <1>11, <1>12, <1>13,
     <1>14, <1>15 DEF Next, Thread, Looks, ClientCall, Owner

-----------------------------------------------------------------------------
\* The invariants of the queue, and what each step does to them.
QueueOK ==
  QueueIsSuffix /\ CurrentIsLast /\ TakenAccounted /\ DeletedOnce /\ AbandonedAccepted

\* The thread takes the first event: it is the next one that was accepted.
LEMMA PopKeepsQueue ==
  ASSUME IInv, Pop, ~Holding, UNCHANGED <<accepted, deletes, abandoned>>
  PROVE  QueueOK'
<1> USE DEF IInv, TypeOK, HistoryOK
<1> DEFINE n == Taken
<1>1. /\ n \in Nat /\ Len(eventQueue) \in Nat \ {0}
      /\ Len(accepted) \in Nat /\ n + Len(eventQueue) = Len(accepted)
  BY DEF Pop, QueueIsSuffix, Taken
<1>2. /\ eventQueue' \in Seq(Events) /\ Len(eventQueue') = Len(eventQueue) - 1
      /\ \A i \in 1 .. Len(eventQueue) - 1 : eventQueue'[i] = eventQueue[i + 1]
      /\ currEvent' = eventQueue[1]
  BY <1>1 DEF Pop
<1>3. Taken' = n + 1
  BY <1>1, <1>2 DEF Taken
<1>4. \A i \in 1 .. Len(eventQueue) :
           /\ eventQueue[i] = accepted[n + i]
           /\ eventQueue[i] \notin abandoned
           /\ deletes[eventQueue[i]] = 0
  BY DEF QueueIsSuffix
<1> HIDE DEF n
<1>5. currEvent' = accepted[n + 1]
  BY <1>1, <1>2, <1>4
<1>6. QueueIsSuffix'
  <2>1. \A i \in 1 .. Len(eventQueue') :
           /\ eventQueue'[i] = accepted[(n + 1) + i]
           /\ eventQueue'[i] \notin abandoned
           /\ deletes[eventQueue'[i]] = 0
    <3> TAKE i \in 1 .. Len(eventQueue')
    <3>1. /\ i + 1 \in 1 .. Len(eventQueue) /\ n + (i + 1) = (n + 1) + i
          /\ i \in 1 .. Len(eventQueue) - 1
      <4> HIDE DEF IInv, TypeOK, HistoryOK
      <4>1. Len(eventQueue') = Len(eventQueue) - 1
        BY <1>2
      <4> QED
        BY <1>1, <4>1
    <3>2. eventQueue[i + 1] = accepted[n + (i + 1)]
      BY <1>4, <3>1
    <3>3. eventQueue[i + 1] \notin abandoned /\ deletes[eventQueue[i + 1]] = 0
      BY <1>4, <3>1
    <3>4. eventQueue'[i] = eventQueue[i + 1]
      BY <1>2, <3>1
    <3> QED
      BY <1>2, <3>1, <3>2, <3>3, <3>4
  <2> QED
    BY <1>1, <1>3, <2>1 DEF QueueIsSuffix
<1>7. CurrentIsLast'
  BY <1>1, <1>3, <1>5 DEF CurrentIsLast
<1>8. TakenAccounted'
  <2>1. \A i \in 1 .. n : accepted[i] # currEvent'
    <3>1. \A i \in 1 .. n : i \in 1 .. Len(accepted) /\ i # n + 1
      BY <1>1
    <3>2. n + 1 \in 1 .. Len(accepted)
      BY <1>1
    <3> QED
      BY <1>5, <3>1, <3>2 DEF QueueIsSuffix
  <2>2. \A i \in 1 .. n : accepted[i] \in Events /\ currEvent = NULL /\ accepted[i] # currEvent
    BY <1>1, ReportQAssumption DEF ThreadOK
  <2>3. \A i \in 1 .. n : deletes[accepted[i]] = 1 <=> accepted[i] \notin abandoned
    BY <2>2 DEF TakenAccounted, n
  <2>4. deletes[accepted[n + 1]] = 0 /\ accepted[n + 1] \notin abandoned
    <3>1. 1 \in 1 .. Len(eventQueue)
      BY <1>1
    <3> QED
      BY <1>4, <3>1
  <2>5. \A i \in 1 .. n + 1 : i \in 1 .. n \/ i = n + 1
    BY <1>1
  <2> QED
    BY <1>3, <1>5, <2>1, <2>3, <2>4, <2>5 DEF TakenAccounted
<1>9. DeletedOnce' /\ AbandonedAccepted'
  BY DEF DeletedOnce, AbandonedAccepted
<1> QED
  BY <1>6, <1>7, <1>8, <1>9 DEF QueueOK

\* An event that report() queues is new to the queue and to every other place.
LEMMA AcceptKeepsQueue ==
  ASSUME IInv, NEW e \in Events, ~Contains(accepted, e), deletes[e] = 0,
         eventQueue' = Append(eventQueue, e), accepted' = Append(accepted, e),
         UNCHANGED <<pc, currEvent, deletes, abandoned>>
  PROVE  QueueOK'
<1> USE DEF IInv, TypeOK, HistoryOK
<1> DEFINE n == Taken
           k == Len(accepted)
           q == Len(eventQueue)
<1>1. n \in Nat /\ k \in Nat /\ q \in Nat /\ n + q = k
  BY DEF QueueIsSuffix, Taken
<1>2. /\ Len(eventQueue') = q + 1 /\ Len(accepted') = k + 1
      /\ \A i \in 1 .. q : eventQueue'[i] = eventQueue[i]
      /\ \A i \in 1 .. k : accepted'[i] = accepted[i]
      /\ eventQueue'[q + 1] = e /\ accepted'[k + 1] = e
  OBVIOUS
<1>3. Taken' = n
  BY <1>1, <1>2 DEF Taken
<1>4. \A i \in 1 .. k : accepted[i] # e
  BY DEF Contains
<1>5. e \notin abandoned
  BY DEF AbandonedAccepted
<1>6. \A i \in 1 .. q : /\ eventQueue[i] = accepted[n + i]
                        /\ eventQueue[i] \notin abandoned
                        /\ deletes[eventQueue[i]] = 0
  BY DEF QueueIsSuffix
<1>7. \A i, j \in 1 .. k : accepted[i] = accepted[j] => i = j
  BY DEF QueueIsSuffix
<1>8. Holding' = Holding
  BY DEF Holding
<1> HIDE DEF n, k, q
<1>9. QueueIsSuffix'
  <2>1. \A i \in 1 .. k + 1 : i \in 1 .. k \/ i = k + 1
    BY <1>1
  <2>2. \A i, j \in 1 .. k + 1 : accepted'[i] = accepted'[j] => i = j
    BY <1>2, <1>4, <1>7, <2>1
  <2>3. \A i \in 1 .. q + 1 : /\ eventQueue'[i] = accepted'[n + i]
                              /\ eventQueue'[i] \notin abandoned
                              /\ deletes[eventQueue'[i]] = 0
    <3>1. \A i \in 1 .. q : n + i \in 1 .. k
      BY <1>1
    <3>2. \A i \in 1 .. q + 1 : i \in 1 .. q \/ (i = q + 1 /\ n + i = k + 1)
      BY <1>1
    <3>3. \A i \in 1 .. q : eventQueue'[i] = eventQueue[i] /\ accepted'[n + i] = accepted[n + i]
      BY <1>2, <3>1
    <3>4. \A i \in 1 .. q : /\ eventQueue'[i] = accepted'[n + i]
                            /\ eventQueue'[i] \notin abandoned
                            /\ deletes[eventQueue'[i]] = 0
      BY <1>6, <3>3
    <3>5. /\ eventQueue'[q + 1] = accepted'[n + (q + 1)]
          /\ eventQueue'[q + 1] \notin abandoned
          /\ deletes[eventQueue'[q + 1]] = 0
      <4>1. n + (q + 1) = k + 1
        BY <1>1
      <4> QED
        BY <1>2, <1>5, <4>1
    <3> TAKE i \in 1 .. q + 1
    <3>6. CASE i \in 1 .. q
      BY <3>4, <3>6
    <3>7. CASE i = q + 1
      BY <3>5, <3>7
    <3> QED
      BY <3>2, <3>6, <3>7
  <2>4. Taken' >= 0 /\ Len(accepted)' = k + 1 /\ Len(eventQueue)' = q + 1
    BY <1>1, <1>2, <1>3
  <2>5. abandoned' = abandoned /\ deletes' = deletes
    OBVIOUS
  <2>6. \A i, j \in 1 .. Len(accepted') : accepted'[i] = accepted'[j] => i = j
    BY <2>2, <2>4
  <2>7. \A i \in 1 .. Len(eventQueue') : /\ eventQueue'[i] = accepted'[Taken' + i]
                                        /\ eventQueue'[i] \notin abandoned'
                                        /\ deletes'[eventQueue'[i]] = 0
    BY <1>3, <2>3, <2>4, <2>5
  <2> QED
    BY <2>4, <2>6, <2>7, Zenon DEF QueueIsSuffix
<1>10. \A i \in 1 .. n : i \in 1 .. k
  BY <1>1
<1>11. CurrentIsLast'
  BY <1>1, <1>2, <1>3, <1>8, <1>10, SMTT(30) DEF CurrentIsLast, n
<1>12. TakenAccounted'
  <2>1. \A i \in 1 .. n : accepted'[i] = accepted[i]
    BY <1>2, <1>10
  <2>2. UNCHANGED <<currEvent, abandoned, deletes>> /\ TakenAccounted
    OBVIOUS
  <2> HIDE DEF IInv, TypeOK, HistoryOK
  <2>3. \A i \in 1 .. n :
           IF accepted'[i] = currEvent'
           THEN deletes'[accepted'[i]] = 0 /\ accepted'[i] \notin abandoned'
           ELSE deletes'[accepted'[i]] = 1 <=> accepted'[i] \notin abandoned'
    BY <2>1, <2>2 DEF TakenAccounted, n
  <2> QED
    BY <1>3, <2>3, Zenon DEF TakenAccounted
<1>13. DeletedOnce' /\ AbandonedAccepted'
  <2>1. \A x \in abandoned : \E i \in 1 .. k : accepted[i] = x
    BY DEF AbandonedAccepted, Contains, k
  <2>2. \A i \in 1 .. k : i \in 1 .. Len(accepted')
    BY <1>1, <1>2
  <2> QED
    BY <1>2, <2>1, <2>2 DEF DeletedOnce, AbandonedAccepted, Contains
<1> QED
  BY <1>9, <1>11, <1>12, <1>13 DEF QueueOK

\* An event deleted at once is none of the accepted ones.
LEMMA FlushKeepsQueue ==
  ASSUME IInv, NEW e \in Events, ~Contains(accepted, e), deletes[e] = 0,
         deletes' = [deletes EXCEPT ![e] = @ + 1],
         UNCHANGED <<eventQueue, accepted, pc, currEvent, abandoned>>
  PROVE  QueueOK'
<1> USE DEF IInv, TypeOK, HistoryOK
<1>1. \A x \in Events : deletes'[x] = IF x = e THEN 1 ELSE deletes[x]
  OBVIOUS
<1>2. \A i \in 1 .. Len(accepted) : accepted[i] # e /\ accepted[i] \in Events
  BY DEF Contains
<1>3. Taken' = Taken /\ Holding' = Holding /\ Len(accepted) \in Nat /\ Len(eventQueue) \in Nat
  BY DEF Taken, Holding
<1>4. \A i \in 1 .. Len(eventQueue) : Taken + i \in 1 .. Len(accepted)
  BY <1>3 DEF QueueIsSuffix, Taken
<1>5. QueueIsSuffix'
  BY <1>1, <1>2, <1>3, <1>4, SMTT(30) DEF QueueIsSuffix
<1>6. CurrentIsLast'
  BY <1>3 DEF CurrentIsLast
<1>7. \A i \in 1 .. Taken : i \in 1 .. Len(accepted)
  BY <1>3 DEF Taken, QueueIsSuffix
<1>8. TakenAccounted'
  BY <1>1, <1>2, <1>3, <1>7 DEF TakenAccounted
<1>9. DeletedOnce' /\ AbandonedAccepted'
  BY <1>1 DEF DeletedOnce, AbandonedAccepted
<1> QED
  BY <1>5, <1>6, <1>8, <1>9 DEF QueueOK

\* The event that is signalled was not deleted before.
LEMMA DeleteKeepsQueue ==
  ASSUME IInv, DeleteEvent
  PROVE  QueueOK'
<1> USE DEF IInv, TypeOK, HistoryOK
<1>1. /\ Taken >= 1 /\ currEvent = accepted[Taken] /\ currEvent \in Events
      /\ UNCHANGED <<eventQueue, accepted, abandoned>>
      /\ ~Holding' /\ currEvent' = NULL
      /\ deletes' = [deletes EXCEPT ![currEvent] = @ + 1]
  BY DEF DeleteEvent, Holding, CurrentIsLast, ThreadOK, queue
<1>2. Taken' = Taken /\ Len(accepted) \in Nat /\ Len(eventQueue) \in Nat
  BY <1>1 DEF Taken
<1>3. Taken \in 1 .. Len(accepted) /\ Taken \in 1 .. Taken
  BY <1>1, <1>2 DEF Taken, QueueIsSuffix
<1>4. deletes[currEvent] = 0 /\ currEvent \notin abandoned
  BY <1>1, <1>3 DEF TakenAccounted
<1>5. \A x \in Events : deletes'[x] = IF x = currEvent THEN 1 ELSE deletes[x]
  BY <1>1, <1>4
<1>6. \A i \in 1 .. Len(eventQueue) : /\ Taken + i \in 1 .. Len(accepted)
                                      /\ Taken + i # Taken
  BY <1>2, <1>3, SMTT(30) DEF Taken
<1>7. \A i \in 1 .. Len(eventQueue) : eventQueue[i] # currEvent /\ eventQueue[i] \in Events
  BY <1>1, <1>3, <1>6, SMTT(30) DEF QueueIsSuffix
<1>8. QueueIsSuffix'
  BY <1>1, <1>2, <1>5, <1>7 DEF QueueIsSuffix
<1>9. CurrentIsLast'
  BY <1>1 DEF CurrentIsLast
<1>10. \A i \in 1 .. Taken : accepted[i] \in Events /\ accepted[i] # NULL
  BY <1>3, ReportQAssumption
<1>11. TakenAccounted'
  BY <1>1, <1>2, <1>4, <1>5, <1>10 DEF TakenAccounted
<1>12. DeletedOnce' /\ AbandonedAccepted'
  BY <1>1, <1>5 DEF DeletedOnce, AbandonedAccepted
<1> QED
  BY <1>8, <1>9, <1>11, <1>12 DEF QueueOK

\* init() drops what is queued.
LEMMA InitKeepsQueue ==
  ASSUME IInv, DoInit
  PROVE  QueueOK'
<1> USE DEF IInv, TypeOK, HistoryOK
<1> DEFINE n == Taken
           k == Len(accepted)
           q == Len(eventQueue)
<1>1. /\ n \in Nat /\ k \in Nat /\ q \in Nat /\ n + q = k
  BY DEF QueueIsSuffix, Taken
<1>2. /\ eventQueue' = <<>> /\ UNCHANGED <<accepted, deletes, currEvent>>
      /\ ~Holding /\ ~Holding' /\ currEvent = NULL
  BY DEF DoInit, Holding, ThreadOK
<1>3. \A x : x \in abandoned' <=> x \in abandoned \/ \E i \in 1 .. q : eventQueue[i] = x
  BY DEF DoInit, ToSet
<1>4. Taken' = k
  BY <1>1, <1>2 DEF Taken
<1>5. \A i \in 1 .. q : /\ eventQueue[i] = accepted[n + i]
                        /\ eventQueue[i] \notin abandoned
                        /\ deletes[eventQueue[i]] = 0
  BY DEF QueueIsSuffix
<1>6. \A i, j \in 1 .. k : accepted[i] = accepted[j] => i = j
  BY DEF QueueIsSuffix
<1>7. \A i \in 1 .. k : accepted[i] \in Events /\ accepted[i] # NULL
  BY ReportQAssumption
<1>8. \A i \in 1 .. n : deletes[accepted[i]] = 1 <=> accepted[i] \notin abandoned
  <2>1. \A i \in 1 .. n : i \in 1 .. k
    BY <1>1
  <2> QED
    BY <1>2, <1>7, <2>1 DEF TakenAccounted
<1> HIDE DEF n, k, q
<1>9. QueueIsSuffix'
  BY <1>1, <1>2, <1>4, <1>6 DEF QueueIsSuffix, k
<1>10. CurrentIsLast'
  BY <1>2 DEF CurrentIsLast
<1>11. TakenAccounted'
  <2>1. \A i \in 1 .. k :
          i \in 1 .. n \/ (i - n \in 1 .. q /\ n + (i - n) = i)
    BY <1>1
  <2>2. \A i \in 1 .. n, j \in 1 .. q : n + j \in 1 .. k /\ i \in 1 .. k /\ i # n + j
    BY <1>1, SMTT(30)
  <2>3. \A i \in 1 .. n, j \in 1 .. q : accepted[i] # eventQueue[j]
    <3> HIDE DEF IInv, TypeOK, HistoryOK
    <3> QED
      BY <1>5, <1>6, <2>2
  <2>4. \A i \in 1 .. n : deletes[accepted[i]] = 1 <=> accepted[i] \notin abandoned'
    <3> TAKE i \in 1 .. n
    <3>1. accepted[i] \in abandoned' <=> accepted[i] \in abandoned
      BY <1>3, <2>3
    <3> QED
      BY <1>8, <3>1
  <2>5. \A i \in 1 .. k \ 1 .. n : deletes[accepted[i]] = 0 /\ accepted[i] \in abandoned'
    <3> TAKE i \in 1 .. k \ 1 .. n
    <3>1. i - n \in 1 .. q /\ accepted[i] = eventQueue[i - n]
      BY <1>5, <2>1
    <3>2. accepted[i] \in abandoned'
      BY <1>3, <3>1
    <3> QED
      BY <1>5, <3>1, <3>2
  <2>6. \A i \in 1 .. k : deletes[accepted[i]] = 1 <=> accepted[i] \notin abandoned'
    BY <2>4, <2>5
  <2> QED
    BY <1>2, <1>4, <1>7, <2>6 DEF TakenAccounted
<1>12. DeletedOnce' /\ AbandonedAccepted'
  <2>1. \A j \in 1 .. q : n + j \in 1 .. k
    BY <1>1
  <2>2. \A x \in abandoned' : \E i \in 1 .. k : accepted[i] = x
    BY <1>3, <1>5, <2>1 DEF AbandonedAccepted, Contains, k
  <2> QED
    BY <1>2, <2>2 DEF DeletedOnce, AbandonedAccepted, Contains, k
<1> QED
  BY <1>9, <1>10, <1>11, <1>12 DEF QueueOK

\* Every other step leaves the events where they are.
LEMMA QueueKept ==
  ASSUME IInv, [Next]_vars
  PROVE  QueueOK'
<1> DEFINE Same == /\ UNCHANGED <<eventQueue, currEvent, accepted, deletes, abandoned>>
                   /\ Holding' = Holding
<1>1. ASSUME Same PROVE QueueOK'
  BY <1>1 DEF IInv, QueueOK, QueueIsSuffix, CurrentIsLast, TakenAccounted, DeletedOnce,
              AbandonedAccepted, Taken, Contains
<1> USE DEF queue, signals, thread, list, history, Holding
<1>2. CASE UNCHANGED vars
  BY <1>1, <1>2 DEF vars
<1>3. CASE Looks
  <2>1. ~Holding /\ UNCHANGED <<accepted, deletes, abandoned>>
    BY <1>3, LooksAre DEF ThreadUnchanged
  <2>2. CASE Stay
    BY <1>1, <2>1, <2>2 DEF Stay
  <2>3. CASE Pop
    BY <2>1, <2>3, PopKeepsQueue
  <2> QED
    BY <1>3, <2>2, <2>3, LooksAre
<1>4. CASE LockReporters
  BY <1>1, <1>4 DEF LockReporters
<1>5. CASE SignalReporter
  BY <1>1, <1>5 DEF SignalReporter
<1>6. CASE UnlockReporters
  BY <1>1, <1>6 DEF UnlockReporters
<1>7. CASE DeleteEvent
  BY <1>7, DeleteKeepsQueue
<1>8. ASSUME NEW e \in Events, report(e) PROVE QueueOK'
  <2>1. eventQueue \in Seq(Events) /\ accepted \in Seq(Events) /\ deletes \in [Events -> Nat]
    BY DEF IInv, TypeOK, HistoryOK
  <2>2. UNCHANGED <<pc, currEvent, abandoned>>
    BY <1>8 DEF report
  <2> QED
    BY <1>8, <2>1, <2>2, ReportsNew, AcceptKeepsQueue, FlushKeepsQueue
<1>9. ASSUME NEW c \in Clients, suspend(c) \/ resume(c) PROVE QueueOK'
  BY <1>1, <1>9 DEF suspend, resume
<1>10. ASSUME NEW r \in Reporters, RegisterReporter(r) \/ UnregisterReporter(r) PROVE QueueOK'
  BY <1>1, <1>10 DEF RegisterReporter, UnregisterReporter, EditList
<1>11. CASE start \/ stop
  BY <1>1, <1>11 DEF start, stop, SetFlushMode
<1>12. CASE DoInit
  BY <1>12, InitKeepsQueue
<1>13. CASE terminate \/ JoinReturns
  BY <1>1, <1>13 DEF terminate, JoinReturns
<1> QED
  BY <1>2, <1>3, <1>4, <1>5, <1>6, <1>7, <1>8, <1>9, <1>10, <1>11, <1>12, <1>13
     DEF Next, Thread, Looks, ClientCall, Owner

-----------------------------------------------------------------------------
\* What the thread holds, and the list.
LEMMA ThreadKept ==
  ASSUME IInv, [Next]_vars
  PROVE  ThreadOK' /\ ReporterList!Sorted(reporters)'
<1> USE ReportQAssumption DEF ThreadOK, Holding, queue, signals, thread, list, history
<1>1. ThreadOK /\ ReporterList!Sorted(reporters)
  BY DEF IInv
<1>2. CASE UNCHANGED vars
  BY <1>1, <1>2 DEF vars
<1>3. CASE Looks
  <2>1. UNCHANGED <<cursor, listLock, reporters>>
    BY <1>3, LooksAre DEF ThreadUnchanged
  <2>2. CASE Stay
    BY <1>1, <1>3, <2>1, <2>2, LooksAre DEF Stay
  <2>3. CASE Pop
    <3>1. Head(eventQueue) \in Events
      BY <2>3 DEF Pop, IInv, TypeOK
    <3> QED
      BY <1>1, <1>3, <2>1, <2>3, <3>1, LooksAre DEF Pop
  <2> QED
    BY <1>3, <2>2, <2>3, LooksAre
<1>4. CASE LockReporters
  BY <1>1, <1>4 DEF LockReporters
<1>5. CASE SignalReporter
  BY <1>1, <1>5 DEF SignalReporter, IInv, TypeOK
<1>6. CASE UnlockReporters
  BY <1>1, <1>6 DEF UnlockReporters
<1>7. CASE DeleteEvent
  BY <1>1, <1>7 DEF DeleteEvent
<1>8. ASSUME NEW e \in Events, report(e) PROVE ThreadOK' /\ ReporterList!Sorted(reporters)'
  BY <1>1, <1>8 DEF report
<1>9. ASSUME NEW c \in Clients, suspend(c) \/ resume(c)
      PROVE  ThreadOK' /\ ReporterList!Sorted(reporters)'
  BY <1>1, <1>9 DEF suspend, resume
<1>10. ASSUME NEW r \in Reporters, RegisterReporter(r) \/ UnregisterReporter(r)
       PROVE  ThreadOK' /\ ReporterList!Sorted(reporters)'
  <2>1. ThreadOK'
    BY <1>1, <1>10 DEF RegisterReporter, UnregisterReporter, EditList
  <2>2. reporters \in Seq(Reporters)
    BY DEF IInv, TypeOK
  <2>3. ReporterList!Sorted(reporters')
    BY <1>1, <1>10, <2>2, AddedSorted, RemovedSorted
       DEF RegisterReporter, UnregisterReporter, EditList
  <2> QED
    BY <2>1, <2>3 DEF ReporterList!Sorted, ReporterList!Unique, ReporterList!Before
<1>11. CASE start \/ stop
  BY <1>1, <1>11 DEF start, stop, SetFlushMode
<1>12. CASE DoInit
  BY <1>1, <1>12 DEF DoInit
<1>13. CASE terminate \/ JoinReturns
  BY <1>1, <1>13 DEF terminate, JoinReturns
<1> QED
  BY <1>2, <1>3, <1>4, <1>5, <1>6, <1>7, <1>8, <1>9, <1>10, <1>11, <1>12, <1>13
     DEF Next, Thread, Looks, ClientCall, Owner

-----------------------------------------------------------------------------
\* The thread is told to resume once more than events slipped through a suspension.
LEMMA WakeKept ==
  ASSUME IInv, [Next]_vars
  PROVE  WakeIsRelease'
<1> USE DEF WakeIsRelease, queue, signals, thread, list, history
<1>1. WakeIsRelease /\ slips \in Nat /\ releases \in Nat /\ suspended \in Nat
  BY DEF IInv, TypeOK, HistoryOK
<1>2. CASE UNCHANGED vars
  BY <1>1, <1>2 DEF vars
<1>3. CASE Looks
  <2>1. UNCHANGED releases
    BY <1>3, LooksAre DEF ThreadUnchanged
  <2>2. CASE Stay
    BY <1>1, <2>1, <2>2 DEF Stay
  <2>3. CASE Pop
    BY <1>1, <2>1, <2>3 DEF Pop
  <2> QED
    BY <1>3, <2>2, <2>3, LooksAre
<1>4. CASE LockReporters \/ SignalReporter \/ UnlockReporters \/ DeleteEvent
  BY <1>1, <1>4 DEF LockReporters, SignalReporter, UnlockReporters, DeleteEvent
<1>5. ASSUME NEW e \in Events, report(e) PROVE WakeIsRelease'
  BY <1>1, <1>5 DEF report
<1>6. ASSUME NEW c \in Clients, suspend(c) PROVE WakeIsRelease'
  BY <1>1, <1>6 DEF suspend
<1>7. ASSUME NEW c \in Clients, resume(c) PROVE WakeIsRelease'
  <2>1. UNCHANGED <<slips, pc>>
    BY <1>7 DEF resume
  <2>2. CASE suspended' = 0
    <3>1. releases' = releases + 1
      BY <1>7, <2>2 DEF resume
    <3> QED
      BY <1>1, <2>1, <3>1
  <2>3. CASE suspended' # 0
    <3>1. releases' = releases /\ (mpReportSuspended' <=> mpReportSuspended)
      BY <1>7, <2>3, Zenon DEF resume
    <3> QED
      BY <1>1, <2>1, <3>1
  <2> QED
    BY <2>2, <2>3
<1>8. ASSUME NEW r \in Reporters, RegisterReporter(r) \/ UnregisterReporter(r)
      PROVE  WakeIsRelease'
  BY <1>1, <1>8 DEF RegisterReporter, UnregisterReporter, EditList
<1>9. CASE start \/ stop
  BY <1>1, <1>9 DEF start, stop, SetFlushMode
<1>10. CASE DoInit \/ JoinReturns
  BY <1>1, <1>10 DEF DoInit, JoinReturns
<1>11. CASE terminate
  BY <1>1, <1>11 DEF terminate
<1> QED
  BY <1>2, <1>3, <1>4, <1>5, <1>6, <1>7, <1>8, <1>9, <1>10, <1>11
     DEF Next, Thread, Looks, ClientCall, Owner

-----------------------------------------------------------------------------
\* What was delivered stays in order when more events are accepted or taken.
LEMMA InOrderKept ==
  ASSUME IInv, NEW d \in Seq(Events), InOrder(d),
         \/ accepted' = accepted
         \/ \E e \in Events : accepted' = Append(accepted, e),
         Taken' \in Nat, Taken' >= Taken
  PROVE  /\ \A i \in 1 .. Len(d) : \E m \in 1 .. Taken' : d[i] = accepted'[m]
         /\ \A i, j \in 1 .. Len(d) :
              i < j => \E m, n \in 1 .. Len(accepted') :
                         m < n /\ accepted'[m] = d[i] /\ accepted'[n] = d[j]
<1> DEFINE k == Len(accepted)
           t == Taken
<1>1. k \in Nat /\ t \in Nat /\ t <= k
  BY DEF IInv, QueueIsSuffix, Taken, TypeOK, HistoryOK
<1>2. /\ Len(accepted') \in Nat /\ k <= Len(accepted')
      /\ \A m \in 1 .. k : accepted'[m] = accepted[m]
  <2>1. accepted \in Seq(Events)
    BY DEF IInv, HistoryOK
  <2>2. CASE accepted' = accepted
    BY <2>1, <2>2
  <2>3. ASSUME NEW e \in Events, accepted' = Append(accepted, e)
        PROVE  /\ Len(accepted') \in Nat /\ k <= Len(accepted')
               /\ \A m \in 1 .. k : accepted'[m] = accepted[m]
    BY <2>1, <2>3
  <2> QED
    BY <2>2, <2>3
<1>3. /\ \A i \in 1 .. Len(d) : \E m \in 1 .. t : d[i] = accepted[m]
      /\ \A i, j \in 1 .. Len(d) :
           i < j => \E m, n \in 1 .. k :
                      m < n /\ accepted[m] = d[i] /\ accepted[n] = d[j]
  BY DEF InOrder
<1>4. \A m \in 1 .. t : m \in 1 .. Taken' /\ m \in 1 .. k
  BY <1>1
<1>5. \A m \in 1 .. k : m \in 1 .. Len(accepted')
  BY <1>1, <1>2
<1> HIDE DEF k, t
<1>6. \A i \in 1 .. Len(d) : \E m \in 1 .. Taken' : d[i] = accepted'[m]
  <2> TAKE i \in 1 .. Len(d)
  <2>1. PICK m \in 1 .. t : d[i] = accepted[m]
    BY <1>3
  <2>2. m \in 1 .. Taken' /\ m \in 1 .. k
    BY <1>4
  <2> QED
    BY <1>2, <2>1, <2>2
<1>7. ASSUME NEW i \in 1 .. Len(d), NEW j \in 1 .. Len(d), i < j
      PROVE  \E m, n \in 1 .. Len(accepted') :
               m < n /\ accepted'[m] = d[i] /\ accepted'[n] = d[j]
  <2>1. PICK m, n \in 1 .. k : m < n /\ accepted[m] = d[i] /\ accepted[n] = d[j]
    BY <1>3, <1>7
  <2> QED
    BY <1>2, <1>5, <2>1
<1> QED
  BY <1>6, <1>7

\* What the steps do to the positions of the events.
LEMMA TakenGrows ==
  ASSUME IInv, [Next]_vars
  PROVE  /\ \/ accepted' = accepted
            \/ \E e \in Events : accepted' = Append(accepted, e)
         /\ Taken \in Nat /\ Taken' \in Nat /\ Taken' >= Taken
<1> USE DEF queue, signals, thread, list, history, Taken
<1>1. /\ eventQueue \in Seq(Events) /\ accepted \in Seq(Events) /\ deletes \in [Events -> Nat]
      /\ Taken \in Nat
  BY DEF IInv, TypeOK, HistoryOK, QueueIsSuffix
<1>2. ASSUME UNCHANGED <<eventQueue, accepted>>
      PROVE  Taken' = Taken /\ accepted' = accepted
  BY <1>2
<1>3. CASE UNCHANGED <<eventQueue, accepted>>
  BY <1>1, <1>2, <1>3
<1>4. CASE Looks
  <2>1. CASE Stay
    BY <1>3, <1>4, <2>1, LooksAre DEF Stay, ThreadUnchanged
  <2>2. CASE Pop
    <3>1. accepted' = accepted /\ Len(eventQueue') = Len(eventQueue) - 1
      BY <1>1, <1>4, <2>2, LooksAre DEF Pop, ThreadUnchanged
    <3> QED
      BY <1>1, <3>1
  <2> QED
    BY <1>4, <2>1, <2>2, LooksAre
<1>5. ASSUME NEW e \in Events, report(e),
             eventQueue' = Append(eventQueue, e), accepted' = Append(accepted, e)
      PROVE  accepted' = Append(accepted, e) /\ Taken' = Taken
  BY <1>1, <1>5
<1>6. CASE DoInit
  <2>1. eventQueue' = <<>> /\ accepted' = accepted
    BY <1>6 DEF DoInit
  <2> QED
    BY <1>1, <2>1
<1>7. ASSUME NEW e \in Events, report(e), ~UNCHANGED <<eventQueue, accepted>>
      PROVE  eventQueue' = Append(eventQueue, e) /\ accepted' = Append(accepted, e)
  BY <1>1, <1>7, ReportsNew
<1>8. \/ UNCHANGED <<eventQueue, accepted>> \/ Looks \/ DoInit
      \/ \E e \in Events : report(e)
  BY DEF Next, Thread, Looks, ClientCall, Owner, vars, LockReporters, SignalReporter,
         UnlockReporters, DeleteEvent, suspend, resume, RegisterReporter,
         UnregisterReporter, EditList, start, stop, SetFlushMode, terminate, JoinReturns
<1> QED
  BY <1>1, <1>3, <1>4, <1>5, <1>6, <1>7, <1>8

\* The event that is taken is none of those that were delivered.
LEMMA PopKeepsDelivered ==
  ASSUME IInv, Pop, UNCHANGED <<accepted, delivered>>
  PROVE  \A r \in Reporters : HasNot(delivered'[r], currEvent')
<1> USE DEF IInv, TypeOK, HistoryOK
<1> SUFFICES ASSUME NEW r \in Reporters, NEW i \in 1 .. Len(delivered[r]) 
             PROVE  delivered[r][i] # currEvent'
  BY DEF HasNot
<1>1. Taken \in Nat /\ Taken + 1 \in 1 .. Len(accepted) /\ 1 \in 1 .. Len(eventQueue)
  BY DEF Pop, QueueIsSuffix, Taken
<1>2. currEvent' = eventQueue[1]
  BY DEF Pop
<1>3. currEvent' = accepted[Taken + 1]
  BY <1>1, <1>2 DEF QueueIsSuffix
<1>4. PICK m \in 1 .. Taken : delivered[r][i] = accepted[m]
  BY DEF DeliveredOK, InOrder
<1>5. m \in 1 .. Len(accepted) /\ m # Taken + 1
  BY <1>1
<1> QED
  BY <1>1, <1>3, <1>4, <1>5 DEF QueueIsSuffix

\* Signalling the event to the reporter at the cursor adds it after what that one got.
LEMMA SignalKeepsDelivered ==
  ASSUME IInv, SignalReporter
  PROVE  DeliveredOK'
<1> USE DEF IInv, TypeOK, HistoryOK
<1> DEFINE s == reporters[cursor]
           d == delivered[s]
           c == currEvent
           k == Len(d)
<1>1. /\ pc = "signal" /\ pc' = "signal"
      /\ cursor \in 1 .. Len(reporters) /\ cursor' = cursor + 1
      /\ UNCHANGED <<currEvent, reporters, accepted, eventQueue>>
  BY DEF SignalReporter, ThreadOK, queue, list
<1>2. /\ s \in Reporters /\ c \in Events /\ d \in Seq(Events) /\ k \in Nat
      /\ Len(reporters) \in Nat
  BY <1>1 DEF ThreadOK, Holding
<1>3. \A r \in Reporters : delivered'[r] = IF r = s THEN Append(d, c) ELSE delivered[r]
  BY <1>2 DEF SignalReporter
<1>4. /\ Taken \in 1 .. Len(accepted) /\ accepted[Taken] = c
      /\ Taken' = Taken
  BY <1>1 DEF CurrentIsLast, Holding, Taken, QueueIsSuffix
<1>5. HasNot(d, c)
  BY <1>1 DEF DeliveredOK
<1>6. /\ Len(Append(d, c)) = k + 1
      /\ \A i \in 1 .. k : Append(d, c)[i] = d[i]
      /\ Append(d, c)[k + 1] = c
  BY <1>2
<1>7. InOrder(d)
  BY <1>2 DEF DeliveredOK
<1> HIDE DEF s, d, c, k
<1>8. \A i \in 1 .. k + 1 : i \in 1 .. k \/ i = k + 1
  BY <1>2
<1> DEFINE a == Append(d, c)
<1>9. Len(a) = k + 1
  BY <1>6
<1> HIDE DEF a
<1>10. InOrder(a)
  <2>1. \A i \in 1 .. Len(a) : \E m \in 1 .. Taken : a[i] = accepted[m]
    <3> TAKE i \in 1 .. Len(a)
    <3>1. CASE i = k + 1
      <4>1. a[i] = accepted[Taken] /\ Taken \in 1 .. Taken
        BY <1>4, <1>6, <3>1 DEF a
      <4> QED
        BY <4>1
    <3>2. CASE i \in 1 .. k
      <4>1. a[i] = d[i]
        BY <1>6, <3>2 DEF a
      <4> QED
        BY <1>7, <3>2, <4>1 DEF InOrder, k
    <3>3. i = k + 1 \/ i \in 1 .. k
      BY <1>6, <1>8 DEF a
    <3> QED
      BY <3>1, <3>2, <3>3
  <2>2. ASSUME NEW i \in 1 .. Len(a), NEW j \in 1 .. Len(a), i < j
        PROVE  \E m, n \in 1 .. Len(accepted) :
                 m < n /\ accepted[m] = a[i] /\ accepted[n] = a[j]
    <3>1. i \in 1 .. k /\ a[i] = d[i]
      BY <1>2, <1>6, <2>2 DEF a
    <3>2. CASE j \in 1 .. k
      <4>1. a[j] = d[j]
        BY <1>6, <3>2 DEF a
      <4> QED
        BY <1>7, <2>2, <3>1, <3>2, <4>1, SMTT(30) DEF InOrder, k
    <3>3. CASE j = k + 1
      <4>1. PICK m \in 1 .. Taken : d[i] = accepted[m]
        BY <1>7, <3>1 DEF InOrder, k
      <4>2. d[i] # c /\ a[j] = c
        BY <1>5, <1>6, <3>1, <3>3 DEF HasNot, a, k
      <4>3. m \in 1 .. Len(accepted) /\ m < Taken
        BY <1>4, <4>1, <4>2, SMTT(30)
      <4> QED
        BY <1>4, <3>1, <4>1, <4>2, <4>3
    <3> QED
      BY <1>6, <1>8, <3>2, <3>3 DEF a
  <2> QED
    BY <2>1, <2>2 DEF InOrder
<1>11. \A r \in Reporters : InOrder(delivered[r]) /\ InOrder(delivered'[r])
  <2> TAKE r \in Reporters
  <2>1. InOrder(delivered[r])
    BY DEF DeliveredOK
  <2>2. CASE r = s
    <3>1. delivered'[r] = a
      BY <1>3, <2>2 DEF a
    <3> QED
      BY <1>10, <2>1, <3>1
  <2>3. CASE r # s
    <3>1. delivered'[r] = delivered[r]
      BY <1>3, <2>3
    <3> QED
      BY <2>1, <3>1
  <2> QED
    BY <2>2, <2>3
<1>12. (\A r \in Reporters : InOrder(delivered[r]))'
  <2> TAKE r \in Reporters
  <2> DEFINE Ordered(x) ==
               /\ \A i \in 1 .. Len(x) : \E m \in 1 .. Taken' : x[i] = accepted'[m]
               /\ \A i, j \in 1 .. Len(x) :
                    i < j => \E m, n \in 1 .. Len(accepted') :
                               m < n /\ accepted'[m] = x[i] /\ accepted'[n] = x[j]
  <2>1. accepted' = accepted /\ Taken' = Taken /\ InOrder(delivered'[r])
    BY <1>1, <1>4, <1>11
  <2> HIDE DEF IInv, TypeOK, HistoryOK
  <2>2. PICK got : got = delivered'[r] /\ InOrder(got)
    BY <2>1
  <2>3. Ordered(got)
    <3>1. /\ \A i \in 1 .. Len(got) : \E m \in 1 .. Taken : got[i] = accepted[m]
          /\ \A i, j \in 1 .. Len(got) :
               i < j => \E m, n \in 1 .. Len(accepted) :
                          m < n /\ accepted[m] = got[i] /\ accepted[n] = got[j]
      BY <2>2, Zenon DEF InOrder
    <3>2. \A i \in 1 .. Len(got) : \E m \in 1 .. Taken' : got[i] = accepted'[m]
      <4> TAKE i \in 1 .. Len(got)
      <4>1. PICK m \in 1 .. Taken : got[i] = accepted[m]
        BY <3>1
      <4> QED
        BY <2>1, <4>1
    <3>3. \A i, j \in 1 .. Len(got) :
            i < j => \E m, n \in 1 .. Len(accepted') :
                       m < n /\ accepted'[m] = got[i] /\ accepted'[n] = got[j]
      <4> TAKE i, j \in 1 .. Len(got)
      <4> HAVE i < j
      <4>1. PICK m, n \in 1 .. Len(accepted) :
              m < n /\ accepted[m] = got[i] /\ accepted[n] = got[j]
        BY <3>1
      <4> QED
        BY <2>1, <4>1
    <3> QED
      BY <3>2, <3>3
  <2> HIDE DEF Ordered
  <2>4. Ordered(delivered'[r])
    BY <2>2, <2>3
  <2> QED
    BY <2>4 DEF InOrder, Ordered
<1>13. \A i \in 1 .. Len(reporters) :
         IF i < cursor + 1 THEN Has(delivered'[reporters[i]], c)
                           ELSE HasNot(delivered'[reporters[i]], c)
  <2> TAKE i \in 1 .. Len(reporters)
  <2>1. reporters[i] \in Reporters
    OBVIOUS
  <2>2. CASE i = cursor
    <3>1. delivered'[reporters[i]] = a
      BY <1>2, <1>3, <2>2 DEF a, s
    <3>2. a[k + 1] = c
      BY <1>6 DEF a
    <3>3. a # <<>>
      BY <1>2, <1>9
    <3>4. Has(a, c) /\ i < cursor + 1
      BY <1>1, <1>9, <2>2, <3>2, <3>3 DEF Has
    <3> QED
      BY <3>1, <3>4
  <2>3. CASE i # cursor
    <3>1. reporters[i] # s
      BY <1>1, <2>3 DEF ReporterList!Sorted, ReporterList!Unique, s
    <3>2. delivered'[reporters[i]] = delivered[reporters[i]]
      BY <1>3, <2>1, <3>1
    <3>3. IF i < cursor THEN Has(delivered[reporters[i]], c)
                        ELSE HasNot(delivered[reporters[i]], c)
      BY <1>1 DEF DeliveredOK, c
    <3>4. i < cursor + 1 <=> i < cursor
      BY <1>1, <2>3
    <3> QED
      BY <3>2, <3>3, <3>4
  <2> QED
    BY <2>2, <2>3
<1>14. (\A i \in 1 .. Len(reporters) :
          IF i < cursor THEN Has(delivered[reporters[i]], currEvent)
                        ELSE HasNot(delivered[reporters[i]], currEvent))'
  BY <1>1, <1>13 DEF Has, HasNot, c
<1> QED
  BY <1>1, <1>12, <1>14 DEF DeliveredOK

\* What is delivered stays in order, and complete up to the cursor.
LEMMA DeliveredKept ==
  ASSUME IInv, [Next]_vars
  PROVE  DeliveredOK'
<1> USE DEF queue, signals, thread, list, history
<1>1. ASSUME UNCHANGED delivered PROVE (\A r \in Reporters : InOrder(delivered[r]))'
  <2> TAKE r \in Reporters
  <2>1. delivered[r] \in Seq(Events) /\ InOrder(delivered[r])
    BY DEF IInv, HistoryOK, DeliveredOK
  <2> DEFINE Ordered(d) ==
               /\ \A i \in 1 .. Len(d) : \E m \in 1 .. Taken' : d[i] = accepted'[m]
               /\ \A i, j \in 1 .. Len(d) :
                    i < j => \E m, n \in 1 .. Len(accepted') :
                               m < n /\ accepted'[m] = d[i] /\ accepted'[n] = d[j]
  <2>2. Ordered(delivered[r])
    BY <2>1, TakenGrows, InOrderKept
  <2>3. delivered'[r] = delivered[r]
    BY <1>1
  <2> HIDE DEF Ordered
  <2>4. Ordered(delivered'[r])
    BY <2>2, <2>3
  <2> QED
    BY <2>4 DEF InOrder, Ordered
<1>2. ASSUME UNCHANGED <<delivered, currEvent>>, pc' = "lockList" => pc = "lockList",
             pc' = "signal" => pc = "signal" /\ UNCHANGED <<reporters, cursor>>
      PROVE  DeliveredOK'
  BY <1>1, <1>2 DEF IInv, DeliveredOK, Has, HasNot
<1>3. CASE UNCHANGED vars
  BY <1>2, <1>3 DEF vars
<1>4. CASE Looks
  <2>1. UNCHANGED <<accepted, delivered>>
    BY <1>4, LooksAre DEF ThreadUnchanged
  <2>2. CASE Stay
    BY <1>2, <2>1, <2>2 DEF Stay
  <2>3. CASE Pop
    BY <1>1, <2>1, <2>3, PopKeepsDelivered DEF Pop, DeliveredOK, HasNot
  <2> QED
    BY <1>4, <2>2, <2>3, LooksAre
<1>5. CASE LockReporters
  <2>1. \A i \in 1 .. Len(reporters) : reporters[i] \in Reporters /\ ~(i < 1)
    BY DEF IInv, TypeOK
  <2>2. \A r \in Reporters : HasNot(delivered[r], currEvent)
    BY <1>5 DEF LockReporters, IInv, DeliveredOK
  <2>3. /\ UNCHANGED <<delivered, reporters, currEvent>> /\ cursor' = 1
        /\ pc' = "signal"
    BY <1>5 DEF LockReporters
  <2>4. (\A i \in 1 .. Len(reporters) :
           IF i < cursor THEN Has(delivered[reporters[i]], currEvent)
                         ELSE HasNot(delivered[reporters[i]], currEvent))'
    BY <2>1, <2>2, <2>3 DEF HasNot
  <2> QED
    BY <1>1, <2>3, <2>4 DEF DeliveredOK
<1>6. CASE SignalReporter
  BY <1>6, SignalKeepsDelivered
<1>7. CASE UnlockReporters
  BY <1>2, <1>7 DEF UnlockReporters
<1>8. CASE DeleteEvent
  BY <1>1, <1>8 DEF DeleteEvent, DeliveredOK
<1>9. ASSUME NEW e \in Events, report(e) PROVE DeliveredOK'
  BY <1>2, <1>9 DEF report
<1>10. ASSUME NEW c \in Clients, suspend(c) \/ resume(c) PROVE DeliveredOK'
  BY <1>2, <1>10 DEF suspend, resume
<1>11. ASSUME NEW r \in Reporters, RegisterReporter(r) \/ UnregisterReporter(r)
       PROVE DeliveredOK'
  BY <1>2, <1>11 DEF RegisterReporter, UnregisterReporter, EditList, IInv, ThreadOK
<1>12. CASE start \/ stop
  BY <1>2, <1>12 DEF start, stop, SetFlushMode
<1>13. CASE DoInit
  BY <1>2, <1>13 DEF DoInit
<1>14. CASE terminate \/ JoinReturns
  BY <1>2, <1>14 DEF terminate, JoinReturns
<1> QED
  BY <1>3, <1>4, <1>5, <1>6, <1>7, <1>8, <1>9, <1>10, <1>11, <1>12, <1>13, <1>14
     DEF Next, Thread, Looks, ClientCall, Owner

-----------------------------------------------------------------------------
\* The invariant holds at first.
LEMMA InitIInv == Init => IInv
<1> SUFFICES ASSUME Init PROVE IInv
  OBVIOUS
<1> USE ReportQAssumption DEF Init
<1>1. TypeOK
  <2>1. eventQueue \in Seq(Events) /\ reporters \in Seq(Reporters) /\ suspended \in Nat
        /\ cursor \in 0 .. Len(reporters) + 1
    OBVIOUS
  <2>2. /\ isInFlushMode \in BOOLEAN /\ terminateThread \in BOOLEAN /\ joining \in BOOLEAN
        /\ mpNewEvent \in BOOLEAN /\ mpReportSuspended \in BOOLEAN
    BY Zenon
  <2>3. /\ pc = "none" /\ currEvent = NULL /\ listLock = NULL
    OBVIOUS
  <2> QED
    BY <2>1, <2>2, <2>3, Zenon DEF TypeOK
<1>2. HistoryOK
  BY DEF HistoryOK
<1>3. ThreadOK /\ ReporterList!Sorted(reporters)
  BY DEF ThreadOK, Holding, ReporterList!Sorted, ReporterList!Unique, ReporterList!Before
<1>4. QueueIsSuffix /\ CurrentIsLast /\ TakenAccounted /\ DeletedOnce /\ AbandonedAccepted
  BY DEF QueueIsSuffix, CurrentIsLast, TakenAccounted, DeletedOnce, AbandonedAccepted,
         Taken, Holding
<1>5. DeliveredOK
  BY DEF DeliveredOK, InOrder
<1>6. WakeIsRelease
  BY DEF WakeIsRelease
<1> QED
  BY <1>1, <1>2, <1>3, <1>4, <1>5, <1>6 DEF IInv

\* IInv is an invariant of the queue.
THEOREM Invariance == Spec => []IInv
<1>1. IInv /\ [Next]_vars => IInv'
  BY TypesKept, QueueKept, ThreadKept, DeliveredKept, WakeKept DEF IInv, QueueOK
<1> QED
  BY <1>1, InitIInv, PTL DEF Spec

\* Every event that report() took is in one place, and is deleted at most once.
THEOREM AllEventsAccounted == Spec => []EventsAccounted
<1>1. IInv => EventsAccounted
  <2> SUFFICES ASSUME IInv PROVE EventsAccounted
    OBVIOUS
  <2> USE DEF IInv
  <2>1. ASSUME NEW e \in Events, Contains(accepted, e)
        PROVE  Cardinality(Places(e)) = 1
    <3>1. PICK k \in 1 .. Len(accepted) : accepted[k] = e
      BY <2>1 DEF Contains
    <3>2. /\ Taken \in Nat /\ Len(accepted) \in Nat /\ Len(eventQueue) \in Nat
          /\ Taken + Len(eventQueue) = Len(accepted)
      BY DEF TypeOK, HistoryOK, QueueIsSuffix, Taken
    <3>3. CASE k > Taken
      <4>1. k - Taken \in 1 .. Len(eventQueue) /\ Taken + (k - Taken) = k
        BY <3>2, <3>3
      <4>2. eventQueue[k - Taken] = e /\ deletes[e] = 0 /\ e \notin abandoned
        BY <3>1, <4>1 DEF QueueIsSuffix
      <4>3. Contains(eventQueue, e)
        BY <4>1, <4>2 DEF Contains
      <4>4. currEvent # e
        <5>1. SUFFICES ASSUME currEvent = e PROVE FALSE
          OBVIOUS
        <5>2. Holding
          BY <5>1, ReportQAssumption DEF ThreadOK
        <5>3. Taken \in 1 .. Len(accepted) /\ accepted[Taken] = accepted[k]
          BY <3>1, <3>2, <5>1, <5>2 DEF CurrentIsLast
        <5> QED
          BY <3>3, <5>3 DEF QueueIsSuffix
      <4>5. Places(e) = {"queued"}
        BY <4>2, <4>3, <4>4 DEF Places
      <4> QED
        BY <4>5, FS_Singleton
    <3>4. CASE k <= Taken
      <4>1. ~Contains(eventQueue, e)
        <5>1. \A i \in 1 .. Len(eventQueue) : Taken + i \in 1 .. Len(accepted) /\ Taken + i # k
          BY <3>2, <3>4
        <5>2. \A i \in 1 .. Len(eventQueue) : eventQueue[i] # e
          BY <3>1, <5>1 DEF QueueIsSuffix
        <5> QED
          BY <5>2 DEF Contains
      <4>2. k \in 1 .. Taken
        BY <3>2, <3>4
      <4>3. IF e = currEvent THEN deletes[e] = 0 /\ e \notin abandoned
                             ELSE deletes[e] = 1 <=> e \notin abandoned
        BY <3>1, <4>2 DEF TakenAccounted
      <4>4. \/ Places(e) = {"current"} \/ Places(e) = {"deleted"}
            \/ Places(e) = {"abandoned"}
        <5>1. CASE e = currEvent
          BY <4>1, <4>3, <5>1 DEF Places
        <5>2. CASE e # currEvent /\ deletes[e] = 1
          BY <4>1, <4>3, <5>2 DEF Places
        <5>3. CASE e # currEvent /\ deletes[e] # 1
          BY <4>1, <4>3, <5>3 DEF Places
        <5> QED
          BY <5>1, <5>2, <5>3
      <4> QED
        BY <4>4, FS_Singleton
    <3> QED
      BY <3>2, <3>3, <3>4
  <2> QED
    BY <2>1 DEF EventsAccounted, DeletedOnce
<1> QED
  BY <1>1, Invariance, PTL

\* Each reporter gets the accepted events in order, none twice, the reporters before
\* the cursor are those that have the event, and Normal ones come before Low ones.
THEOREM AllSignalledInOrder == Spec => []SignalledInOrder
<1>1. IInv => SignalledInOrder
  <2> SUFFICES ASSUME IInv PROVE SignalledInOrder
    OBVIOUS
  <2> USE DEF IInv, TypeOK, HistoryOK
  <2>1. ASSUME NEW r \in Reporters, NEW i \in DOMAIN delivered[r],
               NEW j \in DOMAIN delivered[r], i < j
        PROVE  \E m, n \in DOMAIN accepted :
                 m < n /\ accepted[m] = delivered[r][i] /\ accepted[n] = delivered[r][j]
    <3>1. InOrder(delivered[r]) /\ delivered[r] \in Seq(Events)
      BY DEF DeliveredOK
    <3>2. i \in 1 .. Len(delivered[r]) /\ j \in 1 .. Len(delivered[r])
      BY <3>1
    <3>3. \E m, n \in 1 .. Len(accepted) :
            m < n /\ accepted[m] = delivered[r][i] /\ accepted[n] = delivered[r][j]
      BY <2>1, <3>1, <3>2 DEF InOrder
    <3>4. DOMAIN accepted = 1 .. Len(accepted)
      OBVIOUS
    <3> QED
      BY <3>3, <3>4
  <2>2. ASSUME pc = "signal", NEW i \in DOMAIN reporters
        PROVE  i < cursor <=> /\ delivered[reporters[i]] # <<>>
                              /\ Last(delivered[reporters[i]]) = currEvent
    <3> DEFINE d == delivered[reporters[i]]
    <3>1. d \in Seq(Events) /\ i \in 1 .. Len(reporters)
      OBVIOUS
    <3>2. d # <<>> => Len(d) \in 1 .. Len(d)
      BY <3>1
    <3>3. IF i < cursor THEN Has(d, currEvent) ELSE HasNot(d, currEvent)
      BY <2>2, <3>1 DEF DeliveredOK
    <3> QED
      BY <3>2, <3>3 DEF Has, HasNot, Last
  <2> QED
    BY <2>1, <2>2 DEF SignalledInOrder
<1> QED
  BY <1>1, Invariance, PTL

\* Events slip through a suspension at most as often as one was lifted.
THEOREM SuspensionsHold == Spec => []SuspensionHolds
<1>1. IInv => SuspensionHolds
  BY DEF IInv, WakeIsRelease, SuspensionHolds
<1> QED
  BY <1>1, Invariance, PTL
=============================================================================
